----------------------------- MODULE DepositRun -----------------------------
(***************************************************************************)
(* A deposit over several transactions: the plan planDeposit builds        *)
(* (sdk/src/plan.ts) and a runner that sends its steps while the pool      *)
(* trades, keeping the contract plan.ts states for it: a step is checked   *)
(* with stepIsLegal before it is sent, an opening step whose confirmation  *)
(* is lost is resolved by looking for the account it creates, a fill whose *)
(* confirmation is lost stops the run, and what is done is remembered by   *)
(* the step's id.                                                          *)
(*                                                                         *)
(* The runner is the caller's.  The program is the chain's: it refuses to  *)
(* open an account that is there, a bin outside the position's band, X     *)
(* below the active bin and Y above it.                                    *)
(***************************************************************************)
EXTENDS DepositShape, Sequences, SequencesExt

CONSTANTS
  MinBin, MaxBin,  \* the bins the active id moves among
  BinsPerArray,    \* bins of a bin array
  OpenWidth,       \* widthThatFits for the step that opens a position
  ChunkWidth,      \* widthThatFits for a fill
  Scale,           \* the integer scale of allocate, 1e9
  Requests,        \* the deposits a caller may ask for
  Holdings,        \* the bands the owner may hold beforehand: a set of sets
  LateCopies,      \* whether a transaction given up on may still land
  MaxTimeouts,     \* bound on confirmations that never arrive
  MaxPlans         \* how often the deposit may be planned

Bins == MinBin .. MaxBin

Request ==
  [lower : Bins, upper : Bins, x : Nat, y : Nat, shape : Shapes,
   blend : 0 .. One, share : 0 .. ShareUnit, cap : Nat \ {0},
   strategy : {"packed", "aligned"}]

ASSUME DepositAssumption ==
  /\ MinBin \in Nat /\ MaxBin \in Nat /\ MinBin <= MaxBin
  /\ BinsPerArray \in Nat \ {0}
  /\ OpenWidth \in Nat \ {0} /\ ChunkWidth \in Nat \ {0} /\ Scale \in Nat \ {0}
  /\ Requests \subseteq Request
  /\ \A H \in Holdings : H \subseteq [lower : Bins, upper : Bins]
  /\ LateCopies \in BOOLEAN /\ MaxTimeouts \in Nat /\ MaxPlans \in Nat \ {0}

(* A pool's bins lie between HARD_MIN_BIN_ID and HARD_MAX_BIN_ID (taper-   *)
(* core, constants.rs): far fewer than allocate's scale of 1e9.            *)
ASSUME SplitAssumption == MaxBin - MinBin < Scale

VARIABLES
  active,    \* on chain: the pool's active bin
  opened,    \* on chain: the owner's positions, by address, with their bands
  placed,    \* on chain: what this deposit has put in each bin
  late,      \* transactions given up on that may still land
  request,   \* the deposit asked for
  plan,      \* the plan: the active bin it is for, its positions, its steps
  plans,     \* how often it was planned
  done,      \* the steps the runner remembers as done
  sent,      \* the current step's transaction: none, flying or landed
  status,    \* the runner: running, stopped or done
  timeouts   \* confirmations lost so far

chain == <<active, opened, placed>>
vars == <<chain, late, request, plan, plans, done, sent, status, timeouts>>

Smaller(a, b) == IF a <= b THEN a ELSE b
ArrayUpper(b) == (b \div BinsPerArray + 1) * BinsPerArray - 1
BinsOf(band) == band.lower .. band.upper
Account(address, band) == [address |-> address, lower |-> band.lower, upper |-> band.upper]

-----------------------------------------------------------------------------
(***************************************************************************)
(* planDeposit.                                                            *)
(***************************************************************************)
(* splitRange: the bands of the positions that cover the range.            *)
SpecEnd(req, start) ==
  LET stop == Smaller(req.upper, start + req.cap - 1)
  IN  IF req.strategy = "aligned" THEN Smaller(stop, ArrayUpper(start)) ELSE stop

SplitRange(req) ==
  LET specs[start \in Nat] ==
        IF start > req.upper THEN <<>>
        ELSE <<[lower |-> start, upper |-> SpecEnd(req, start)]>>
               \o specs[SpecEnd(req, start) + 1]
  IN  specs[req.lower]

(* Mutant: the remainder of the split goes to the first entry.             *)
AllocateFirst(total, weights) ==
  LET entries == DOMAIN weights
      sum == Total(weights)
      out == [i \in entries |-> (total * weights[i]) \div sum]
  IN  [i \in entries |->
         IF sum = 0 THEN 0 ELSE out[i] + (IF i = 1 THEN total - Total(out) ELSE 0)]

(* allocate: shares of total by weight, rounded to the scale; the          *)
(* remainder goes to the first of the heaviest.                            *)
Allocate(total, weights) ==
  LET entries == DOMAIN weights
      sum == Total(weights)
      scaled == [i \in entries |-> (2 * weights[i] * Scale + sum) \div (2 * sum)]
      out == [i \in entries |-> (total * scaled[i]) \div Total(scaled)]
      heaviest == Min({i \in entries : \A j \in entries : scaled[j] <= scaled[i]})
  IN  [i \in entries |->
         IF sum = 0 \/ Total(scaled) = 0 THEN 0
         ELSE out[i] + (IF i = heaviest THEN total - Total(out) ELSE 0)]

(* Mutant: any position that overlaps the stretch will do.                 *)
PositionOverlapping(band, held) ==
  {p \in held : p.lower <= band.upper /\ p.upper >= band.lower}

(* positionFor: the position over exactly these bins, or one that contains *)
(* them.                                                                   *)
PositionFor(band, held) ==
  LET exact == {p \in held : p.lower = band.lower /\ p.upper = band.upper}
  IN  IF exact # {} THEN exact
      ELSE {p \in held : p.lower <= band.lower /\ p.upper >= band.upper}

Slice(table, S) == [b \in DOMAIN table \cap S |-> table[b]]

Places(dist, x, y) ==
  {b \in DOMAIN dist : Preview(dist, x, y)[b] # [x |-> 0, y |-> 0]}

(* One position for each spec: one that is held, or one at a fresh address. *)
HomeOf(spec, held, n) ==
  LET homes == PositionFor(spec, held)
  IN  IF homes # {} THEN CHOOSE p \in homes : TRUE
      ELSE Account(<<n, spec.lower>>, spec)

Drafts(req, at, held, n) ==
  LET weights == WeightsFor(req.lower, req.upper, at, req.shape, req.blend, req.share)
      specs == SplitRange(req)
      slice(i) == Slice(weights, BinsOf(specs[i]))
      xs == Allocate(req.x, [i \in DOMAIN specs |->
                               Total([b \in BinsOf(specs[i]) |-> weights[b].x])])
      ys == Allocate(req.y, [i \in DOMAIN specs |->
                               Total([b \in BinsOf(specs[i]) |-> weights[b].y])])
  IN  [i \in DOMAIN specs |->
         [spec |-> specs[i], exists |-> PositionFor(specs[i], held) # {},
          account |-> HomeOf(specs[i], held, n),
          x |-> xs[i], y |-> ys[i], dist |-> Distribute(slice(i))]]

(* The positions the plan uses: one that would receive nothing is left out. *)
PositionPlans(req, at, held, n) ==
  LET drafts == Drafts(req, at, held, n)
      receives(p) == Places(p.dist, p.x, p.y) # {}
  IN  FlattenSeq([i \in DOMAIN drafts |->
                    IF receives(drafts[i]) THEN <<drafts[i]>> ELSE <<>>])

(* How many entries of the table come before bin b.                        *)
Rank(dist, b) == Cardinality({c \in DOMAIN dist : c < b})

(* Mutant: the slice takes one entry more than it advances by.             *)
OneMore(dist, at, width) ==
  Slice(dist, {b \in DOMAIN dist : Rank(dist, b) \in at .. at + width})

(* dist.slice(at, at + width), the entries in order of their bins.         *)
Entries(dist, at, width) ==
  Slice(dist, {b \in DOMAIN dist : Rank(dist, b) \in at .. at + width - 1})

(* trim: from the first bin that receives something to the last.           *)
Trim(slice, p) ==
  LET hit == Places(slice, p.x, p.y)
  IN  IF hit = {} THEN Slice(slice, {}) ELSE Slice(slice, Min(hit) .. Max(hit))

(* The transaction-sized pieces.  The first piece of a new position opens  *)
(* it and is kept whole when it places nothing.                            *)
OpensAt(p, at) == at = 0 /\ ~p.exists
WidthAt(p, at) == IF OpensAt(p, at) THEN OpenWidth ELSE ChunkWidth

PieceAt(p, at) ==
  LET slice == Entries(p.dist, at, WidthAt(p, at))
  IN  IF Places(slice, p.x, p.y) # {} THEN <<Trim(slice, p)>>
      ELSE IF OpensAt(p, at) THEN <<slice>> ELSE <<>>

Chunks(p) ==
  LET pieces[at \in Nat] ==
        IF at >= Cardinality(DOMAIN p.dist) THEN <<>>
        ELSE PieceAt(p, at) \o pieces[at + WidthAt(p, at)]
  IN  pieces[0]

(* Mutant: a step is named by its position alone.                          *)
IdByAddress(p, index) == <<p.account.address, index>>

(* Step.id.                                                                *)
StepId(p, index) == <<p.account.address, p.spec.lower, index>>

(* Mutant: the two sides of the band are taken for each other.             *)
SidesSwapped(dist) ==
  LET x == {b \in DOMAIN dist : dist[b].x > 0}
      y == {b \in DOMAIN dist : dist[b].y > 0}
  IN  [min |-> IF x = {} THEN MinBin ELSE Max(x),
       max |-> IF y = {} THEN MaxBin ELSE Min(y)]

(* activeBinBounds; null, which bounds nothing, is the end of the bins.    *)
ActiveBinBounds(dist) ==
  LET x == {b \in DOMAIN dist : dist[b].x > 0}
      y == {b \in DOMAIN dist : dist[b].y > 0}
  IN  [min |-> IF y = {} THEN MinBin ELSE Max(y),
       max |-> IF x = {} THEN MaxBin ELSE Min(x)]

(* Mutant: every step names the position's account as its witness.         *)
AlwaysCreates(p, index) == TRUE

(* Step.creates is there only on the step that opens the position.         *)
Creates(p, index) == ~p.exists /\ index = 1

StepsOf(p) ==
  LET chunks == Chunks(p)
  IN  [i \in DOMAIN chunks |->
         [id |-> StepId(p, i), opens |-> ~p.exists /\ i = 1, creates |-> Creates(p, i),
          account |-> p.account, dist |-> chunks[i], x |-> p.x, y |-> p.y,
          fills |-> Places(chunks[i], p.x, p.y) # {},
          valid |-> ActiveBinBounds(chunks[i])]]

(* The plan over these positions: their steps, one position after another. *)
PlanOf(positions, at) ==
  [activeId |-> at, positions |-> positions,
   steps |-> FlattenSeq([i \in DOMAIN positions |-> StepsOf(positions[i])])]

PlanDeposit(req, at, held, n) == PlanOf(PositionPlans(req, at, held, n), at)

(* stepIsLegal.                                                            *)
StepIsLegal(step, at) == step.valid.min <= at /\ at <= step.valid.max

-----------------------------------------------------------------------------
(***************************************************************************)
(* What a step does when its transaction executes.  addLiquidityIx sends   *)
(* the table densely from its first bin.                                   *)
(***************************************************************************)
Table(step) == Min(DOMAIN step.dist) .. Max(DOMAIN step.dist)
Exists(account) == \E p \in opened : p.address = account.address

Accepted(step) ==
  /\ IF step.opens THEN ~Exists(step.account) ELSE step.account \in opened
  /\ step.fills =>
       /\ Table(step) \subseteq BinsOf(step.account)
       /\ \A b \in DOMAIN step.dist : (step.dist[b].x > 0 => b >= active)
                                      /\ (step.dist[b].y > 0 => b <= active)

Execute(step) ==
  LET adds == Preview(step.dist, step.x, step.y)
  IN  /\ opened' = IF step.opens THEN opened \cup {step.account} ELSE opened
      /\ placed' = [b \in Bins |->
                      IF b \notin DOMAIN adds THEN placed[b]
                      ELSE [x |-> placed[b].x + adds[b].x, y |-> placed[b].y + adds[b].y]]
      /\ UNCHANGED active

-----------------------------------------------------------------------------
Held(bands) == {Account(<<0, b.lower>>, b) : b \in bands}

(* The caller reads the chain, plans, and starts.                          *)
Init ==
  /\ active \in Bins
  /\ opened \in {Held(H) : H \in Holdings}
  /\ placed = [b \in Bins |-> [x |-> 0, y |-> 0]]
  /\ late = {}
  /\ request \in Requests
  /\ plan = PlanDeposit(request, active, opened, 1)
  /\ plans = 1
  /\ done = {}
  /\ sent = "none"
  /\ status = "running"
  /\ timeouts = 0

Remembered(step) == \E d \in done : d.id = step.id
Left == {i \in DOMAIN plan.steps : ~Remembered(plan.steps[i])}
Current == plan.steps[Min(Left)]
AtStep(state) == status = "running" /\ Left # {} /\ sent = state
Witnessed == Current.creates /\ Exists(Current.account)
ReadyToSend == AtStep("none") /\ ~Witnessed /\ StepIsLegal(Current, active)

(* The account the step creates is there, so the step ran.                 *)
Skip ==
  /\ AtStep("none")
  /\ Witnessed
  /\ done' = done \cup {Current}
  /\ UNCHANGED <<chain, late, request, plan, plans, sent, status, timeouts>>

Send ==
  /\ ReadyToSend
  /\ sent' = "flying"
  /\ UNCHANGED <<chain, late, request, plan, plans, done, status, timeouts>>

Land ==
  /\ AtStep("flying")
  /\ Accepted(Current)
  /\ Execute(Current)
  /\ sent' = "landed"
  /\ UNCHANGED <<late, request, plan, plans, done, status, timeouts>>

(* The pool moved, or a late copy came first.  A refusal is an answer: the *)
(* step did not run, and the runner looks again.                           *)
Refuse ==
  /\ AtStep("flying")
  /\ ~Accepted(Current)
  /\ sent' = "none"
  /\ UNCHANGED <<chain, late, request, plan, plans, done, status, timeouts>>

Confirm ==
  /\ AtStep("landed")
  /\ done' = done \cup {Current}
  /\ sent' = "none"
  /\ UNCHANGED <<chain, late, request, plan, plans, status, timeouts>>

(* No confirmation arrives.  A step with a witness is looked up; any other *)
(* stops the run.                                                          *)
Timeout ==
  /\ AtStep("flying") \/ AtStep("landed")
  /\ timeouts < MaxTimeouts
  /\ timeouts' = timeouts + 1
  /\ sent' = "none"
  /\ status' = IF Current.creates THEN "running" ELSE "stopped"
  /\ \/ late' = late
     \/ LateCopies /\ sent = "flying" /\ late' = late \cup {Current}
  /\ UNCHANGED <<chain, request, plan, plans, done>>

(* A transaction given up on lands after all, or is refused.               *)
LandLate(step) ==
  /\ late' = late \ {step}
  /\ IF Accepted(step) THEN Execute(step) ELSE UNCHANGED chain
  /\ UNCHANGED <<request, plan, plans, done, sent, status, timeouts>>

Finish ==
  /\ status = "running"
  /\ Left = {}
  /\ status' = "done"
  /\ UNCHANGED <<chain, late, request, plan, plans, done, sent, timeouts>>

(* The same deposit planned again, from the chain as it is by then.  (One  *)
(* planned again before anything of it was done is a first plan.)          *)
Replan ==
  /\ status = "running" /\ done # {}
  /\ sent = "none"
  /\ plans < MaxPlans
  /\ plan' = PlanDeposit(request, active, opened, plans + 1)
  /\ plans' = plans + 1
  /\ UNCHANGED <<chain, late, request, done, sent, status, timeouts>>

(* A swap moves the pool to a neighbouring bin.                            *)
Trade(b) ==
  /\ b \in {active - 1, active + 1} \cap Bins
  /\ active' = b
  /\ UNCHANGED <<opened, placed, late, request, plan, plans, done, sent, status, timeouts>>

Progress == Skip \/ Send \/ Land \/ Refuse \/ Confirm \/ Finish

Next ==
  \/ Progress
  \/ Timeout
  \/ \E step \in late : LandLate(step)
  \/ Replan
  \/ \E b \in Bins : Trade(b)

Spec == Init /\ [][Next]_vars

(* The runner keeps going and the network delivers what it does not lose.  *)
FairSpec == Spec /\ WF_vars(Progress)

-----------------------------------------------------------------------------
(***************************************************************************)
(* Properties.                                                             *)
(***************************************************************************)
(* What one call per position would place, with the whole of its table.    *)
InOneCall(b) ==
  LET here == {i \in DOMAIN plan.positions : b \in DOMAIN plan.positions[i].dist}
      row(i) == Preview(plan.positions[i].dist, plan.positions[i].x, plan.positions[i].y)[b]
  IN  [x |-> Total([i \in here |-> row(i).x]), y |-> Total([i \in here |-> row(i).y])]

(* Nothing is deposited twice: through lost confirmations, late copies and *)
(* a pool that trades meanwhile, no bin ever receives more than one call   *)
(* over the whole position would have given it.                            *)
NothingTwice ==
  plans = 1 => \A b \in Bins : placed[b].x <= InOneCall(b).x /\ placed[b].y <= InOneCall(b).y

(* A finished run has placed the plan, bin by bin: the cut into            *)
(* transactions is invisible, no step was taken for another, and none was  *)
(* taken for done that had not run.                                        *)
PlacesThePlan == status = "done" /\ plans = 1 => \A b \in Bins : placed[b] = InOneCall(b)

(* What a finished run leaves in the wallet is the rounding of its bins:   *)
(* of each position's amount, less than one unit for each bin that takes   *)
(* the token.  No part of the amount, not even the remainder of a split,   *)
(* goes to a bin or a position that cannot hold it.                        *)
OnlyDustStays ==
  status = "done" /\ plans = 1 =>
    LET takers(S, f(_)) == {i \in DOMAIN plan.positions :
                              \E b \in S \cap DOMAIN plan.positions[i].dist :
                                f(plan.positions[i].dist[b]) > 0}
        dust(S, f(_)) == 0 .. Cardinality(S) - Cardinality(takers(S, f))
        stays(asked, S, f(_)) == asked - Total([b \in S |-> f(placed[b])])
        xs == {b \in BinsOf(request) : b >= plan.activeId}
        ys == {b \in BinsOf(request) : b <= plan.activeId}
    IN  /\ xs # {} => stays(request.x, xs, LAMBDA r : r.x) \in dust(xs, LAMBDA r : r.x)
        /\ ys # {} => stays(request.y, ys, LAMBDA r : r.y) \in dust(ys, LAMBDA r : r.y)

(* A step the runner's check lets through is one the program accepts as    *)
(* the pool stands: the account is there or not as the step needs, its     *)
(* band holds the table, and each token is on its side.                    *)
LegalIsAccepted == ReadyToSend => Accepted(Current)

(* A deposit whose pool comes to rest where it was planned for is finished *)
(* or stopped for a lost confirmation; it never waits for ever.            *)
EndsWhereItWasPlanned ==
  (<>[](active = plan.activeId)) => <>(status # "running")

(* "No deposit step carries more bins than the packet allows, whatever the *)
(* position width" (plan.test.ts): the table as it is sent is no longer    *)
(* than the width its step was cut to.                                     *)
StepFitsPacket ==
  \A i \in DOMAIN plan.steps :
    LET step == plan.steps[i]
    IN  step.fills => Cardinality(Table(step)) <= (IF step.opens THEN OpenWidth ELSE ChunkWidth)
=============================================================================
