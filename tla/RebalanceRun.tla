---------------------------- MODULE RebalanceRun ----------------------------
(***************************************************************************)
(* Moving a position's band, or taking its liquidity out and perhaps       *)
(* closing it, over several transactions: the plans planRebalance and      *)
(* planExit build (sdk/src/plan.ts), the bands resizeSteps chooses         *)
(* (sdk/src/instructions.ts), and a runner that sends the steps one by one *)
(* and keeps the contract plan.ts states for it: skip a step whose witness *)
(* is there already (a length reached, an account gone), send an           *)
(* idempotent or a witnessed step again when its confirmation times out,   *)
(* and stop on any other, to be planned again.                             *)
(*                                                                         *)
(* The runner is the caller's, and the program is the chain's; what the    *)
(* program does to one account is PositionSlots.  Here a bin is only       *)
(* funded or not and owed a fee or not, which is what decides whether a    *)
(* resize is refused.                                                      *)
(***************************************************************************)
EXTENDS Integers, Sequences, FiniteSets

CONSTANTS
  MinBin, MaxBin,  \* the bins a band may span
  Inline,          \* INLINE_BINS_PER_POSITION
  MaxExtend,       \* MAX_BINS_PER_EXTEND: storage one transaction may add
  ChunkWidth,      \* widthThatFits: bins one exit transaction covers
  BinsPerArray,    \* bins of a bin array; a claim syncs whole arrays
  LateCopies,      \* whether a transaction given up on may still land
  MaxTimeouts,     \* bound on confirmations that never arrive
  MaxPending,      \* bound on the bins with a fee pending at the start
  RangeWidths      \* the widths of the ranges asked to be withdrawn from

ASSUME RunAssumption ==
  /\ MinBin \in Nat /\ MaxBin \in Nat /\ MinBin <= MaxBin
  /\ Inline \in Nat \ {0} /\ MaxExtend \in Nat \ {0}
  /\ ChunkWidth \in Nat \ {0} /\ BinsPerArray \in Nat \ {0}
  /\ LateCopies \in BOOLEAN /\ MaxTimeouts \in Nat /\ MaxPending \in Nat
  /\ RangeWidths \subseteq Nat

VARIABLES
  band,      \* on chain: header.lower_bin_id and upper_bin_id
  capacity,  \* on chain: the account's length, in bins
  open,      \* on chain: the account is there
  shares,    \* on chain: the bins the position holds shares in
  pending,   \* on chain: the bins with a fee checkpointed and not claimed
  earned,    \* on chain: the funded bins that earned since their checkpoint
  late,      \* transactions given up on that may still land
  status,    \* the runner: idle, running, stopped, refused or done
  task,      \* what it was asked to do
  steps,     \* the plan's steps
  next,      \* the step it is at
  sent,      \* that step's transaction: none, flying or landed
  timeouts,  \* confirmations lost so far
  intruded   \* history: a transaction given up on has landed after all

account == <<band, capacity, open, shares, pending, earned>>
runner == <<status, task, steps, next, sent, timeouts>>
vars == <<account, late, runner, intruded>>

Bins == MinBin .. MaxBin
Bands == {b \in [lower : Bins, upper : Bins] : b.lower <= b.upper}
Larger(a, b) == IF a >= b THEN a ELSE b
Smaller(a, b) == IF a <= b THEN a ELSE b
Lowest(S) == CHOOSE x \in S : \A y \in S : x <= y
Highest(S) == CHOOSE x \in S : \A y \in S : x >= y

Width(b) == b.upper - b.lower + 1
BinsOf(b) == b.lower .. b.upper
AllBins == [lower |-> MinBin, upper |-> MaxBin]

(* Move the band; withdraw from a range; withdraw everywhere, all of it or *)
(* a part, and close the account.                                          *)
Tasks ==
  [kind : {"move"}, band : Bands, full : {TRUE}, close : {FALSE}]
    \cup [kind : {"range"}, band : {b \in Bands : Width(b) \in RangeWidths},
          full : {TRUE}, close : {FALSE}]
    \cup [kind : {"exit"}, band : {AllBins}, full : BOOLEAN, close : BOOLEAN]
Move(to) == [kind |-> "move", band |-> to, full |-> TRUE, close |-> FALSE]

(* positionLenFor, in bins: no account is shorter than the inline block.   *)
CapacityFor(w) == Larger(Inline, w)

-----------------------------------------------------------------------------
(***************************************************************************)
(* resizeSteps.                                                            *)
(***************************************************************************)
(* Mutant: a step widens from the target's first bin, overlap or not.      *)
TargetStart(cur, to) == [lower |-> to.lower, upper |-> to.lower]

(* What a step keeps of the band before it widens: the bins the target     *)
(* shares with it, or the target's first bin when there are none.          *)
Overlap(cur, to) ==
  LET lower == Larger(cur.lower, to.lower)
      upper == Smaller(cur.upper, to.upper)
  IN  IF lower <= upper THEN [lower |-> lower, upper |-> upper]
      ELSE [lower |-> to.lower, upper |-> to.lower]

(* The widest band one transaction can leave behind.                       *)
Room(cur, to) == Width(cur) + MaxExtend

(* One turn of the loop: all the way if that fits; otherwise shed, then    *)
(* widen downward, then upward, as far as the room goes.                   *)
NextBand(cur, to) ==
  LET kept == Overlap(cur, to)
      budget == Room(cur, to) - Width(kept)
      down == Smaller(budget, kept.lower - to.lower)
      up == Smaller(budget - down, to.upper - kept.upper)
  IN  IF Width(to) <= Room(cur, to) THEN to
      ELSE [lower |-> kept.lower - down, upper |-> kept.upper + up]

ResizeBands(from, to) ==
  LET bands[cur \in Bands] ==
        IF cur = to THEN <<>>
        ELSE <<NextBand(cur, to)>> \o bands[NextBand(cur, to)]
  IN  bands[from]

-----------------------------------------------------------------------------
(***************************************************************************)
(* planRebalance, over the account as it is when the plan is made.         *)
(***************************************************************************)
(* Mutant: the length witness rides on every resize.                       *)
AnyLength(before, after) == after

(* Step.grows, 0 for undefined: only a step that lengthens the account.    *)
Witness(before, after) == IF after > before THEN after ELSE 0

ResizeSteps(to) ==
  LET bands == ResizeBands(band, to)
      before(i) == IF i = 1 THEN capacity ELSE CapacityFor(Width(bands[i - 1]))
  IN  [i \in 1 .. Len(bands) |->
         [kind |-> "resize", lower |-> bands[i].lower, upper |-> bands[i].upper,
          burns |-> {}, full |-> TRUE, closes |-> FALSE,
          grows |-> Witness(before(i), CapacityFor(Width(bands[i])))]]

(* The withdrawals over a stretch of bins, a chunk to a transaction.  The  *)
(* last one closes the account.                                            *)
Chunks(first, last, burnable, full, closes) ==
  LET start(i) == first + (i - 1) * ChunkWidth
      end(i) == Smaller(last, start(i) + ChunkWidth - 1)
  IN  [i \in 1 .. (last - first) \div ChunkWidth + 1 |->
         [kind |-> "exit", lower |-> start(i), upper |-> end(i),
          burns |-> burnable \cap (start(i) .. end(i)), full |-> full,
          closes |-> closes /\ end(i) = last, grows |-> 0]]

Leaving(to) == BinsOf(band) \ BinsOf(to)

(* Mutant: the reductions are not restricted to the bins that leave.       *)
AllReductions(to) == shares

(* reductionsForRange over the two ends: the funded bins that leave.       *)
Reductions(to) == shares \cap Leaving(to)

(* Mutant: an exit is planned only when there are shares to burn.          *)
OnlyIfFunded(to) == Reductions(to) # {}

(* An exit is due when a leaving bin is funded, or a fee is pending        *)
(* anywhere from the first of them to the last.                            *)
ExitDue(to) ==
  /\ Leaving(to) # {}
  /\ \/ Reductions(to) # {}
     \/ pending \cap (Lowest(Leaving(to)) .. Highest(Leaving(to))) # {}

ExitSteps(to) ==
  IF ExitDue(to)
  THEN Chunks(Lowest(Leaving(to)), Highest(Leaving(to)), Reductions(to), TRUE, FALSE)
  ELSE <<>>

PlanRebalance(to) == ExitSteps(to) \o ResizeSteps(to)

-----------------------------------------------------------------------------
(***************************************************************************)
(* planExit, of one position.                                              *)
(***************************************************************************)
(* Mutant: a close rides along whatever is withdrawn.                      *)
ClosesAlways(t) == t.close

(* A close is only legal after all of everything is withdrawn.             *)
Closes(t) == t.close /\ t.full

(* Mutant: nothing is planned when there are no shares to burn.            *)
WhenFunded(t) == shares \cap BinsOf(t.band) # {}

(* A range without shares is left alone; a whole position also when it     *)
(* only has a fee to claim, or only to be closed.                          *)
WithdrawalDue(t) ==
  \/ shares \cap BinsOf(t.band) # {}
  \/ t.kind = "exit" /\ (pending # {} \/ Closes(t))

PlanExit(t) ==
  LET burnable == shares \cap BinsOf(t.band)
      over == IF burnable # {} THEN burnable ELSE BinsOf(band)
  IN  IF WithdrawalDue(t)
      THEN Chunks(Lowest(over), Highest(over), burnable, t.full, Closes(t))
      ELSE <<>>

Steps(t) == IF t.kind = "move" THEN PlanRebalance(t.band) ELSE PlanExit(t)

-----------------------------------------------------------------------------
(***************************************************************************)
(* What a step does when its transaction executes.                         *)
(***************************************************************************)
Idempotent(step) == step.kind = "resize"
StepBand(step) == [lower |-> step.lower, upper |-> step.upper]
SameArray(a, b) == a \div BinsPerArray = b \div BinsPerArray

(* The arrays an exit step passes along, as the bins they hold.            *)
Synced(step) == {b \in Bins : \E c \in step.lower .. step.upper : SameArray(b, c)}

(* A burn outside the band is refused, and so are a close that leaves      *)
(* shares behind and a resize that drops shares or a pending fee or that   *)
(* grows the account by too much.                                          *)
Accepted(step) ==
  /\ open
  /\ IF step.kind = "exit"
     THEN /\ step.burns \subseteq BinsOf(band)
          /\ step.closes => step.full /\ shares \subseteq step.burns
     ELSE
       /\ (shares \cup pending) \cap BinsOf(band) \subseteq BinsOf(StepBand(step))
       /\ Larger(capacity, Width(StepBand(step))) - capacity <= MaxExtend

(* remove_liquidity checkpoints what the burnt bins earned; claim_fee then *)
(* syncs the arrays it was given and pays out everything pending;          *)
(* close_position deletes the account.                                     *)
Exit(step) ==
  /\ shares' = IF step.full THEN shares \ step.burns ELSE shares
  /\ open' = ~step.closes
  /\ earned' = earned \ (step.burns \cup Synced(step))
  /\ pending' = {}
  /\ UNCHANGED <<band, capacity>>

Resize(step) ==
  /\ band' = StepBand(step)
  /\ capacity' = CapacityFor(Width(StepBand(step)))
  /\ UNCHANGED <<open, shares, pending, earned>>

Execute(step) == (step.kind = "exit" /\ Exit(step)) \/ (step.kind = "resize" /\ Resize(step))

-----------------------------------------------------------------------------
(* Any account: funded and owed fees in any of its bins, and with storage  *)
(* to spare or not.                                                        *)
Init ==
  /\ band \in Bands
  /\ capacity \in {CapacityFor(Width(band)), CapacityFor(Width(band)) + 1}
  /\ shares \in SUBSET BinsOf(band)
  /\ pending \in {S \in SUBSET BinsOf(band) : Cardinality(S) <= MaxPending}
  /\ open = TRUE
  /\ earned = {}
  /\ late = {} /\ intruded = FALSE
  /\ status = "idle"
  /\ task = Move(band)
  /\ steps = <<>>
  /\ next = 1
  /\ sent = "none"
  /\ timeouts = 0

Current == steps[next]
Finished == next > Len(steps)

(* The caller sets a task; after a stop it plans again for the same.       *)
Plan(t) ==
  /\ status = "idle" \/ (status = "stopped" /\ t = task)
  /\ task' = t
  /\ steps' = Steps(t)
  /\ next' = 1
  /\ sent' = "none"
  /\ status' = "running"
  /\ UNCHANGED <<account, late, timeouts, intruded>>

Witnessed(step) ==
  \/ step.grows # 0 /\ capacity >= step.grows
  \/ step.closes /\ ~open
AtStep(state) == status = "running" /\ ~Finished /\ sent = state

Skip ==
  /\ AtStep("none")
  /\ Witnessed(Current)
  /\ next' = next + 1
  /\ UNCHANGED <<account, late, status, task, steps, sent, timeouts, intruded>>

Send ==
  /\ AtStep("none")
  /\ ~Witnessed(Current)
  /\ sent' = "flying"
  /\ UNCHANGED <<account, late, status, task, steps, next, timeouts, intruded>>

Land ==
  /\ AtStep("flying")
  /\ Accepted(Current)
  /\ Execute(Current)
  /\ sent' = "landed"
  /\ UNCHANGED <<late, status, task, steps, next, timeouts, intruded>>

Refuse ==
  /\ AtStep("flying")
  /\ ~Accepted(Current)
  /\ status' = "refused"
  /\ UNCHANGED <<account, late, task, steps, next, sent, timeouts, intruded>>

Confirm ==
  /\ AtStep("landed")
  /\ next' = next + 1
  /\ sent' = "none"
  /\ UNCHANGED <<account, late, status, task, steps, timeouts, intruded>>

(* No confirmation arrives.  The transaction may have landed or be lost,   *)
(* and one still flying may yet land.                                      *)
Timeout ==
  /\ AtStep("flying") \/ AtStep("landed")
  /\ timeouts < MaxTimeouts
  /\ timeouts' = timeouts + 1
  /\ sent' = "none"
  /\ status' = IF Idempotent(Current) \/ Current.closes THEN "running" ELSE "stopped"
  /\ \/ late' = late
     \/ LateCopies /\ sent = "flying" /\ late' = late \cup {Current}
  /\ UNCHANGED <<account, task, steps, next, intruded>>

(* A transaction given up on lands after all; one the program refuses      *)
(* leaves nothing behind.                                                  *)
LandLate(step) ==
  /\ late' = late \ {step}
  /\ IF Accepted(step) THEN Execute(step) /\ intruded' = TRUE
     ELSE UNCHANGED <<account, intruded>>
  /\ UNCHANGED runner

Finish ==
  /\ status = "running"
  /\ Finished
  /\ status' = "done"
  /\ UNCHANGED <<account, late, task, steps, next, sent, timeouts, intruded>>

(* Trading in the pool: a funded bin earns a fee.  No plan looks at what   *)
(* was earned, so earning outside a run is the same as earning in it.      *)
Earn(b) ==
  /\ status = "running"
  /\ b \in shares \ earned
  /\ earned' = earned \cup {b}
  /\ UNCHANGED <<band, capacity, open, shares, pending, late, runner, intruded>>

Progress == Skip \/ Send \/ Land \/ Refuse \/ Confirm \/ Finish
Replan == status = "stopped" /\ Plan(task)

Next ==
  \/ \E t \in Tasks : Plan(t)
  \/ Progress
  \/ Timeout
  \/ \E step \in late : LandLate(step)
  \/ \E b \in Bins : Earn(b)

Spec == Init /\ [][Next]_vars

(* The runner keeps going, the network delivers what it does not lose, and *)
(* a caller that was stopped plans again.                                  *)
FairSpec == Spec /\ WF_vars(Progress) /\ WF_vars(Replan)

-----------------------------------------------------------------------------
(***************************************************************************)
(* Properties.                                                             *)
(***************************************************************************)
(* The bins a task is not to withdraw from.                                *)
Kept(t) ==
  IF t.kind = "move" THEN BinsOf(t.band)
  ELSE IF t.full THEN Bins \ BinsOf(t.band)
  ELSE Bins

(* The liquidity a task is meant to keep is never withdrawn: a funded bin  *)
(* that the goal of a move spans, or that a withdrawal does not cover,     *)
(* stays funded through every step, retry, stop, new plan and late         *)
(* transaction.                                                            *)
KeepsTheOverlap == [][shares \cap Kept(task') \subseteq shares']_vars

(* No step of a plan is refused when it is sent in its turn, whatever was  *)
(* lost, retried or earned before: emptying comes first and leaves nothing *)
(* a resize would drop or a close would strand, and no resize outgrows     *)
(* what one transaction may add.  Only a transaction that was given up on  *)
(* and lands in between can spoil that.                                    *)
NeverRefused == status = "refused" => intruded

(* What was asked for: the band moved and the storage for it there; or the *)
(* bins withdrawn from, with no fee left that would keep the position from *)
(* being closed; or the account closed.                                    *)
Reached ==
  IF task.kind = "move" THEN band = task.band /\ Width(task.band) <= capacity
  ELSE /\ task.full => shares \cap BinsOf(task.band) = {}
       /\ task.kind = "exit" /\ task.full => pending = {}
       /\ open <=> ~Closes(task)

(* A run is finished when what was asked for is done, and no step was      *)
(* skipped that had not been; a move, unless a transaction that was given  *)
(* up on landed after a later one.                                         *)
FinishedAtGoal == status = "done" => Reached \/ (task.kind = "move" /\ intruded)

(* Every task is eventually done, as long as confirmations are not lost    *)
(* for ever and no transaction comes late.                                 *)
MoveCompletes == (status = "running") ~> (status = "done" /\ Reached) \/ intruded
=============================================================================
