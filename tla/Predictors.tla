----------------------------- MODULE Predictors -----------------------------
(***************************************************************************)
(* The dynamic branch predictors: a direct-mapped branch target buffer and *)
(* one of four branch history tables.  A predictor is a value, the         *)
(* operators below are its methods; the pipeline keeps one in a variable.  *)
(*                                                                         *)
(* Table sizes are constants: the code builds 32 entries for the one- and  *)
(* two-bit tables, 2^h for gshare with history length h, and 32768 bits    *)
(* worth of perceptrons.                                                   *)
(***************************************************************************)
LOCAL INSTANCE Integers
LOCAL INSTANCE Sequences

CONSTANTS
    TableSize,       \* entries of the BTB and of the one- and two-bit tables
    HistoryLength,   \* outcomes the global history register holds
    NumPerceptrons,  \* rows of the perceptron table
    MinWeight, MaxWeight, TrainingThreshold

DynamicKind == {"onebit", "twobit", "gshare", "perceptron"}

TableIndex == 0 .. TableSize - 1

\* index() of the BTB and of the one- and two-bit tables: & (size_ - 1).
IndexOf(pc) == (pc \div 4) % TableSize

\* tag(): the shift starts at 2 and grows until 1 << shift reaches size_.
TagDivisor == IF TableSize < 4 THEN 4 ELSE TableSize
TagOf(pc) == pc \div TagDivisor

EmptyEntry == [valid |-> FALSE, tag |-> 0, target |-> 0]
EmptyBtb == [e \in TableIndex |-> EmptyEntry]

\* Mutant: the tag is not compared.
BtbHitAnyTag(btb, pc) == btb[IndexOf(pc)].valid

BtbHit(btb, pc) == btb[IndexOf(pc)].valid /\ btb[IndexOf(pc)].tag = TagOf(pc)
BtbUpdate(btb, pc, target) ==
    [btb EXCEPT ![IndexOf(pc)] = [valid |-> TRUE, tag |-> TagOf(pc), target |-> target]]

(***************************************************************************)
(* Two-bit saturating counters, 0 strongly not taken .. 3 strongly taken.  *)
(***************************************************************************)
CounterState == 0 .. 3
PredictsTaken(state) == state >= 2
Count(state, taken) ==
    IF taken THEN (IF state < 3 THEN state + 1 ELSE state)
             ELSE (IF state > 0 THEN state - 1 ELSE state)

(***************************************************************************)
(* Gshare: the pattern history table is indexed by the low bits of pc >> 2 *)
(* exclusive-or the global history.  A bit vector is the set of its ones,  *)
(* so that xor is the symmetric difference.                                *)
(***************************************************************************)
HistoryBit == 0 .. HistoryLength - 1
BitVector == SUBSET HistoryBit

PcBits(pc) == {b \in HistoryBit : ((pc \div 4) \div 2^b) % 2 = 1}
GshareIndex(pc, ghr) == (PcBits(pc) \ ghr) \cup (ghr \ PcBits(pc))
ShiftHistory(ghr, taken) ==
    {b \in HistoryBit : IF b = 0 THEN taken ELSE b - 1 \in ghr}

(***************************************************************************)
(* Perceptrons: weight 0 is the bias, weight k > 0 goes with the k-th most *)
(* recent outcome; ghr is a queue, oldest first, and outcomes that have    *)
(* not happened yet count as not taken.                                    *)
(***************************************************************************)
WeightIndex == 0 .. HistoryLength
PerceptronRow(pc) == (pc \div 4) % NumPerceptrons

Input(ghr, k) ==
    IF k = 0 \/ (k <= Len(ghr) /\ ghr[Len(ghr) + 1 - k]) THEN 1 ELSE -1

Output(weights, ghr) ==
    LET partial[k \in WeightIndex] ==
          IF k = 0 THEN weights[0] ELSE partial[k - 1] + weights[k] * Input(ghr, k)
    IN partial[HistoryLength]

\* Mutant: weights grow without saturating.
TrainUnsaturated(weights, ghr, taken) ==
    [k \in WeightIndex |-> IF taken = (Input(ghr, k) = 1) THEN weights[k] + 1 ELSE weights[k] - 1]

Train(weights, ghr, taken) ==
    [k \in WeightIndex |->
        IF taken = (Input(ghr, k) = 1)
        THEN (IF weights[k] < MaxWeight THEN weights[k] + 1 ELSE weights[k])
        ELSE (IF weights[k] > MinWeight THEN weights[k] - 1 ELSE weights[k])]

NeedsTraining(weights, ghr, taken) ==
    LET y == Output(weights, ghr)
    IN \/ (y >= 0) # taken
       \/ y <= TrainingThreshold /\ -y <= TrainingThreshold

PushOutcome(ghr, taken) ==
    LET longer == Append(ghr, taken)
    IN IF Len(longer) > HistoryLength THEN Tail(longer) ELSE longer

(***************************************************************************)
(* The predictor interface: predict(), update(), and a fresh one after     *)
(* reset().  update() trains the history table, then the BTB, whether or   *)
(* not the branch was taken.                                               *)
(***************************************************************************)
NoPredictor == [kind |-> "none"]

FreshPredictor(kind) ==
    CASE kind = "onebit" ->
           [kind |-> kind, btb |-> EmptyBtb, bht |-> [e \in TableIndex |-> FALSE]]
      [] kind = "twobit" ->
           [kind |-> kind, btb |-> EmptyBtb, bht |-> [e \in TableIndex |-> 0]]
      [] kind = "gshare" ->
           [kind |-> kind, btb |-> EmptyBtb, bht |-> [v \in BitVector |-> 1], ghr |-> {}]
      [] kind = "perceptron" ->
           [kind |-> kind, btb |-> EmptyBtb, ghr |-> <<>>,
            bht |-> [r \in 0 .. NumPerceptrons - 1 |-> [k \in WeightIndex |-> 0]]]
      [] OTHER -> NoPredictor

\* The values a predictor whose BTB holds the given targets can have.
BtbSet(Targets) == [TableIndex -> [valid: BOOLEAN, tag: Nat, target: Targets]]
Weights == [WeightIndex -> MinWeight .. MaxWeight]
OneBitSet(Targets) ==
    [kind: {"onebit"}, btb: BtbSet(Targets), bht: [TableIndex -> BOOLEAN]]
TwoBitSet(Targets) ==
    [kind: {"twobit"}, btb: BtbSet(Targets), bht: [TableIndex -> CounterState]]
GshareSet(Targets) ==
    [kind: {"gshare"}, btb: BtbSet(Targets), bht: [BitVector -> CounterState], ghr: BitVector]
PerceptronSet(Targets) ==
    [kind: {"perceptron"}, btb: BtbSet(Targets), ghr: Seq(BOOLEAN),
     bht: [0 .. NumPerceptrons - 1 -> Weights]]
DynamicSet(Targets) ==
    OneBitSet(Targets) \cup TwoBitSet(Targets) \cup GshareSet(Targets) \cup PerceptronSet(Targets)
PredictorSet(Targets) == {NoPredictor} \cup DynamicSet(Targets)

BhtPredict(p, pc) ==
    CASE p.kind = "onebit" -> p.bht[IndexOf(pc)]
      [] p.kind = "twobit" -> PredictsTaken(p.bht[IndexOf(pc)])
      [] p.kind = "gshare" -> PredictsTaken(p.bht[GshareIndex(pc, p.ghr)])
      [] OTHER -> Output(p.bht[PerceptronRow(pc)], p.ghr) >= 0

TrainBht(p, pc, taken) ==
    CASE p.kind = "onebit" -> [p EXCEPT !.bht[IndexOf(pc)] = taken]
      [] p.kind = "twobit" -> [p EXCEPT !.bht[IndexOf(pc)] = Count(@, taken)]
      [] p.kind = "gshare" ->
           [p EXCEPT !.bht[GshareIndex(pc, p.ghr)] = Count(@, taken),
                     !.ghr = ShiftHistory(@, taken)]
      [] OTHER ->
           [p EXCEPT !.bht[PerceptronRow(pc)] =
                         IF NeedsTraining(@, p.ghr, taken) THEN Train(@, p.ghr, taken) ELSE @,
                     !.ghr = PushOutcome(@, taken)]

PredictedTaken(p, pc) == BtbHit(p.btb, pc) /\ BhtPredict(p, pc)
PredictedTarget(p, pc, fallThrough) ==
    IF BtbHit(p.btb, pc) THEN p.btb[IndexOf(pc)].target ELSE fallThrough

Update(p, pc, taken, target) ==
    [TrainBht(p, pc, taken) EXCEPT !.btb = BtbUpdate(@, pc, target)]

ASSUME PredictorAssumption ==
    /\ TableSize \in Nat \ {0}
    /\ HistoryLength \in Nat \ {0}
    /\ NumPerceptrons \in Nat \ {0}
    /\ MinWeight \in Int /\ MaxWeight \in Int /\ MinWeight <= 0 /\ MaxWeight >= 0
    /\ TrainingThreshold \in Nat
=============================================================================
