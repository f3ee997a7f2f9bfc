---------------------------- MODULE AlphaNotify ----------------------------
(***************************************************************************)
(* What the Alphanumeric engine reads out of a mining.notify and which     *)
(* share target it searches with: the parser of notify arrays and objects, *)
(* the target arithmetic and apply_pool_share_target of                    *)
(* src/alphanumeric/alphanumeric_runner.cpp, through any sequence of       *)
(* notifies, difficulty changes and the low-difficulty fallback.           *)
(* AlphaMiner abstracts the data of this module to one difficulty.         *)
(*                                                                         *)
(* A parameter of an array is a token: what the token predicates of the    *)
(* runner can tell of its text.  A 256-bit value is a number below         *)
(* Base^Limbs.  The pool difficulty is given in halves of 1/Scale, the     *)
(* finest step its rounding distinguishes.                                 *)
(***************************************************************************)
EXTENDS Integers, Sequences, SequencesExt, Powers

CONSTANTS
  Base, Limbs,     \* 2^32 and 8 in the code
  Scale,           \* SCALE, 1000000 in the code
  ShiftStep,       \* difficulty points per bit of the target, 16 in the code
  Bits,            \* bits of a target, 256 in the code
  TimeFloor,       \* smallest number taken for a timestamp, 10^9 in the code
  Now,             \* unix_now_seconds(); the clock stands still
  \* what pools put into their lines
  BlockNumbers, PrevHashes, Merkles, Times, HeaderDiffs, OwnTargets,
  OddLines,        \* token sequences of no documented layout
  PoolDiffs        \* the values of mining.set_difficulty

ASSUME NotifyAssumption ==
  /\ Base \in Nat /\ Bits \in Nat /\ Limbs \in Nat \ {0} /\ ShiftStep \in Nat \ {0}
  /\ Power(2, Bits) = Power(Base, Limbs)
  /\ Scale \in 1..Base - 1
  /\ TimeFloor \in Nat /\ Now \in Nat /\ Now >= TimeFloor
  \* the header has four bytes for the block number
  /\ BlockNumbers \subseteq 0..Base - 1
  /\ PrevHashes \subseteq Nat /\ Merkles \subseteq Nat /\ OwnTargets \subseteq Nat
  \* what the flexible parser relies on: timestamps are Unix seconds, and the
  \* consensus bounds difficulties to a few thousand points
  /\ Times \subseteq Nat /\ \A t \in Times : t >= TimeFloor
  /\ HeaderDiffs \subseteq 1..TimeFloor - 1
  /\ PoolDiffs \subseteq Nat

VARIABLES
  current_job, pool_difficulty, disable_local_target_scaling,
  said,     \* history: what the pool said of the current job
  applied,  \* history: the pool difficulty and the fallback it was targeted with
  refused   \* history: a legible line of a documented layout was refused

notifyVars == <<current_job, pool_difficulty, disable_local_target_scaling, said, applied,
          refused>>

-----------------------------------------------------------------------------
(* Tokens.  lead is the number std::stoull reads off the front of 64 hex   *)
(* digits, NoNumber when they start with a letter or the number is too     *)
(* long.                                                                   *)

NoNumber == -1

Num(n)      == [kind |-> "num", val |-> n, lead |-> n]
Quoted(n)   == [kind |-> "quoted", val |-> n, lead |-> n]
Hex(v, n)   == [kind |-> "hex", val |-> v, lead |-> n]
Flag(b)     == [kind |-> "bool", val |-> IF b THEN 1 ELSE 0, lead |-> NoNumber]
NullToken   == [kind |-> "null", val |-> 0, lead |-> NoNumber]
EmptyToken  == [kind |-> "empty", val |-> 0, lead |-> 0]
Text        == [kind |-> "text", val |-> 0, lead |-> NoNumber]

IsHex(t)     == t.kind = "hex"
Absent(t)    == t.kind \in {"null", "empty"}
Boolish(t)   == t.kind = "bool" \/ (t.kind = "num" /\ t.val \in {0, 1})
BoolValue(t) == t.kind \in {"bool", "num"} /\ t.val = 1
IsU64(t)     == t.lead # NoNumber
U64(t)       == t.lead

-----------------------------------------------------------------------------
(* Target arithmetic.                                                      *)

MaxTarget == Power(Base, Limbs) - 1

alpha_target_from_difficulty(d) ==
  LET shift == d \div ShiftStep
  IN IF d = 0 THEN MaxTarget
     ELSE IF shift >= Bits THEN 0
     ELSE MaxTarget \div Power(2, shift)

\* pool_difficulty * SCALE, clamped to a uint32_t and rounded; a difficulty
\* that is not positive counts as 1.
Denominator(d) ==
  LET den_d == IF d > 0 THEN d ELSE 2 * Scale
      low   == IF den_d < 2 THEN 2 ELSE den_d
      high  == IF low > 2 * (Base - 1) THEN 2 * (Base - 1) ELSE low
  IN (high + 1) \div 2

Limb(v, i) == (v \div Power(Base, i)) % Base

\* Mutation: the carry limb of the quotient is not looked at.
ScaleWraps(base_target, d) ==
  ((base_target * Scale) \div Denominator(d)) % Power(Base, Limbs)

\* Schoolbook multiplication by SCALE, then division by the denominator, limb
\* by limb; a quotient of more than Limbs limbs saturates.
scale_target_for_pool_difficulty(base_target, d) ==
  LET den == Denominator(d)
      carry[i \in 0..Limbs] ==
        IF i = 0 THEN 0
        ELSE (Limb(base_target, i - 1) * Scale + carry[i - 1]) \div Base
      wide == [i \in 0..Limbs |->
                 IF i = Limbs THEN carry[Limbs]
                 ELSE (Limb(base_target, i) * Scale + carry[i]) % Base]
      \* remainder after the limbs from i upwards
      remainder[i \in 0..Limbs + 1] ==
        IF i = Limbs + 1 THEN 0
        ELSE (remainder[i + 1] * Base + wide[i]) % den
      quotient == [i \in 0..Limbs |->
                     ((remainder[i + 1] * Base + wide[i]) \div den) % Base]
      value[i \in 0..Limbs] ==
        IF i = 0 THEN 0 ELSE value[i - 1] + quotient[i - 1] * Power(Base, i - 1)
  IN IF quotient[Limbs] # 0 THEN MaxTarget ELSE value[Limbs]

-----------------------------------------------------------------------------
(* Jobs and their targets.                                                 *)

\* An AlphaJob as a parser leaves it; target is only read when has_target, and
\* the block number is cut to a uint32_t.
ParsedJob(block, prev, merkle, time, diff, has_target, target, clean) ==
  [block_number |-> block % Base, previous_hash |-> prev, merkle_root |-> merkle,
   timestamp |-> time, difficulty |-> diff, has_target |-> has_target,
   target_be |-> IF has_target THEN target ELSE alpha_target_from_difficulty(diff),
   clean_jobs |-> clean,
   network_target_be |-> 0, notify_target_be |-> 0, targets_initialized |-> FALSE,
   explicit_share_target |-> FALSE, local_scaling_disabled |-> FALSE]

\* A default AlphaJob: no parser accepts a job of difficulty 0.
NoJob    == [ParsedJob(0, 0, 0, 0, 0, FALSE, 0, FALSE) EXCEPT !.target_be = 0]
Rejected == NoJob

have_job == current_job.difficulty # 0

\* Mutation: the target in place is taken for the one of the notify each time.
RecapturedTarget(job) == IF job.has_target THEN job.target_be
                         ELSE alpha_target_from_difficulty(job.difficulty)

\* The target the notify gave, captured before it is overwritten.
NotifyTarget(job) ==
  IF job.targets_initialized THEN job.notify_target_be
  ELSE IF job.has_target THEN job.target_be
  ELSE alpha_target_from_difficulty(job.difficulty)

\* A target other than the consensus target is the pool's own share target.
Explicit(job) ==
  /\ job.has_target
  /\ NotifyTarget(job) # alpha_target_from_difficulty(job.difficulty)

apply_pool_share_target(job, d, disable) ==
  LET network  == alpha_target_from_difficulty(job.difficulty)
      notify   == NotifyTarget(job)
  IN [job EXCEPT
        !.network_target_be      = network,
        !.notify_target_be       = notify,
        !.targets_initialized    = TRUE,
        !.explicit_share_target  = Explicit(job),
        !.local_scaling_disabled = disable,
        !.target_be =
          IF disable THEN IF job.has_target THEN notify ELSE network
          ELSE IF Explicit(job) THEN notify
          ELSE scale_target_for_pool_difficulty(network, d)]

-----------------------------------------------------------------------------
(* Notify arrays <<job_id, block_number, previous_hash, ...>>.             *)

\* [.., merkle_root, difficulty, target, clean]: no timestamp in the line.
IsCompact(p) == Len(p) >= 7 /\ IsHex(p[4]) /\ IsU64(p[5]) /\ IsHex(p[6])

ParseCompact(p) ==
  IF U64(p[5]) = 0 THEN Rejected
  ELSE ParsedJob(U64(p[2]), p[3].val, p[4].val, Now, U64(p[5]), TRUE, p[6].val,
                 BoolValue(p[7]))

\* [.., timestamp, difficulty, merkle_root, target?, clean?].
IsOrdered(p) == IsU64(p[4]) /\ IsU64(p[5]) /\ IsHex(p[6])

ParseOrdered(p) ==
  LET extra      == Len(p) >= 7 /\ ~Absent(p[7])
      has_target == extra /\ ~Boolish(p[7]) /\ IsHex(p[7])
      clean      == IF Len(p) >= 8 THEN BoolValue(p[8])
                    ELSE extra /\ BoolValue(p[7])
  IN IF \/ extra /\ ~Boolish(p[7]) /\ ~IsHex(p[7])
        \/ U64(p[4]) = 0 \/ U64(p[5]) = 0
     THEN Rejected
     ELSE ParsedJob(U64(p[2]), p[3].val, p[6].val, U64(p[4]), U64(p[5]), has_target,
                    IF has_target THEN p[7].val ELSE 0, clean)

\* What the flexible parser has gathered so far; NoNumber stands for "not yet".
Nothing == [merkle |-> NoNumber, time |-> NoNumber, diff |-> NoNumber,
            target |-> NoNumber, clean |-> FALSE]

\* Mutation: any first number is the timestamp.
GatherFirstIsTime(g, t) ==
  IF Boolish(t) THEN [g EXCEPT !.clean = BoolValue(t)]
  ELSE IF IsHex(t) /\ g.merkle = NoNumber THEN [g EXCEPT !.merkle = t.val]
  ELSE IF IsHex(t) THEN g
  ELSE IF ~IsU64(t) THEN g
  ELSE IF g.time = NoNumber THEN [g EXCEPT !.time = U64(t)]
  ELSE [g EXCEPT !.diff = U64(t)]

\* One token of the flexible parser: positions follow from the shape.
Gather(g, t) ==
  IF Absent(t) THEN g
  ELSE IF Boolish(t) THEN [g EXCEPT !.clean = BoolValue(t)]
  ELSE IF IsHex(t) THEN IF g.merkle = NoNumber THEN [g EXCEPT !.merkle = t.val]
                        ELSE IF g.target = NoNumber THEN [g EXCEPT !.target = t.val]
                        ELSE g
  ELSE IF ~IsU64(t) THEN g
  ELSE IF U64(t) >= TimeFloor /\ g.time = NoNumber THEN [g EXCEPT !.time = U64(t)]
  ELSE IF g.diff = NoNumber THEN [g EXCEPT !.diff = U64(t)]
  ELSE g

ParseFlexible(p) ==
  LET g == FoldLeft(Gather, Nothing, SubSeq(p, 4, Len(p)))
  IN IF g.merkle = NoNumber \/ g.diff \in {NoNumber, 0} THEN Rejected
     ELSE ParsedJob(U64(p[2]), p[3].val, g.merkle,
                    IF g.time = NoNumber THEN Now ELSE g.time, g.diff,
                    g.target # NoNumber, g.target, g.clean)

parse_array_job(p) ==
  IF \/ Len(p) < 6 \/ p[1].kind = "empty" \/ ~IsU64(p[2]) \/ ~IsHex(p[3])
  THEN Rejected
  ELSE IF IsCompact(p) THEN ParseCompact(p)
  ELSE IF IsOrdered(p) THEN ParseOrdered(p)
  ELSE ParseFlexible(p)

\* An object names its fields; an empty or missing target is none.
parse_object_job(f) ==
  IF f.time = 0 \/ f.diff = 0 THEN Rejected
  ELSE ParsedJob(f.block, f.prev, f.merkle, f.time, f.diff, f.target # NoNumber, f.target,
                 f.clean)

-----------------------------------------------------------------------------
(* What pools send.                                                        *)

\* The fields of a job; time = Now for the layouts without a timestamp.
Fields == [block : BlockNumbers, prev : PrevHashes, merkle : Merkles, time : Times,
           diff : HeaderDiffs, target : OwnTargets \cup {NoNumber}, clean : BOOLEAN,
           lead : {NoNumber, 3}]

Head3(f) == <<Text, Num(f.block), Hex(f.prev, f.lead)>>

TargetToken(f) == IF f.target = NoNumber THEN EmptyToken ELSE Hex(f.target, f.lead)

\* The layouts the documents list, each with the fields it carries.
Ordered(f)       == Head3(f) \o <<Num(f.time), Num(f.diff), Hex(f.merkle, f.lead),
                                  TargetToken(f), Flag(f.clean)>>
MerkleFirst(f)   == Head3(f) \o <<Hex(f.merkle, f.lead), Num(f.time), Num(f.diff),
                                  Flag(f.clean)>>
MerkleSecond(f)  == Head3(f) \o <<Num(f.time), Hex(f.merkle, f.lead), Num(f.diff),
                                  Flag(f.clean)>>
Compact(f)       == Head3(f) \o <<Hex(f.merkle, f.lead), Num(f.diff), TargetToken(f),
                                  Flag(f.clean)>>

\* No document says what a line of another layout means.
Unspecified == [block |-> 0, prev |-> 0, merkle |-> 0, time |-> 0, diff |-> 0,
                target |-> NoNumber, clean |-> FALSE, lead |-> 0]

Specified(meant) == meant.diff # 0

NoTarget(f) == [f EXCEPT !.target = NoNumber]
Untimed(f)  == [f EXCEPT !.time = Now]

\* A line, what the pool meant by it where the documents say so, and whether
\* the place of each field is fixed or has to be told from its shape.
Lines ==
  {[array |-> Ordered(f), meant |-> f, fixed |-> TRUE] : f \in Fields}
  \cup {[array |-> MerkleFirst(f), meant |-> NoTarget(f), fixed |-> FALSE] : f \in Fields}
  \cup {[array |-> MerkleSecond(f), meant |-> NoTarget(f), fixed |-> FALSE] : f \in Fields}
  \cup {[array |-> Compact(f), meant |-> Untimed(f), fixed |-> f.target # NoNumber] :
           f \in Fields}
  \cup {[array |-> <<Text, Num(1), Hex(0, NoNumber)>> \o t, meant |-> Unspecified,
          fixed |-> FALSE] : t \in OddLines}

\* The bare token 1 has the shape of a flag: where the place does not say that
\* it is the difficulty, the line cannot be told from one without a difficulty.
Legible(meant, fixed) == Specified(meant) /\ (fixed \/ meant.diff # 1)

NotifyInit ==
  /\ current_job = NoJob
  /\ pool_difficulty = 2 * Scale
  /\ disable_local_target_scaling = FALSE
  /\ said = Unspecified
  /\ applied = [d |-> 2 * Scale, off |-> FALSE]
  /\ refused = FALSE

\* The line is logged and dropped.
Refuse(meant, fixed) ==
  /\ refused' = (refused \/ Legible(meant, fixed))
  /\ UNCHANGED <<current_job, pool_difficulty, disable_local_target_scaling, said,
                 applied>>

\* The job gets its targets and replaces the current one.
Publish(parsed, meant) ==
  /\ current_job' = apply_pool_share_target(parsed, pool_difficulty,
                                            disable_local_target_scaling)
  /\ said' = meant
  /\ applied' = [d |-> pool_difficulty, off |-> disable_local_target_scaling]
  /\ UNCHANGED <<pool_difficulty, disable_local_target_scaling, refused>>

\* A mining.notify arrives, parsed as this job or rejected.
Notify(parsed, meant, fixed) ==
  \/ parsed.difficulty = 0 /\ Refuse(meant, fixed)
  \/ parsed.difficulty # 0 /\ Publish(parsed, meant)

\* What becomes of each line, which does not depend on the state.
Readings == {[job |-> parse_array_job(l.array), meant |-> l.meant, fixed |-> l.fixed] :
               l \in Lines}

NotifyArray == \E r \in Readings : Notify(r.job, r.meant, r.fixed)

NotifyObject == \E f \in Fields : Notify(parse_object_job(f), f, TRUE)

\* A mining.set_difficulty: the current job is targeted anew.
SetDifficulty(d) ==
  /\ pool_difficulty' = d
  /\ IF have_job
     THEN /\ current_job' = apply_pool_share_target(current_job, d,
                                                    disable_local_target_scaling)
          /\ applied' = [d |-> d, off |-> disable_local_target_scaling]
     ELSE UNCHANGED <<current_job, applied>>
  /\ UNCHANGED <<disable_local_target_scaling, said, refused>>

\* A share was rejected as of low difficulty.
LowDifficulty ==
  /\ have_job
  /\ disable_local_target_scaling' = TRUE
  /\ UNCHANGED <<current_job, pool_difficulty, said, applied, refused>>

NotifyNext ==
  \/ NotifyArray \/ NotifyObject
  \/ \E d \in PoolDiffs : SetDifficulty(d)
  \/ LowDifficulty

NotifySpec == NotifyInit /\ [][NotifyNext]_notifyVars

-----------------------------------------------------------------------------
(* Properties.                                                             *)

\* ALPHANUMERIC_MININGCORE_STATUS.txt:12 and the compact layout of the parser:
\* whatever layout a pool uses, and whatever digits its hashes start with, a
\* line that is accepted gives a job with every field of the header as the pool
\* meant it, and only a difficulty of 1 in a layout without fixed places is
\* refused.
FieldsAsMeant ==
  /\ ~refused
  /\ have_job /\ Specified(said) =>
       /\ current_job.block_number = said.block
       /\ current_job.previous_hash = said.prev
       /\ current_job.merkle_root = said.merkle
       /\ current_job.timestamp = said.time
       /\ current_job.difficulty = said.diff
       /\ current_job.clean_jobs = said.clean
       /\ current_job.has_target <=> said.target # NoNumber

\* The target of a job is what its notify and the difficulty applied last say,
\* however often it was targeted before: the pool's own target untouched, the
\* consensus target scaled once, in plain arithmetic.
TargetFromScratch ==
  have_job /\ Specified(said) =>
    LET network == MaxTarget \div Power(2, said.diff \div ShiftStep)
        scaled  == (network * Scale) \div Denominator(applied.d)
    IN current_job.target_be =
         IF said.target # NoNumber /\ (applied.off \/ said.target # network)
         THEN said.target
         ELSE IF applied.off THEN network
         ELSE IF scaled > MaxTarget THEN MaxTarget ELSE scaled

\* A harder pool difficulty never makes the target of a job easier, an easier
\* one never harder, whichever way saturation, rounding and clamping go.
HarderIsNotEasier ==
  [][ Specified(said) /\ said' = said /\ applied'.off = applied.off
        /\ applied'.d >= applied.d /\ applied.d > 0
      => current_job'.target_be <= current_job.target_be ]_notifyVars

-----------------------------------------------------------------------------
(* The inductive invariant behind them (AlphaScanKernelProofs).            *)

AlphaJob == [block_number : Nat, previous_hash : Nat, merkle_root : Nat, timestamp : Nat,
             difficulty : Nat, has_target : BOOLEAN, target_be : Nat,
             clean_jobs : BOOLEAN, network_target_be : Nat, notify_target_be : Nat,
             targets_initialized : BOOLEAN,
             explicit_share_target : BOOLEAN, local_scaling_disabled : BOOLEAN]

\* What a line of a documented layout can say.
Sayable(m) ==
  /\ m.block \in 0..Base - 1 /\ m.prev \in Nat
  /\ m.merkle \in Nat /\ m.time \in Nat /\ m.clean \in BOOLEAN
  /\ m.diff \in 1..TimeFloor - 1 /\ m.target \in OwnTargets \cup {NoNumber}

\* The target of the notify is captured, and stays what the pool said.
CaptureInv ==
  Specified(said) =>
    /\ Sayable(said) /\ have_job /\ current_job \in AlphaJob
    /\ current_job.targets_initialized
    /\ current_job.notify_target_be =
         IF said.target # NoNumber THEN said.target
         ELSE alpha_target_from_difficulty(said.diff)

NotifyInv ==
  /\ pool_difficulty \in Nat /\ disable_local_target_scaling \in BOOLEAN
  /\ refused \in BOOLEAN
  /\ applied \in [d : Nat, off : BOOLEAN]
  /\ CaptureInv /\ FieldsAsMeant /\ TargetFromScratch

=============================================================================
