------------------------------- MODULE Stages -------------------------------
(***************************************************************************)
(* The stages of a pipeline: what each does to the value and the status of *)
(* a sample, and to its own window.                                        *)
(*                                                                         *)
(* A number is an integer count of some fraction of a unit, fine enough    *)
(* for the means of the windows in use to be exact.  NaN is a value of its *)
(* own, of which every comparison is false; Infinite stands for infinity.  *)
(*                                                                         *)
(* WideWindow and WarningLast are faulty variants of the definitions below *)
(* them; nothing uses one.                                                 *)
(***************************************************************************)
EXTENDS Integers, SequencesExt

CONSTANTS NaN,
          Infinite,   \* larger than every number in use
          NoBound,    \* a bound of a threshold that is not given
          MaxWindow   \* 1024 in the code

Infinities == {Infinite, -Infinite}

Less(a, b) == a # NaN /\ b # NaN /\ a < b

-----------------------------------------------------------------------------
(* validate_stage *)

Windowed == {"average", "median", "min", "max"}

Ordered(low, high) == low # NoBound /\ high # NoBound => low <= high

ValidStage(s) ==
  /\ s.type \in Windowed => s.window \in 1..MaxWindow
  /\ s.type = "threshold" =>
       /\ {s.low_warning, s.high_warning, s.low_critical, s.high_critical}
            # {NoBound}
       /\ Ordered(s.low_critical, s.high_critical)
       /\ Ordered(s.low_warning, s.high_warning)

-----------------------------------------------------------------------------
(* Windows *)

\* A window that holds one sample too many.
WideWindow(window, v, width) ==
  LET w == Append(window, v) IN IF Len(w) > width + 1 THEN Tail(w) ELSE w

Push(window, v, width) ==
  LET w == Append(window, v) IN IF Len(w) > width THEN Tail(w) ELSE w

\* The sum of floats, divided by how many there are.
Mean(window) ==
  IF NaN \in ToSet(window) \/ Infinities \subseteq ToSet(window) THEN NaN
  ELSE IF ToSet(window) \cap Infinities # {}
       THEN CHOOSE v \in ToSet(window) : v \in Infinities
  ELSE FoldLeft(LAMBDA a, b : a + b, 0, window) \div Len(window)

\* sort_by compares NaN as equal to everything; it inserts from the right, as
\* the library does in slices of up to 20 elements.
Insert(sorted, v) ==
  LET kept == {j \in DOMAIN sorted : ~ Less(v, sorted[j])}
      k == IF kept = {} THEN 0 ELSE CHOOSE j \in kept : \A i \in kept : i <= j
  IN  InsertAt(sorted, k + 1, v)

Median(window) ==
  LET sorted == FoldLeft(Insert, <<>>, window)
      mid == Len(window) \div 2
  IN  IF Len(window) % 2 = 0 THEN Mean(<<sorted[mid], sorted[mid + 1]>>)
      ELSE sorted[mid + 1]

\* f64::min and f64::max pass over NaN.
Least(window) ==
  FoldLeft(LAMBDA a, b : IF Less(b, a) THEN b ELSE a, Infinite, window)
Greatest(window) ==
  FoldLeft(LAMBDA a, b : IF Less(a, b) THEN b ELSE a, -Infinite, window)

Statistic(type, window) ==
  CASE type = "average" -> Mean(window)
    [] type = "median"  -> Median(window)
    [] type = "min"     -> Least(window)
    [] type = "max"     -> Greatest(window)

-----------------------------------------------------------------------------
(* Stages without a window *)

Scaled(v, scale, offset) ==
  IF v = NaN \/ (v \in Infinities /\ scale = 0) THEN NaN
  ELSE IF v \in Infinities THEN (IF scale > 0 THEN v ELSE -v)
  ELSE v * scale + offset

\* An expression with a domain, as a logarithm or a root has one.
MathValue(v, low) == IF v = NaN \/ Less(v, low) THEN NaN ELSE v

Outside(v, low, high) == \/ low # NoBound /\ Less(v, low)
                         \/ high # NoBound /\ Less(high, v)

\* A threshold whose warning bounds are checked after the critical ones.
WarningLast(v, s) ==
  IF Outside(v, s.low_warning, s.high_warning) THEN "warning"
  ELSE IF Outside(v, s.low_critical, s.high_critical) THEN "critical"
  ELSE "normal"

Status(v, s) ==
  IF Outside(v, s.low_critical, s.high_critical) THEN "critical"
  ELSE IF Outside(v, s.low_warning, s.high_warning) THEN "warning"
  ELSE "normal"

-----------------------------------------------------------------------------
(* Pipelines: stages, and the windows they keep from sample to sample *)

\* process of stage i; an expression with an unknown variable fails.
StageProcess(stages, ctx, i) ==
  LET s == stages[i] IN
  IF ~ ctx.ok THEN ctx
  ELSE CASE s.type \in Windowed ->
              LET window == Push(ctx.windows[i], ctx.value, s.window)
              IN  [ctx EXCEPT !.windows[i] = window,
                              !.value = Statistic(s.type, window)]
         [] s.type = "scale" ->
              [ctx EXCEPT !.value = Scaled(@, s.scale, s.offset)]
         [] s.type = "math" ->
              IF s.known THEN [ctx EXCEPT !.value = MathValue(@, s.low)]
              ELSE [ctx EXCEPT !.ok = FALSE]
         [] s.type = "threshold" ->
              [ctx EXCEPT !.status = Status(ctx.value, s)]

NewWindows(stages) == [i \in DOMAIN stages |-> <<>>]

\* from_raw, then all stages: a metric, or an error.
PipelineProcess(stages, windows, v) ==
  IF stages = <<>> THEN [ok |-> FALSE, windows |-> windows]
  ELSE FoldLeft(LAMBDA ctx, i : StageProcess(stages, ctx, i),
                [ok |-> TRUE, value |-> v, status |-> "normal",
                 windows |-> windows],
                [i \in DOMAIN stages |-> i])

\* The outcome of the last of a sequence of samples.
AfterSamples(stages, samples) ==
  FoldLeft(LAMBDA ctx, v : PipelineProcess(stages, ctx.windows, v),
           [windows |-> NewWindows(stages)], samples)
=============================================================================
