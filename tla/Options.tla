------------------------------ MODULE Options -------------------------------
(***************************************************************************)
(* Options (options.go) and what NewWithCompare (tree.go) makes of them.   *)
(* An epsilon is a fraction <<p, q>> with q > 0, or the float NaN.         *)
(***************************************************************************)
EXTENDS Integers, SequencesExt

CONSTANT NaN

DefaultEpsilon == <<1, 2>>
DefaultBlockSize == 4096
minFanout == 2
minBufferCap == 1

WithEpsilon(eps) == [set |-> "epsilon", to |-> eps]
WithBlockSize(size) == [set |-> "blockSize", to |-> size]

(* Options are applied in order, so that the last of a kind counts. *)
resolveOptions(opts) ==
  FoldLeft(LAMBDA o, opt : [o EXCEPT ![opt.set] = opt.to],
           [epsilon |-> DefaultEpsilon, blockSize |-> DefaultBlockSize], opts)

(* Comparisons with NaN are false, and so NaN is in range. *)
TooSmall(eps) == IF eps = NaN THEN FALSE ELSE eps[1] <= 0
TooLarge(eps) == IF eps = NaN THEN FALSE ELSE eps[1] > eps[2]

(* Errors, or none. *)
validateOptions(o) ==
  IF TooSmall(o.epsilon) \/ TooLarge(o.epsilon) THEN {"ErrInvalidEpsilon"}
  ELSE IF o.blockSize < 2 THEN {"ErrInvalidBlockSize"}
  ELSE {}

-----------------------------------------------------------------------------
(* The largest integer whose q-th power is at most b^p, where p <= q. *)
Root(b, p, q) == CHOOSE r \in 0..b : r ^ q <= b ^ p /\ b ^ p < (r + 1) ^ q

(***************************************************************************)
(* int(math.Pow(b, eps)): the integer part of a root of a power of b.  If  *)
(* the root is an integer, the float may fall short of it, and the         *)
(* conversion then loses one; powers 0 and 1 and square roots are exact.   *)
(* What int makes of NaN differs from one processor to another, but it is  *)
(* never positive.                                                         *)
(***************************************************************************)
Power(b, eps) ==
  IF eps = NaN THEN {-1, 0}
  ELSE LET r == Root(b, eps[1], eps[2])
           exact == r ^ eps[2] = b ^ eps[1]
       IN  IF exact /\ eps[2] > 2 THEN {r - 1, r} ELSE {r}

OneMinus(eps) == IF eps = NaN THEN NaN ELSE <<eps[2] - eps[1], eps[2]>>

AtLeast(least, n) == IF n < least THEN least ELSE n


deriveParams(o) ==
  {[epsilon |-> o.epsilon, blockSize |-> o.blockSize,
    fanout |-> AtLeast(minFanout, f), bufferCap |-> AtLeast(minBufferCap, c),
    leafCap |-> o.blockSize] :
     f \in Power(o.blockSize, o.epsilon), c \in Power(o.blockSize, OneMinus(o.epsilon))}
=============================================================================
