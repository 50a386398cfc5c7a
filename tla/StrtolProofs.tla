---------------------------- MODULE StrtolProofs ----------------------------
(***************************************************************************)
(* The number parsers, whatever the widths of the types and the strings    *)
(* they are given, never overflow: the accumulator stays within what the   *)
(* result can be, so the product and the sum of a round do not wrap.  And  *)
(* they are correct: what they return is the numeral the string begins     *)
(* with, clamped to the type, and where that numeral ends.                 *)
(*                                                                         *)
(* Below, the builtins that parse their words with them: hexdump and info  *)
(* show what their words ask for.                                          *)
(***************************************************************************)
EXTENDS Builtins, LevelInduction

\* The accumulator is a value the result can have.
AccumulatorFits == acc \in Nat /\ acc <= Limit(parse.fn, neg)

\* What a parser returns is a value of its type.
ResultFits ==
  spc = "done" => /\ result.val \in Int
                  /\ Lowest(parse.fn) <= result.val /\ result.val <= Highest(parse.fn)

\* The inductive invariant: with the base known, and a minus sign only where it
\* is understood.
LocalsOK ==
  /\ parse.fn \in Parsers
  /\ neg \in BOOLEAN /\ (neg => parse.fn.signed)
  /\ any \in {-1, 0, 1}
  /\ base \in Nat
  /\ spc = "space" => acc = 0 /\ base \in {0} \cup 2 .. 36
  /\ spc = "digits" => base \in 2 .. 36
PInv == LocalsOK /\ AccumulatorFits /\ ResultFits

-----------------------------------------------------------------------------
\* A parser's type has an odd unsigned maximum, twice the signed one and one.
LEMMA ParserTypes ==
  ASSUME NEW fn \in Parsers
  PROVE  /\ fn.umax \in Nat /\ fn.signed \in BOOLEAN
         /\ SMAX(fn) \in Nat /\ fn.umax = 2 * SMAX(fn) + 1
         /\ \A n \in BOOLEAN : Limit(fn, n) \in Nat /\ Limit(fn, n) <= fn.umax
  <1>1. fn.umax \in Nat /\ fn.umax % 2 = 1 /\ fn.signed \in BOOLEAN
    <2>1. fn.umax \in {ULONG_MAX, ULLONG_MAX} /\ fn.signed \in BOOLEAN
      <3>1. CASE fn = strtol
        BY <3>1 DEF strtol
      <3>2. CASE fn = strtoll
        BY <3>2 DEF strtoll
      <3>3. CASE fn = strtoul
        BY <3>3 DEF strtoul
      <3>4. CASE fn = strtoull
        BY <3>4 DEF strtoull
      <3> QED
        BY <3>1, <3>2, <3>3, <3>4 DEF Parsers
    <2>2. \A u \in {ULONG_MAX, ULLONG_MAX} : u \in Nat /\ u % 2 = 1
      BY StrtolAssumption
    <2> QED
      BY <2>1, <2>2
  <1>2. SMAX(fn) \in Nat /\ fn.umax = 2 * SMAX(fn) + 1
    BY <1>1, SMT DEF SMAX
  <1> QED
    BY <1>1, <1>2, SMT DEF Limit

\* The values of the digits.
LEMMA DigitValues == \A ch \in DOMAIN Digit : Digit[ch] \in Nat
  <1> SUFFICES ASSUME NEW ch \in DOMAIN Digit PROVE Digit[ch] \in Nat
    OBVIOUS
  <1>1. CASE \E i \in 1 .. 26 : Capitals[i] = ch
    <2> DEFINE place == CHOOSE i \in 1 .. 26 : Capitals[i] = ch
    <2>1. place \in 1 .. 26
      BY <1>1
    <2>2. Digit[ch] = place + 9
      BY <1>1 DEF Digit
    <2> HIDE DEF place
    <2> QED
      BY <2>1, <2>2, SMT
  <1>2. CASE ~\E i \in 1 .. 26 : Capitals[i] = ch
    <2>1. \E i \in 1 .. 36 : Smalls[i] = ch
      BY <1>2 DEF Digit
    <2> DEFINE place == CHOOSE i \in 1 .. 36 : Smalls[i] = ch
    <2>2. place \in 1 .. 36
      BY <2>1
    <2>3. Digit[ch] = place - 1
      BY <1>2 DEF Digit
    <2> HIDE DEF place
    <2> QED
      BY <2>2, <2>3, SMT
  <1> QED
    BY <1>1, <1>2

\* The test of cutoff and cutlim is exact: what it lets pass stays within limit.
LEMMA CutoffExact ==
  ASSUME NEW limit \in Nat, NEW radix \in 2 .. 36, NEW a \in Nat, NEW d \in Nat,
         a < limit \div radix \/ (a = limit \div radix /\ d <= limit % radix),
         d < radix
  PROVE  a * radix + d \in Nat /\ a * radix + d <= limit
  <1> DEFINE q == limit \div radix
             r == limit % radix
  <1>1. q \in Nat /\ r \in 0 .. radix - 1 /\ limit = radix * q + r
    BY SMT
  <1>2. CASE a = q
    <2>1. a * radix = radix * q
      BY <1>1, <1>2, SMT
    <2> QED
      BY <1>1, <1>2, <2>1, SMT
  <1>3. CASE a < q
    <2>1. (a + 1) * radix <= radix * q
      BY <1>1, <1>3, SMT
    <2>2. (a + 1) * radix = a * radix + radix
      BY <1>1, SMT
    <2>3. a * radix \in Nat
      BY SMT
    <2>4. radix * q \in Nat
      BY <1>1, SMT
    <2> QED
      BY <1>1, <2>1, <2>2, <2>3, <2>4, SMT
  <1> QED
    BY <1>1, <1>2, <1>3

-----------------------------------------------------------------------------
\* A call a caller may make.
CallOK(call) ==
  /\ call.fn \in Parsers
  /\ call.base \in {0} \cup 2 .. 36
  /\ call.str \in Seq(STRING)

\* Locals of a call that has not begun, or has not looked at its string yet.
Fresh ==
  /\ parse.fn \in Parsers
  /\ neg = FALSE /\ acc = 0 /\ any = 0
  /\ spc \in {"idle", "space"}
  /\ base \in {0} \cup 2 .. 36

\* A fresh call is within its limits.
LEMMA FreshFits == Fresh => PInv
  <1> SUFFICES ASSUME Fresh PROVE PInv
    OBVIOUS
  <1> DEFINE limit == Limit(parse.fn, neg)
  <1>1. parse.fn \in Parsers /\ neg \in BOOLEAN /\ (neg => parse.fn.signed)
    BY Zenon DEF Fresh
  <1>2. base \in Nat /\ any \in {-1, 0, 1} /\ acc \in Nat /\ acc = 0
    BY DEF Fresh
  <1>3. spc # "digits" /\ spc # "done" /\ base \in {0} \cup 2 .. 36
    BY DEF Fresh
  <1>4. LocalsOK
    BY <1>1, <1>2, <1>3, Zenon DEF LocalsOK
  <1>5. limit \in Nat
    BY <1>1, ParserTypes
  <1>6. acc <= limit
    <2> HIDE DEF limit
    <2> QED
      BY <1>2, <1>5
  <1> QED
    BY <1>2, <1>3, <1>4, <1>6 DEF PInv, AccumulatorFits, ResultFits

\* No call is running at first.
LEMMA PInvInit == PInit => PInv
  <1>1. PInit => Fresh
    BY DEF PInit, Fresh, NoParse, atoi, Parsers
  <1> QED
    BY <1>1, FreshFits

\* A new call starts from fresh locals.
LEMMA CallKeepsPInv ==
  ASSUME NEW call, CallOK(call), StrtolCall(call)
  PROVE  PInv'
  <1>1. call.fn \in Parsers /\ call.base \in {0} \cup 2 .. 36
    BY DEF CallOK
  <1>2. Fresh'
    BY <1>1 DEF StrtolCall, Fresh
  <1> QED
    BY <1>2, FreshFits, PTL

\* A digit is added only when the sum stays within the limit.
LEMMA ScanKeepsPInv ==
  ASSUME PInv, ScanDigit
  PROVE  PInv'
  <1> DEFINE limit == Limit(parse.fn, neg)
  <1>1. parse.fn \in Parsers /\ base \in 2 .. 36 /\ acc \in Nat /\ neg \in BOOLEAN
    BY DEF PInv, LocalsOK, AccumulatorFits, ScanDigit
  <1>2. limit \in Nat
    BY <1>1, ParserTypes
  <1>3. Digit[c] \in Nat /\ Digit[c] < base
    BY DigitValues DEF ScanDigit, IsDigit
  <1>4. LocalsOK' /\ ResultFits'
    BY DEF PInv, LocalsOK, ResultFits, ScanDigit
  <1>5. CASE TooBig
    BY <1>4, <1>5 DEF PInv, AccumulatorFits, ScanDigit
  <1>6. CASE ~TooBig
    <2>1. ~(acc > limit \div base) /\ ~(acc = limit \div base /\ Digit[c] > limit % base)
      BY <1>6 DEF TooBig, cutoff, cutlim
    <2>2. limit \div base \in Int /\ limit % base \in Int
      BY <1>1, <1>2, SMT
    <2>3. acc < limit \div base \/ (acc = limit \div base /\ Digit[c] <= limit % base)
      BY <1>1, <1>3, <2>1, <2>2, SMT
    <2>4. acc * base + Digit[c] \in Nat /\ acc * base + Digit[c] <= limit
      BY <1>1, <1>2, <1>3, <2>3, CutoffExact
    <2>5. acc' = acc * base + Digit[c] /\ parse' = parse /\ neg' = neg
      BY <1>6 DEF ScanDigit
    <2> QED
      BY <1>4, <2>4, <2>5 DEF PInv, AccumulatorFits
  <1> QED
    BY <1>5, <1>6

\* Sign and prefix only choose the limit and the base.
LEMMA PrefixKeepsPInv ==
  ASSUME PInv, Prefix
  PROVE  PInv'
  <1>1. parse.fn \in Parsers /\ acc = 0 /\ base \in {0} \cup 2 .. 36
    BY DEF PInv, LocalsOK, Prefix
  <1>2. parse' = parse /\ acc' = acc /\ any' = any /\ spc' = "digits"
    BY DEF Prefix
  <1>3. neg' = (c = "-" /\ parse.fn.signed) /\ base' \in 2 .. 36
    BY <1>1 DEF Prefix
  <1>4. neg' \in BOOLEAN /\ (neg' => parse.fn.signed)
    BY <1>3
  <1>5. Limit(parse.fn, neg') \in Nat
    BY <1>1, <1>4, ParserTypes
  <1>6. LocalsOK'
    BY <1>1, <1>2, <1>3, <1>4 DEF PInv, LocalsOK
  <1>7. AccumulatorFits' /\ ResultFits'
    BY <1>1, <1>2, <1>5 DEF AccumulatorFits, ResultFits
  <1> QED
    BY <1>6, <1>7 DEF PInv

\* What the branches at the end of a parser make of the accumulator.
LEMMA ValueIs ==
  ASSUME PInv
  PROVE  Value = IF any < 0 THEN (IF neg THEN Lowest(parse.fn) ELSE Highest(parse.fn))
                 ELSE IF neg THEN -acc ELSE acc
  <1> DEFINE fn == parse.fn
  <1>1. fn \in Parsers /\ neg \in BOOLEAN /\ (neg => fn.signed)
        /\ acc \in Nat /\ acc <= Limit(fn, neg)
    BY DEF PInv, LocalsOK, AccumulatorFits
  <1>2. /\ fn.umax \in Nat /\ fn.signed \in BOOLEAN
        /\ SMAX(fn) \in Nat /\ fn.umax = 2 * SMAX(fn) + 1
    BY <1>1, ParserTypes
  <1>3. CASE any < 0 /\ neg
    BY <1>1, <1>2, <1>3 DEF Value, Lowest
  <1>4. CASE any < 0 /\ ~neg
    BY <1>1, <1>2, <1>4 DEF Value, Highest, Limit
  <1>5. CASE ~(any < 0) /\ neg
    <2>1. acc <= SMAX(fn) + 1
      BY <1>1, <1>5 DEF Limit
    <2>2. Value = ToSigned((fn.umax + 1 - acc) % (fn.umax + 1))
      BY <1>5 DEF Value
    <2>3. CASE acc = 0
      <3>1. (fn.umax + 1 - acc) % (fn.umax + 1) = 0
        BY <1>2, <2>3, SMT
      <3>2. Value = -acc
        BY <1>2, <2>2, <2>3, <3>1 DEF ToSigned
      <3> QED
        BY <1>5, <2>3, <3>2
    <2>4. CASE acc > 0
      <3>1. (fn.umax + 1 - acc) % (fn.umax + 1) = fn.umax + 1 - acc
        BY <1>1, <1>2, <2>1, <2>4, SMT
      <3>2. Value = -acc
        BY <1>1, <1>2, <2>1, <2>2, <2>4, <3>1 DEF ToSigned
      <3> QED
        BY <1>5, <3>2
    <2> QED
      BY <1>1, <2>3, <2>4
  <1>6. CASE ~(any < 0) /\ ~neg
    BY <1>6 DEF Value
  <1> QED
    BY <1>1, <1>3, <1>4, <1>5, <1>6

\* What is returned is a value of the type.
LEMMA FinishKeepsPInv ==
  ASSUME PInv, Finish
  PROVE  PInv'
  <1> DEFINE fn == parse.fn
  <1>1. fn \in Parsers /\ neg \in BOOLEAN /\ (neg => fn.signed)
        /\ acc \in Nat /\ acc <= Limit(fn, neg)
    BY DEF PInv, LocalsOK, AccumulatorFits
  <1>2. /\ fn.umax \in Nat /\ fn.signed \in BOOLEAN
        /\ SMAX(fn) \in Nat /\ fn.umax = 2 * SMAX(fn) + 1
    BY <1>1, ParserTypes
  <1>3. Value \in Int /\ Lowest(fn) <= Value /\ Value <= Highest(fn)
    <2>1. Value = IF any < 0 THEN (IF neg THEN Lowest(fn) ELSE Highest(fn))
                  ELSE IF neg THEN -acc ELSE acc
      BY ValueIs
    <2>2. CASE any < 0
      BY <1>1, <1>2, <2>1, <2>2 DEF Lowest, Highest
    <2>3. CASE ~(any < 0) /\ neg
      <3>1. acc <= SMAX(fn) + 1 /\ fn.signed
        BY <1>1, <2>3 DEF Limit
      <3> QED
        BY <1>1, <1>2, <2>1, <2>3, <3>1 DEF Lowest, Highest
    <2>4. CASE ~(any < 0) /\ ~neg
      BY <1>1, <1>2, <2>1, <2>4 DEF Lowest, Highest, Limit
    <2> QED
      BY <2>2, <2>3, <2>4
  <1>4. result'.val = Value /\ parse' = parse
    BY DEF Finish
  <1>5. LocalsOK' /\ AccumulatorFits'
    BY DEF PInv, LocalsOK, AccumulatorFits, Finish
  <1>6. ResultFits'
    BY <1>3, <1>4 DEF ResultFits, Lowest, Highest, SMAX
  <1> QED
    BY <1>5, <1>6 DEF PInv

\* Every step of a parser keeps the invariant.
LEMMA PInvStep == PInv /\ [PNext]_parsevars => PInv'
  <1> SUFFICES ASSUME PInv, [PNext]_parsevars PROVE PInv'
    OBVIOUS
  <1>1. ASSUME NEW call \in PARSES, StrtolCall(call) PROVE PInv'
    BY <1>1, CallKeepsPInv, StrtolAssumption DEF CallOK
  <1>2. CASE SkipSpace
    BY <1>2 DEF PInv, LocalsOK, AccumulatorFits, ResultFits, SkipSpace
  <1>3. CASE Prefix
    BY <1>3, PrefixKeepsPInv
  <1>4. CASE ScanDigit
    BY <1>4, ScanKeepsPInv
  <1>5. CASE Finish
    BY <1>5, FinishKeepsPInv
  <1>6. CASE StrtolReturn
    <2>1. Fresh'
      BY <1>6 DEF StrtolReturn, Fresh, NoParse, atoi, Parsers
    <2> QED
      BY <2>1, FreshFits, PTL
  <1>7. CASE UNCHANGED parsevars
    BY <1>7 DEF parsevars, PInv, LocalsOK, AccumulatorFits, ResultFits
  <1> QED
    BY <1>1, <1>2, <1>3, <1>4, <1>5, <1>6, <1>7 DEF PNext, StrtolStep

\* For every width of the types, every string and every base, the accumulator of
\* strtol, strtoll, strtoul and strtoull stays within the range of the result,
\* and what they return is in it.
THEOREM ParsersNeverOverflow == PSpec => [](AccumulatorFits /\ ResultFits)
  <1>1. PInv => AccumulatorFits /\ ResultFits
    BY DEF PInv
  <1> QED
    BY <1>1, PInvInit, PInvStep, PTL DEF PSpec

-----------------------------------------------------------------------------
(***************************************************************************)
(* What the parsers compute                                                *)
(***************************************************************************)

\* The NUL is neither a space nor a digit, and a string ends with it.
LEMMA NulChar ==
  /\ NUL # SPACE /\ NUL \notin DOMAIN Digit
  /\ NUL # "0" /\ NUL # "-" /\ NUL # "+" /\ NUL \notin {"x", "X"}
  <1>1. /\ \A i \in 1 .. 36 : Smalls[i] # NUL
        /\ \A i \in 1 .. 26 : Capitals[i] # NUL
    BY DEF Smalls, Capitals, NUL
  <1>2. DOMAIN Digit = {Smalls[i] : i \in 1 .. 36} \cup {Capitals[i] : i \in 1 .. 26}
    BY DEF Digit
  <1>3. NUL \notin DOMAIN Digit
    BY <1>1, <1>2 DEF NUL
  <1> QED
    BY <1>3 DEF NUL, SPACE

\* Whatever is not the NUL is in the string.
LEMMA InString ==
  ASSUME NEW str \in Seq(STRING), NEW i, CharAt(str, i) # NUL
  PROVE  i \in 1 .. Len(str) /\ Len(str) \in Nat
  BY DEF CharAt

\* The first character that is no space.
LEMMA FirstIs ==
  ASSUME NEW call, CallOK(call), NEW i \in 1 .. Len(call.str) + 1,
         CharAt(call.str, i) # SPACE,
         \A j \in 1 .. i - 1 : CharAt(call.str, j) = SPACE
  PROVE  First(call) = i
  <1> DEFINE Q(k) == /\ CharAt(call.str, k) # SPACE
                     /\ \A j \in 1 .. k - 1 : CharAt(call.str, j) = SPACE
             f == First(call)
  <1>1. Len(call.str) \in Nat
    BY DEF CallOK
  <1>2. f \in 1 .. Len(call.str) + 1 /\ Q(f)
    BY DEF First
  <1> HIDE DEF f
  <1>3. f \in Nat /\ i \in Nat /\ i >= 1 /\ f >= 1
    BY <1>1, <1>2
  <1>4. ~(f < i)
    <2> SUFFICES ASSUME f < i PROVE FALSE
      OBVIOUS
    <2>1. f \in 1 .. i - 1
      BY <1>3
    <2> QED
      BY <1>2, <2>1
  <1>5. ~(i < f)
    <2> SUFFICES ASSUME i < f PROVE FALSE
      OBVIOUS
    <2>1. i \in 1 .. f - 1
      BY <1>3
    <2> QED
      BY <1>2, <2>1
  <1> QED
    BY <1>3, <1>4, <1>5 DEF f

\* The digits end, at the NUL at the latest.
LEMMA ToFacts ==
  ASSUME NEW call, CallOK(call), From(call) \in Nat, From(call) <= Len(call.str) + 1
  PROVE  /\ To(call) \in From(call) .. Len(call.str) + 1
         /\ ~DigitAt(call, To(call))
         /\ \A j \in From(call) .. To(call) - 1 : DigitAt(call, j)
  <1> DEFINE F == From(call)
             E == Len(call.str) + 1
             T == {i \in F .. E : ~DigitAt(call, i)}
  <1>1. E \in Nat /\ F \in Nat /\ F <= E
    BY DEF CallOK
  <1>2. ~DigitAt(call, E)
    <2>1. E \notin 1 .. Len(call.str)
      BY DEF CallOK
    <2>2. CharAt(call.str, E) = NUL
      BY <2>1 DEF CharAt
    <2> QED
      BY <2>2, NulChar DEF DigitAt
  <1>3. \E x \in T : \A y \in T : x <= y
    <2>1. T \in SUBSET Nat /\ T # {}
      BY <1>1, <1>2
    <2> HIDE DEF T
    <2> QED
      BY <2>1, LeastNat
  <1>4. PICK x \in T : \A y \in T : x <= y
    BY <1>3
  <1>5. x \in F .. E /\ ~DigitAt(call, x)
    BY <1>4
  <1>6. ASSUME NEW j \in F .. x - 1
        PROVE  DigitAt(call, j)
    <2>1. j \in F .. E /\ ~(x <= j)
      BY <1>1, <1>5
    <2>2. j \notin T
      BY <1>4, <2>1
    <2> QED
      BY <2>1, <2>2
  <1>7. \E i \in F .. E : ~DigitAt(call, i) /\ \A j \in F .. i - 1 : DigitAt(call, j)
    BY <1>5, <1>6
  <1> QED
    BY <1>7 DEF To

\* The first character that is no digit ends them.
LEMMA ToIs ==
  ASSUME NEW call, CallOK(call), From(call) \in Nat,
         NEW i \in From(call) .. Len(call.str) + 1,
         \A j \in From(call) .. i - 1 : DigitAt(call, j)
  PROVE  /\ i <= To(call)
         /\ ~DigitAt(call, i) => To(call) = i
  <1> DEFINE F == From(call)
             t == To(call)
  <1>1. F \in Nat /\ Len(call.str) \in Nat
    BY DEF CallOK
  <1>2. /\ t \in F .. Len(call.str) + 1 /\ ~DigitAt(call, t)
        /\ \A j \in F .. t - 1 : DigitAt(call, j)
    BY <1>1, ToFacts
  <1>3. i \in F .. Len(call.str) + 1 /\ \A j \in F .. i - 1 : DigitAt(call, j)
    OBVIOUS
  <1> HIDE DEF t, F
  <1>4. i <= t
    <2> SUFFICES ASSUME t < i PROVE FALSE
      BY <1>1, <1>2, <1>3
    <2>1. t \in F .. i - 1
      BY <1>1, <1>2, <1>3
    <2> QED
      BY <1>2, <1>3, <2>1
  <1>5. ASSUME ~DigitAt(call, i)
        PROVE  t = i
    <2> SUFFICES ASSUME i < t PROVE FALSE
      BY <1>1, <1>2, <1>3, <1>4
    <2>1. i \in F .. t - 1
      BY <1>1, <1>2, <1>3
    <2> QED
      BY <1>2, <1>5, <2>1
  <1> QED
    BY <1>4, <1>5 DEF t

\* The number the leading digits stand for, one digit more at a time.
LEMMA LeadingFacts ==
  ASSUME NEW call, CallOK(call), From(call) \in Nat, From(call) <= Len(call.str) + 1,
         BaseOf(call) \in Nat
  PROVE  /\ Leading(call)[0] = 0
         /\ \A k \in 0 .. To(call) - From(call) : Leading(call)[k] \in Nat
         /\ \A k \in 1 .. To(call) - From(call) :
              Leading(call)[k] = Leading(call)[k - 1] * BaseOf(call)
                                   + Digit[CharAt(call.str, From(call) + k - 1)]
  <1> DEFINE F == From(call)
             m == To(call) - F
             B == BaseOf(call)
             d(k) == Digit[CharAt(call.str, F + k - 1)]
             G == [p \in Nat \X Nat |->
                     IF p[1] \in 1 .. m THEN p[2] * B + d(p[1]) ELSE 0]
             Def(f) == f = [k \in 0 .. m |->
                              IF k = 0 THEN 0 ELSE f[k - 1] * B + d(k)]
             L == Leading(call)
  <1>1. m \in Nat /\ B \in Nat /\ F \in Nat /\ Len(call.str) \in Nat
    BY ToFacts DEF CallOK
  <1>2. \A k \in 1 .. m : d(k) \in Nat
    <2> SUFFICES ASSUME NEW k \in 1 .. m PROVE d(k) \in Nat
      OBVIOUS
    <2>1. F + k - 1 \in F .. To(call) - 1
      BY <1>1, ToFacts
    <2>2. DigitAt(call, F + k - 1)
      BY <2>1, ToFacts
    <2> QED
      BY <2>2, DigitValues DEF DigitAt
  <1> HIDE DEF d, B, m
  <1>3. G \in [Nat \X Nat -> Nat]
    <2> SUFFICES ASSUME NEW p \in Nat \X Nat, p[1] \in 1 .. m
                 PROVE  p[2] * B + d(p[1]) \in Nat
      OBVIOUS
    <2>1. p[2] \in Nat /\ d(p[1]) \in Nat
      BY <1>2
    <2> QED
      BY <1>1, <2>1
  <1>4. HasTable(Nat, 0, G, m)
    <2> HIDE DEF G
    <2> QED
      BY <1>1, <1>3, TableExists
  <1>5. PICK f : LevelTable(f, Nat, 0, G, m)
    BY <1>4 DEF HasTable
  <1>6. f \in [0 .. m -> Nat] /\ f[0] = 0
    BY <1>5 DEF LevelTable
  <1>7. \A k \in 1 .. m : f[k] = f[k - 1] * B + d(k)
    <2> SUFFICES ASSUME NEW k \in 1 .. m
                 PROVE  f[k] = f[k - 1] * B + d(k)
      OBVIOUS
    <2>1. f[k] = G[<<k, f[k - 1]>>]
      BY <1>5 DEF LevelTable
    <2>2. <<k, f[k - 1]>> \in Nat \X Nat
      BY <1>1, <1>6
    <2> QED
      BY <2>1, <2>2
  <1>8. Def(f)
    <2>1. f = [k \in 0 .. m |-> f[k]]
      BY <1>6
    <2>2. \A k \in 0 .. m : f[k] = IF k = 0 THEN 0 ELSE f[k - 1] * B + d(k)
      <3> SUFFICES ASSUME NEW k \in 0 .. m, k # 0
                   PROVE  f[k] = f[k - 1] * B + d(k)
        BY <1>6
      <3>1. k \in 1 .. m
        BY <1>1
      <3> QED
        BY <1>7, <3>1
    <2> QED
      BY <2>1, <2>2
  <1>9. Def(L)
    <2>1. L = CHOOSE g : Def(g)
      BY DEF Leading, m, B, d
    <2> HIDE DEF Def, L
    <2> QED
      BY <1>8, <2>1
  <1> HIDE DEF L
  <1>10. /\ L[0] = 0
         /\ \A k \in 1 .. m : L[k] = L[k - 1] * B + d(k)
    <2>1. \A k \in 0 .. m : L[k] = IF k = 0 THEN 0 ELSE L[k - 1] * B + d(k)
      BY <1>9
    <2>2. 0 \in 0 .. m /\ \A k \in 1 .. m : k \in 0 .. m /\ k # 0
      BY <1>1
    <2> QED
      BY <2>1, <2>2
  <1>11. \A k \in 0 .. m : L[k] \in Nat
    <2> DEFINE T == {k \in 0 .. m : L[k] \notin Nat}
    <2> SUFFICES ASSUME T # {} PROVE FALSE
      OBVIOUS
    <2>1. PICK k \in T : \A y \in T : k <= y
      <3>1. T \in SUBSET Nat
        BY <1>1
      <3> HIDE DEF T
      <3> QED
        BY <3>1, LeastNat
    <2>2. k \in 0 .. m /\ L[k] \notin Nat
      BY <2>1
    <2>6. k # 0
      BY <1>10, <2>2
    <2>3. k \in 1 .. m /\ k - 1 \in 0 .. m /\ ~(k <= k - 1)
      BY <1>1, <2>2, <2>6
    <2>4. L[k - 1] \in Nat
      BY <2>1, <2>3
    <2>5. L[k - 1] * B + d(k) \in Nat
      <3>1. d(k) \in Nat
        BY <1>2, <2>3
      <3>2. \A x, y, z \in Nat : x * y + z \in Nat
        OBVIOUS
      <3> QED
        BY <1>1, <2>4, <3>1, <3>2
    <2> QED
      BY <1>10, <2>2, <2>3, <2>5
  <1> QED
    BY <1>10, <1>11 DEF L, m, B, d

\* A digit that the test of cutoff and cutlim rejects would leave the limit.
LEMMA CutoffRejects ==
  ASSUME NEW limit \in Nat, NEW radix \in 2 .. 36, NEW a \in Nat, NEW d \in Nat,
         a > limit \div radix \/ (a = limit \div radix /\ d > limit % radix)
  PROVE  a * radix + d > limit
  <1> DEFINE q == limit \div radix
             r == limit % radix
  <1>1. q \in Nat /\ r \in 0 .. radix - 1 /\ limit = radix * q + r
    BY SMT
  <1> HIDE DEF q, r
  <1>2. CASE a = q /\ d > r
    <2>1. a * radix = radix * q /\ a * radix \in Nat
      BY <1>1, <1>2, SMT
    <2> QED
      BY <1>1, <1>2, <2>1, SMT
  <1>3. CASE a > q
    <2>1. a * radix >= (q + 1) * radix
      BY <1>1, <1>3, SMT
    <2>2. (q + 1) * radix = radix * q + radix
      BY <1>1, SMT
    <2>3. a * radix \in Nat /\ radix * q \in Nat
      BY <1>1, SMT
    <2> QED
      BY <1>1, <2>1, <2>2, <2>3, SMT
  <1> QED
    BY <1>2, <1>3 DEF q, r

\* While spaces are skipped: all characters so far are spaces, nothing is read.
SpaceInv ==
  /\ s \in Nat /\ s - 1 \in 1 .. Len(parse.str) + 1
  /\ c = CharAt(parse.str, s - 1)
  /\ \A j \in 1 .. s - 2 : CharAt(parse.str, j) = SPACE
  /\ acc = 0 /\ any = 0 /\ base = parse.base

\* While digits are scanned: sign and base are the numeral's, all characters
\* since its first digit are digits, and the accumulator is what they stand for
\* unless that is past the limit.
DigitsInv ==
  /\ s \in Nat /\ From(parse) \in Nat
  /\ s - 1 \in From(parse) .. Len(parse.str) + 1
  /\ c = CharAt(parse.str, s - 1)
  /\ neg <=> Minus(parse)
  /\ base = BaseOf(parse)
  /\ \A j \in From(parse) .. s - 2 : DigitAt(parse, j)
  /\ any = 0 <=> s - 1 = From(parse)
  /\ any # -1 => acc = Leading(parse)[s - 1 - From(parse)]
  /\ any = -1 => Leading(parse)[s - 1 - From(parse)] > Limit(parse.fn, neg)

\* Both, and the result once it is there.
ParsedInv ==
  /\ CallOK(parse)
  /\ spc = "space" => SpaceInv
  /\ spc = "digits" => DigitsInv
  /\ NumbersParsed

\* A space more is skipped.
LEMMA SkipKeepsParsed ==
  ASSUME PInv, ParsedInv, SkipSpace
  PROVE  ParsedInv'
  <1> DEFINE str == parse.str
  <1>1. SpaceInv /\ CallOK(parse) /\ c = SPACE /\ spc' = "space" /\ parse' = parse
        /\ c' = CharAt(str, s) /\ s' = s + 1
        /\ acc' = acc /\ any' = any /\ base' = base
    BY DEF SkipSpace, ParsedInv, At
  <1>2. s - 1 \in 1 .. Len(str) /\ Len(str) \in Nat /\ s \in Nat
    BY <1>1, NulChar, InString DEF SpaceInv, CallOK
  <1>3. s' - 1 = s /\ s' - 2 = s - 1 /\ s \in 1 .. Len(str) + 1 /\ s' \in Nat
    BY <1>1, <1>2
  <1>4. \A j \in 1 .. s - 1 : CharAt(str, j) = SPACE
    <2> SUFFICES ASSUME NEW j \in 1 .. s - 1 PROVE CharAt(str, j) = SPACE
      OBVIOUS
    <2>1. j \in 1 .. s - 2 \/ j = s - 1
      BY <1>2
    <2> QED
      BY <1>1, <2>1 DEF SpaceInv
  <1>5. SpaceInv'
    BY <1>1, <1>3, <1>4 DEF SpaceInv
  <1> QED
    BY <1>1, <1>5 DEF ParsedInv, NumbersParsed

\* Sign, prefix and base are read where the numeral has them.
LEMMA PrefixKeepsParsed ==
  ASSUME PInv, ParsedInv, Prefix
  PROVE  ParsedInv'
  <1> DEFINE str == parse.str
             E == Len(str) + 1
             minus == c = "-" /\ parse.fn.signed
             sign == minus \/ c = "+"
             c1 == IF sign THEN At(s) ELSE c
             s1 == IF sign THEN s + 1 ELSE s
             hex == base \in {0, 16} /\ c1 = "0" /\ At(s1) \in {"x", "X"}
  <1>1. /\ SpaceInv /\ CallOK(parse) /\ c # SPACE /\ spc' = "digits" /\ parse' = parse
        /\ acc' = acc /\ any' = any
    BY DEF Prefix, ParsedInv
  <1>2. /\ neg' = minus
        /\ c' = IF hex THEN At(s1 + 1) ELSE c1
        /\ s' = IF hex THEN s1 + 2 ELSE s1
        /\ base' = IF hex THEN 16
                   ELSE IF base # 0 THEN base ELSE IF c1 = "0" THEN 8 ELSE 10
    BY DEF Prefix
  <1>3. /\ s \in Nat /\ s - 1 \in 1 .. E /\ Len(str) \in Nat /\ c = CharAt(str, s - 1)
        /\ str \in Seq(STRING) /\ base = parse.base /\ base \in {0} \cup 2 .. 36
        /\ acc = 0 /\ any = 0
    BY <1>1 DEF SpaceInv, CallOK
  <1>4. First(parse) = s - 1
    <2>1. \A j \in 1 .. (s - 1) - 1 : CharAt(str, j) = SPACE
      <3>1. (s - 1) - 1 = s - 2
        BY <1>3
      <3> QED
        BY <1>1, <3>1 DEF SpaceInv
    <2> QED
      BY <1>1, <1>3, <2>1, FirstIs
  <1>5. (Minus(parse) <=> minus) /\ Start(parse) = s1 - 1
    <2>1. Minus(parse) <=> minus
      BY <1>3, <1>4 DEF Minus
    <2>2. Start(parse) = IF sign THEN (s - 1) + 1 ELSE s - 1
      BY <1>3, <1>4, <2>1 DEF Start
    <2> QED
      BY <1>3, <2>1, <2>2
  <1>6. s1 \in Nat /\ s1 - 1 \in 1 .. E /\ c1 = CharAt(str, s1 - 1)
    <2>1. CASE sign
      <3>1. c # NUL
        BY <2>1, NulChar
      <3>2. s - 1 \in 1 .. Len(str)
        BY <1>3, <3>1, InString
      <3> QED
        BY <1>3, <2>1, <3>2 DEF At
    <2>2. CASE ~sign
      BY <1>3, <2>2
    <2> QED
      BY <2>1, <2>2
  <1> HIDE DEF minus, sign, c1, s1
  <1>7. Hex(parse) <=> hex
    <2>1. (s1 - 1) + 1 = s1
      BY <1>6
    <2> QED
      BY <1>3, <1>5, <1>6, <2>1 DEF Hex, At
  <1> HIDE DEF hex
  <1>8. From(parse) = s' - 1 /\ s' \in Nat /\ From(parse) \in Nat
    BY <1>2, <1>5, <1>6, <1>7 DEF From
  <1>9. From(parse) \in 1 .. E /\ c' = CharAt(str, s' - 1)
    <2>1. CASE hex
      <3>1. At(s1) # NUL
        BY <2>1, NulChar DEF hex
      <3>2. s1 \in 1 .. Len(str)
        BY <1>3, <3>1, InString DEF At
      <3>3. s' = s1 + 2 /\ s' - 1 = s1 + 1
        BY <1>2, <1>6, <2>1
      <3> QED
        BY <1>2, <1>3, <1>8, <2>1, <3>2, <3>3 DEF At
    <2>2. CASE ~hex
      BY <1>2, <1>6, <1>8, <2>2
    <2> QED
      BY <2>1, <2>2
  <1>10. base' = BaseOf(parse) /\ BaseOf(parse) \in Nat
    <2>1. parse.base > 0 <=> base # 0
      <3>1. \A b \in {0} \cup 2 .. 36 : b > 0 <=> b # 0
        OBVIOUS
      <3> QED
        BY <1>3, <3>1
    <2>2. CASE hex
      BY <1>2, <1>7, <2>2 DEF BaseOf
    <2>3. CASE ~hex /\ base # 0
      <3>1. BaseOf(parse) = parse.base
        BY <1>7, <2>1, <2>3 DEF BaseOf
      <3>2. base' = base /\ base = parse.base /\ base \in {0} \cup 2 .. 36
        BY <1>2, <1>3, <2>3
      <3>3. \A b \in {0} \cup 2 .. 36 : b \in Nat
        OBVIOUS
      <3> QED
        BY <3>1, <3>2, <3>3
    <2>4. CASE ~hex /\ base = 0
      <3>1. BaseOf(parse) = IF c1 = "0" THEN 8 ELSE 10
        BY <1>5, <1>6, <1>7, <2>1, <2>4 DEF BaseOf
      <3>2. base' = IF c1 = "0" THEN 8 ELSE 10
        BY <1>2, <2>4
      <3> QED
        BY <3>1, <3>2
    <2> QED
      BY <2>2, <2>3, <2>4
  <1>11. Leading(parse)[0] = 0
    <2>1. From(parse) <= Len(str) + 1
      BY <1>3, <1>9
    <2> QED
      BY <1>1, <1>8, <1>10, <2>1, LeadingFacts
  <1>12. neg' <=> Minus(parse)
    BY <1>2, <1>5
  <1>13. s' - 1 - From(parse) = 0 /\ s' - 2 = From(parse) - 1
         /\ s' - 1 \in From(parse) .. E
    <2>1. E \in Nat
      BY <1>3
    <2> HIDE DEF E
    <2>2. \A f, t \in Nat : f = t - 1 /\ f \in 1 .. E
            => t - 1 - f = 0 /\ t - 2 = f - 1 /\ t - 1 \in f .. E
      BY <2>1
    <2> QED
      BY <1>8, <1>9, <2>2
  <1>14. \A j \in From(parse) .. s' - 2 : DigitAt(parse, j)
    <2>1. \A f \in Nat : f .. (f - 1) = {}
      OBVIOUS
    <2> QED
      BY <1>8, <1>13, <2>1
  <1>15. any' = 0 /\ any' # -1 /\ acc' = 0
    BY <1>1, <1>3
  <1>16. DigitsInv'
    BY <1>1, <1>8, <1>9, <1>10, <1>11, <1>12, <1>13, <1>14, <1>15 DEF DigitsInv
  <1> QED
    BY <1>1, <1>16 DEF ParsedInv, NumbersParsed

\* A digit more is added, or found to be too much.
LEMMA ScanKeepsParsed ==
  ASSUME PInv, ParsedInv, ScanDigit
  PROVE  ParsedInv'
  <1> DEFINE str == parse.str
             F == From(parse)
             B == BaseOf(parse)
             L == Leading(parse)
             k == s - 1 - F
             limit == Limit(parse.fn, neg)
             d == Digit[c]
  <1>1. /\ DigitsInv /\ CallOK(parse) /\ IsDigit /\ spc = "digits"
        /\ parse' = parse /\ spc' = spc /\ neg' = neg /\ base' = base
        /\ c' = CharAt(str, s) /\ s' = s + 1
    BY DEF ScanDigit, ParsedInv, At
  <1>2. /\ s \in Nat /\ F \in Nat /\ s - 1 \in F .. Len(str) + 1
        /\ c = CharAt(str, s - 1) /\ base = B
    BY <1>1 DEF DigitsInv
  <1>3. /\ parse.fn \in Parsers /\ base \in 2 .. 36 /\ acc \in Nat /\ neg \in BOOLEAN
        /\ any \in {-1, 0, 1}
    BY <1>1 DEF PInv, LocalsOK, AccumulatorFits
  <1>4. limit \in Nat /\ d \in Nat
    BY <1>1, <1>3, ParserTypes, DigitValues DEF IsDigit
  <1>5. str \in Seq(STRING) /\ Len(str) \in Nat
    BY <1>1 DEF CallOK
  <1>6. DigitAt(parse, s - 1)
    BY <1>1, <1>2 DEF DigitAt, IsDigit
  <1>7. s - 1 \in 1 .. Len(str)
    BY <1>1, <1>2, <1>5, InString, NulChar DEF IsDigit
  <1>8. s \in F .. Len(str) + 1 /\ s # F /\ s' - 1 = s /\ s' - 2 = s - 1 /\ s' \in Nat
    <2>1. \A a, b, l, t \in Nat :
            a - 1 \in b .. l + 1 /\ a - 1 \in 1 .. l /\ t = a + 1
              => a \in b .. l + 1 /\ a # b /\ t - 1 = a /\ t - 2 = a - 1
      OBVIOUS
    <2>2. s' \in Nat
      BY <1>1, <1>2
    <2> QED
      BY <1>1, <1>2, <1>5, <1>7, <2>1, <2>2
  <1>9. \A j \in F .. s - 1 : DigitAt(parse, j)
    <2>1. \A a, b \in Nat : \A j \in b .. a - 1 : j \in b .. a - 2 \/ j = a - 1
      OBVIOUS
    <2> QED
      BY <1>1, <1>2, <1>6, <2>1 DEF DigitsInv
  <1>10. s <= To(parse) /\ To(parse) \in Nat
    <2>1. F <= Len(str) + 1
      BY <1>2, <1>5
    <2>2. To(parse) \in F .. Len(str) + 1
      BY <1>1, <1>2, <2>1, ToFacts
    <2>3. s <= To(parse)
      BY <1>1, <1>2, <1>8, <1>9, ToIs
    <2> QED
      BY <1>2, <1>5, <2>2, <2>3
  <1>11. k \in 0 .. To(parse) - F /\ s - F \in 1 .. To(parse) - F
         /\ (s - F) - 1 = k /\ F + (s - F) - 1 = s - 1
    <2>1. \A a, b, t \in Nat : a - 1 >= b /\ a <= t
            => /\ a - 1 - b \in 0 .. t - b /\ a - b \in 1 .. t - b
               /\ (a - b) - 1 = a - 1 - b /\ b + (a - b) - 1 = a - 1
      OBVIOUS
    <2>2. s - 1 >= F
      BY <1>2, <1>5
    <2> QED
      BY <1>2, <1>10, <2>1, <2>2
  <1>12. L[k] \in Nat /\ L[s - F] = L[k] * B + d
    <2>1. F <= Len(str) + 1 /\ B \in Nat
      <3>1. F <= Len(str) + 1
        BY <1>2, <1>5
      <3>2. \A x \in 2 .. 36 : x \in Nat
        OBVIOUS
      <3> QED
        BY <1>2, <1>3, <3>1, <3>2
    <2>2. /\ \A j \in 0 .. To(parse) - F : L[j] \in Nat
          /\ \A j \in 1 .. To(parse) - F :
               L[j] = L[j - 1] * B + Digit[CharAt(str, F + j - 1)]
      BY <1>1, <1>2, <2>1, LeadingFacts
    <2>3. L[s - F] = L[(s - F) - 1] * B + Digit[CharAt(str, F + (s - F) - 1)]
      BY <1>11, <2>2
    <2> QED
      BY <1>2, <1>11, <2>2, <2>3
  <1>13. /\ any # -1 => acc = L[k]
         /\ any = -1 => L[k] > limit
    BY <1>1 DEF DigitsInv
  <1> DEFINE a == L[k]
             n == L[s - F]
  <1>14. a \in Nat /\ n = a * base + d /\ n \in Nat
    <2>1. \A x, y, z \in Nat : x * y + z \in Nat
      OBVIOUS
    <2>2. base \in Nat
      BY <1>3
    <2> QED
      BY <1>2, <1>4, <1>12, <2>1, <2>2
  <1> HIDE DEF a, n, L, limit, d
  <1>15. CASE TooBig
    <2>1. any' = -1
      BY <1>3, <1>15 DEF ScanDigit
    <2>2. n > limit
      <3>1. CASE any = -1
        <4>1. a > limit
          BY <1>13, <3>1 DEF a
        <4>2. \A x \in Nat, y \in 2 .. 36 : x * y >= x /\ x * y \in Nat
          OBVIOUS
        <4>3. a * base >= a /\ a * base \in Nat
          BY <1>3, <1>14, <4>2
        <4> QED
          BY <1>4, <1>14, <4>1, <4>3
      <3>2. CASE any # -1
        <4>1. acc = a
          BY <1>13, <3>2 DEF a
        <4>2. ~(any < 0)
          BY <1>3, <3>2
        <4>3. acc > limit \div base \/ (acc = limit \div base /\ d > limit % base)
          BY <1>15, <4>2 DEF TooBig, cutoff, cutlim, limit, d
        <4>4. a > limit \div base \/ (a = limit \div base /\ d > limit % base)
          BY <4>1, <4>3
        <4>5. a * base + d > limit
          BY <1>3, <1>4, <1>14, <4>4, CutoffRejects
        <4> QED
          BY <1>14, <4>5
      <3> QED
        BY <3>1, <3>2
    <2>3. n > Limit(parse.fn, neg)
      BY <2>2 DEF limit
    <2>4. DigitsInv'
      BY <1>1, <1>2, <1>8, <1>9, <2>1, <2>3 DEF DigitsInv, n, L
    <2> QED
      BY <1>1, <2>4 DEF ParsedInv, NumbersParsed
  <1>16. CASE ~TooBig
    <2>1. any' = 1 /\ acc' = acc * base + d
      BY <1>16 DEF ScanDigit, d
    <2>2. any # -1
      BY <1>16 DEF TooBig
    <2>3. acc' = n
      BY <1>13, <1>14, <2>1, <2>2 DEF a
    <2>4. DigitsInv'
      BY <1>1, <1>2, <1>8, <1>9, <2>1, <2>3 DEF DigitsInv, n, L
    <2> QED
      BY <1>1, <2>4 DEF ParsedInv, NumbersParsed
  <1> QED
    BY <1>15, <1>16

\* The value returned is the numeral's.
LEMMA FinishKeepsParsed ==
  ASSUME PInv, ParsedInv, Finish
  PROVE  ParsedInv'
  <1> DEFINE str == parse.str
             F == From(parse)
             L == Leading(parse)
             k == s - 1 - F
             fn == parse.fn
             n == L[k]
             exact == IF Minus(parse) THEN -n ELSE n
             val == IF exact > Highest(fn) THEN Highest(fn)
                    ELSE IF exact < Lowest(fn) THEN Lowest(fn) ELSE exact
  <1>1. /\ DigitsInv /\ CallOK(parse) /\ ~IsDigit /\ spc' = "done" /\ parse' = parse
        /\ result' = [val |-> Value, endptr |-> IF any # 0 THEN s - 1 ELSE 1]
    BY DEF Finish, ParsedInv
  <1>2. /\ s \in Nat /\ F \in Nat /\ s - 1 \in F .. Len(str) + 1
        /\ c = CharAt(str, s - 1) /\ base = BaseOf(parse)
        /\ \A j \in F .. s - 2 : DigitAt(parse, j)
    BY <1>1 DEF DigitsInv
  <1>3. /\ fn \in Parsers /\ base \in 2 .. 36 /\ neg \in BOOLEAN
        /\ any \in {-1, 0, 1} /\ acc \in Nat /\ acc <= Limit(fn, neg)
        /\ (neg => fn.signed)
    BY <1>1 DEF PInv, LocalsOK, AccumulatorFits, Finish
  <1>4. Len(str) \in Nat
    BY <1>1 DEF CallOK
  <1>5. To(parse) = s - 1
    <2>1. ~DigitAt(parse, s - 1)
      BY <1>1, <1>2 DEF DigitAt, IsDigit
    <2>2. \A j \in F .. (s - 1) - 1 : DigitAt(parse, j)
      <3>1. \A a \in Nat : (a - 1) - 1 = a - 2
        OBVIOUS
      <3> QED
        BY <1>2, <3>1
    <2> QED
      BY <1>1, <1>2, <2>1, <2>2, ToIs
  <1>6. k \in Nat /\ (k = 0 <=> any = 0)
    <2>1. \A a, b, l \in Nat : a - 1 \in b .. l + 1
            => a - 1 - b \in Nat /\ (a - 1 - b = 0 <=> a - 1 = b)
      OBVIOUS
    <2>2. k \in Nat /\ (k = 0 <=> s - 1 = F)
      BY <1>2, <1>4, <2>1
    <2> QED
      BY <1>1, <2>2 DEF DigitsInv
  <1>7. n \in Nat
    <2>1. F <= Len(str) + 1
      BY <1>2, <1>4
    <2>2. \A x \in 2 .. 36 : x \in Nat
      OBVIOUS
    <2>3. BaseOf(parse) \in Nat
      BY <1>2, <1>3, <2>2
    <2>4. \A j \in 0 .. To(parse) - F : L[j] \in Nat
      BY <1>1, <1>2, <2>1, <2>3, LeadingFacts
    <2>5. To(parse) - F = k
      BY <1>5
    <2>6. k \in 0 .. k
      BY <1>6
    <2> QED
      BY <2>4, <2>5, <2>6
  <1>8. /\ neg <=> Minus(parse)
        /\ any # -1 => acc = n
        /\ any = -1 => n > Limit(fn, neg)
    BY <1>1 DEF DigitsInv
  <1>9. Numeral(parse) = [val |-> val, endptr |-> IF k = 0 THEN 1 ELSE s - 1]
    BY <1>5 DEF Numeral, Saturated
  <1>10. /\ fn.umax \in Nat /\ fn.signed \in BOOLEAN
         /\ SMAX(fn) \in Nat /\ fn.umax = 2 * SMAX(fn) + 1
    BY <1>3, ParserTypes
  <1>11. Value = IF any < 0 THEN (IF neg THEN Lowest(fn) ELSE Highest(fn))
                 ELSE IF neg THEN -acc ELSE acc
    BY ValueIs
  <1> HIDE DEF n, fn
  <1>12. Value = val
    <2>1. CASE any = -1 /\ neg
      <3>1. n > SMAX(fn) + 1 /\ fn.signed
        BY <1>3, <1>8, <2>1 DEF Limit
      <3>2. exact = -n /\ Value = -(SMAX(fn)) - 1
        BY <1>8, <1>11, <2>1, <3>1 DEF Lowest
      <3>3. Highest(fn) = SMAX(fn) /\ Lowest(fn) = -(SMAX(fn)) - 1
        BY <3>1 DEF Highest, Lowest
      <3> HIDE DEF exact
      <3> QED
        BY <1>7, <1>10, <3>1, <3>2, <3>3
    <2>2. CASE any = -1 /\ ~neg
      <3>1. n > Highest(fn) /\ Value = Highest(fn)
        BY <1>8, <1>10, <1>11, <2>2 DEF Limit, Highest
      <3>2. exact = n
        BY <1>8, <2>2
      <3> HIDE DEF exact
      <3> QED
        BY <3>1, <3>2
    <2>3. CASE any # -1 /\ neg
      <3>1. n <= SMAX(fn) + 1 /\ fn.signed
        BY <1>3, <1>8, <2>3 DEF Limit
      <3>2. exact = -n /\ Value = -n
        <4>1. ~(any < 0)
          BY <1>3, <2>3
        <4> QED
          BY <1>8, <1>11, <2>3, <4>1
      <3>3. Highest(fn) = SMAX(fn) /\ Lowest(fn) = -(SMAX(fn)) - 1
        BY <3>1 DEF Highest, Lowest
      <3> HIDE DEF exact
      <3> QED
        BY <1>7, <1>10, <3>1, <3>2, <3>3
    <2>4. CASE any # -1 /\ ~neg
      <3>1. n <= Highest(fn) /\ Highest(fn) \in Nat
        BY <1>3, <1>8, <1>10, <2>4 DEF Limit, Highest
      <3>2. exact = n /\ Value = n
        <4>1. ~(any < 0)
          BY <1>3, <2>4
        <4> QED
          BY <1>8, <1>11, <2>4, <4>1
      <3>3. Lowest(fn) <= 0 /\ Lowest(fn) \in Int
        BY <1>10 DEF Lowest
      <3> HIDE DEF exact
      <3> QED
        BY <1>7, <3>1, <3>2, <3>3
    <2> QED
      BY <1>3, <2>1, <2>2, <2>3, <2>4
  <1>13. result' = Numeral(parse)
    BY <1>1, <1>6, <1>9, <1>12
  <1> QED
    BY <1>1, <1>13 DEF ParsedInv, NumbersParsed

\* A new call starts at its first character.
LEMMA CallKeepsParsed ==
  ASSUME NEW call, CallOK(call), StrtolCall(call)
  PROVE  ParsedInv'
  <1>1. CallOK(call)
    OBVIOUS
  <1>2. /\ parse' = call /\ spc' = "space" /\ s' = 2
        /\ c' = IF call.str = <<>> THEN NUL ELSE call.str[1]
        /\ base' = call.base /\ acc' = 0 /\ any' = 0
    BY DEF StrtolCall
  <1>3. c' = CharAt(call.str, 1) /\ 1 \in 1 .. Len(call.str) + 1
    <2>1. call.str \in Seq(STRING)
      BY <1>1 DEF CallOK
    <2>2. Len(call.str) \in Nat /\ (call.str = <<>> <=> Len(call.str) = 0)
      BY <2>1
    <2>3. 1 \in 1 .. Len(call.str) + 1 /\ (1 \in 1 .. Len(call.str) <=> Len(call.str) # 0)
      BY <2>2
    <2> QED
      BY <1>2, <2>2, <2>3 DEF CharAt
  <1>4. s' \in Nat /\ s' - 1 = 1 /\ 1 .. s' - 2 = {}
    BY <1>2
  <1>5. SpaceInv'
    BY <1>2, <1>3, <1>4 DEF SpaceInv
  <1> QED
    BY <1>1, <1>2, <1>5 DEF ParsedInv, NumbersParsed

\* No call is running.
LEMMA IdleParsed == parse = NoParse /\ spc = "idle" => ParsedInv
  <1>1. CallOK(NoParse)
    <2>1. NoParse.fn = strtol /\ NoParse.base = 10 /\ NoParse.str = <<>>
      BY DEF NoParse, atoi
    <2>2. <<>> \in Seq(STRING) /\ 10 \in 2 .. 36
      OBVIOUS
    <2> QED
      BY <2>1, <2>2 DEF CallOK, Parsers
  <1> QED
    BY <1>1 DEF ParsedInv, NumbersParsed

\* Every step of a parser keeps what it has read so far.
LEMMA ParsedStep == PInv /\ ParsedInv /\ [PNext]_parsevars => ParsedInv'
  <1> SUFFICES ASSUME PInv, ParsedInv, [PNext]_parsevars PROVE ParsedInv'
    OBVIOUS
  <1>1. ASSUME NEW call \in PARSES, StrtolCall(call) PROVE ParsedInv'
    BY <1>1, CallKeepsParsed, StrtolAssumption DEF CallOK
  <1>2. CASE SkipSpace
    BY <1>2, SkipKeepsParsed
  <1>3. CASE Prefix
    BY <1>3, PrefixKeepsParsed
  <1>4. CASE ScanDigit
    BY <1>4, ScanKeepsParsed
  <1>5. CASE Finish
    BY <1>5, FinishKeepsParsed
  <1>6. CASE StrtolReturn
    <2>1. (parse = NoParse /\ spc = "idle")'
      BY <1>6 DEF StrtolReturn
    <2> QED
      BY <2>1, IdleParsed, PTL
  <1>7. CASE UNCHANGED parsevars
    BY <1>7 DEF parsevars, ParsedInv, SpaceInv, DigitsInv, NumbersParsed
  <1> QED
    BY <1>1, <1>2, <1>3, <1>4, <1>5, <1>6, <1>7 DEF PNext, StrtolStep

\* For every width of the types, every string and every base, a parser returns
\* the number its string begins with, moved to the nearest end of the type when
\* it does not fit, and where that number ends.
THEOREM ParsersCorrect == PSpec => []NumbersParsed
  <1>1. PInit => ParsedInv
    BY IdleParsed DEF PInit
  <1>2. ParsedInv => NumbersParsed
    BY DEF ParsedInv
  <1> QED
    BY <1>1, <1>2, PInvInit, PInvStep, ParsedStep, PTL DEF PSpec

-----------------------------------------------------------------------------
(***************************************************************************)
(* The builtins that use the parsers                                       *)
(*                                                                         *)
(* hexdump and info are followed from word to word: which word is being    *)
(* parsed, what the words before it said, and how much of the dump is on   *)
(* the screen.                                                             *)
(***************************************************************************)

\* The parts of DumpsWhatWasAsked, each with a name.
Dump == Is(1, "hexdump") /\ argc >= 3
Bitmap == Is(1, "info") /\ argc >= 3 /\ Is(2, "buddy")
GoodDump == WellFormed(strtoul, 2) /\ WellFormed(strtoul, 3)
GoodBitmap == WellFormed(strtol, 3) /\ InRange(Word(strtol, 3).val)
DumpFrom == Word(strtoul, 2).val
Bits == BITMAPS[Word(strtol, 3).val + 1]

RightByte(cell, i) ==
  DumpAddr(i) \in MAPPED /\ cell = [at |-> DumpAddr(i), hex |-> MEMORY[DumpAddr(i)]]
RightBit(cell, i) == cell = [at |-> i, val |-> Bits[i]]

\* What a builtin that has returned has done, case by case.
Asked ==
  /\ argv[1] \in {<<"color">>, <<"hexdump">>, <<"info">>}
  /\ ~Is(1, "color") => color = before
  /\ Dump => status = IF GoodDump THEN 0 ELSE -1
  /\ Bitmap => status = IF GoodBitmap THEN 0 ELSE -1
  /\ Dump /\ GoodDump =>
       Len(shown) = Word(strtoul, 3).val /\ \A i \in 1 .. Len(shown) : RightByte(shown[i], i)
  /\ Bitmap /\ GoodBitmap =>
       Len(shown) = Len(Bits) /\ \A i \in 1 .. Len(shown) : RightBit(shown[i], i)
  /\ ~(Dump /\ GoodDump) /\ ~(Bitmap /\ GoodBitmap) => shown = <<>>

\* What hexdump has done when a byte stopped the machine.
Halted ==
  /\ Dump /\ GoodDump /\ Len(shown) < Word(strtoul, 3).val
  /\ \A i \in 1 .. Len(shown) : RightByte(shown[i], i)
  /\ DumpAddr(Len(shown) + 1) \notin MAPPED

\* The cases are those of the property.
LEMMA AskedIsShown ==
  ASSUME bpc = "returned" => Asked, bpc = "halted" => Halted
  PROVE  DumpsWhatWasAsked
  <1>1. ~(Dump /\ Bitmap)
    BY DEF Dump, Bitmap, Is
  <1>2. (\A i \in 1 .. Len(shown) : RightByte(shown[i], i)) <=> BytesRight
    BY DEF RightByte, BytesRight
  <1>3. /\ (\A i \in 1 .. Len(shown) : RightBit(shown[i], i))
        <=> \A i \in 1 .. Len(shown) : shown[i] = [at |-> i, val |-> Bits[i]]
    BY DEF RightBit
  <1> DEFINE gooddump == Dump /\ GoodDump
             goodbitmap == Bitmap /\ GoodBitmap
  <1>4. bpc = "returned" =>
          /\ ~Is(1, "color") => color = before
          /\ Dump \/ Bitmap => status = IF gooddump \/ goodbitmap THEN 0 ELSE -1
          /\ gooddump => Len(shown) = Word(strtoul, 3).val /\ BytesRight
          /\ goodbitmap =>
               /\ Len(shown) = Len(Bits)
               /\ \A i \in 1 .. Len(shown) : shown[i] = [at |-> i, val |-> Bits[i]]
          /\ ~gooddump /\ ~goodbitmap => shown = <<>>
    BY <1>1, <1>2, <1>3 DEF Asked
  <1>5. bpc = "halted" =>
          /\ gooddump /\ Len(shown) < Word(strtoul, 3).val /\ BytesRight
          /\ DumpAddr(Len(shown) + 1) \notin MAPPED
    BY <1>2 DEF Halted
  <1> QED
    BY <1>4, <1>5, Zenon DEF DumpsWhatWasAsked, Dump, Bitmap, GoodDump, GoodBitmap, Bits

\* The colour hexdump works in.
LEMMA ColourIs == Colour("black") = 0 /\ Colour("white") = 15
  <1>1. \A i \in 1 .. 16 : /\ Colours[i] = "black" <=> i = 1
                           /\ Colours[i] = "white" <=> i = 16
    BY DEF Colours
  <1>2. (CHOOSE i \in 1 .. 16 : Colours[i] = "black") = 1
    BY <1>1
  <1>3. (CHOOSE i \in 1 .. 16 : Colours[i] = "white") = 16
    BY <1>1
  <1> QED
    BY <1>2, <1>3 DEF Colour

LEMMA DumpColours ==
  /\ sb_set_fg(SB_DFL_COLOR, Colour("white")) = 15
  /\ sb_set_fg(15, Colour("white")) = Colour("white")
  BY ColourIs DEF sb_set_fg, SB_DFL_COLOR

-----------------------------------------------------------------------------
\* Where a builtin parses the word i of its line.
WordCall(fn, i) == [fn |-> fn, str |-> argv[i], base |-> 0]

\* The result of a parser ends within its string.
EndInv == spc = "done" => result.endptr \in 1 .. Len(parse.str) + 1
ParserInv == PInv /\ ParsedInv /\ EndInv

\* Nothing shown yet, and the screen as it was.
Untouched == color = before /\ shown = <<>>

\* The bytes shown so far: those from the address on, and what is left of them.
HexCells == [at : Int, hex : 0 .. 255]
DumpSoFar ==
  /\ shown \in Seq(HexCells) /\ left \in Nat
  /\ Len(shown) + left = Word(strtoul, 3).val
  /\ addr = (DumpFrom + Len(shown)) % (ULONG_MAX + 1)
  /\ DumpFrom \in Nat
  /\ \A i \in 1 .. Len(shown) : RightByte(shown[i], i)

BitCells == [at : Nat, val : 0 .. 255]
BitsSoFar ==
  /\ shown \in Seq(BitCells) /\ left \in Nat
  /\ Len(shown) + left = Len(Bits)
  /\ addr = Word(strtol, 3).val
  /\ \A i \in 1 .. Len(shown) : RightBit(shown[i], i)

\* What is known at each place of the builtins.
StartInv == bpc \in {"color", "hexdump", "info"} => argv[1] = <<bpc>> /\ Untouched
AddrInv == bpc = "addr" => Dump /\ parse = WordCall(strtoul, 2) /\ Untouched
SizeInv == bpc = "size" => /\ Dump /\ parse = WordCall(strtoul, 3) /\ Untouched
                           /\ WellFormed(strtoul, 2)
                           /\ addr = DumpFrom /\ addr \in 0 .. ULONG_MAX
LinesInv == bpc = "lines" => Dump /\ GoodDump /\ color = 15 /\ DumpSoFar
OrderInv == bpc = "order" => Bitmap /\ parse = WordCall(strtol, 3) /\ Untouched
BitmapInv == bpc = "bitmap" => Bitmap /\ GoodBitmap /\ color = before /\ BitsSoFar
PlacesInv ==
  /\ bpc \in {"idle", "color", "hexdump", "info", "addr", "size", "lines",
              "order", "bitmap", "returned", "halted"}
  /\ bpc # "idle" => argv \in COMMANDS
  /\ Parsing <=> spc # "idle"
  /\ StartInv /\ AddrInv /\ SizeInv /\ LinesInv /\ OrderInv /\ BitmapInv
  /\ bpc = "returned" => Asked
  /\ bpc = "halted" => Halted

BuiltinInv == ParserInv /\ PlacesInv

-----------------------------------------------------------------------------
\* The words of a command line are C strings.
LEMMA WordsAreStrings ==
  ASSUME argv \in COMMANDS
  PROVE  /\ argv[1] \in {<<"color">>, <<"hexdump">>, <<"info">>}
         /\ argc \in Nat
         /\ \A i \in 1 .. argc : argv[i] \in Seq(STRING \ {NUL}) /\ argv[i] \in Seq(STRING)
  <1>1. /\ argv \in Seq(Seq(STRING \ {NUL}))
        /\ argv[1] \in {<<"color">>, <<"hexdump">>, <<"info">>}
    BY BuiltinsAssumption
  <1>2. ASSUME NEW w \in Seq(STRING \ {NUL}) PROVE w \in Seq(STRING)
    <2>1. Len(w) \in Nat /\ w \in [1 .. Len(w) -> STRING \ {NUL}]
      OBVIOUS
    <2>2. w \in [1 .. Len(w) -> STRING]
      BY <2>1
    <2> QED
      BY <2>1, <2>2
  <1> QED
    BY <1>1, <1>2 DEF argc

\* A call of a parser on a word.
LEMMA WordCallOK ==
  ASSUME argv \in COMMANDS, NEW i \in 1 .. argc, NEW fn \in Parsers
  PROVE  CallOK(WordCall(fn, i))
  <1>1. argv[i] \in Seq(STRING)
    BY WordsAreStrings
  <1> QED
    BY <1>1 DEF CallOK, WordCall

\* The parsers' invariant holds from call to call.
LEMMA ParserCalled ==
  ASSUME NEW call, CallOK(call), StrtolCall(call)
  PROVE  ParserInv' /\ spc' # "idle" /\ parse' = call
  <1>1. PInv' /\ ParsedInv'
    BY CallKeepsPInv, CallKeepsParsed
  <1>2. spc' = "space" /\ parse' = call
    BY DEF StrtolCall
  <1> QED
    BY <1>1, <1>2 DEF ParserInv, EndInv

LEMMA ParserReturned ==
  ASSUME ParserInv, StrtolReturn
  PROVE  ParserInv' /\ spc' = "idle"
  <1>1. PNext
    BY DEF PNext
  <1>2. PInv' /\ ParsedInv'
    BY <1>1, PInvStep, ParsedStep DEF ParserInv
  <1>3. spc' = "idle"
    BY DEF StrtolReturn
  <1> QED
    BY <1>2, <1>3 DEF ParserInv, EndInv

LEMMA ParserStays ==
  ASSUME ParserInv, UNCHANGED parsevars
  PROVE  ParserInv' /\ spc' = spc /\ parse' = parse
  <1>1. PInv' /\ ParsedInv'
    BY PInvStep, ParsedStep DEF ParserInv
  <1> QED
    BY <1>1 DEF ParserInv, EndInv, parsevars

LEMMA ParserSteps ==
  ASSUME ParserInv, StrtolStep
  PROVE  ParserInv' /\ spc # "idle" /\ spc' # "idle" /\ parse' = parse
  <1>1. PNext
    BY DEF PNext
  <1>2. PInv' /\ ParsedInv'
    BY <1>1, PInvStep, ParsedStep DEF ParserInv
  <1>3. CASE SkipSpace \/ Prefix \/ ScanDigit
    <2>1. parse' = parse /\ spc # "idle" /\ spc' \in {"space", "digits"}
      BY <1>3 DEF SkipSpace, Prefix, ScanDigit
    <2> QED
      BY <1>2, <2>1 DEF ParserInv, EndInv
  <1>4. CASE Finish
    <2>1. /\ parse' = parse /\ spc = "digits" /\ spc' = "done"
          /\ result'.endptr = IF any # 0 THEN s - 1 ELSE 1
      BY <1>4 DEF Finish
    <2>2. /\ s \in Nat /\ From(parse) \in Nat /\ s - 1 \in From(parse) .. Len(parse.str) + 1
          /\ any = 0 <=> s - 1 = From(parse)
      BY <2>1 DEF ParserInv, ParsedInv, DigitsInv
    <2>3. Len(parse.str) \in Nat
      BY DEF ParserInv, ParsedInv, CallOK
    <2>4. result'.endptr \in 1 .. Len(parse.str) + 1
      <3>1. CASE any = 0
        BY <2>1, <2>3, <3>1
      <3>2. CASE any # 0
        BY <2>1, <2>2, <2>3, <3>2
      <3> QED
        BY <3>1, <3>2
    <2> QED
      BY <1>2, <2>1, <2>4 DEF ParserInv, EndInv
  <1> QED
    BY <1>3, <1>4 DEF StrtolStep

\* A parser that is done has read the word, and *endptr tells whether all of it.
LEMMA WordRead ==
  ASSUME ParserInv, spc = "done", argv \in COMMANDS,
         NEW i \in 1 .. argc, NEW fn \in Parsers, parse = WordCall(fn, i)
  PROVE  /\ result = Word(fn, i)
         /\ Malformed <=> ~WellFormed(fn, i)
         /\ result.val \in Int /\ Lowest(fn) <= result.val /\ result.val <= Highest(fn)
  <1>1. result = Word(fn, i)
    BY DEF ParserInv, ParsedInv, NumbersParsed, Word, WordCall
  <1>2. parse.str = argv[i] /\ parse.fn = fn
    BY DEF WordCall
  <1>3. argv[i] \in Seq(STRING \ {NUL})
    BY WordsAreStrings
  <1>4. result.endptr \in 1 .. Len(argv[i]) + 1 /\ Len(argv[i]) \in Nat
    BY <1>2, <1>3 DEF ParserInv, EndInv
  <1>5. Malformed <=> CharAt(argv[i], result.endptr) # NUL
    BY <1>2 DEF Malformed, At
  <1>6. CASE result.endptr = Len(argv[i]) + 1
    <2>1. result.endptr \notin 1 .. Len(argv[i])
      BY <1>4, <1>6
    <2> QED
      BY <1>1, <1>2, <1>5, <1>6, <2>1 DEF CharAt, WellFormed, ParserInv, PInv, ResultFits
  <1>7. CASE result.endptr # Len(argv[i]) + 1
    <2>1. result.endptr \in 1 .. Len(argv[i])
      BY <1>4, <1>7
    <2>2. argv[i][result.endptr] # NUL
      BY <1>3, <2>1
    <2> QED
      BY <1>1, <1>2, <1>5, <1>7, <2>1, <2>2 DEF CharAt, WellFormed, ParserInv, PInv, ResultFits
  <1> QED
    BY <1>6, <1>7, <1>1

-----------------------------------------------------------------------------
\* What the line says does not change with the rest.
LEMMA SameLine ==
  ASSUME argv' = argv
  PROVE  /\ argc' = argc /\ (Dump' <=> Dump) /\ (Bitmap' <=> Bitmap)
         /\ (GoodDump' <=> GoodDump) /\ (GoodBitmap' <=> GoodBitmap)
         /\ DumpFrom' = DumpFrom /\ Bits' = Bits
         /\ \A i : DumpAddr(i)' = DumpAddr(i)
         /\ \A fn, i : /\ Word(fn, i)' = Word(fn, i)
                       /\ WellFormed(fn, i)' <=> WellFormed(fn, i)
                       /\ WordCall(fn, i)' = WordCall(fn, i)
         /\ \A cell, i : /\ RightByte(cell, i)' <=> RightByte(cell, i)
                         /\ RightBit(cell, i)' <=> RightBit(cell, i)
  <1>1. \A fn, i : /\ Word(fn, i)' = Word(fn, i)
                   /\ WordCall(fn, i)' = WordCall(fn, i)
    BY DEF Word, WordCall
  <1>2. \A fn, i : WellFormed(fn, i)' <=> WellFormed(fn, i)
    BY <1>1 DEF WellFormed
  <1>3. argc' = argc /\ (Dump' <=> Dump) /\ (Bitmap' <=> Bitmap)
    BY DEF argc, Dump, Bitmap, Is
  <1>4. (GoodDump' <=> GoodDump) /\ (GoodBitmap' <=> GoodBitmap) /\ DumpFrom' = DumpFrom
        /\ Bits' = Bits /\ (\A i : DumpAddr(i)' = DumpAddr(i))
    BY <1>1, <1>2 DEF GoodDump, GoodBitmap, DumpFrom, Bits, DumpAddr
  <1> QED
    BY <1>1, <1>2, <1>3, <1>4 DEF RightByte, RightBit

\* It is enough to know what holds at the place that is reached.
LEMMA OtherPlaces ==
  ASSUME bpc' \in {"idle", "color", "hexdump", "info", "addr", "size", "lines",
                   "order", "bitmap", "returned", "halted"},
         bpc' # "idle" => argv' \in COMMANDS,
         Parsing' <=> spc' # "idle",
         bpc' \in {"color", "hexdump", "info"} => StartInv',
         bpc' = "addr" => AddrInv', bpc' = "size" => SizeInv', bpc' = "lines" => LinesInv',
         bpc' = "order" => OrderInv', bpc' = "bitmap" => BitmapInv',
         bpc' = "returned" => Asked', bpc' = "halted" => Halted'
  PROVE  PlacesInv'
  BY DEF PlacesInv, StartInv, AddrInv, SizeInv, LinesInv, OrderInv, BitmapInv

\* A builtin that returns with nothing done.
LEMMA NothingShown ==
  ASSUME NEW st, argv \in COMMANDS, argv' = argv, before' = before, shown' = <<>>,
         Is(1, "color") \/ color' = before,
         ~(Dump /\ GoodDump), ~(Bitmap /\ GoodBitmap),
         Dump \/ Bitmap => st = -1, bpc' = "returned", status' = st, spc' = "idle"
  PROVE  PlacesInv'
  <1>1. argv[1] \in {<<"color">>, <<"hexdump">>, <<"info">>}
    BY WordsAreStrings
  <1>2. Is(1, "color")' <=> Is(1, "color")
    BY DEF Is
  <1>3. Asked'
    BY <1>1, <1>2, SameLine DEF Asked
  <1>4. ~Parsing'
    BY DEF Parsing
  <1> QED
    BY <1>3, <1>4, OtherPlaces

\* The first word says which builtin a line is for.
LEMMA Names ==
  ASSUME NEW word, argv[1] = <<word>>
  PROVE  /\ word = "color" => ~Dump /\ ~Bitmap /\ Is(1, "color")
         /\ word = "hexdump" => ~Bitmap /\ Is(1, "hexdump")
         /\ word = "info" => ~Dump /\ Is(1, "info")
  BY DEF Dump, Bitmap, Is

LEMMA RunKeeps ==
  ASSUME BuiltinInv, NEW words \in COMMANDS, NEW col \in COLORS, Run(words, col)
  PROVE  BuiltinInv'
  <1>1. /\ bpc = "idle" /\ argv' = words /\ bpc' = words[1][1] /\ color' = before'
        /\ shown' = <<>> /\ UNCHANGED parsevars
    BY DEF Run
  <1>2. words[1] \in {<<"color">>, <<"hexdump">>, <<"info">>}
    BY BuiltinsAssumption
  <1>3. bpc' \in {"color", "hexdump", "info"} /\ argv'[1] = <<bpc'>>
    BY <1>1, <1>2
  <1>4. ParserInv' /\ spc' = "idle"
    <2>1. spc = "idle"
      BY <1>1 DEF BuiltinInv, PlacesInv, Parsing
    <2> QED
      BY <1>1, <2>1, ParserStays DEF BuiltinInv
  <1>5. StartInv' /\ ~Parsing'
    BY <1>1, <1>3 DEF StartInv, Untouched, Parsing
  <1>6. PlacesInv'
    BY <1>1, <1>3, <1>4, <1>5, OtherPlaces
  <1> QED
    BY <1>4, <1>6 DEF BuiltinInv

\* color changes the colour, and shows nothing.
LEMMA ColorKeeps ==
  ASSUME BuiltinInv, color_builtin
  PROVE  BuiltinInv'
  <1>1. /\ bpc = "color" /\ argv' = argv /\ before' = before /\ shown' = shown
        /\ bpc' = "returned" /\ UNCHANGED parsevars
    BY DEF color_builtin, Return
  <1>2. PICK st : status' = st
    OBVIOUS
  <1>3. argv \in COMMANDS /\ argv[1] = <<"color">> /\ shown = <<>> /\ spc = "idle"
    BY <1>1 DEF BuiltinInv, PlacesInv, StartInv, Untouched, Parsing
  <1>4. ~Dump /\ ~Bitmap /\ Is(1, "color")
    BY <1>3, Names
  <1>5. ParserInv' /\ spc' = "idle"
    BY <1>1, <1>3, ParserStays DEF BuiltinInv
  <1>6. PlacesInv'
    BY <1>1, <1>2, <1>3, <1>4, <1>5, NothingShown
  <1> QED
    BY <1>5, <1>6 DEF BuiltinInv

\* Too few words, or info of what only prints.
LEMMA PlainKeeps ==
  ASSUME BuiltinInv, Usage \/ InfoPrints
  PROVE  BuiltinInv'
  <1>1. /\ bpc \in {"hexdump", "info"} /\ argv' = argv /\ before' = before /\ shown' = shown
        /\ color' = color /\ bpc' = "returned" /\ UNCHANGED parsevars
    BY DEF Usage, InfoPrints, Return
  <1>2. PICK st : status' = st
    OBVIOUS
  <1>3. /\ argv \in COMMANDS /\ argv[1] = <<bpc>> /\ shown = <<>> /\ spc = "idle"
        /\ color = before /\ argc \in Nat
    BY <1>1, WordsAreStrings DEF BuiltinInv, PlacesInv, StartInv, Untouched, Parsing
  <1>4. ~Dump /\ ~Bitmap
    <2>1. CASE bpc = "hexdump"
      BY <1>3, <2>1, Names DEF Usage, InfoPrints, Dump
    <2>2. CASE bpc = "info"
      BY <1>3, <2>2, Names DEF Usage, InfoPrints, Bitmap
    <2> QED
      BY <1>1, <2>1, <2>2
  <1>5. ParserInv' /\ spc' = "idle"
    BY <1>1, <1>3, ParserStays DEF BuiltinInv
  <1>6. PlacesInv'
    BY <1>1, <1>2, <1>3, <1>4, <1>5, NothingShown
  <1> QED
    BY <1>5, <1>6 DEF BuiltinInv

\* A parser runs.
LEMMA ParseKeeps ==
  ASSUME BuiltinInv, ParseStep
  PROVE  BuiltinInv'
  <1>1. /\ Parsing /\ StrtolStep /\ argv' = argv /\ bpc' = bpc /\ color' = color
        /\ before' = before /\ addr' = addr /\ shown' = shown
    BY DEF ParseStep, builtinvars
  <1>2. ParserInv' /\ spc' # "idle" /\ parse' = parse
    BY <1>1, ParserSteps DEF BuiltinInv
  <1>3. Parsing'
    BY <1>1 DEF Parsing
  <1>4. PlacesInv
    BY DEF BuiltinInv
  <1>5. Untouched' <=> Untouched
    BY <1>1 DEF Untouched
  <1>6. (bpc = "addr" => AddrInv') /\ (bpc = "size" => SizeInv') /\ (bpc = "order" => OrderInv')
    BY <1>1, <1>2, <1>4, <1>5, SameLine DEF PlacesInv, AddrInv, SizeInv, OrderInv
  <1>7. bpc \in {"addr", "size", "order"}
    BY <1>1 DEF Parsing
  <1>8. PlacesInv'
    BY <1>1, <1>2, <1>3, <1>4, <1>6, <1>7, OtherPlaces DEF PlacesInv
  <1> QED
    BY <1>2, <1>8 DEF BuiltinInv

\* The three words that are parsed are there.
LEMMA WordsThere ==
  ASSUME BuiltinInv, Parsing
  PROVE  /\ argv \in COMMANDS /\ 2 \in 1 .. argc /\ 3 \in 1 .. argc
         /\ Untouched
         /\ bpc = "addr" => parse = WordCall(strtoul, 2) /\ Dump /\ ~Bitmap
         /\ bpc = "size" => parse = WordCall(strtoul, 3) /\ Dump /\ ~Bitmap
         /\ bpc = "order" => parse = WordCall(strtol, 3) /\ Bitmap /\ ~Dump
         /\ strtoul \in Parsers /\ strtol \in Parsers
  <1>1. PlacesInv /\ bpc \in {"addr", "size", "order"}
    BY DEF BuiltinInv, Parsing
  <1>2. argv \in COMMANDS /\ argc \in Nat
    BY <1>1, WordsAreStrings DEF PlacesInv
  <1>3. argc >= 3
    BY <1>1 DEF PlacesInv, AddrInv, SizeInv, OrderInv, Dump, Bitmap
  <1>4. ~(Dump /\ Bitmap)
    BY DEF Dump, Bitmap, Is
  <1>5. strtoul \in Parsers /\ strtol \in Parsers
    BY DEF Parsers
  <1> QED
    BY <1>1, <1>2, <1>3, <1>4, <1>5 DEF PlacesInv, AddrInv, SizeInv, OrderInv

\* A word that is no number ends the builtin.
LEMMA NotANumberKeeps ==
  ASSUME BuiltinInv, NotANumber
  PROVE  BuiltinInv'
  <1>1. /\ Parsing /\ spc = "done" /\ Malformed /\ StrtolReturn /\ argv' = argv
        /\ before' = before /\ shown' = shown /\ color' = color /\ bpc' = "returned"
        /\ status' = -1
    BY DEF NotANumber, Return
  <1>2. ParserInv' /\ spc' = "idle"
    BY <1>1, ParserReturned DEF BuiltinInv
  <1>3. argv \in COMMANDS /\ Untouched
    BY <1>1, WordsThere
  <1>4. ~(Dump /\ GoodDump) /\ ~(Bitmap /\ GoodBitmap)
    <2>1. CASE bpc = "addr"
      BY <1>1, <2>1, WordsThere, WordRead DEF BuiltinInv, GoodDump
    <2>2. CASE bpc = "size"
      BY <1>1, <2>2, WordsThere, WordRead DEF BuiltinInv, GoodDump
    <2>3. CASE bpc = "order"
      BY <1>1, <2>3, WordsThere, WordRead DEF BuiltinInv, GoodBitmap
    <2> QED
      BY <1>1, <2>1, <2>2, <2>3 DEF Parsing
  <1>5. shown' = <<>> /\ color' = before
    BY <1>1, <1>3 DEF Untouched
  <1>6. PlacesInv'
    BY <1>1, <1>2, <1>3, <1>4, <1>5, NothingShown
  <1> QED
    BY <1>2, <1>6 DEF BuiltinInv

\* The first word to be parsed, of hexdump and of info.
LEMMA FirstWordKeeps ==
  ASSUME BuiltinInv, HexdumpAddress \/ InfoOrder
  PROVE  BuiltinInv'
  <1>1. /\ bpc \in {"hexdump", "info"} /\ argv' = argv /\ before' = before /\ shown' = shown
        /\ color' = color
    BY DEF HexdumpAddress, InfoOrder
  <1>2. argv \in COMMANDS /\ argv[1] = <<bpc>> /\ Untouched /\ argc \in Nat
    BY <1>1, WordsAreStrings DEF BuiltinInv, PlacesInv, StartInv
  <1>3. Untouched'
    BY <1>1, <1>2 DEF Untouched
  <1>4. strtoul \in Parsers /\ strtol \in Parsers
    BY DEF Parsers
  <1>5. CASE HexdumpAddress
    <2>1. bpc = "hexdump" /\ argc >= 3 /\ StrtolCall(WordCall(strtoul, 2)) /\ bpc' = "addr"
      BY <1>5 DEF HexdumpAddress, ParseWord, WordCall
    <2>2. Dump /\ 2 \in 1 .. argc
      BY <1>2, <2>1 DEF Dump, Is
    <2>3. ParserInv' /\ spc' # "idle" /\ parse' = WordCall(strtoul, 2)
      BY <1>2, <1>4, <2>1, <2>2, WordCallOK, ParserCalled
    <2>4. AddrInv' /\ Parsing'
      BY <1>1, <1>3, <2>1, <2>2, <2>3, SameLine DEF AddrInv, Parsing
    <2>5. PlacesInv'
      BY <1>1, <1>2, <2>1, <2>3, <2>4, OtherPlaces
    <2> QED
      BY <2>3, <2>5 DEF BuiltinInv
  <1>6. CASE InfoOrder
    <2>1. /\ bpc = "info" /\ argc > 2 /\ Is(2, "buddy") /\ StrtolCall(WordCall(strtol, 3))
          /\ bpc' = "order"
      BY <1>6 DEF InfoOrder, ParseWord, WordCall
    <2>2. Bitmap /\ 3 \in 1 .. argc
      BY <1>2, <2>1 DEF Bitmap, Is
    <2>3. ParserInv' /\ spc' # "idle" /\ parse' = WordCall(strtol, 3)
      BY <1>2, <1>4, <2>1, <2>2, WordCallOK, ParserCalled
    <2>4. OrderInv' /\ Parsing'
      BY <1>1, <1>3, <2>1, <2>2, <2>3, SameLine DEF OrderInv, Parsing
    <2>5. PlacesInv'
      BY <1>1, <1>2, <2>1, <2>3, <2>4, OtherPlaces
    <2> QED
      BY <2>3, <2>5 DEF BuiltinInv
  <1> QED
    BY <1>5, <1>6

\* An unsigned long is one.
LEMMA UnsignedRange == Lowest(strtoul) = 0 /\ Highest(strtoul) = ULONG_MAX
  BY DEF Lowest, Highest, strtoul

\* The address is known, the size is parsed next.
LEMMA SizeKeeps ==
  ASSUME BuiltinInv, HexdumpSize
  PROVE  BuiltinInv'
  <1>1. /\ bpc = "addr" /\ spc = "done" /\ ~Malformed /\ addr' = result.val
        /\ StrtolCall(WordCall(strtoul, 3)) /\ bpc' = "size"
        /\ argv' = argv /\ before' = before /\ shown' = shown /\ color' = color
    BY DEF HexdumpSize, ParseWord, WordCall
  <1>2. Parsing
    BY <1>1 DEF Parsing
  <1>3. /\ argv \in COMMANDS /\ 2 \in 1 .. argc /\ 3 \in 1 .. argc /\ Untouched
        /\ parse = WordCall(strtoul, 2) /\ Dump /\ strtoul \in Parsers
    BY <1>1, <1>2, WordsThere
  <1>4. /\ result = Word(strtoul, 2) /\ WellFormed(strtoul, 2)
        /\ result.val \in Int /\ 0 <= result.val /\ result.val <= ULONG_MAX
    BY <1>1, <1>3, WordRead, UnsignedRange DEF BuiltinInv
  <1>5. ParserInv' /\ spc' # "idle" /\ parse' = WordCall(strtoul, 3)
    BY <1>1, <1>3, WordCallOK, ParserCalled
  <1>6. addr' = DumpFrom /\ addr' \in 0 .. ULONG_MAX
    BY <1>1, <1>4, StrtolAssumption DEF DumpFrom
  <1>7. Untouched' /\ Parsing'
    BY <1>1, <1>3 DEF Untouched, Parsing
  <1>8. SizeInv'
    BY <1>1, <1>3, <1>4, <1>5, <1>6, <1>7, SameLine DEF SizeInv
  <1>9. PlacesInv'
    BY <1>1, <1>3, <1>5, <1>7, <1>8, OtherPlaces
  <1> QED
    BY <1>5, <1>9 DEF BuiltinInv

\* Both are known, nothing is on the screen yet.
LEMMA DumpBegins ==
  ASSUME BuiltinInv, hx_print
  PROVE  BuiltinInv'
  <1>1. /\ bpc = "size" /\ spc = "done" /\ ~Malformed /\ left' = result.val
        /\ color' = 15 /\ bpc' = "lines" /\ StrtolReturn
        /\ argv' = argv /\ shown' = shown /\ addr' = addr
    BY DumpColours DEF hx_print
  <1>2. Parsing
    BY <1>1 DEF Parsing
  <1>3. /\ argv \in COMMANDS /\ 3 \in 1 .. argc /\ Untouched
        /\ parse = WordCall(strtoul, 3) /\ Dump /\ strtoul \in Parsers
    BY <1>1, <1>2, WordsThere
  <1>4. /\ result = Word(strtoul, 3) /\ WellFormed(strtoul, 3)
        /\ result.val \in Int /\ 0 <= result.val
    BY <1>1, <1>3, WordRead, UnsignedRange DEF BuiltinInv
  <1>5. WellFormed(strtoul, 2) /\ addr = DumpFrom /\ addr \in 0 .. ULONG_MAX
    BY <1>1 DEF BuiltinInv, PlacesInv, SizeInv
  <1>6. ParserInv' /\ spc' = "idle"
    BY <1>1, ParserReturned DEF BuiltinInv
  <1>7. DumpSoFar'
    <2>1. shown' = <<>> /\ Len(shown') = 0 /\ shown' \in Seq(HexCells)
      BY <1>1, <1>3 DEF Untouched
    <2>2. DumpFrom \in Nat /\ DumpFrom % (ULONG_MAX + 1) = DumpFrom /\ DumpFrom + 0 = DumpFrom
      BY <1>5, StrtolAssumption
    <2>3. left' \in Nat /\ Len(shown') + left' = left'
      BY <1>1, <1>4, <2>1
    <2>4. /\ Word(strtoul, 3)' = Word(strtoul, 3) /\ DumpFrom' = DumpFrom
      BY <1>1, SameLine
    <2>5. (\A i \in 1 .. Len(shown) : RightByte(shown[i], i))'
      BY <2>1
    <2> QED
      BY <1>1, <1>4, <1>5, <2>1, <2>2, <2>3, <2>4, <2>5 DEF DumpSoFar
  <1>8. LinesInv' /\ ~Parsing'
    BY <1>1, <1>3, <1>4, <1>5, <1>7, SameLine DEF LinesInv, GoodDump, Parsing
  <1>9. PlacesInv'
    BY <1>1, <1>3, <1>6, <1>8, OtherPlaces
  <1> QED
    BY <1>6, <1>9 DEF BuiltinInv

\* A quotient and a remainder are the only ones.
LEMMA RemainderIs ==
  ASSUME NEW m \in Nat, m > 0, NEW k \in Int, NEW t \in 0 .. m - 1
  PROVE  (m * k + t) % m = t
  <1> DEFINE x == m * k + t
             q == x \div m
             r == x % m
  <1>0. m * k \in Int /\ x \in Int /\ x = m * k + t
    BY SMT
  <1> HIDE DEF x
  <1>1. r \in 0 .. m - 1 /\ x = m * q + r /\ q \in Int
    BY <1>0, SMT
  <1> HIDE DEF q, r
  <1> DEFINE d == k - q
  <1>2. d \in Int /\ m * d \in Int /\ m * d = m * k - m * q
    BY <1>1, SMT
  <1>3. m * d = r - t
    BY <1>0, <1>1, <1>2, SMT
  <1> HIDE DEF d
  <1>4. (d >= 1 => m * d >= m) /\ (d <= -1 => m * d <= -m) /\ (d = 0 => m * d = 0)
    BY <1>2, SMT
  <1>5. r = t
    BY <1>1, <1>2, <1>3, <1>4, SMT
  <1> QED
    BY <1>5 DEF r, x

\* Addresses wrap at the end of memory, wherever they are reduced.
LEMMA Wraps ==
  ASSUME NEW a \in Nat, NEW n \in Nat, NEW m \in Nat, m > 0
  PROVE  /\ ((a % m) + n) % m = (a + n) % m
         /\ (a + n) % m \in 0 .. m - 1
  <1> DEFINE q == a \div m
             r == a % m
             p == (r + n) \div m
             t == (r + n) % m
  <1>1. a = m * q + r /\ r \in 0 .. m - 1 /\ q \in Nat
    BY SMT
  <1> HIDE DEF q, r
  <1>2. r + n = m * p + t /\ t \in 0 .. m - 1 /\ p \in Nat
    BY <1>1, SMT
  <1> HIDE DEF p, t
  <1>3. m * (q + p) = m * q + m * p /\ m * q \in Nat /\ m * p \in Nat /\ q + p \in Int
    BY <1>1, <1>2, SMT
  <1>4. a + n = m * (q + p) + t
    BY <1>1, <1>2, <1>3, SMT
  <1>5. (a + n) % m = t
    BY <1>2, <1>3, <1>4, RemainderIs
  <1> QED
    BY <1>2, <1>5 DEF t, r

\* A line of n bytes goes on where the dump stopped.
LEMMA LineGoesOn ==
  ASSUME DumpSoFar, NEW n \in Nat, Readable(n)
  PROVE  LET all == shown \o hx_printline(n)
         IN  /\ all \in Seq(HexCells) /\ Len(all) = Len(shown) + n
             /\ \A i \in 1 .. Len(all) : RightByte(all[i], i)
             /\ (addr + n) % (ULONG_MAX + 1) = (DumpFrom + (Len(shown) + n)) % (ULONG_MAX + 1)
             /\ LineAddr(n + 1) = DumpAddr(Len(all) + 1)
  <1> DEFINE line == hx_printline(n)
             all == shown \o line
             m == ULONG_MAX + 1
             N == Len(shown)
  <1>1. /\ shown \in Seq(HexCells) /\ N \in Nat /\ DumpFrom \in Nat
        /\ addr = (DumpFrom + N) % m
        /\ \A i \in 1 .. N : RightByte(shown[i], i)
    BY DEF DumpSoFar
  <1>2. m \in Nat /\ m > 0 /\ m - 1 = ULONG_MAX
    BY StrtolAssumption
  <1> HIDE DEF m
  <1>3. ASSUME NEW k \in Nat
        PROVE  /\ (addr + k) % m = (DumpFrom + (N + k)) % m
               /\ (addr + k) % m \in 0 .. ULONG_MAX
    <2>1. DumpFrom + N \in Nat /\ (DumpFrom + N) + k = DumpFrom + (N + k)
      BY <1>1
    <2>2. /\ (((DumpFrom + N) % m) + k) % m = ((DumpFrom + N) + k) % m
          /\ ((DumpFrom + N) + k) % m \in 0 .. m - 1
      BY <1>2, <2>1, Wraps
    <2> QED
      BY <1>1, <1>2, <2>1, <2>2
  <1>4a. ASSUME NEW i \in 1 .. n + 1
         PROVE  LineAddr(i) = DumpAddr(N + i) /\ LineAddr(i) \in 0 .. ULONG_MAX
    <2> DEFINE at == (addr + (i - 1)) % m
    <2>1. i - 1 \in Nat /\ addr \in Int
      BY <1>1, <1>2
    <2>2. at \in 0 .. ULONG_MAX /\ at = (DumpFrom + (N + (i - 1))) % m
      BY <1>3, <2>1
    <2>3. DumpFrom + (N + (i - 1)) = DumpFrom + (N + i) - 1 /\ addr + i - 1 = addr + (i - 1)
      BY <1>1, <2>1
    <2>4. LineAddr(i) = at
      BY <2>3 DEF LineAddr, m
    <2> HIDE DEF at
    <2>5. at = DumpAddr(N + i)
      BY <2>2, <2>3 DEF m, DumpAddr, DumpFrom
    <2> QED
      BY <2>2, <2>4, <2>5
  <1>4. ASSUME NEW i \in 1 .. n
        PROVE  line[i] \in HexCells /\ RightByte(line[i], N + i)
    <2>1. LineAddr(i) = DumpAddr(N + i) /\ LineAddr(i) \in 0 .. ULONG_MAX
      <3>1. i \in 1 .. n + 1
        OBVIOUS
      <3> QED
        BY <1>4a, <3>1
    <2>2. LineAddr(i) \in MAPPED
      BY DEF Readable
    <2> DEFINE at == LineAddr(i)
    <2>3. MEMORY[at] \in 0 .. 255
      BY <2>2, BuiltinsAssumption DEF MAPPED
    <2>4. line[i] = [at |-> at, hex |-> MEMORY[at]]
      BY DEF hx_printline, HexCell
    <2>5. at \in Int
      BY <2>1, StrtolAssumption
    <2> HIDE DEF at, line, N
    <2>6. line[i] \in HexCells
      BY <2>3, <2>4, <2>5 DEF HexCells
    <2> QED
      BY <2>1, <2>2, <2>4, <2>6 DEF RightByte, at
  <1>5. line \in Seq(HexCells) /\ Len(line) = n
    <2>1. line = [i \in 1 .. n |-> line[i]]
      BY DEF hx_printline
    <2> HIDE DEF line
    <2> QED
      BY <1>4, <2>1
  <1> HIDE DEF line, N
  <1>6. /\ all \in Seq(HexCells) /\ Len(all) = N + n
        /\ \A i \in 1 .. N : all[i] = shown[i]
        /\ \A i \in 1 .. n : all[N + i] = line[i]
    BY <1>1, <1>5 DEF N
  <1> HIDE DEF all
  <1>7. ASSUME NEW i \in 1 .. N + n
        PROVE  RightByte(all[i], i)
    <2>1. CASE i \in 1 .. N
      BY <1>1, <1>6, <2>1
    <2>2. CASE i \notin 1 .. N
      <3>1. i - N \in 1 .. n /\ N + (i - N) = i
        BY <1>1, <2>2
      <3>2. all[N + (i - N)] = line[i - N] /\ RightByte(line[i - N], N + (i - N))
        BY <1>4, <1>6, <3>1
      <3> QED
        BY <3>1, <3>2
    <2> QED
      BY <2>1, <2>2
  <1>8. LineAddr(n + 1) = DumpAddr(N + (n + 1)) /\ N + (n + 1) = (N + n) + 1
    <2>1. n + 1 \in 1 .. n + 1
      OBVIOUS
    <2> QED
      BY <1>1, <1>4a, <2>1 DEF N
  <1> QED
    BY <1>3, <1>6, <1>7, <1>8 DEF all, line, N, m

LEMMA FullLineKeeps ==
  ASSUME BuiltinInv, FullLine
  PROVE  BuiltinInv'
  <1>1. /\ bpc = "lines" /\ left >= NBYTES_LINE /\ Readable(NBYTES_LINE)
        /\ shown' = shown \o hx_printline(NBYTES_LINE)
        /\ color' = sb_set_fg(color, Colour("white"))
        /\ addr' = (addr + NBYTES_LINE) % (ULONG_MAX + 1) /\ left' = left - NBYTES_LINE
        /\ argv' = argv /\ bpc' = bpc /\ UNCHANGED parsevars
    BY DEF FullLine
  <1>2. /\ argv \in COMMANDS /\ spc = "idle" /\ Dump /\ GoodDump /\ color = 15 /\ DumpSoFar
    BY <1>1 DEF BuiltinInv, PlacesInv, LinesInv, Parsing
  <1>3. color' = 15
    BY <1>1, <1>2, DumpColours, ColourIs
  <1>4. NBYTES_LINE \in Nat
    BY BuiltinsAssumption
  <1>5. /\ shown' \in Seq(HexCells) /\ Len(shown') = Len(shown) + NBYTES_LINE
        /\ \A i \in 1 .. Len(shown') : RightByte(shown'[i], i)
        /\ addr' = (DumpFrom + Len(shown')) % (ULONG_MAX + 1)
    BY <1>1, <1>2, <1>4, LineGoesOn
  <1>6. left' \in Nat /\ Len(shown') + left' = Word(strtoul, 3).val /\ DumpFrom \in Nat
    BY <1>1, <1>2, <1>4, <1>5 DEF DumpSoFar
  <1>7. DumpSoFar'
    BY <1>1, <1>5, <1>6, SameLine DEF DumpSoFar
  <1>8. ParserInv' /\ spc' = "idle"
    BY <1>1, <1>2, ParserStays DEF BuiltinInv
  <1>9. LinesInv' /\ ~Parsing'
    BY <1>1, <1>2, <1>3, <1>7, SameLine DEF LinesInv, Parsing
  <1>10. PlacesInv'
    BY <1>1, <1>2, <1>8, <1>9, OtherPlaces
  <1> QED
    BY <1>8, <1>10 DEF BuiltinInv

LEMMA RestLineKeeps ==
  ASSUME BuiltinInv, RestLine
  PROVE  BuiltinInv'
  <1>1. /\ bpc = "lines" /\ shown' = shown \o hx_printline(left) /\ Readable(left)
        /\ color' = before /\ before' = before /\ status' = 0 /\ bpc' = "returned"
        /\ argv' = argv /\ UNCHANGED parsevars
    BY DEF RestLine, Return
  <1>2. argv \in COMMANDS /\ spc = "idle" /\ Dump /\ GoodDump /\ color = 15 /\ DumpSoFar
    BY <1>1 DEF BuiltinInv, PlacesInv, LinesInv, Parsing
  <1>3. left \in Nat /\ Len(shown) + left = Word(strtoul, 3).val
    BY <1>2 DEF DumpSoFar
  <1>4. /\ Len(shown') = Word(strtoul, 3).val
        /\ \A i \in 1 .. Len(shown') : RightByte(shown'[i], i)
    BY <1>1, <1>2, <1>3, LineGoesOn
  <1>5. ~Bitmap /\ argv[1] \in {<<"color">>, <<"hexdump">>, <<"info">>}
    BY <1>2, WordsAreStrings DEF Dump, Bitmap, Is
  <1>6. Asked'
    BY <1>1, <1>2, <1>4, <1>5, SameLine DEF Asked
  <1>7. ParserInv' /\ spc' = "idle"
    BY <1>1, <1>2, ParserStays DEF BuiltinInv
  <1>8. ~Parsing'
    BY <1>1 DEF Parsing
  <1>9. PlacesInv'
    BY <1>1, <1>2, <1>6, <1>7, <1>8, OtherPlaces
  <1> QED
    BY <1>7, <1>9 DEF BuiltinInv

\* A byte that is not mapped: what comes before it has been shown.
LEMMA LineFaultsKeeps ==
  ASSUME BuiltinInv, LineFaults
  PROVE  BuiltinInv'
  <1>1. PICK n \in 0 .. NBYTES_LINE - 1 :
          /\ n < left /\ Readable(n) /\ LineAddr(n + 1) \notin MAPPED
          /\ shown' = shown \o hx_printline(n)
    BY DEF LineFaults
  <1>2. bpc = "lines" /\ bpc' = "halted" /\ argv' = argv /\ UNCHANGED parsevars
    BY DEF LineFaults
  <1>3. argv \in COMMANDS /\ spc = "idle" /\ Dump /\ GoodDump /\ DumpSoFar
    BY <1>2 DEF BuiltinInv, PlacesInv, LinesInv, Parsing
  <1>4. n \in Nat /\ left \in Nat /\ Len(shown) \in Nat
          /\ Len(shown) + left = Word(strtoul, 3).val
    BY <1>3, BuiltinsAssumption DEF DumpSoFar
  <1>5. /\ Len(shown') = Len(shown) + n
        /\ \A i \in 1 .. Len(shown') : RightByte(shown'[i], i)
        /\ LineAddr(n + 1) = DumpAddr(Len(shown') + 1)
    BY <1>1, <1>3, <1>4, LineGoesOn
  <1>6. Len(shown') < Word(strtoul, 3).val
    BY <1>1, <1>4, <1>5
  <1>7. Halted'
    BY <1>1, <1>2, <1>3, <1>5, <1>6, SameLine DEF Halted
  <1>8. ParserInv' /\ spc' = "idle"
    BY <1>2, <1>3, ParserStays DEF BuiltinInv
  <1>9. ~Parsing'
    BY <1>2 DEF Parsing
  <1>10. PlacesInv'
    BY <1>2, <1>3, <1>7, <1>8, <1>9, OtherPlaces
  <1> QED
    BY <1>8, <1>10 DEF BuiltinInv

\* The bitmap a good order names.
LEMMA BitsAre ==
  ASSUME GoodBitmap
  PROVE  Bits \in Seq(0 .. 255)
  <1> DEFINE v == Word(strtol, 3).val
  <1>1. v \in 0 .. KPM_NORDERS - 1 /\ KPM_NORDERS = Len(BITMAPS)
    BY DEF GoodBitmap, InRange, KPM_NORDERS
  <1> HIDE DEF v
  <1>2. BITMAPS \in Seq(Seq(0 .. 255))
    BY BuiltinsAssumption
  <1>3. v + 1 \in 1 .. Len(BITMAPS)
    BY <1>1, <1>2
  <1>4. BITMAPS[v + 1] \in Seq(0 .. 255)
    BY <1>2, <1>3
  <1> QED
    BY <1>4 DEF Bits, v

\* The order is parsed: out of range, or its bitmap is shown next.
LEMMA OrderKeeps ==
  ASSUME BuiltinInv, info_buddy
  PROVE  BuiltinInv'
  <1>1. /\ bpc = "order" /\ spc = "done" /\ ~Malformed /\ StrtolReturn
        /\ argv' = argv /\ shown' = shown /\ color' = color /\ before' = before
    BY DEF info_buddy
  <1>2. Parsing
    BY <1>1 DEF Parsing
  <1>3. /\ argv \in COMMANDS /\ 3 \in 1 .. argc /\ Untouched
        /\ parse = WordCall(strtol, 3) /\ Bitmap /\ ~Dump /\ strtol \in Parsers
    BY <1>1, <1>2, WordsThere
  <1>4. result = Word(strtol, 3) /\ WellFormed(strtol, 3) /\ result.val \in Int
    BY <1>1, <1>3, WordRead DEF BuiltinInv
  <1>5. ParserInv' /\ spc' = "idle"
    BY <1>1, ParserReturned DEF BuiltinInv
  <1>6. shown' = <<>> /\ color' = before
    BY <1>1, <1>3 DEF Untouched
  <1>7. CASE /\ result.val < 0 \/ result.val >= KPM_NORDERS
             /\ bpc' = "returned" /\ status' = -1
    <2>1. KPM_NORDERS \in Nat
      BY BuiltinsAssumption DEF KPM_NORDERS
    <2>2. ~GoodBitmap
      BY <1>4, <1>7, <2>1 DEF GoodBitmap, InRange
    <2>3. PlacesInv'
      BY <1>1, <1>3, <1>5, <1>6, <1>7, <2>2, NothingShown
    <2> QED
      BY <1>5, <2>3 DEF BuiltinInv
  <1>8. CASE /\ result.val \in 0 .. KPM_NORDERS - 1
             /\ addr' = result.val /\ left' = Len(BITMAPS[result.val + 1]) /\ bpc' = "bitmap"
    <2>1. GoodBitmap
      BY <1>4, <1>8 DEF GoodBitmap, InRange
    <2>2. Bits \in Seq(0 .. 255) /\ left' = Len(Bits)
      BY <1>4, <1>8, <2>1, BitsAre DEF Bits
    <2>3. /\ Len(shown') = 0 /\ left' \in Nat /\ Len(shown') + left' = Len(Bits)
      BY <1>6, <2>2
    <2>4. shown' \in Seq(BitCells')
      BY <1>6
    <2>5. (\A i \in 1 .. Len(shown) : RightBit(shown[i], i))'
      BY <2>3
    <2>6. BitsSoFar'
      BY <1>1, <1>4, <1>8, <2>3, <2>4, <2>5, SameLine DEF BitsSoFar
    <2>7. BitmapInv' /\ ~Parsing'
      BY <1>1, <1>3, <1>6, <1>8, <2>1, <2>6, SameLine DEF BitmapInv, Parsing
    <2>8. PlacesInv'
      BY <1>1, <1>3, <1>5, <1>8, <2>7, OtherPlaces
    <2> QED
      BY <1>5, <2>8 DEF BuiltinInv
  <1> QED
    BY <1>7, <1>8 DEF info_buddy

\* The cell of a byte of the bitmap.
LEMMA BitCell ==
  ASSUME GoodBitmap, addr = Word(strtol, 3).val, NEW i \in 1 .. Len(Bits)
  PROVE  BitmapCell(addr, i) \in BitCells /\ RightBit(BitmapCell(addr, i), i)
  <1> DEFINE val == Bits[i]
  <1>1. Bits \in Seq(0 .. 255)
    BY BitsAre
  <1>2. val \in 0 .. 255 /\ i \in Nat
    <2> DEFINE b == Bits
    <2>1. b \in Seq(0 .. 255) /\ i \in 1 .. Len(b)
      BY <1>1
    <2> HIDE DEF b
    <2>2. ASSUME NEW S, b \in Seq(S) PROVE b[i] \in S /\ i \in Nat
      BY <2>1, <2>2
    <2>3. b[i] \in 0 .. 255 /\ i \in Nat
      BY <2>1, <2>2, Zenon
    <2> QED
      BY <2>3 DEF b
  <1>3. BitmapCell(addr, i) = [at |-> i, val |-> val]
    BY DEF BitmapCell, Bits
  <1>4. RightBit(BitmapCell(addr, i), i)
    BY <1>3 DEF RightBit
  <1> HIDE DEF val
  <1>5. [at |-> i, val |-> val] \in BitCells
    BY <1>2 DEF BitCells
  <1> QED
    BY <1>3, <1>4, <1>5

\* A byte of the bitmap more, or the end of it.
LEMMA BitmapKeeps ==
  ASSUME BuiltinInv, info_buddy_print_order
  PROVE  BuiltinInv'
  <1>1. /\ bpc = "bitmap" /\ argv' = argv /\ before' = before /\ color' = before
        /\ addr' = addr /\ UNCHANGED parsevars
    BY DEF info_buddy_print_order, Return
  <1>2. argv \in COMMANDS /\ spc = "idle" /\ Bitmap /\ GoodBitmap /\ BitsSoFar
    BY <1>1 DEF BuiltinInv, PlacesInv, BitmapInv, Parsing
  <1>3. ParserInv' /\ spc' = "idle"
    BY <1>1, <1>2, ParserStays DEF BuiltinInv
  <1>4. ~Dump /\ argv[1] \in {<<"color">>, <<"hexdump">>, <<"info">>}
    BY <1>2, WordsAreStrings DEF Dump, Bitmap, Is
  <1> DEFINE N == Len(shown)
             cell == BitmapCell(addr, N + 1)
  <1>5. /\ shown \in Seq(BitCells) /\ N \in Nat /\ left \in Nat /\ N + left = Len(Bits)
        /\ addr = Word(strtol, 3).val
        /\ \A i \in 1 .. N : RightBit(shown[i], i)
    BY <1>2 DEF BitsSoFar
  <1>6. CASE left = 0
    <2>1. bpc' = "returned" /\ status' = 0 /\ shown' = shown
      BY <1>6 DEF info_buddy_print_order, Return
    <2>2. Len(shown') = Len(Bits) /\ \A i \in 1 .. Len(shown') : RightBit(shown'[i], i)
      BY <1>5, <1>6, <2>1
    <2>3. Asked'
      BY <1>1, <1>2, <1>4, <2>1, <2>2, SameLine DEF Asked
    <2>4. ~Parsing'
      BY <2>1 DEF Parsing
    <2>5. PlacesInv'
      BY <1>1, <1>2, <1>3, <2>1, <2>3, <2>4, OtherPlaces
    <2> QED
      BY <1>3, <2>5 DEF BuiltinInv
  <1>7. CASE left # 0
    <2>1. shown' = Append(shown, cell) /\ left' = left - 1 /\ bpc' = bpc
      BY <1>7 DEF info_buddy_print_order
    <2>2. N + 1 \in 1 .. Len(Bits) /\ left' \in Nat
      BY <1>5, <1>7, <2>1
    <2>3. cell \in BitCells /\ RightBit(cell, N + 1)
      BY <1>2, <1>5, <2>2, BitCell
    <2> HIDE DEF cell
    <2>4. /\ shown' \in Seq(BitCells) /\ Len(shown') = N + 1
          /\ shown'[N + 1] = cell /\ \A i \in 1 .. N : shown'[i] = shown[i]
      BY <1>5, <2>1, <2>3
    <2> HIDE DEF N
    <2>5. \A i \in 1 .. Len(shown') : RightBit(shown'[i], i)
      <3> SUFFICES ASSUME NEW i \in 1 .. N + 1 PROVE RightBit(shown'[i], i)
        BY <2>4
      <3>1. i = N + 1 \/ i \in 1 .. N
        BY <1>5
      <3> QED
        BY <1>5, <2>3, <2>4, <3>1
    <2>6. Len(shown') + left' = Len(Bits)
      BY <1>5, <2>1, <2>4
    <2>7. BitCells' = BitCells
      BY <1>1 DEF BitCells
    <2>8. BitsSoFar'
      BY <1>1, <1>5, <2>2, <2>4, <2>5, <2>6, <2>7, SameLine DEF BitsSoFar
    <2>9. BitmapInv' /\ ~Parsing'
      BY <1>1, <1>2, <2>1, <2>8, SameLine DEF BitmapInv, Parsing
    <2>10. PlacesInv'
      BY <1>1, <1>2, <1>3, <2>1, <2>9, OtherPlaces
    <2> QED
      BY <1>3, <2>10 DEF BuiltinInv
  <1> QED
    BY <1>6, <1>7

\* The shell has the status, or the machine is started again.
LEMMA ForgetKeeps ==
  ASSUME BuiltinInv, Forget \/ Reboot
  PROVE  BuiltinInv'
  <1>1. bpc \in {"returned", "halted"} /\ bpc' = "idle" /\ UNCHANGED parsevars
    BY DEF Forget, Reboot, NoBuiltin
  <1>2. spc = "idle"
    BY <1>1 DEF BuiltinInv, PlacesInv, Parsing
  <1>3. ParserInv' /\ spc' = "idle"
    BY <1>1, <1>2, ParserStays DEF BuiltinInv
  <1>4. ~Parsing'
    BY <1>1 DEF Parsing
  <1>5. PlacesInv'
    BY <1>1, <1>3, <1>4, OtherPlaces
  <1> QED
    BY <1>3, <1>5 DEF BuiltinInv

LEMMA BuiltinInvInit == BInit => BuiltinInv
  <1> SUFFICES ASSUME BInit PROVE BuiltinInv
    OBVIOUS
  <1>1. PInit /\ bpc = "idle"
    BY DEF BInit
  <1>2. PInv /\ ParsedInv /\ spc = "idle"
    BY <1>1, PInvInit, IdleParsed DEF PInit
  <1>3. PlacesInv
    BY <1>1, <1>2 DEF PlacesInv, Parsing, StartInv, AddrInv, SizeInv, LinesInv,
                      OrderInv, BitmapInv
  <1> QED
    BY <1>2, <1>3 DEF BuiltinInv, ParserInv, EndInv

\* Every step of a builtin and of the parsers under it keeps the invariant.
LEMMA BuiltinInvStep == BuiltinInv /\ [BuiltinNext]_allvars => BuiltinInv'
  <1> SUFFICES ASSUME BuiltinInv, [BuiltinNext]_allvars PROVE BuiltinInv'
    OBVIOUS
  <1>1. ASSUME NEW words \in COMMANDS, NEW col \in COLORS, Run(words, col)
        PROVE  BuiltinInv'
    BY <1>1, RunKeeps
  <1>2. CASE color_builtin \/ Usage \/ ParseStep \/ NotANumber \/ InfoPrints
    BY <1>2, ColorKeeps, PlainKeeps, ParseKeeps, NotANumberKeeps
  <1>3. CASE HexdumpAddress \/ HexdumpSize \/ hx_print \/ FullLine \/ RestLine
               \/ LineFaults
    BY <1>3, FirstWordKeeps, SizeKeeps, DumpBegins, FullLineKeeps, RestLineKeeps,
       LineFaultsKeeps
  <1>4. CASE InfoOrder \/ info_buddy \/ info_buddy_print_order
    BY <1>4, FirstWordKeeps, OrderKeeps, BitmapKeeps
  <1>5. CASE Forget \/ Reboot
    BY <1>5, ForgetKeeps
  <1>6. CASE UNCHANGED allvars
    <2>1. UNCHANGED parsevars /\ argv' = argv /\ bpc' = bpc /\ color' = color
          /\ before' = before /\ addr' = addr /\ left' = left /\ shown' = shown
          /\ status' = status
      BY <1>6 DEF allvars, builtinvars
    <2>2. ParserInv' /\ spc' = spc /\ parse' = parse
      BY <2>1, ParserStays DEF BuiltinInv
    <2>3. PlacesInv
      BY DEF BuiltinInv
    <2>4. PlacesInv'
      BY <2>1, <2>2, <2>3, SameLine
         DEF PlacesInv, StartInv, AddrInv, SizeInv, LinesInv, OrderInv, BitmapInv, Parsing,
             Untouched, DumpSoFar, BitsSoFar, BitCells, Asked, Halted, Is
    <2> QED
      BY <2>2, <2>4 DEF BuiltinInv
  <1> QED
    BY <1>1, <1>2, <1>3, <1>4, <1>5, <1>6 DEF BuiltinNext, BuiltinStep

\* For every command line, mapping of memory, bitmaps and width of the types:
\* hexdump shows the bytes from its address on, as many as its size says, each
\* once and in order, unless one is at no mapped address, which halts the machine
\* behind the bytes before it; info shows the bitmap of its order; both show
\* nothing when a word is no number or out of range, and give the screen its
\* colour back.
THEOREM DumpsAreRight == BuiltinSpec => []DumpsWhatWasAsked
  <1>1. BuiltinInv => DumpsWhatWasAsked
    BY AskedIsShown DEF BuiltinInv, PlacesInv
  <1> QED
    BY <1>1, BuiltinInvInit, BuiltinInvStep, PTL DEF BuiltinSpec
=============================================================================
