------------------------------- MODULE Strtol -------------------------------
(***************************************************************************)
(* The number parsers of lib/std: strtol, strtoll, strtoul, strtoull and   *)
(* atoi.  The four are one algorithm; they differ in the width of the      *)
(* result and in whether a minus sign is understood.  A call skips spaces, *)
(* reads sign and prefix and then scans the digits, one per step, into an  *)
(* unsigned accumulator that must not wrap.                                *)
(*                                                                         *)
(* A character is a one-letter string, a C string a sequence of them; the  *)
(* NUL comes after its last element.                                       *)
(***************************************************************************)
EXTENDS Integers, Sequences

CONSTANTS ULONG_MAX,    \* the largest unsigned long, 2^32 - 1 in the kernel
          ULLONG_MAX,   \* the largest unsigned long long, 2^64 - 1
          PARSES        \* the calls made: records [fn, str, base]

\* The parsers, as parameters of the algorithm.
strtol == [umax |-> ULONG_MAX, signed |-> TRUE]
strtoll == [umax |-> ULLONG_MAX, signed |-> TRUE]
strtoul == [umax |-> ULONG_MAX, signed |-> FALSE]
strtoull == [umax |-> ULLONG_MAX, signed |-> FALSE]
Parsers == {strtol, strtoll, strtoul, strtoull}

atoi(nptr) == [fn |-> strtol, str |-> nptr, base |-> 10]

ASSUME StrtolAssumption ==
  /\ ULONG_MAX \in Nat /\ ULONG_MAX % 2 = 1
  /\ ULLONG_MAX \in Nat /\ ULLONG_MAX % 2 = 1
  /\ \A call \in PARSES :
       /\ call.fn \in Parsers /\ call.base \in ({0} \cup 2 .. 36)
       /\ call.str \in Seq(STRING)

NUL == "NUL"
SPACE == " "

Capitals == <<"A", "B", "C", "D", "E", "F", "G", "H", "I", "J", "K", "L", "M",
              "N", "O", "P", "Q", "R", "S", "T", "U", "V", "W", "X", "Y", "Z">>
Smalls == <<"0", "1", "2", "3", "4", "5", "6", "7", "8", "9",
            "a", "b", "c", "d", "e", "f", "g", "h", "i", "j", "k", "l", "m",
            "n", "o", "p", "q", "r", "s", "t", "u", "v", "w", "x", "y", "z">>

\* What a character counts as a digit: the figures, and the letters from 10 on.
Digit == [ch \in {Smalls[i] : i \in 1 .. 36} \cup {Capitals[i] : i \in 1 .. 26} |->
            IF \E i \in 1 .. 26 : Capitals[i] = ch
            THEN (CHOOSE i \in 1 .. 26 : Capitals[i] = ch) + 9
            ELSE (CHOOSE i \in 1 .. 36 : Smalls[i] = ch) - 1]

\* LONG_MAX and LLONG_MAX: the unsigned maximum shifted right.
SMAX(fn) == fn.umax \div 2

\* What the accumulator may reach.
Limit(fn, negative) ==
  IF ~fn.signed THEN fn.umax ELSE IF negative THEN SMAX(fn) + 1 ELSE SMAX(fn)

VARIABLES parse,  \* the call
          spc,    \* "idle", "space", "digits" or "done"
          s,      \* index of the next character to read
          c,      \* the character read last
          neg,    \* a minus sign was read
          base,   \* the parameter, once the prefix was seen
          acc,    \* the accumulator
          any,    \* 0: no digit yet, 1: digits, -1: out of range
          result  \* the return value and what *endptr is set to

parsevars == <<parse, spc, s, c, neg, base, acc, any, result>>

NoParse == atoi(<<>>)
NoResult == [val |-> 0, endptr |-> 1]

\* No call is running.
PInit ==
  /\ parse = NoParse /\ spc = "idle"
  /\ s = 1 /\ c = NUL /\ neg = FALSE /\ base = 10 /\ acc = 0 /\ any = 0
  /\ result = NoResult

\* The character at index i of a string, and of the string of the call.
CharAt(str, i) == IF i \in 1 .. Len(str) THEN str[i] ELSE NUL
At(i) == CharAt(parse.str, i)

\* A call, up to its first character.
StrtolCall(call) ==
  /\ parse' = call
  /\ spc' = "space"
  /\ c' = IF call.str = <<>> THEN NUL ELSE call.str[1]
  /\ s' = 2
  /\ neg' = FALSE
  /\ base' = call.base
  /\ acc' = 0
  /\ any' = 0
  /\ result' = NoResult

SkipSpace ==
  /\ spc = "space" /\ c = SPACE
  /\ c' = At(s)
  /\ s' = s + 1
  /\ UNCHANGED <<parse, spc, neg, base, acc, any, result>>

\* Sign, prefix and base; without them the number begins with c1, before s1.
Prefix ==
  /\ spc = "space" /\ c # SPACE
  /\ LET minus == c = "-" /\ parse.fn.signed
         sign == minus \/ c = "+"
         c1 == IF sign THEN At(s) ELSE c
         s1 == IF sign THEN s + 1 ELSE s
         hex == base \in {0, 16} /\ c1 = "0" /\ At(s1) \in {"x", "X"}
     IN  /\ neg' = minus
         /\ c' = IF hex THEN At(s1 + 1) ELSE c1
         /\ s' = IF hex THEN s1 + 2 ELSE s1
         /\ base' = IF hex THEN 16
                    ELSE IF base # 0 THEN base ELSE IF c1 = "0" THEN 8 ELSE 10
  /\ spc' = "digits"
  /\ UNCHANGED <<parse, acc, any, result>>

cutoff == Limit(parse.fn, neg) \div base
cutlim == Limit(parse.fn, neg) % base

IsDigit == c \in DOMAIN Digit /\ Digit[c] < base

\* Variant with a fault: the last digit is not looked at.
TooBigLoose == any < 0 \/ acc > cutoff
TooBig == any < 0 \/ acc > cutoff \/ (acc = cutoff /\ Digit[c] > cutlim)

ScanDigit ==
  /\ spc = "digits" /\ IsDigit
  /\ \/ /\ TooBig
        /\ any' = -1
        /\ UNCHANGED acc
     \/ /\ ~TooBig
        /\ any' = 1
        /\ acc' = acc * base + Digit[c]
  /\ c' = At(s)
  /\ s' = s + 1
  /\ UNCHANGED <<parse, spc, neg, base, result>>

\* The long that has the bits of the unsigned long u.
ToSigned(u) == IF u > SMAX(parse.fn) THEN u - (parse.fn.umax + 1) ELSE u

Value ==
  LET out == any < 0
  IN  CASE out /\ neg  -> -(SMAX(parse.fn) + 1)
        [] out /\ ~neg -> Limit(parse.fn, FALSE)
        [] ~out /\ neg -> ToSigned((parse.fn.umax + 1 - acc) % (parse.fn.umax + 1))
        [] OTHER       -> acc

\* The first character that is no digit of the base ends the loop.
Finish ==
  /\ spc = "digits" /\ ~IsDigit
  /\ spc' = "done"
  /\ result' = [val |-> Value, endptr |-> IF any # 0 THEN s - 1 ELSE 1]
  /\ UNCHANGED <<parse, s, c, neg, base, acc, any>>

StrtolStep == SkipSpace \/ Prefix \/ ScanDigit \/ Finish

\* The caller has taken the result; the locals are gone.
StrtolReturn ==
  /\ spc = "done"
  /\ parse' = NoParse /\ spc' = "idle"
  /\ s' = 1 /\ c' = NUL /\ neg' = FALSE /\ base' = 10 /\ acc' = 0 /\ any' = 0
  /\ result' = NoResult

\* The parser on its own, given the calls of PARSES.
PNext ==
  \/ spc = "idle" /\ \E call \in PARSES : StrtolCall(call)
  \/ StrtolStep
  \/ StrtolReturn

PSpec == PInit /\ [][PNext]_parsevars

-----------------------------------------------------------------------------
\* The numeral a string begins with, spelt out: where it starts, its sign and
\* prefix, its base, and the indices From .. To - 1 of its digits.
First(call) ==
  CHOOSE i \in 1 .. Len(call.str) + 1 :
    CharAt(call.str, i) # SPACE /\ \A j \in 1 .. i - 1 : CharAt(call.str, j) = SPACE
Minus(call) == call.fn.signed /\ CharAt(call.str, First(call)) = "-"
Start(call) ==
  IF Minus(call) \/ CharAt(call.str, First(call)) = "+" THEN First(call) + 1 ELSE First(call)
Hex(call) ==
  /\ call.base \in {0, 16}
  /\ CharAt(call.str, Start(call)) = "0"
  /\ CharAt(call.str, Start(call) + 1) \in {"x", "X"}
BaseOf(call) ==
  CASE Hex(call) -> 16
    [] ~Hex(call) /\ call.base > 0 -> call.base
    [] OTHER -> IF CharAt(call.str, Start(call)) = "0" THEN 8 ELSE 10
From(call) == IF Hex(call) THEN Start(call) + 2 ELSE Start(call)
DigitAt(call, i) ==
  /\ CharAt(call.str, i) \in DOMAIN Digit
  /\ Digit[CharAt(call.str, i)] < BaseOf(call)
To(call) ==
  CHOOSE i \in From(call) .. Len(call.str) + 1 :
    ~DigitAt(call, i) /\ \A j \in From(call) .. i - 1 : DigitAt(call, j)

\* The number the first k digits stand for.
Leading(call) ==
  LET sum[k \in 0 .. To(call) - From(call)] ==
        IF k = 0 THEN 0
        ELSE sum[k - 1] * BaseOf(call) + Digit[CharAt(call.str, From(call) + k - 1)]
  IN  sum

Highest(fn) == IF fn.signed THEN SMAX(fn) ELSE fn.umax
Lowest(fn) == IF fn.signed THEN -(SMAX(fn)) - 1 ELSE 0
Saturated(fn, n) ==
  IF n > Highest(fn) THEN Highest(fn) ELSE IF n < Lowest(fn) THEN Lowest(fn) ELSE n
Numeral(call) ==
  LET digits == To(call) - From(call)
      abs == Leading(call)[digits]
  IN  [val    |-> Saturated(call.fn, IF Minus(call) THEN -abs ELSE abs),
       endptr |-> IF digits = 0 THEN 1 ELSE To(call)]

\* A parser returns the number its string begins with, moved to the nearest end
\* of the type when it does not fit, and sets *endptr behind the last digit; for
\* any number of digits, both signs and each base, with an accumulator of the
\* result's own width.
NumbersParsed == spc = "done" => result = Numeral(parse)
=============================================================================
