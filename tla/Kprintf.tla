------------------------------- MODULE Kprintf -------------------------------
(***************************************************************************)
(* kprintf and snprintf, kernel/print.c.  A format is a sequence of items, *)
(* literal characters and specifiers; an argument is a word of INT_BITS    *)
(* bits, a character or a string.  vsnprintf works through the items,      *)
(* snprintnum through the padding and then the digits of a number, which   *)
(* it writes from the last to the first.                                   *)
(***************************************************************************)
EXTENDS Integers, Sequences

CONSTANTS INT_BITS,  \* width of int, 32 in the kernel
          BUFSIZE,   \* kprintf's buffer, 4096
          PRINTS     \* the calls made: records [fn, size, fmt, args]

ASSUME PrintAssumption ==
  /\ INT_BITS \in Nat \ {0} /\ BUFSIZE \in Nat \ {0}
  /\ {2 ^ INT_BITS, 2 ^ (INT_BITS - 1)} \subseteq Nat \ {0}

END == "NUL"          \* the character that ends a string
UNTOUCHED == "?"      \* what snprintf's caller left in its buffer
Beyond == 12          \* cells behind the buffer that the model looks at

digits == <<"0", "1", "2", "3", "4", "5", "6", "7",
            "8", "9", "a", "b", "c", "d", "e", "f">>

\* Items of a format; a specifier without a width has the width -1.
Lit(ch) == [conv |-> "literal", ch |-> ch, width |-> -1]
Conv(k, width) == [conv |-> k, ch |-> "%", width |-> width]

Radix == [k \in {"x", "p", "b", "d", "u"} |->
            CASE k \in {"x", "p"} -> 16 [] k = "b" -> 2 [] OTHER -> 10]

VARIABLES print,    \* the call
          ppc,      \* "idle", "format", "padding", "digits" or "done"
          fmt,      \* the next item
          ap,       \* the next argument
          count,    \* bytes written
          padding,  \* the last width met
          buf,      \* the buffer, and the cells behind it
          num       \* the locals of snprintnum

printvars == <<print, ppc, fmt, ap, count, padding, buf, num>>

NoPrint == [fn |-> "none", size |-> 0, fmt |-> <<>>, args |-> <<>>]
NoNum == [un |-> 0, base |-> 2, nl |-> 0, pad |-> 0, count |-> 0, at |-> 0]

PrintInit ==
  /\ print = NoPrint /\ ppc = "idle" /\ fmt = 1 /\ ap = 1
  /\ count = 0 /\ padding = 0 /\ buf = <<>> /\ num = NoNum

\* What vsnprintf is told: kprintf keeps a byte for the end of the string.
size == IF print.fn = "kprintf" THEN BUFSIZE - 1 ELSE print.size

\* snprintf's buffer holds anything, kprintf's is cleared.
snprintf(k) == [i \in 0 .. k.size + Beyond |-> UNTOUCHED]
kprintf == [i \in 0 .. BUFSIZE - 1 + Beyond |-> END]

PrintCall(k) ==
  /\ print' = k
  /\ ppc' = "format"
  /\ buf' = IF k.fn = "kprintf" THEN kprintf ELSE snprintf(k)
  /\ fmt' = 1 /\ ap' = 1 /\ count' = 0 /\ padding' = 0 /\ num' = NoNum

-----------------------------------------------------------------------------
More == ppc = "format" /\ fmt <= Len(print.fmt) /\ count < size
Item == print.fmt[fmt]

\* A width stays in force until a specifier has another one.
Width == IF Item.width >= 0 THEN Item.width ELSE padding

\* One character: a literal, %% or %c.
PutCharacter ==
  /\ More /\ Item.conv \in {"literal", "%", "c"}
  /\ buf' = [buf EXCEPT ![count] = IF Item.conv = "c" THEN print.args[ap] ELSE Item.ch]
  /\ ap' = IF Item.conv = "c" THEN ap + 1 ELSE ap
  /\ count' = count + 1
  /\ padding' = Width
  /\ fmt' = fmt + 1
  /\ UNCHANGED <<print, ppc, num>>

\* %s: as much of the string as fits.
PutString ==
  /\ More /\ Item.conv = "s"
  /\ LET str == print.args[ap]
         n == IF Len(str) < size - count THEN Len(str) ELSE size - count
     IN  /\ buf' = [i \in DOMAIN buf |->
                      IF i \in count .. count + n - 1 THEN str[i - count + 1] ELSE buf[i]]
         /\ count' = count + n
  /\ ap' = ap + 1
  /\ padding' = Width
  /\ fmt' = fmt + 1
  /\ UNCHANGED <<print, ppc, num>>

\* %p where "0x" and a digit do not fit writes nothing, and its argument is
\* left to the next specifier.
SkipPointer ==
  /\ More /\ Item.conv = "p" /\ size - count <= 2
  /\ padding' = Width
  /\ fmt' = fmt + 1
  /\ UNCHANGED <<print, ppc, ap, count, buf, num>>

UnknownSpecifier ==
  /\ More /\ Item.conv \notin {"literal", "%", "c", "s"} \cup DOMAIN Radix
  /\ ppc' = "done"
  /\ padding' = Width
  /\ UNCHANGED <<print, fmt, ap, count, buf, num>>

\* The number of digits of n.
basepow(n, base) ==
  LET len[k \in Nat] == IF k < base THEN 1 ELSE 1 + len[k \div base]
  IN  len[n]

\* A number: "0x" for %p, then snprintnum up to its loops.
PutNumber ==
  /\ More /\ Item.conv \in DOMAIN Radix /\ (Item.conv = "p" => size - count > 2)
  /\ LET n == print.args[ap]
         start == IF Item.conv = "p" THEN count + 2 ELSE count
         minus == Item.conv = "d" /\ n >= 2 ^ (INT_BITS - 1)
         un == IF minus THEN (2 ^ INT_BITS - n) % 2 ^ INT_BITS ELSE n
         nl == basepow(un, Radix[Item.conv])
         first == IF minus THEN 1 ELSE 0
     IN  /\ count' = start
         /\ num' = [un |-> un, base |-> Radix[Item.conv], nl |-> nl,
                    pad |-> Width - nl, count |-> first, at |-> start + first]
         /\ buf' = [i \in DOMAIN buf |->
                      CASE start > count /\ i = count     -> "0"
                        [] start > count /\ i = count + 1 -> "x"
                        [] minus /\ i = start             -> "-"
                        [] OTHER                          -> buf[i]]
         /\ ppc' = IF Width > nl THEN "padding" ELSE "digits"
  /\ ap' = ap + 1
  /\ padding' = Width
  /\ UNCHANGED <<print, fmt>>

\* What snprintnum may write; count is where the number begins.
Room == size - count

\* A round of the padding loop, which ends when the buffer is full.
Pad ==
  /\ ppc = "padding"
  /\ buf' = [buf EXCEPT ![num.at] = "0"]
  /\ num' = [num EXCEPT !.at = @ + 1, !.count = @ + 1, !.pad = @ - 1]
  /\ ppc' = IF num.pad = 1 \/ num.count + 1 = Room THEN "digits" ELSE "padding"
  /\ UNCHANGED <<print, fmt, ap, count, padding>>

\* Variant with a fault: one digit too many.
FitsLoose(nl) == num.count + nl <= Room
Fits(nl) == num.count + nl < Room

\* A round of the digit loop: the digit goes nl cells behind the padding.
WriteDigit ==
  /\ ppc = "digits"
  /\ LET nl == num.nl - 1
         written == IF Fits(nl) THEN num.count + 1 ELSE num.count
         un == num.un \div num.base
     IN  /\ buf' = IF Fits(nl) THEN [buf EXCEPT ![num.at + nl] = digits[(num.un % num.base) + 1]]
                   ELSE buf
         /\ num' = IF un = 0 THEN NoNum
                   ELSE [num EXCEPT !.nl = nl, !.un = un, !.count = written]
         /\ count' = IF un = 0 THEN count + written ELSE count
         /\ ppc' = IF un = 0 THEN "format" ELSE "digits"
         /\ fmt' = IF un = 0 THEN fmt + 1 ELSE fmt
  /\ UNCHANGED <<print, ap, padding>>

EndOfFormat ==
  /\ ppc = "format" /\ ~More
  /\ ppc' = "done"
  /\ UNCHANGED <<print, fmt, ap, count, padding, buf, num>>

PrintStep ==
  \/ PutCharacter \/ PutString \/ SkipPointer \/ UnknownSpecifier
  \/ PutNumber \/ Pad \/ WriteDigit \/ EndOfFormat

PrintReturn ==
  /\ ppc = "done"
  /\ print' = NoPrint /\ ppc' = "idle" /\ fmt' = 1 /\ ap' = 1
  /\ count' = 0 /\ padding' = 0 /\ buf' = <<>> /\ num' = NoNum

\* The functions on their own, given the calls of PRINTS.
PrintNext ==
  \/ ppc = "idle" /\ \E k \in PRINTS : PrintCall(k)
  \/ PrintStep
  \/ PrintReturn

PrintSpec == PrintInit /\ [][PrintNext]_printvars

\* What kprintf gives to sb_putstr: the buffer up to the first NUL.
Printed ==
  LET end == CHOOSE i \in DOMAIN buf :
               buf[i] = END /\ \A j \in 0 .. i - 1 : buf[j] # END
  IN  [i \in 1 .. end |-> buf[i - 1]]

-----------------------------------------------------------------------------
\* The digits of n, and n with zeros in front to make at least w digits.
Numerals(n, base) ==
  LET f[k \in Nat] ==
        IF k < base THEN <<digits[k + 1]>>
        ELSE Append(f[k \div base], digits[(k % base) + 1])
  IN  f[n]
Zeros(n) == [i \in 1 .. n |-> "0"]
Padded(n, base, w) ==
  LET d == Numerals(n, base)
  IN  (IF w > Len(d) THEN Zeros(w - Len(d)) ELSE <<>>) \o d

\* What an item becomes, with the argument v and the width w.
Text(it, v, w) ==
  CASE it.conv \in {"literal", "%"} -> <<it.ch>>
    [] it.conv = "c" -> <<v>>
    [] it.conv = "s" -> v
    [] it.conv = "p" -> <<"0", "x">> \o Padded(v, 16, w)
    [] it.conv = "d" /\ v >= 2 ^ (INT_BITS - 1) -> <<"-">> \o Padded(2 ^ INT_BITS - v, 10, w)
    [] OTHER -> Padded(v, Radix[it.conv], w)

\* The first k items of a format, written to a buffer that has no end, with the
\* width in force and the next argument.
Expand(call, was, it) ==
  LET w == IF it.width >= 0 THEN it.width ELSE was.w
  IN  [out |-> was.out \o Text(it, call.args[was.ap], w), w |-> w,
       ap  |-> IF it.conv \in {"literal", "%"} THEN was.ap ELSE was.ap + 1]
Stopped(call, k) == \E j \in 1 .. k : call.fmt[j].conv = "!"
Stages(call) ==
  LET ex[k \in 0 .. Len(call.fmt)] ==
        IF k = 0 THEN [out |-> <<>>, w |-> 0, ap |-> 1]
        ELSE IF Stopped(call, k) THEN ex[k - 1]
        ELSE Expand(call, ex[k - 1], call.fmt[k])
  IN  ex
Expansion(call) == [k \in 0 .. Len(call.fmt) |-> Stages(call)[k].out]

\* A call as the kernel makes it: each specifier has an argument of its type, a
\* %d has no width, and behind a %p only numbers are printed.
PrintsOK(call) ==
  /\ call.fn \in {"kprintf", "snprintf"} /\ call.size \in Nat
  /\ call.fmt \in Seq([conv : {"literal", "%", "c", "s", "!"} \cup DOMAIN Radix,
                       ch : STRING, width : Int])
  /\ \A k \in 1 .. Len(call.fmt) :
       LET it == call.fmt[k]
           v == call.args[Stages(call)[k - 1].ap]
       IN  /\ ~Stopped(call, k) =>
                /\ it.conv = "c" => v \in STRING
                /\ it.conv = "s" => v \in Seq(STRING)
                /\ it.conv \in DOMAIN Radix => v \in 0 .. 2 ^ INT_BITS - 1
           /\ \A j \in 1 .. k :
                /\ it.conv = "d" => call.fmt[j].width <= 0
                /\ call.fmt[j].conv = "p" => it.conv \notin {"c", "s"}

ASSUME PrintsAssumption == \A call \in PRINTS : PrintsOK(call)

\* The call meets a %p with one or two bytes of room.
PointerSkipped ==
  \E k \in 1 .. Len(print.fmt) :
    print.fmt[k].conv = "p" /\ Len(Expansion(print)[k - 1]) \in size - 2 .. size - 1

\* vsnprintf never writes behind the size it was given, though digits are
\* stored from the last to the first, and what it writes is the expansion of
\* the format, cut at that size; the one exception is a %p that the end of the
\* buffer cuts, which is left out.
PrintsPrefix ==
  /\ ppc # "idle" =>
       \A i \in DOMAIN buf :
         i >= size => buf[i] = IF print.fn = "kprintf" THEN END ELSE UNTOUCHED
  /\ ppc = "done" => count <= size
  /\ ppc = "done" /\ ~PointerSkipped =>
       LET full == Expansion(print)[Len(print.fmt)]
       IN  /\ count = IF Len(full) < size THEN Len(full) ELSE size
           /\ \A i \in 1 .. count : buf[i - 1] = full[i]
=============================================================================
