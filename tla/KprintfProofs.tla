--------------------------- MODULE KprintfProofs ---------------------------
(***************************************************************************)
(* Proofs about kprintf and snprintf, for every size of the buffer, every  *)
(* width of int and every call that PrintsOK describes.                    *)
(*                                                                         *)
(* The argument compares what is in the buffer with the stages of the      *)
(* expansion, item by item.  Within a number, which is written from its    *)
(* last digit to its first, it counts: as many digits are stored as fit,   *)
(* and those are the leading ones.                                         *)
(***************************************************************************)
EXTENDS Kprintf, LevelInduction, SequenceTheorems

\* The characters of a string.  STRING holds those named here too; the provers
\* do not know it of a literal.
Chars == STRING \cup {digits[i] : i \in 1 .. 16} \cup {"0", "x", "-", END, UNTOUCHED}
Words == 0 .. 2 ^ INT_BITS - 1

\* What a call is told of the size, and what its buffer held before.
SizeOf(call) == IF call.fn = "kprintf" THEN BUFSIZE - 1 ELSE call.size
BlankOf(call) == IF call.fn = "kprintf" THEN END ELSE UNTOUCHED

\* The first k items in full.
Out(call, k) == Stages(call)[k].out

\* A %p among the first k items was left out.
SkippedBy(call, k) ==
  \E j \in 1 .. k :
    call.fmt[j].conv = "p" /\ Len(Out(call, j - 1)) \in SizeOf(call) - 2 .. SizeOf(call) - 1

\* The first n characters in the buffer b are those of out.
Shows(b, out, n) == \A i \in 1 .. n : b[i - 1] = out[i]

\* Nothing was written behind the size.
BufferOK(call, b) ==
  /\ DOMAIN b = 0 .. SizeOf(call) + Beyond
  /\ \A i \in DOMAIN b : i >= SizeOf(call) => b[i] = BlankOf(call)

\* The next argument a is that of the expansion, or an earlier one if a %p was
\* left out; then all arguments between the two are words.
ArgsOK(call, k, a) ==
  LET next == Stages(call)[k].ap
  IN  /\ a \in 1 .. next
      /\ \A x \in a .. next - 1 : call.args[x] \in Words
      /\ a # next => \E j \in 1 .. k : call.fmt[j].conv = "p"
      /\ ~SkippedBy(call, k) => a = next

\* The first k items are in the output or on their way to it: c is where the
\* output ends, or where the number that is being written begins.
CallOK(call, k, c, a, b) ==
  /\ call \in PRINTS
  /\ k \in 0 .. Len(call.fmt) /\ ~Stopped(call, k)
  /\ BufferOK(call, b)
  /\ c \in 0 .. SizeOf(call)
  /\ ArgsOK(call, k, a)

\* Between items the output is the expansion, as far as it fits.
ShownOK(call, k, c, b) ==
  ~SkippedBy(call, k) =>
    /\ c = IF Len(Out(call, k)) < SizeOf(call) THEN Len(Out(call, k)) ELSE SizeOf(call)
    /\ Shows(b, Out(call, k), c)

\* The locals of snprintnum keep it inside its room.
Locals == [un : Words, base : {2, 10, 16}, nl : Nat, pad : Int, count : Nat, at : Nat]
LocalsOK(call, c, n) ==
  /\ n \in Locals
  /\ n.nl = basepow(n.un, n.base)
  /\ c <= n.at /\ n.at - c <= n.count /\ n.count <= SizeOf(call) - c

\* A number whose digits begin behind the first P characters of out.  Its first
\* n.nl digits are those of n.un, still to be written.
NumberAt(out, P, b, n) ==
  /\ Shows(b, out, n.at)
  /\ n.nl <= Len(out) - P
  /\ \A j \in 1 .. n.nl : out[P + j] = Numerals(n.un, n.base)[j]

\* In the padding loop no digit is written, and there are zeros up to the first.
PaddingAt(out, P, n) ==
  /\ n.nl = Len(out) - P
  /\ n.at + n.pad = P
  /\ \A i \in n.at + 1 .. P : out[i] = "0"
PaddingOK(call, k, c, b, n) ==
  /\ LocalsOK(call, c, n)
  /\ n.pad > 0 /\ n.count = n.at - c /\ n.count < SizeOf(call) - c
  /\ ~SkippedBy(call, k) =>
       \E P \in n.at .. Len(Out(call, k)) :
         NumberAt(Out(call, k), P, b, n) /\ PaddingAt(Out(call, k), P, n)

\* In the digit loop the digits behind the first n.nl are stored as far as they
\* fit, and counted.
DigitsAt(call, out, P, c, b, n) ==
  LET D == Len(out) - P
      M == IF D < SizeOf(call) - n.at THEN D ELSE SizeOf(call) - n.at
  IN  /\ n.at = P \/ n.at = SizeOf(call)
      /\ \A j \in n.nl .. D - 1 : n.at + j < SizeOf(call) => b[n.at + j] = out[n.at + j + 1]
      /\ n.count = (n.at - c) + (IF n.nl < M THEN M - n.nl ELSE 0)
DigitsOK(call, k, c, b, n) ==
  /\ LocalsOK(call, c, n)
  /\ ~SkippedBy(call, k) =>
       \E P \in n.at .. Len(Out(call, k)) :
         NumberAt(Out(call, k), P, b, n) /\ DigitsAt(call, Out(call, k), P, c, b, n)

\* Why the format ended.
EndedBy(call, f, c) ==
  f = Len(call.fmt) + 1 \/ c = SizeOf(call) \/ call.fmt[f].conv = "!"

\* The inductive invariant, place by place.
PrintInv ==
  /\ ppc \in {"idle", "format", "padding", "digits", "done"}
  /\ ppc \in {"format", "done"} =>
       CallOK(print, fmt - 1, count, ap, buf) /\ ShownOK(print, fmt - 1, count, buf)
  /\ ppc \in {"padding", "digits"} => fmt # 0 /\ CallOK(print, fmt, count, ap, buf)
  /\ ppc \in {"format", "padding", "digits", "done"} => fmt \in Nat
  /\ ppc = "format" => padding = Stages(print)[fmt - 1].w
  /\ ppc \in {"padding", "digits"} => padding = Stages(print)[fmt].w
  /\ ppc = "padding" => PaddingOK(print, fmt, count, buf, num)
  /\ ppc = "digits" => DigitsOK(print, fmt, count, buf, num)
  /\ ppc = "done" => EndedBy(print, fmt, count)
-----------------------------------------------------------------------------
(* Functions defined from their value at k \div b. *)

\* f is defined up to n: by F below b and from its value at k \div b above.
DivTable(f, b, F, G, n) ==
  f = [k \in 0 .. n |-> IF k < b THEN F[k] ELSE G[<<k, f[k \div b]>>]]
HasDivTable(b, F, G, n) == \E f : DivTable(f, b, F, G, n)

FollowsDiv(f, b, F, G, n) ==
  \A k \in 0 .. n : /\ k < b => f[k] = F[k]
                    /\ k >= b => f[k] = G[<<k, f[k \div b]>>]

DivRecursive(h, b, F, G) ==
  \A k \in Nat : /\ k < b => h[k] = F[k]
                 /\ k >= b => h[k] = G[<<k, h[k \div b]>>]

Bases == {2, 10, 16}

\* Division by a base: the quotient and the remainder.
LEMMA Quotients ==
  ASSUME NEW b \in Bases, NEW k \in Nat
  PROVE  /\ k \div b \in 0 .. k /\ k % b \in 0 .. b - 1
         /\ k >= b => k \div b < k /\ k \div b > 0
         /\ k < b => k \div b = 0 /\ k % b = k
         /\ k \div b = 0 => k < b
<1>1. CASE b = 2
  BY <1>1, SMT
<1>2. CASE b = 10
  BY <1>2, SMT
<1>3. CASE b = 16
  BY <1>3, SMT
<1> QED
  BY <1>1, <1>2, <1>3 DEF Bases

\* What such a table holds.
LEMMA DivTableIs ==
  ASSUME NEW b \in Bases, NEW F, NEW G, NEW n \in Nat, NEW f, DivTable(f, b, F, G, n)
  PROVE  FollowsDiv(f, b, F, G, n)
<1> SUFFICES ASSUME NEW k \in 0 .. n
             PROVE  /\ k < b => f[k] = F[k]
                    /\ k >= b => f[k] = G[<<k, f[k \div b]>>]
  BY DEF FollowsDiv
<1> DEFINE q == k \div b
<1>1. f[k] = IF k < b THEN F[k] ELSE G[<<k, f[q]>>]
  BY DEF DivTable
<1> HIDE DEF q
<1>2. k \in Nat /\ b \in Nat
  BY DEF Bases
<1> QED
  BY <1>1, <1>2 DEF q

\* Two tables agree where both are defined.
LEMMA DivTablesAgree ==
  ASSUME NEW b \in Bases, NEW F, NEW G, NEW m \in Nat, NEW n \in Nat, NEW f, NEW g,
         DivTable(f, b, F, G, m), DivTable(g, b, F, G, n), m <= n
  PROVE  \A k \in 0 .. m : f[k] = g[k]
<1> DEFINE T == {k \in 0 .. m : f[k] # g[k]}
<1> SUFFICES ASSUME T # {}
             PROVE  FALSE
  OBVIOUS
<1>1. T \in SUBSET Nat
  OBVIOUS
<1>2. \A k : k \in T <=> k \in 0 .. m /\ f[k] # g[k]
  OBVIOUS
<1> HIDE DEF T
<1>3. PICK k \in T : \A y \in T : k <= y
  BY <1>1, LeastNat
<1>4. k \in 0 .. m /\ k \in 0 .. n /\ k \in Nat /\ b \in Nat
  BY <1>2, <1>3 DEF Bases
<1>5. k >= b => k \div b < k /\ k \div b \in 0 .. k
  BY <1>4, Quotients
<1>6. k >= b => k \div b \in 0 .. m /\ k \div b \notin T
  BY <1>3, <1>4, <1>5
<1>7. k >= b => f[k \div b] = g[k \div b]
  BY <1>2, <1>6
<1>8. FollowsDiv(f, b, F, G, m) /\ FollowsDiv(g, b, F, G, n)
  BY DivTableIs
<1> DEFINE q == k \div b
<1>9. /\ k < b => f[k] = F[k] /\ g[k] = F[k]
      /\ k >= b => f[k] = G[<<k, f[q]>>] /\ g[k] = G[<<k, g[q]>>]
  BY <1>4, <1>8 DEF FollowsDiv
<1>10. k >= b => f[q] = g[q]
  BY <1>7
<1> HIDE DEF q
<1> QED
  BY <1>2, <1>3, <1>4, <1>9, <1>10

\* A table of any height exists.
LEMMA DivTableExists ==
  ASSUME NEW b \in Bases, NEW F, NEW G, NEW N \in Nat
  PROVE  HasDivTable(b, F, G, N)
<1> DEFINE T == {a \in Nat : ~ HasDivTable(b, F, G, a)}
<1> SUFFICES ASSUME T # {}
             PROVE  FALSE
  OBVIOUS
<1>1. T \in SUBSET Nat
  OBVIOUS
<1>2. \A a : a \in T <=> a \in Nat /\ ~HasDivTable(b, F, G, a)
  OBVIOUS
<1> HIDE DEF T
<1>3. PICK m \in T : \A y \in T : m <= y
  BY <1>1, LeastNat
<1>4. m \in Nat /\ b \in Nat /\ b > 1
  BY <1>1 DEF Bases
<1>5. \E f : FollowsDiv(f, b, F, G, m - 1)
  <2>1. CASE m = 0
    BY <2>1 DEF FollowsDiv
  <2>2. CASE m # 0
    <3>1. m - 1 \in Nat /\ m - 1 \notin T
      BY <2>2, <1>3, <1>4
    <3>2. PICK f : DivTable(f, b, F, G, m - 1)
      BY <3>1, <1>2 DEF HasDivTable
    <3> QED
      BY <3>1, <3>2, DivTableIs
  <2> QED
    BY <2>1, <2>2
<1>6. PICK f : FollowsDiv(f, b, F, G, m - 1)
  BY <1>5
<1> DEFINE top == IF m < b THEN F[m] ELSE G[<<m, f[m \div b]>>]
           g == [k \in 0 .. m |-> IF k = m THEN top ELSE f[k]]
<1>7. ASSUME NEW k \in 0 .. m
      PROVE  g[k] = IF k < b THEN F[k] ELSE G[<<k, g[k \div b]>>]
  <2> DEFINE q == k \div b
  <2>1. k \in Nat /\ (k >= b => q < k /\ q \in 0 .. k)
    BY Quotients
  <2> HIDE DEF q
  <2>2. k >= b => q \in 0 .. m /\ q # m
    BY <2>1, <1>4
  <2>3. k >= b => g[q] = f[q]
    BY <2>2
  <2>4. CASE k = m
    <3>1. g[k] = IF k < b THEN F[k] ELSE G[<<k, f[q]>>]
      BY <2>4 DEF q
    <3> HIDE DEF g
    <3>2. g[k] = IF k < b THEN F[k] ELSE G[<<k, g[q]>>]
      BY <3>1, <2>3, <2>1, <1>4
    <3> QED
      BY <3>2 DEF q
  <2>5. CASE k # m
    <3>1. k \in 0 .. m - 1
      BY <2>5, <1>4
    <3>2. g[k] = f[k]
      BY <2>5
    <3>3. /\ k < b => f[k] = F[k]
          /\ k >= b => f[k] = G[<<k, f[q]>>]
      BY <3>1, <1>6 DEF FollowsDiv, q
    <3> HIDE DEF g
    <3>4. g[k] = IF k < b THEN F[k] ELSE G[<<k, g[q]>>]
      BY <3>2, <3>3, <2>3, <2>1, <1>4
    <3> QED
      BY <3>4 DEF q
  <2> QED
    BY <2>4, <2>5
<1>8. g = [k \in 0 .. m |-> g[k]]
  OBVIOUS
<1> HIDE DEF g
<1>9. DivTable(g, b, F, G, m)
  BY <1>7, <1>8 DEF DivTable
<1> QED
  BY <1>9, <1>2, <1>3 DEF HasDivTable


\* A function on all naturals that follows the recursion: its value at n is read
\* from the table of height n.
LEMMA DivFunction ==
  ASSUME NEW b \in Bases, NEW V, NEW F \in [Nat -> V], NEW G \in [Nat \X V -> V]
  PROVE  \E h \in [Nat -> V] : DivRecursive(h, b, F, G)
<1> DEFINE t(k) == CHOOSE f : DivTable(f, b, F, G, k)
           h == [k \in Nat |-> t(k)[k]]
<1>1. \A k \in Nat : DivTable(t(k), b, F, G, k)
  BY DivTableExists DEF HasDivTable
<1>2. \A k \in Nat : h[k] = t(k)[k]
  OBVIOUS
<1>5. h = [k \in Nat |-> h[k]]
  OBVIOUS
<1> HIDE DEF t, h
<1>3. ASSUME NEW k \in Nat
      PROVE  /\ k < b => h[k] = F[k]
             /\ k >= b => h[k] = G[<<k, h[k \div b]>>]
  <2> DEFINE q == k \div b
  <2>1. q \in Nat /\ q <= k
    BY Quotients
  <2>2. FollowsDiv(t(k), b, F, G, k)
    BY <1>1, DivTableIs
  <2>3. k \in 0 .. k
    OBVIOUS
  <2>4. /\ k < b => t(k)[k] = F[k]
        /\ k >= b => t(k)[k] = G[<<k, t(k)[q]>>]
    BY <2>2, <2>3 DEF FollowsDiv
  <2> HIDE DEF q
  <2>5. DivTable(t(q), b, F, G, q) /\ DivTable(t(k), b, F, G, k)
    BY <1>1, <2>1
  <2>6. \A j \in 0 .. q : t(q)[j] = t(k)[j]
    BY <2>1, <2>5, DivTablesAgree
  <2>7. t(k)[q] = h[q] /\ t(k)[k] = h[k]
    BY <2>1, <2>6, <1>2
  <2>8. /\ k < b => h[k] = F[k]
        /\ k >= b => h[k] = G[<<k, h[q]>>]
    BY <2>4, <2>7
  <2> QED
    BY <2>8 DEF q
<1>4. DivRecursive(h, b, F, G)
  BY <1>3 DEF DivRecursive
<1>6. \A k \in Nat : h[k] \in V
  <2> DEFINE T == {k \in Nat : h[k] \notin V}
  <2> SUFFICES ASSUME T # {}
               PROVE  FALSE
    OBVIOUS
  <2>1. T \in SUBSET Nat /\ \A k : k \in T <=> k \in Nat /\ h[k] \notin V
    OBVIOUS
  <2> HIDE DEF T
  <2>2. PICK k \in T : \A y \in T : k <= y
    BY <2>1, LeastNat
  <2>3. k \in Nat /\ b \in Nat
    BY <2>1 DEF Bases
  <2>4. CASE k < b
    BY <2>4, <2>1, <2>3, <1>4 DEF DivRecursive
  <2>5. CASE k >= b
    <3> DEFINE q == k \div b
    <3>1. q \in Nat /\ q < k
      BY <2>3, <2>5, Quotients
    <3> HIDE DEF q
    <3>2. q \notin T
      BY <3>1, <2>2, <2>3
    <3>3. h[q] \in V
      BY <3>1, <3>2, <2>1
    <3>4. h[k] = G[<<k, h[q]>>]
      BY <2>3, <2>5, <1>4 DEF DivRecursive, q
    <3> QED
      BY <3>3, <3>4, <2>1, <2>3
  <2> QED
    BY <2>3, <2>4, <2>5
<1>7. h \in [Nat -> V]
  BY <1>5, <1>6
<1> QED
  BY <1>4, <1>7

-----------------------------------------------------------------------------
(* The digits of a number, and how many there are. *)

\* The loop of basepow: one digit, and those of the number without it.
LEMMA BasepowIs ==
  ASSUME NEW b \in Bases, NEW n \in Nat
  PROVE  basepow(n, b) = IF n < b THEN 1 ELSE 1 + basepow(n \div b, b)
<1> DEFINE Def(f) == f = [k \in Nat |-> IF k < b THEN 1 ELSE 1 + f[k \div b]]
           len == CHOOSE f : Def(f)
           F == [k \in Nat |-> 1]
           G == [p \in Nat \X Nat |-> 1 + p[2]]
<1>1. \A k : basepow(k, b) = len[k]
  BY DEF basepow
<1>2. \E f : Def(f)
  <2>1. F \in [Nat -> Nat] /\ G \in [Nat \X Nat -> Nat]
    OBVIOUS
  <2>2. \A k, j \in Nat : F[k] = 1 /\ G[<<k, j>>] = 1 + j
    OBVIOUS
  <2> HIDE DEF F, G
  <2>3. PICK h \in [Nat -> Nat] : DivRecursive(h, b, F, G)
    BY <2>1, DivFunction
  <2>4. ASSUME NEW k \in Nat
        PROVE  h[k] = IF k < b THEN 1 ELSE 1 + h[k \div b]
    <3> DEFINE q == k \div b
    <3>1. q \in Nat /\ b \in Nat
      BY Quotients DEF Bases
    <3>2. /\ k < b => h[k] = F[k]
          /\ k >= b => h[k] = G[<<k, h[q]>>]
      BY <2>3 DEF DivRecursive
    <3> HIDE DEF q
    <3>3. h[k] = IF k < b THEN 1 ELSE 1 + h[q]
      BY <3>1, <3>2, <2>2
    <3> QED
      BY <3>3 DEF q
  <2>5. h = [k \in Nat |-> h[k]]
    OBVIOUS
  <2>6. Def(h)
    BY <2>4, <2>5
  <2> QED
    BY <2>6
<1>3. Def(len)
  <2> HIDE DEF Def
  <2> QED
    BY <1>2
<1>4. len[n] = IF n < b THEN 1 ELSE 1 + len[n \div b]
  BY <1>3
<1> HIDE DEF len
<1> QED
  BY <1>1, <1>4

\* Numerals adds the last digit to those of the number without it.
LEMMA NumeralsIs ==
  ASSUME NEW b \in Bases, NEW n \in Nat
  PROVE  Numerals(n, b) = IF n < b THEN <<digits[n + 1]>>
                          ELSE Append(Numerals(n \div b, b), digits[(n % b) + 1])
<1> DEFINE Def(f) == f = [k \in Nat |-> IF k < b THEN <<digits[k + 1]>>
                                        ELSE Append(f[k \div b], digits[(k % b) + 1])]
           num_ == CHOOSE f : Def(f)
           S == {digits[i] : i \in Int}
           V == Seq(S)
           F == [k \in Nat |-> <<digits[k + 1]>>]
           G == [p \in Nat \X V |-> Append(p[2], digits[(p[1] % b) + 1])]
<1>1. \A k : Numerals(k, b) = num_[k]
  BY DEF Numerals
<1>2. \E f : Def(f)
  <2>0. \A k \in Nat : k % b \in Nat /\ k \div b \in Nat
    BY Quotients DEF Bases
  <2>1. F \in [Nat -> V] /\ G \in [Nat \X V -> V]
    <3>1. \A k \in Nat : digits[k + 1] \in S /\ digits[(k % b) + 1] \in S
      BY <2>0
    <3> HIDE DEF S
    <3>2. \A k \in Nat : <<digits[k + 1]>> \in V
      BY <3>1
    <3>3. \A k \in Nat, s \in V : Append(s, digits[(k % b) + 1]) \in V
      BY <3>1, AppendProperties
    <3> HIDE DEF V
    <3> QED
      BY <3>2, <3>3
  <2>2. \A k \in Nat, s \in V : /\ F[k] = <<digits[k + 1]>>
                                /\ G[<<k, s>>] = Append(s, digits[(k % b) + 1])
    OBVIOUS
  <2> HIDE DEF F, G, V
  <2>3. PICK h \in [Nat -> V] : DivRecursive(h, b, F, G)
    BY <2>1, DivFunction
  <2>4. ASSUME NEW k \in Nat
        PROVE  h[k] = IF k < b THEN <<digits[k + 1]>>
                      ELSE Append(h[k \div b], digits[(k % b) + 1])
    <3> DEFINE q == k \div b
    <3>1. q \in Nat /\ b \in Nat
      BY Quotients DEF Bases
    <3>2. /\ k < b => h[k] = F[k]
          /\ k >= b => h[k] = G[<<k, h[q]>>]
      BY <2>3 DEF DivRecursive
    <3> HIDE DEF q
    <3>0. h[q] \in V
      BY <3>1
    <3>3. /\ k < b => h[k] = <<digits[k + 1]>>
          /\ k >= b => h[k] = Append(h[q], digits[(k % b) + 1])
      BY <3>0, <3>2, <2>2
    <3> DEFINE one == <<digits[k + 1]>>
               more == Append(h[q], digits[(k % b) + 1])
    <3>4. (k < b => h[k] = one) /\ (k >= b => h[k] = more)
      BY <3>3
    <3> HIDE DEF one, more
    <3>5. h[k] = IF k < b THEN one ELSE more
      BY <3>1, <3>4
    <3> QED
      BY <3>5 DEF one, more, q
  <2>5. h = [k \in Nat |-> h[k]]
    OBVIOUS
  <2>6. Def(h)
    BY <2>4, <2>5
  <2> QED
    BY <2>6
<1>3. Def(num_)
  <2> HIDE DEF Def
  <2> QED
    BY <1>2
<1>4. num_[n] = IF n < b THEN <<digits[n + 1]>>
                ELSE Append(num_[n \div b], digits[(n % b) + 1])
  BY <1>3
<1> HIDE DEF num_
<1> QED
  BY <1>1, <1>4

\* digits holds a character for every digit of a base.
LEMMA DigitTypes == \A i \in 1 .. 16 : digits[i] \in Chars
  BY DEF Chars

\* The numerals are characters, at least one, and as many as basepow says.
LEMMA NumeralTypes ==
  ASSUME NEW b \in Bases, NEW n \in Nat
  PROVE  /\ Numerals(n, b) \in Seq(Chars) /\ Len(Numerals(n, b)) = basepow(n, b)
         /\ basepow(n, b) \in Nat \ {0}
<1> DEFINE P(k) == /\ Numerals(k, b) \in Seq(Chars) /\ Len(Numerals(k, b)) = basepow(k, b)
                   /\ basepow(k, b) \in Nat \ {0}
           T == {k \in Nat : ~P(k)}
<1> SUFFICES ASSUME T # {}
             PROVE  FALSE
  OBVIOUS
<1>1. T \in SUBSET Nat /\ \A k : k \in T <=> k \in Nat /\ ~P(k)
  OBVIOUS
<1> HIDE DEF T
<1>2. PICK k \in T : \A y \in T : k <= y
  BY <1>1, LeastNat
<1> DEFINE q == k \div b
           r == k % b
<1>3. k \in Nat /\ b \in Nat /\ b <= 16
  BY <1>1 DEF Bases
<1>4. /\ q \in Nat /\ r \in 0 .. b - 1
      /\ k >= b => q < k
  BY <1>3, Quotients
<1>5. /\ basepow(k, b) = IF k < b THEN 1 ELSE 1 + basepow(q, b)
      /\ Numerals(k, b) = IF k < b THEN <<digits[k + 1]>>
                          ELSE Append(Numerals(q, b), digits[r + 1])
  BY <1>3, BasepowIs, NumeralsIs
<1> HIDE DEF q, r
<1>6. digits[r + 1] \in Chars /\ (k < b => digits[k + 1] \in Chars)
  BY <1>3, <1>4, DigitTypes
<1>7. CASE k < b
  <2>1. Numerals(k, b) = <<digits[k + 1]>> /\ basepow(k, b) = 1
    BY <1>5, <1>7
  <2>2. <<digits[k + 1]>> \in Seq(Chars) /\ Len(<<digits[k + 1]>>) = 1
    BY <1>6, <1>7
  <2>3. P(k)
    BY <2>1, <2>2
  <2> QED
    BY <2>3, <1>1
<1>8. CASE k >= b
  <2>1. q \notin T
    BY <1>2, <1>3, <1>4, <1>8
  <2>2. P(q)
    BY <2>1, <1>1, <1>4
  <2>3. Numerals(k, b) = Append(Numerals(q, b), digits[r + 1])
        /\ basepow(k, b) = 1 + basepow(q, b)
    BY <1>3, <1>5, <1>8
  <2>4. P(k)
    <3> DEFINE s == Numerals(q, b)
               c == digits[r + 1]
    <3>1. s \in Seq(Chars) /\ c \in Chars /\ Len(s) = basepow(q, b) /\ basepow(q, b) \in Nat
      BY <2>2, <1>6
    <3>2. Numerals(k, b) = Append(s, c)
      BY <2>3
    <3> HIDE DEF s, c
    <3>3. Append(s, c) \in Seq(Chars) /\ Len(Append(s, c)) = Len(s) + 1
      BY <3>1, AppendProperties
    <3> QED
      BY <3>1, <3>2, <3>3, <2>3
  <2> QED
    BY <2>4, <1>1
<1> QED
  BY <1>3, <1>7, <1>8

-----------------------------------------------------------------------------
(* What an item becomes. *)

\* What stands in front of the digits, and the number they are the digits of.
Minus(it, v) == it.conv = "d" /\ v >= 2 ^ (INT_BITS - 1)
Front(it, v) == IF it.conv = "p" THEN <<"0", "x">> ELSE IF Minus(it, v) THEN <<"-">> ELSE <<>>
Unsigned(it, v) == IF Minus(it, v) THEN 2 ^ INT_BITS - v ELSE v

\* The numbers of zeros in front of the digits of n.
ZerosFor(n, b, w) == IF w > basepow(n, b) THEN w - basepow(n, b) ELSE 0

\* The place of a digit behind z zeros.
LEMMA BehindFront ==
  ASSUME NEW z \in Nat, NEW l \in Nat, NEW j \in 1 .. l
  PROVE  z + j \in 1 .. z + l /\ ~(z + j <= z) /\ (z + j) - z = j
  OBVIOUS

\* Zeros, then the digits.
LEMMA PaddedIs ==
  ASSUME NEW b \in Bases, NEW n \in Nat, NEW w \in Nat
  PROVE  LET z == ZerosFor(n, b, w)
         IN  /\ z \in Nat
             /\ Padded(n, b, w) \in Seq(Chars) /\ Len(Padded(n, b, w)) = z + basepow(n, b)
             /\ \A i \in 1 .. z : Padded(n, b, w)[i] = "0"
             /\ \A j \in 1 .. basepow(n, b) : Padded(n, b, w)[z + j] = Numerals(n, b)[j]
<1> DEFINE z == ZerosFor(n, b, w)
           d == Numerals(n, b)
           s == IF w > Len(d) THEN Zeros(w - Len(d)) ELSE <<>>
<1>1. d \in Seq(Chars) /\ Len(d) = basepow(n, b) /\ basepow(n, b) \in Nat
  BY NumeralTypes
<1>2. z \in Nat /\ z = IF w > Len(d) THEN w - Len(d) ELSE 0
  BY <1>1 DEF ZerosFor
<1>3. Padded(n, b, w) = s \o d
  BY DEF Padded
<1>4. s \in Seq(Chars) /\ Len(s) = z /\ \A i \in 1 .. z : s[i] = "0"
  <2>1. CASE w > Len(d)
    <3>1. s = [i \in 1 .. z |-> "0"]
      BY <2>1, <1>2 DEF Zeros
    <3>2. "0" \in Chars
      BY DEF Chars
    <3> HIDE DEF s, z
    <3> QED
      BY <3>1, <3>2, <1>2
  <2>2. CASE ~(w > Len(d))
    BY <2>2, <1>2
  <2> QED
    BY <2>1, <2>2
<1> HIDE DEF s, d, z
<1>5. /\ s \o d \in Seq(Chars)
      /\ Len(s \o d) = Len(s) + Len(d)
      /\ \A i \in 1 .. Len(s) + Len(d) : (s \o d)[i] = IF i <= Len(s) THEN s[i] ELSE d[i - Len(s)]
  BY <1>1, <1>4, ConcatProperties
<1> DEFINE p == s \o d
<1>6. p \in Seq(Chars) /\ Len(p) = z + basepow(n, b)
  BY <1>1, <1>4, <1>5
<1>7. \A i \in 1 .. z : p[i] = "0"
  BY <1>1, <1>2, <1>4, <1>5
<1>8. ASSUME NEW j \in 1 .. basepow(n, b)
      PROVE  p[z + j] = d[j]
  <2>1. z + j \in 1 .. Len(s) + Len(d) /\ ~(z + j <= Len(s)) /\ (z + j) - Len(s) = j
    <3>1. j \in 1 .. basepow(n, b)
      OBVIOUS
    <3>2. z + j \in 1 .. z + basepow(n, b) /\ ~(z + j <= z) /\ (z + j) - z = j
      BY ONLY <3>1, <1>1, <1>2, BehindFront
    <3> QED
      BY ONLY <3>2, <1>1, <1>4
  <2> QED
    BY <2>1, <1>5
<1> QED
  BY <1>2, <1>3, <1>6, <1>7, <1>8 DEF z, d

\* The radixes.
LEMMA RadixIs ==
  /\ DOMAIN Radix = {"x", "p", "b", "d", "u"}
  /\ \A k \in DOMAIN Radix : Radix[k] \in Bases
  /\ Radix["p"] = 16 /\ Radix["d"] = 10
<1>1. DOMAIN Radix = {"x", "p", "b", "d", "u"}
  BY DEF Radix
<1>2. Radix["x"] = 16 /\ Radix["p"] = 16 /\ Radix["b"] = 2 /\ Radix["d"] = 10 /\ Radix["u"] = 10
  BY DEF Radix
<1> QED
  BY <1>1, <1>2 DEF Bases

\* The range of the words.
LEMMA WordRange ==
  /\ 2 ^ INT_BITS \in Nat \ {0} /\ 2 ^ (INT_BITS - 1) \in Nat \ {0}
  /\ \A v \in Words : v \in Nat /\ v < 2 ^ INT_BITS
<1>1. 2 ^ INT_BITS \in Nat \ {0} /\ 2 ^ (INT_BITS - 1) \in Nat \ {0}
  BY PrintAssumption
<1> QED
  BY <1>1 DEF Words

\* The number behind a minus sign is a word too, and wrapping changes nothing.
LEMMA UnsignedIs ==
  ASSUME NEW it, NEW v \in Words
  PROVE  /\ Unsigned(it, v) \in Words
         /\ Minus(it, v) => (2 ^ INT_BITS - v) % 2 ^ INT_BITS = 2 ^ INT_BITS - v
<1> DEFINE B == 2 ^ INT_BITS
           H == 2 ^ (INT_BITS - 1)
<1>1. B \in Nat \ {0} /\ H \in Nat \ {0} /\ v \in Nat /\ v < B
  BY WordRange
<1>2. Words = 0 .. B - 1
  BY DEF Words
<1>3. Minus(it, v) => v >= H
  BY DEF Minus
<1>4. Unsigned(it, v) = IF Minus(it, v) THEN B - v ELSE v
  BY DEF Unsigned
<1> HIDE DEF B, H
<1>5. Unsigned(it, v) \in Words
  BY <1>1, <1>2, <1>3, <1>4
<1>6. Minus(it, v) => (B - v) % B = B - v
  <2>1. Minus(it, v) => B - v \in 0 .. B - 1
    BY <1>1, <1>3
  <2>2. \A x \in 0 .. B - 1 : x % B = x
    BY <1>1, SMT
  <2> QED
    BY <2>1, <2>2
<1> QED
  BY <1>5, <1>6 DEF B

\* A number becomes its front, zeros, and its digits.
LEMMA NumberText ==
  ASSUME NEW it, it.conv \in DOMAIN Radix, NEW v \in Words, NEW w \in Nat
  PROVE  /\ Text(it, v, w) = Front(it, v) \o Padded(Unsigned(it, v), Radix[it.conv], w)
         /\ Front(it, v) \in Seq(Chars)
<1> DEFINE B == 2 ^ INT_BITS
<1>1. it.conv \in {"x", "p", "b", "d", "u"}
  BY RadixIs
<1>2. "0" \in Chars /\ "x" \in Chars /\ "-" \in Chars
  BY DEF Chars
<1>3. Front(it, v) \in Seq(Chars)
  BY <1>2 DEF Front
<1>4. Unsigned(it, v) \in Nat
  BY UnsignedIs, WordRange
<1>5. CASE it.conv = "p"
  <2>1. Text(it, v, w) = <<"0", "x">> \o Padded(v, 16, w)
    BY <1>5 DEF Text
  <2>2. Front(it, v) = <<"0", "x">> /\ Unsigned(it, v) = v
    BY <1>5 DEF Front, Unsigned, Minus
  <2> QED
    BY <2>1, <2>2, <1>3, <1>5, RadixIs
<1>6. CASE Minus(it, v)
  <2>1. it.conv = "d" /\ v >= 2 ^ (INT_BITS - 1)
    BY <1>6 DEF Minus
  <2>2. Text(it, v, w) = <<"-">> \o Padded(B - v, 10, w)
    BY <2>1 DEF Text
  <2>3. Front(it, v) = <<"-">> /\ Unsigned(it, v) = B - v
    BY <1>6, <2>1 DEF Front, Unsigned
  <2> QED
    BY <2>1, <2>2, <2>3, <1>3, RadixIs
<1>7. CASE it.conv # "p" /\ ~Minus(it, v)
  <2>1. ~(it.conv = "d" /\ v >= 2 ^ (INT_BITS - 1))
    BY <1>7 DEF Minus
  <2>2. Text(it, v, w) = Padded(v, Radix[it.conv], w)
    BY <2>1, <1>1, <1>7 DEF Text
  <2>3. Front(it, v) = <<>> /\ Unsigned(it, v) = v
    BY <1>7 DEF Front, Unsigned
  <2>4. Padded(v, Radix[it.conv], w) \in Seq(Chars)
    <3>1. v \in Nat /\ Radix[it.conv] \in Bases
      BY WordRange, RadixIs
    <3> QED
      BY <3>1, PaddedIs
  <2>5. <<>> \o Padded(v, Radix[it.conv], w) = Padded(v, Radix[it.conv], w)
    BY <2>4, ConcatEmptySeq
  <2> QED
    BY <2>2, <2>3, <2>5, <1>3
<1> QED
  BY <1>5, <1>6, <1>7

\* v is an argument for the item.
Suits(it, v) ==
  /\ it.conv = "c" => v \in STRING
  /\ it.conv = "s" => v \in Seq(STRING)
  /\ it.conv \in DOMAIN Radix => v \in Words

Items == [conv : {"literal", "%", "c", "s", "!"} \cup DOMAIN Radix, ch : STRING, width : Int]

\* An item becomes characters.
LEMMA TextTypes ==
  ASSUME NEW it \in Items, it.conv # "!", NEW v, Suits(it, v), NEW w \in Nat
  PROVE  Text(it, v, w) \in Seq(Chars)
<1>1. STRING \subseteq Chars
  BY DEF Chars
<1>2. it.conv \in {"literal", "%", "c", "s", "!"} \cup DOMAIN Radix /\ it.ch \in STRING
  BY DEF Items
<1>3. CASE it.conv \in {"literal", "%"}
  <2>1. Text(it, v, w) = <<it.ch>>
    BY <1>3 DEF Text
  <2>2. it.ch \in Chars
    BY <1>1, <1>2
  <2> QED
    BY <2>1, <2>2
<1>4. CASE it.conv = "c"
  <2>1. Text(it, v, w) = <<v>>
    BY <1>4 DEF Text
  <2>2. v \in Chars
    BY <1>1, <1>4 DEF Suits
  <2> QED
    BY <2>1, <2>2
<1>5. CASE it.conv = "s"
  <2>1. Text(it, v, w) = v
    BY <1>5 DEF Text
  <2>2. v \in Seq(STRING)
    BY <1>5 DEF Suits
  <2>3. v \in Seq(Chars)
    BY <1>1, <2>2, SeqMonotonic
  <2> QED
    BY <2>1, <2>3
<1>6. CASE it.conv \in DOMAIN Radix
  <2> DEFINE p == Padded(Unsigned(it, v), Radix[it.conv], w)
  <2>1. v \in Words
    BY <1>6 DEF Suits
  <2>2. Text(it, v, w) = Front(it, v) \o p /\ Front(it, v) \in Seq(Chars)
    BY <2>1, <1>6, NumberText
  <2>3. p \in Seq(Chars)
    BY <2>1, <1>6, UnsignedIs, WordRange, PaddedIs, RadixIs
  <2> QED
    BY <2>2, <2>3, ConcatProperties
<1> QED
  BY <1>2, <1>3, <1>4, <1>5, <1>6

-----------------------------------------------------------------------------
(* The stages of an expansion. *)

Empty == [out |-> <<>>, w |-> 0, ap |-> 1]

\* A stage above the first, from the one below.
StageFrom(call, was, k) == IF Stopped(call, k) THEN was ELSE Expand(call, was, call.fmt[k])

\* The table of the stages exists up to any height.
StageTable(f, call, m) ==
  f = [k \in 0 .. m |-> IF k = 0 THEN Empty ELSE StageFrom(call, f[k - 1], k)]
LEMMA StagesExist ==
  ASSUME NEW call, NEW N \in Nat
  PROVE  \E f : StageTable(f, call, N)
<1> DEFINE Has(a) == \E f : StageTable(f, call, a)
           T == {a \in Nat : ~ Has(a)}
<1> SUFFICES ASSUME T # {}
             PROVE  FALSE
  OBVIOUS
<1>1. T \in SUBSET Nat /\ \A a : a \in T <=> a \in Nat /\ ~Has(a)
  OBVIOUS
<1> HIDE DEF T
<1>2. PICK m \in T : \A y \in T : m <= y
  BY <1>1, LeastNat
<1>3. m \in Nat
  BY <1>1
<1>4. CASE m = 0
  <2> DEFINE g == [k \in 0 .. 0 |-> Empty]
  <2>1. \A k \in 0 .. 0 : k = 0
    OBVIOUS
  <2>2. StageTable(g, call, 0)
    BY <2>1 DEF StageTable
  <2> QED
    BY <2>2, <1>1, <1>2, <1>4
<1>5. CASE m # 0
  <2>1. m - 1 \in Nat /\ m - 1 \notin T
    BY <1>2, <1>3, <1>5
  <2>2. PICK f : StageTable(f, call, m - 1)
    BY <2>1, <1>1
  <2> DEFINE g == [k \in 0 .. m |-> IF k = m THEN StageFrom(call, f[m - 1], m) ELSE f[k]]
  <2>3. ASSUME NEW k \in 0 .. m
        PROVE  g[k] = IF k = 0 THEN Empty ELSE StageFrom(call, g[k - 1], k)
    <3>1. k # 0 => k - 1 \in 0 .. m /\ k - 1 # m
      BY <1>3
    <3>2. k # 0 => g[k - 1] = f[k - 1]
      BY <3>1
    <3>3. CASE k = m
      <4>1. g[k] = StageFrom(call, f[k - 1], k)
        BY <3>3
      <4> HIDE DEF g
      <4> QED
        BY <4>1, <3>2, <3>3, <1>5
    <3>4. CASE k # m
      <4>1. k \in 0 .. m - 1 /\ g[k] = f[k]
        BY <3>4, <1>3
      <4>2. f[k] = IF k = 0 THEN Empty ELSE StageFrom(call, f[k - 1], k)
        BY <4>1, <2>2 DEF StageTable
      <4> HIDE DEF g
      <4> QED
        BY <4>1, <4>2, <3>2
    <3> QED
      BY <3>3, <3>4
  <2>4. g = [k \in 0 .. m |-> g[k]]
    OBVIOUS
  <2> HIDE DEF g
  <2>5. StageTable(g, call, m)
    BY <2>3, <2>4 DEF StageTable
  <2> QED
    BY <2>5, <1>1, <1>2
<1> QED
  BY <1>4, <1>5

\* The stages follow their definition.
LEMMA StagesAre ==
  ASSUME NEW call, Len(call.fmt) \in Nat
  PROVE  /\ Stages(call)[0] = Empty
         /\ \A k \in 1 .. Len(call.fmt) :
              Stages(call)[k] = StageFrom(call, Stages(call)[k - 1], k)
<1> DEFINE n == Len(call.fmt)
           t == CHOOSE f : StageTable(f, call, n)
<1>1. Stages(call) = t
  BY DEF Stages, StageTable, StageFrom, Empty
<1>2. StageTable(t, call, n)
  BY StagesExist
<1> HIDE DEF t
<1>3. t[0] = Empty
  BY <1>2 DEF StageTable
<1>4. ASSUME NEW k \in 1 .. n
      PROVE  t[k] = StageFrom(call, t[k - 1], k)
  <2>1. k \in 0 .. n /\ k # 0
    OBVIOUS
  <2> QED
    BY <2>1, <1>2 DEF StageTable
<1> QED
  BY <1>1, <1>3, <1>4

\* Once an unknown specifier has been met there is nothing more to show.
LEMMA StoppedStays ==
  ASSUME NEW call, NEW k \in Nat, NEW l \in Nat, k <= l, Stopped(call, k)
  PROVE  Stopped(call, l)
<1>1. PICK j \in 1 .. k : call.fmt[j].conv = "!"
  BY DEF Stopped
<1>2. j \in 1 .. l
  OBVIOUS
<1> QED
  BY <1>1, <1>2 DEF Stopped

StageOK(s) == s.out \in Seq(Chars) /\ s.w \in Nat /\ s.ap \in Nat \ {0}

\* What PrintsOK says of one item.
LEMMA ItemOK ==
  ASSUME NEW call, PrintsOK(call), NEW k \in 1 .. Len(call.fmt)
  PROVE  /\ Len(call.fmt) \in Nat
         /\ call.fmt[k] \in Items
         /\ ~Stopped(call, k) =>
              call.fmt[k].conv # "!" /\ Suits(call.fmt[k], call.args[Stages(call)[k - 1].ap])
         /\ \A j \in 1 .. k :
              /\ call.fmt[k].conv = "d" => call.fmt[j].width <= 0
              /\ call.fmt[j].conv = "p" => call.fmt[k].conv \notin {"c", "s"}
<1>1. call.fmt \in Seq(Items)
  BY DEF PrintsOK, Items
<1>2. Len(call.fmt) \in Nat /\ call.fmt[k] \in Items
  BY <1>1, ElementOfSeq, LenProperties
<1>3. ~Stopped(call, k) => call.fmt[k].conv # "!"
  <2>1. k \in 1 .. k
    BY <1>2
  <2> QED
    BY <2>1 DEF Stopped
<1>4. ~Stopped(call, k) => Suits(call.fmt[k], call.args[Stages(call)[k - 1].ap])
  BY DEF PrintsOK, Suits, Words
<1>5. \A j \in 1 .. k :
              /\ call.fmt[k].conv = "d" => call.fmt[j].width <= 0
              /\ call.fmt[j].conv = "p" => call.fmt[k].conv \notin {"c", "s"}
  BY DEF PrintsOK
<1> QED
  BY <1>2, <1>3, <1>4, <1>5

\* One stage from the one below: its text is added.
WidthOf(it, w) == IF it.width >= 0 THEN it.width ELSE w
Grown(call, was, it, new) ==
  /\ WidthOf(it, was.w) \in Nat /\ new.w = WidthOf(it, was.w)
  /\ new.ap = IF it.conv \in {"literal", "%"} THEN was.ap ELSE was.ap + 1
  /\ new.ap \in Nat \ {0}
  /\ new.out = was.out \o Text(it, call.args[was.ap], WidthOf(it, was.w))
LEMMA ExpandIs ==
  ASSUME NEW call, NEW was, StageOK(was), NEW it \in Items
  PROVE  Grown(call, was, it, Expand(call, was, it))
<1>1. it.width \in Int /\ was.w \in Nat /\ was.ap \in Nat \ {0}
  BY DEF Items, StageOK
<1>2. WidthOf(it, was.w) \in Nat
  BY <1>1 DEF WidthOf
<1> DEFINE o == was.out \o Text(it, call.args[was.ap], WidthOf(it, was.w))
           a == IF it.conv \in {"literal", "%"} THEN was.ap ELSE was.ap + 1
<1>3. Expand(call, was, it) = [out |-> o, w |-> WidthOf(it, was.w), ap |-> a]
  BY DEF Expand, WidthOf
<1>4. a \in Nat \ {0}
  BY <1>1
<1> HIDE DEF o, a
<1>5. /\ Expand(call, was, it).w = WidthOf(it, was.w)
      /\ Expand(call, was, it).ap = a
      /\ Expand(call, was, it).out = o
  BY <1>3
<1> QED
  BY <1>2, <1>4, <1>5 DEF Grown, o, a

\* The types of the stages.
LEMMA StageTypes ==
  ASSUME NEW call, PrintsOK(call)
  PROVE  \A k \in 0 .. Len(call.fmt) : StageOK(Stages(call)[k])
<1> DEFINE n == Len(call.fmt)
           st == Stages(call)
           T == {k \in 0 .. n : ~StageOK(st[k])}
<1> SUFFICES ASSUME T # {}
             PROVE  FALSE
  OBVIOUS
<1>0. n \in Nat
  <2>1. call.fmt \in Seq(Items)
    BY DEF PrintsOK, Items
  <2> QED
    BY <2>1, LenProperties
<1>1. T \in SUBSET Nat /\ \A k : k \in T <=> k \in 0 .. n /\ ~StageOK(st[k])
  OBVIOUS
<1> HIDE DEF T
<1>2. PICK k \in T : \A y \in T : k <= y
  BY <1>1, LeastNat
<1>3. k \in 0 .. n
  BY <1>1
<1>4. st[0] = Empty /\ \A j \in 1 .. n : st[j] = StageFrom(call, st[j - 1], j)
  BY <1>0, StagesAre
<1>5. k # 0
  <2>1. StageOK(Empty)
    BY EmptySeq DEF StageOK, Empty
  <2> QED
    BY <2>1, <1>1, <1>4
<1>6. k \in 1 .. n /\ k - 1 \in 0 .. n
  BY <1>0, <1>3, <1>5
<1>7. StageOK(st[k - 1])
  <2>1. k - 1 \notin T
    BY <1>0, <1>2, <1>3
  <2> QED
    BY <2>1, <1>1, <1>6
<1>8. st[k] = StageFrom(call, st[k - 1], k)
  BY <1>4, <1>6
<1>9. CASE Stopped(call, k)
  BY <1>1, <1>2, <1>7, <1>8, <1>9 DEF StageFrom
<1>10. CASE ~Stopped(call, k)
  <2> DEFINE it == call.fmt[k]
             was == st[k - 1]
             w == WidthOf(it, was.w)
             v == call.args[was.ap]
  <2>1. st[k] = Expand(call, was, it)
    BY <1>8, <1>10 DEF StageFrom
  <2>2. it \in Items /\ it.conv # "!" /\ Suits(it, v)
    BY <1>6, <1>10, ItemOK
  <2>3. StageOK(was)
    BY <1>7
  <2> HIDE DEF it, was, st
  <2>4. /\ w \in Nat /\ st[k].w = w
        /\ st[k].ap \in Nat \ {0}
        /\ st[k].out = was.out \o Text(it, v, w)
    <3>1. Grown(call, was, it, st[k])
      BY <2>1, <2>2, <2>3, ExpandIs
    <3> QED
      BY <3>1 DEF Grown
  <2> HIDE DEF w, v
  <2>5. Text(it, v, w) \in Seq(Chars)
    BY <2>2, <2>4, TextTypes
  <2>6. was.out \in Seq(Chars)
    BY <2>3 DEF StageOK
  <2>7. st[k].out \in Seq(Chars)
    BY <2>4, <2>5, <2>6, ConcatProperties
  <2>8. StageOK(st[k])
    BY <2>4, <2>7 DEF StageOK
  <2> QED
    BY <2>8, <1>1, <1>2
<1> QED
  BY <1>9, <1>10

\* t begins with s.
Begins(s, t) == Len(s) <= Len(t) /\ \A i \in 1 .. Len(s) : t[i] = s[i]

\* The stage of an item: what it shows, the width and the next argument.
Adds(call, it, was, new, text) ==
  /\ it \in Items /\ it.conv # "!" /\ Suits(it, call.args[was.ap])
  /\ StageOK(was) /\ StageOK(new)
  /\ WidthOf(it, was.w) \in Nat /\ new.w = WidthOf(it, was.w)
  /\ new.ap = IF it.conv \in {"literal", "%"} THEN was.ap ELSE was.ap + 1
  /\ text \in Seq(Chars) /\ Len(text) \in Nat
  /\ Len(new.out) = Len(was.out) + Len(text)
  /\ Begins(was.out, new.out)
  /\ \A j \in 1 .. Len(text) : new.out[Len(was.out) + j] = text[j]
LEMMA StageStep ==
  ASSUME NEW call, PrintsOK(call), NEW k \in 1 .. Len(call.fmt), ~Stopped(call, k),
         NEW it, it = call.fmt[k], NEW was, was = Stages(call)[k - 1],
         NEW new, new = Stages(call)[k],
         NEW text, text = Text(it, call.args[was.ap], WidthOf(it, was.w))
  PROVE  Adds(call, it, was, new, text)
<1>1. it \in Items /\ it.conv # "!" /\ Suits(it, call.args[was.ap]) /\ Len(call.fmt) \in Nat
  BY ItemOK
<1>2. k - 1 \in 0 .. Len(call.fmt) /\ k \in 0 .. Len(call.fmt)
  BY <1>1
<1>3. StageOK(was) /\ StageOK(new)
  BY <1>2, StageTypes
<1>4. new = Expand(call, was, it)
  <2>1. new = StageFrom(call, was, k)
    BY <1>1, StagesAre
  <2> QED
    BY <2>1 DEF StageFrom
<1>5. /\ WidthOf(it, was.w) \in Nat /\ new.w = WidthOf(it, was.w)
      /\ new.ap = IF it.conv \in {"literal", "%"} THEN was.ap ELSE was.ap + 1
      /\ new.out = was.out \o text
  <2>1. Grown(call, was, it, new)
    BY <1>1, <1>3, <1>4, ExpandIs
  <2> QED
    BY <2>1 DEF Grown
<1>6. text \in Seq(Chars)
  BY <1>1, <1>5, TextTypes
<1>7. was.out \in Seq(Chars)
  BY <1>3 DEF StageOK
<1> DEFINE o == was.out
           a == Len(o)
           b == Len(text)
<1>8. a \in Nat /\ b \in Nat
  BY <1>6, <1>7, LenProperties
<1>9. /\ Len(new.out) = a + b
      /\ \A i \in 1 .. a + b : new.out[i] = IF i <= a THEN o[i] ELSE text[i - a]
  <2>1. o \in Seq(Chars) /\ new.out = o \o text
    BY <1>5, <1>7
  <2> HIDE DEF o
  <2>2. /\ Len(o \o text) = Len(o) + Len(text)
        /\ \A i \in 1 .. Len(o) + Len(text) :
             (o \o text)[i] = IF i <= Len(o) THEN o[i] ELSE text[i - Len(o)]
    BY <1>6, <2>1, ConcatProperties
  <2> QED
    BY <2>1, <2>2
<1> HIDE DEF o, a, b
<1>10. a <= a + b /\ \A i \in 1 .. a : new.out[i] = o[i]
  BY <1>8, <1>9
<1>11. ASSUME NEW j \in 1 .. b
       PROVE  new.out[a + j] = text[j]
  <2>1. a + j \in 1 .. a + b /\ ~(a + j <= a) /\ (a + j) - a = j
    BY <1>8
  <2> QED
    BY <2>1, <1>9
<1> QED
  BY <1>1, <1>3, <1>5, <1>6, <1>8, <1>9, <1>10, <1>11 DEF Adds, Begins, o, a, b

\* A later stage begins with an earlier one.
LEMMA StagesGrow ==
  ASSUME NEW call, PrintsOK(call), NEW k \in 0 .. Len(call.fmt), NEW l \in k .. Len(call.fmt)
  PROVE  Begins(Stages(call)[k].out, Stages(call)[l].out)
<1> DEFINE n == Len(call.fmt)
           o(i) == Stages(call)[i].out
           T == {i \in k .. n : ~Begins(o(k), o(i))}
<1>0. call.fmt \in Seq(Items)
  BY DEF PrintsOK, Items
<1>1. n \in Nat
  BY <1>0, LenProperties
<1>2. \A i \in 0 .. n : o(i) \in Seq(Chars) /\ Len(o(i)) \in Nat
  BY StageTypes, LenProperties DEF StageOK
<1> SUFFICES ASSUME T # {}
             PROVE  FALSE
  OBVIOUS
<1>3. T \in SUBSET Nat /\ \A i : i \in T <=> i \in k .. n /\ ~Begins(o(k), o(i))
  BY <1>1
<1> HIDE DEF T
<1>4. PICK m \in T : \A y \in T : m <= y
  BY <1>3, LeastNat
<1>5. m \in k .. n /\ ~Begins(o(k), o(m))
  BY <1>3
<1>6. m # k
  BY <1>2, <1>5 DEF Begins
<1>7. m \in 1 .. n /\ m - 1 \in k .. n /\ m - 1 \in 0 .. n /\ m - 1 \notin T
  BY <1>1, <1>4, <1>5, <1>6
<1>8. Begins(o(k), o(m - 1))
  BY <1>3, <1>7
<1>9. Begins(o(m - 1), o(m))
  <2>1. CASE Stopped(call, m)
    <3>1. Stages(call)[m] = Stages(call)[m - 1]
      BY <2>1, <1>1, <1>7, StagesAre DEF StageFrom
    <3> QED
      BY <3>1, <1>2, <1>7 DEF Begins
  <2>2. CASE ~Stopped(call, m)
    <3>1. PICK it, was, new : /\ it = call.fmt[m] /\ was = Stages(call)[m - 1]
                              /\ new = Stages(call)[m]
      OBVIOUS
    <3>2. PICK text : text = Text(it, call.args[was.ap], WidthOf(it, was.w))
      OBVIOUS
    <3> QED
      BY <2>2, <3>1, <3>2, <1>7, StageStep DEF Adds
  <2> QED
    BY <2>1, <2>2
<1> DEFINE a == o(k)
           b == o(m - 1)
           c == o(m)
<1>10. Len(a) \in Nat /\ Len(b) \in Nat /\ Len(c) \in Nat
  BY <1>1, <1>2, <1>5, <1>7
<1>11. Begins(a, b) /\ Begins(b, c) /\ ~Begins(a, c)
  BY <1>5, <1>8, <1>9
<1> HIDE DEF a, b, c
<1> QED
  BY <1>10, <1>11 DEF Begins

\* After an unknown specifier the stages stay the same.
LEMMA StagesStop ==
  ASSUME NEW call, Len(call.fmt) \in Nat, NEW k \in 0 .. Len(call.fmt) - 1,
         Stopped(call, k + 1), NEW l \in k .. Len(call.fmt)
  PROVE  Stages(call)[l] = Stages(call)[k]
<1> DEFINE n == Len(call.fmt)
           st == Stages(call)
           T == {i \in k .. n : st[i] # st[k]}
<1> SUFFICES ASSUME T # {}
             PROVE  FALSE
  OBVIOUS
<1>3. T \in SUBSET Nat /\ \A i : i \in T <=> i \in k .. n /\ st[i] # st[k]
  OBVIOUS
<1> HIDE DEF T
<1>4. PICK m \in T : \A y \in T : m <= y
  BY <1>3, LeastNat
<1>5. m \in k .. n /\ st[m] # st[k] /\ m # k
  BY <1>3
<1>7. m \in 1 .. n /\ m - 1 \in k .. n /\ m - 1 \notin T /\ m \in Nat /\ k + 1 \in Nat /\ k + 1 <= m
  BY <1>4, <1>5
<1>8. st[m - 1] = st[k]
  BY <1>3, <1>7
<1>9. Stopped(call, m)
  BY <1>7, StoppedStays
<1>10. st[m] = st[m - 1]
  BY <1>7, <1>9, StagesAre DEF StageFrom
<1> QED
  BY <1>5, <1>8, <1>10

\* Where no width above 0 was met, none is in force.
LEMMA NoWidth ==
  ASSUME NEW call, PrintsOK(call), NEW k \in 0 .. Len(call.fmt),
         \A j \in 1 .. k : call.fmt[j].width <= 0
  PROVE  Stages(call)[k].w = 0
<1> DEFINE n == Len(call.fmt)
           st == Stages(call)
           T == {i \in 0 .. k : st[i].w # 0}
<1> SUFFICES ASSUME T # {}
             PROVE  FALSE
  OBVIOUS
<1>0. call.fmt \in Seq(Items)
  BY DEF PrintsOK, Items
<1>1. n \in Nat
  BY <1>0, LenProperties
<1>3. T \in SUBSET Nat /\ \A i : i \in T <=> i \in 0 .. k /\ st[i].w # 0
  OBVIOUS
<1> HIDE DEF T
<1>4. PICK m \in T : \A y \in T : m <= y
  BY <1>3, LeastNat
<1>5. m \in 0 .. k /\ st[m].w # 0
  BY <1>3
<1>6. m # 0
  BY <1>1, <1>5, StagesAre DEF Empty
<1>7. m \in 1 .. n /\ m \in 1 .. k /\ m - 1 \in 0 .. k /\ m - 1 \notin T
  BY <1>1, <1>4, <1>5, <1>6
<1>8. st[m - 1].w = 0
  BY <1>3, <1>7
<1>9. CASE Stopped(call, m)
  BY <1>9, <1>1, <1>5, <1>7, <1>8, StagesAre DEF StageFrom
<1>10. CASE ~Stopped(call, m)
  <2>1. PICK it, was, new : it = call.fmt[m] /\ was = st[m - 1] /\ new = st[m]
    OBVIOUS
  <2>2. PICK text : text = Text(it, call.args[was.ap], WidthOf(it, was.w))
    OBVIOUS
  <2>3. it \in Items /\ new.w = WidthOf(it, was.w)
    BY <1>10, <2>1, <2>2, <1>7, StageStep DEF Adds
  <2>4. it.width \in Int /\ it.width <= 0
    BY <2>1, <2>3, <1>7 DEF Items
  <2> QED
    BY <2>1, <2>3, <2>4, <1>5, <1>8 DEF WidthOf
<1> QED
  BY <1>9, <1>10

-----------------------------------------------------------------------------
(* A call and its items. *)

LEMMA CallFacts ==
  ASSUME NEW call \in PRINTS
  PROVE  /\ PrintsOK(call) /\ SizeOf(call) \in Nat /\ Len(call.fmt) \in Nat
         /\ \A k \in 0 .. Len(call.fmt) :
              /\ Out(call, k) \in Seq(Chars) /\ Len(Out(call, k)) \in Nat
              /\ Stages(call)[k].w \in Nat /\ Stages(call)[k].ap \in Nat \ {0}
<1>1. PrintsOK(call)
  BY PrintsAssumption
<1>2. SizeOf(call) \in Nat
  BY <1>1, PrintAssumption DEF SizeOf, PrintsOK
<1>3. call.fmt \in Seq(Items)
  BY <1>1 DEF PrintsOK, Items
<1>4. Len(call.fmt) \in Nat
  BY <1>3, LenProperties
<1>5. ASSUME NEW k \in 0 .. Len(call.fmt)
      PROVE  /\ Out(call, k) \in Seq(Chars) /\ Len(Out(call, k)) \in Nat
             /\ Stages(call)[k].w \in Nat /\ Stages(call)[k].ap \in Nat \ {0}
  <2>1. StageOK(Stages(call)[k])
    BY <1>1, StageTypes
  <2> QED
    BY <2>1, LenProperties DEF StageOK, Out
<1> QED
  BY <1>1, <1>2, <1>4, <1>5

\* An item that is not unknown does not stop the expansion.
LEMMA GoesOn ==
  ASSUME NEW call \in PRINTS, NEW k \in 1 .. Len(call.fmt), ~Stopped(call, k - 1),
         call.fmt[k].conv # "!"
  PROVE  ~Stopped(call, k)
<1> SUFFICES ASSUME NEW j \in 1 .. k, call.fmt[j].conv = "!"
             PROVE  FALSE
  BY DEF Stopped
<1>1. k \in Nat /\ j # k
  BY CallFacts
<1>2. j \in 1 .. k - 1
  BY <1>1
<1> QED
  BY <1>2 DEF Stopped

\* What was left out stays left out.
LEMMA SkippedStays ==
  ASSUME NEW call \in PRINTS, NEW k \in 1 .. Len(call.fmt)
  PROVE  /\ SkippedBy(call, k - 1) => SkippedBy(call, k)
         /\ /\ call.fmt[k].conv = "p"
            /\ Len(Out(call, k - 1)) \in SizeOf(call) - 2 .. SizeOf(call) - 1
            => SkippedBy(call, k)
<1>1. k \in Nat /\ k \in 1 .. k /\ 1 .. k - 1 \subseteq 1 .. k
  BY CallFacts
<1> QED
  BY <1>1 DEF SkippedBy

\* The item at k, the stages before and behind it, and its text.
ItemAt(call, k, text) ==
  text = Text(call.fmt[k], call.args[Stages(call)[k - 1].ap],
              WidthOf(call.fmt[k], Stages(call)[k - 1].w))
LEMMA ItemFacts ==
  ASSUME NEW call \in PRINTS, NEW k \in 1 .. Len(call.fmt), ~Stopped(call, k),
         NEW text, ItemAt(call, k, text)
  PROVE  /\ call.fmt[k] \in Items /\ call.fmt[k].conv # "!"
         /\ Suits(call.fmt[k], call.args[Stages(call)[k - 1].ap])
         /\ WidthOf(call.fmt[k], Stages(call)[k - 1].w) \in Nat
         /\ Stages(call)[k].w = WidthOf(call.fmt[k], Stages(call)[k - 1].w)
         /\ Stages(call)[k].ap = IF call.fmt[k].conv \in {"literal", "%"}
                                 THEN Stages(call)[k - 1].ap ELSE Stages(call)[k - 1].ap + 1
         /\ text \in Seq(Chars) /\ Len(text) \in Nat
         /\ Len(Out(call, k)) = Len(Out(call, k - 1)) + Len(text)
         /\ Begins(Out(call, k - 1), Out(call, k))
         /\ \A j \in 1 .. Len(text) : Out(call, k)[Len(Out(call, k - 1)) + j] = text[j]
<1>1. PICK it, was, new :
        it = call.fmt[k] /\ was = Stages(call)[k - 1] /\ new = Stages(call)[k]
  OBVIOUS
<1>2. text = Text(it, call.args[was.ap], WidthOf(it, was.w))
  BY <1>1 DEF ItemAt
<1>3. PrintsOK(call)
  BY CallFacts
<1>4. Adds(call, it, was, new, text)
  BY <1>1, <1>2, <1>3, StageStep
<1>5. Out(call, k) = new.out /\ Out(call, k - 1) = was.out
  BY <1>1 DEF Out
<1> QED
  BY <1>1, <1>4, <1>5 DEF Adds

\* The next argument is one the item can print.
LEMMA ArgFits ==
  ASSUME NEW call \in PRINTS, NEW k \in 1 .. Len(call.fmt), ~Stopped(call, k),
         NEW a, ArgsOK(call, k - 1, a)
  PROVE  /\ call.fmt[k].conv \in {"c", "s"} => a = Stages(call)[k - 1].ap
         /\ call.fmt[k].conv \in DOMAIN Radix => call.args[a] \in Words
<1> DEFINE next == Stages(call)[k - 1].ap
<1>1. PICK text : ItemAt(call, k, text)
  BY DEF ItemAt
<1>2. Suits(call.fmt[k], call.args[next])
  BY <1>1, ItemFacts
<1>3. Len(call.fmt) \in Nat /\ PrintsOK(call)
  BY CallFacts
<1>4. k - 1 \in 0 .. Len(call.fmt)
  BY <1>3
<1>5. next \in Nat \ {0}
  BY <1>4, CallFacts
<1>6. /\ a \in 1 .. next
      /\ \A x \in a .. next - 1 : call.args[x] \in Words
      /\ a # next => \E j \in 1 .. k - 1 : call.fmt[j].conv = "p"
  BY DEF ArgsOK
<1> HIDE DEF next
<1>7. ASSUME call.fmt[k].conv \in {"c", "s"}
      PROVE  a = next
  <2> SUFFICES ASSUME a # next
               PROVE  FALSE
    OBVIOUS
  <2>1. PICK j \in 1 .. k - 1 : call.fmt[j].conv = "p"
    BY <1>6
  <2>2. j \in 1 .. k
    BY <1>3
  <2>3. call.fmt[j].conv = "p" => call.fmt[k].conv \notin {"c", "s"}
    BY <2>2, <1>3, ItemOK
  <2> QED
    BY <2>1, <2>3, <1>7
<1>8. ASSUME call.fmt[k].conv \in DOMAIN Radix
      PROVE  call.args[a] \in Words
  <2>1. CASE a = next
    BY <2>1, <1>2, <1>8 DEF Suits
  <2>2. CASE a # next
    <3>1. a \in a .. next - 1
      BY <2>2, <1>5, <1>6
    <3> QED
      BY <3>1, <1>6
  <2> QED
    BY <2>1, <2>2
<1> QED
  BY <1>7, <1>8 DEF next

\* The next argument when the item has taken its own.
LEMMA ArgsNext ==
  ASSUME NEW call \in PRINTS, NEW k \in 1 .. Len(call.fmt), ~Stopped(call, k),
         NEW a, ArgsOK(call, k - 1, a)
  PROVE  ArgsOK(call, k, IF call.fmt[k].conv \in {"literal", "%"} THEN a ELSE a + 1)
<1> DEFINE next == Stages(call)[k - 1].ap
           then == Stages(call)[k].ap
           plain == call.fmt[k].conv \in {"literal", "%"}
           e == IF plain THEN a ELSE a + 1
<1>1. PICK text : ItemAt(call, k, text)
  BY DEF ItemAt
<1>2. /\ then = IF plain THEN next ELSE next + 1
      /\ call.fmt[k] \in Items /\ call.fmt[k].conv # "!"
      /\ Suits(call.fmt[k], call.args[next])
  BY <1>1, ItemFacts
<1>3. Len(call.fmt) \in Nat
  BY CallFacts
<1>4. k - 1 \in 0 .. Len(call.fmt)
  BY <1>3
<1>5. next \in Nat \ {0}
  BY <1>4, CallFacts
<1>6. /\ a \in 1 .. next
      /\ \A x \in a .. next - 1 : call.args[x] \in Words
      /\ a # next => \E j \in 1 .. k - 1 : call.fmt[j].conv = "p"
      /\ ~SkippedBy(call, k - 1) => a = next
  BY DEF ArgsOK
<1>0. a # next /\ ~plain => call.args[next] \in Words
  <2>1. a # next => call.fmt[k].conv \notin {"c", "s"}
    BY ArgFits
  <2> QED
    BY <2>1, <1>2 DEF Items, Suits
<1> HIDE DEF next, then, plain
<1>7. e \in 1 .. then /\ (a = next => e = then) /\ (e # then => a # next)
  BY <1>2, <1>5, <1>6
<1>8. ASSUME NEW x \in e .. then - 1
      PROVE  call.args[x] \in Words
  <2>1. x \in a .. next - 1 \/ (x = next /\ a # next /\ ~plain)
    BY <1>2, <1>5, <1>6
  <2> QED
    BY <2>1, <1>0, <1>6
<1>9. e # then => \E j \in 1 .. k : call.fmt[j].conv = "p"
  <2>1. 1 .. k - 1 \subseteq 1 .. k
    BY <1>3
  <2> QED
    BY <2>1, <1>6, <1>7
<1>10. ~SkippedBy(call, k) => e = then
  BY <1>6, <1>7, SkippedStays
<1> HIDE DEF e
<1>11. ArgsOK(call, k, e)
  BY <1>7, <1>8, <1>9, <1>10 DEF ArgsOK, then
<1> QED
  BY <1>11 DEF e, plain

\* A %p that was left out leaves its argument to the next specifier.
LEMMA ArgsSkip ==
  ASSUME NEW call \in PRINTS, NEW k \in 1 .. Len(call.fmt), ~Stopped(call, k),
         NEW a, ArgsOK(call, k - 1, a), call.fmt[k].conv = "p", SkippedBy(call, k)
  PROVE  ArgsOK(call, k, a)
<1> DEFINE next == Stages(call)[k - 1].ap
           then == Stages(call)[k].ap
<1>1. PICK text : ItemAt(call, k, text)
  BY DEF ItemAt
<1>2. then = next + 1 /\ Suits(call.fmt[k], call.args[next])
  BY <1>1, ItemFacts
<1>3. Len(call.fmt) \in Nat
  BY CallFacts
<1>4. k - 1 \in 0 .. Len(call.fmt) /\ k \in 1 .. k
  BY <1>3
<1>5. next \in Nat \ {0}
  BY <1>4, CallFacts
<1>6. call.args[next] \in Words
  BY <1>2, RadixIs DEF Suits
<1>7. /\ a \in 1 .. next
      /\ \A x \in a .. next - 1 : call.args[x] \in Words
  BY DEF ArgsOK
<1> HIDE DEF next, then
<1>8. a \in 1 .. then /\ \A x \in a .. then - 1 : x = next \/ x \in a .. next - 1
  BY <1>2, <1>5, <1>7
<1>9. \A x \in a .. then - 1 : call.args[x] \in Words
  BY <1>6, <1>7, <1>8
<1>10. \E j \in 1 .. k : call.fmt[j].conv = "p"
  BY <1>4
<1> QED
  BY <1>8, <1>9, <1>10 DEF ArgsOK, then

-----------------------------------------------------------------------------
(* Items that are written at once. *)

\* As much of the text as fits is written behind the first c characters.
Written(b, d, c, n, text) ==
  /\ DOMAIN d = DOMAIN b
  /\ \A i \in DOMAIN b : d[i] = IF i \in c .. c + n - 1 THEN text[i - c + 1] ELSE b[i]
LEMMA TextShown ==
  ASSUME NEW call \in PRINTS, NEW k \in 1 .. Len(call.fmt), ~Stopped(call, k),
         NEW text, ItemAt(call, k, text),
         NEW c \in 0 .. SizeOf(call), c < SizeOf(call), NEW b, BufferOK(call, b),
         ShownOK(call, k - 1, c, b),
         NEW n, n = IF Len(text) < SizeOf(call) - c THEN Len(text) ELSE SizeOf(call) - c,
         NEW d, Written(b, d, c, n, text)
  PROVE  c + n \in 0 .. SizeOf(call) /\ BufferOK(call, d) /\ ShownOK(call, k, c + n, d)
<1> DEFINE S == SizeOf(call)
           o == Out(call, k - 1)
           p == Out(call, k)
<1>0. /\ DOMAIN d = DOMAIN b
      /\ \A i \in DOMAIN b : d[i] = IF i \in c .. c + n - 1 THEN text[i - c + 1] ELSE b[i]
  BY DEF Written
<1>1. S \in Nat /\ Len(call.fmt) \in Nat
  BY CallFacts
<1>2. k - 1 \in 0 .. Len(call.fmt) /\ k \in 0 .. Len(call.fmt)
  BY <1>1
<1>3. /\ Len(text) \in Nat /\ Len(o) \in Nat /\ Len(p) \in Nat
      /\ Len(p) = Len(o) + Len(text) /\ Begins(o, p)
      /\ \A j \in 1 .. Len(text) : p[Len(o) + j] = text[j]
  BY <1>2, ItemFacts, CallFacts
<1>4. c \in Nat /\ c < S /\ n \in Nat /\ c + n <= S /\ n <= Len(text)
      /\ n = IF Len(text) < S - c THEN Len(text) ELSE S - c
  BY <1>1, <1>3
<1>5. DOMAIN b = 0 .. S + Beyond /\ \A i \in DOMAIN b : i >= S => b[i] = BlankOf(call)
  BY DEF BufferOK
<1>6. Beyond = 12
  BY DEF Beyond
<1>7. ASSUME ~SkippedBy(call, k)
      PROVE  /\ c + n = IF Len(p) < S THEN Len(p) ELSE S
             /\ Shows(d, p, c + n)
  <2>1. ~SkippedBy(call, k - 1)
    BY <1>7, SkippedStays
  <2>2. c = (IF Len(o) < S THEN Len(o) ELSE S) /\ Shows(b, o, c)
    BY <2>1 DEF ShownOK
  <2> HIDE DEF S, o, p
  <2>3. c = Len(o)
    BY <2>2, <1>1, <1>3, <1>4
  <2>4. c + n = IF Len(p) < S THEN Len(p) ELSE S
    <3> DEFINE t == Len(text)
               l == Len(p)
    <3>1. t \in Nat /\ l = c + t /\ n = IF t < S - c THEN t ELSE S - c
      BY <2>3, <1>3, <1>4
    <3> HIDE DEF t, l
    <3>2. c + n = IF l < S THEN l ELSE S
      BY <3>1, <1>1, <1>4
    <3> QED
      BY <3>2 DEF l
  <2>5. ASSUME NEW i \in 1 .. c + n
        PROVE  d[i - 1] = p[i]
    <3>1. i - 1 \in DOMAIN b
      BY <1>1, <1>4, <1>5, <1>6
    <3>2. CASE i <= c
      <4>1. d[i - 1] = b[i - 1]
        BY <3>1, <3>2, <1>0, <1>4
      <4>2. i \in 1 .. c /\ i \in 1 .. Len(o)
        BY <3>2, <2>3, <1>4
      <4>3. b[i - 1] = o[i]
        BY <4>2, <2>2 DEF Shows
      <4>4. p[i] = o[i]
        BY <4>2, <1>3 DEF Begins
      <4> QED
        BY <4>1, <4>3, <4>4
    <3>3. CASE i > c
      <4>1. i - 1 \in c .. c + n - 1 /\ (i - 1) - c + 1 = i - c /\ i - c \in 1 .. Len(text)
            /\ Len(o) + (i - c) = i
        BY <3>3, <1>3, <1>4, <2>3
      <4>2. d[i - 1] = text[i - c]
        BY <3>1, <4>1, <1>0
      <4>3. p[Len(o) + (i - c)] = text[i - c]
        BY <4>1, <1>3
      <4> QED
        BY <4>1, <4>2, <4>3
    <3> QED
      BY <3>2, <3>3, <1>4
  <2> QED
    BY <2>4, <2>5 DEF Shows
<1>8. ASSUME NEW i \in DOMAIN d, i >= S
      PROVE  d[i] = BlankOf(call)
  <2>1. i \in DOMAIN b /\ i \notin c .. c + n - 1
    BY <1>0, <1>8, <1>1, <1>4, <1>5
  <2> QED
    BY <2>1, <1>0, <1>5, <1>8
<1>9. BufferOK(call, d)
  BY <1>0, <1>5, <1>8 DEF BufferOK
<1>10. ShownOK(call, k, c + n, d)
  BY <1>7 DEF ShownOK
<1>11. c + n \in 0 .. S
  BY <1>1, <1>4
<1> QED
  BY <1>9, <1>10, <1>11

\* The place a step of vsnprintf begins at, in rigid names.
AtItem(call, k, c, a, p, b) ==
  /\ call \in PRINTS /\ k \in 1 .. Len(call.fmt)
  /\ CallOK(call, k - 1, c, a, b) /\ ShownOK(call, k - 1, c, b)
  /\ p = Stages(call)[k - 1].w /\ c < SizeOf(call)
LEMMA MoreIs ==
  PrintInv /\ More => /\ AtItem(print, fmt, count, ap, padding, buf)
                      /\ Item = print.fmt[fmt] /\ size = SizeOf(print)
                      /\ Width = WidthOf(print.fmt[fmt], padding) /\ fmt \in Nat
<1> SUFFICES ASSUME PrintInv, More
             PROVE  /\ AtItem(print, fmt, count, ap, padding, buf)
                    /\ Item = print.fmt[fmt] /\ size = SizeOf(print)
                    /\ Width = WidthOf(print.fmt[fmt], padding) /\ fmt \in Nat
  OBVIOUS
<1>1. ppc = "format" /\ fmt <= Len(print.fmt) /\ count < size
  BY DEF More
<1>2. /\ CallOK(print, fmt - 1, count, ap, buf) /\ ShownOK(print, fmt - 1, count, buf)
      /\ fmt \in Nat /\ padding = Stages(print)[fmt - 1].w
  BY <1>1 DEF PrintInv
<1>3. print \in PRINTS /\ fmt - 1 \in 0 .. Len(print.fmt)
  BY <1>2 DEF CallOK
<1>4. fmt \in 1 .. Len(print.fmt)
  BY <1>1, <1>2, <1>3, CallFacts
<1>5. size = SizeOf(print) /\ Item = print.fmt[fmt] /\ Width = WidthOf(print.fmt[fmt], padding)
  BY DEF size, SizeOf, Item, Width, WidthOf
<1> QED
  BY <1>1, <1>2, <1>3, <1>4, <1>5 DEF AtItem

\* Where the next item begins.
LEMMA NextItem ==
  ASSUME NEW call \in PRINTS, NEW k \in 1 .. Len(call.fmt), ~Stopped(call, k),
         NEW c \in 0 .. SizeOf(call), NEW a, ArgsOK(call, k, a), NEW b, BufferOK(call, b),
         ShownOK(call, k, c, b), NEW p, p = WidthOf(call.fmt[k], Stages(call)[k - 1].w),
         print' = call, ppc' = "format", fmt' = k + 1, count' = c, ap' = a, buf' = b,
         padding' = p
  PROVE  PrintInv'
<1>1. Len(call.fmt) \in Nat
  BY CallFacts
<1>2. k \in 0 .. Len(call.fmt) /\ (k + 1) - 1 = k /\ k + 1 \in Nat
  BY <1>1
<1>3. CallOK(call, k, c, a, b)
  BY <1>2 DEF CallOK
<1>4. PICK text : ItemAt(call, k, text)
  BY DEF ItemAt
<1>5. p = Stages(call)[k].w
  BY <1>4, ItemFacts
<1>6. CallOK(print', fmt' - 1, count', ap', buf') /\ ShownOK(print', fmt' - 1, count', buf')
  BY <1>2, <1>3
<1>7. padding' = Stages(print')[fmt' - 1].w
  BY <1>2, <1>5
<1> QED
  BY <1>2, <1>6, <1>7 DEF PrintInv

\* A literal, %% or %c.
LEMMA CharacterKeeps == PrintInv /\ PutCharacter => PrintInv'
<1> SUFFICES ASSUME PrintInv, PutCharacter
             PROVE  PrintInv'
  OBVIOUS
<1>1. PICK call, k, c, a, p, b :
        call = print /\ k = fmt /\ c = count /\ a = ap /\ p = padding /\ b = buf
  OBVIOUS
<1>2. More /\ Item.conv \in {"literal", "%", "c"}
  BY DEF PutCharacter
<1>3. /\ AtItem(call, k, c, a, p, b) /\ Item = call.fmt[k] /\ size = SizeOf(call)
      /\ Width = WidthOf(call.fmt[k], p)
  BY <1>1, <1>2, MoreIs
<1> DEFINE it == call.fmt[k]
           ch == IF it.conv = "c" THEN call.args[a] ELSE it.ch
           d == [b EXCEPT ![c] = ch]
           e == IF it.conv \in {"literal", "%"} THEN a ELSE a + 1
<1>4. /\ call \in PRINTS /\ k \in 1 .. Len(call.fmt) /\ ~Stopped(call, k - 1)
      /\ BufferOK(call, b) /\ c \in 0 .. SizeOf(call) /\ ArgsOK(call, k - 1, a)
      /\ ShownOK(call, k - 1, c, b) /\ p = Stages(call)[k - 1].w /\ c < SizeOf(call)
  BY <1>3 DEF AtItem, CallOK
<1>5. it.conv \in {"literal", "%", "c"}
  BY <1>2, <1>3
<1>6. /\ print' = call /\ ppc' = "format" /\ fmt' = k + 1 /\ count' = c + 1
      /\ ap' = e /\ buf' = d /\ padding' = WidthOf(it, p)
  BY <1>1, <1>3, <1>5 DEF PutCharacter, More
<1>7. ~Stopped(call, k)
  BY <1>4, <1>5, GoesOn
<1>8. ArgsOK(call, k, e)
  BY <1>4, <1>7, ArgsNext
<1>9. PICK text : ItemAt(call, k, text)
  BY DEF ItemAt
<1>10. text = <<ch>>
  <2>1. it.conv = "c" => a = Stages(call)[k - 1].ap
    BY <1>4, <1>7, ArgFits
  <2>2. CASE it.conv = "c"
    BY <1>9, <2>1, <2>2 DEF ItemAt, Text
  <2>3. CASE it.conv \in {"literal", "%"}
    BY <1>9, <2>3 DEF ItemAt, Text
  <2> QED
    BY <1>5, <2>2, <2>3
<1>11. SizeOf(call) \in Nat /\ DOMAIN b = 0 .. SizeOf(call) + Beyond /\ Beyond = 12
  BY <1>4, CallFacts DEF BufferOK, Beyond
<1> HIDE DEF ch, it, e
<1>12. 1 = IF Len(text) < SizeOf(call) - c THEN Len(text) ELSE SizeOf(call) - c
  <2>1. Len(text) = 1
    BY <1>10
  <2> QED
    BY <2>1, <1>4, <1>11
<1>13. DOMAIN d = DOMAIN b
  OBVIOUS
<1>14. \A i \in DOMAIN b : d[i] = IF i \in c .. c + 1 - 1 THEN text[i - c + 1] ELSE b[i]
  <2> SUFFICES ASSUME NEW i \in DOMAIN b
               PROVE  d[i] = IF i \in c .. c + 1 - 1 THEN text[i - c + 1] ELSE b[i]
    OBVIOUS
  <2>1. i \in Int /\ c \in Int
    BY <1>4, <1>11
  <2>2. i \in c .. c + 1 - 1 <=> i = c
    BY <2>1
  <2>3. i = c => i - c + 1 = 1
    BY <2>1
  <2>4. text[1] = ch
    BY <1>10
  <2> QED
    BY <2>2, <2>3, <2>4
<1> HIDE DEF d
<1>16. Written(b, d, c, 1, text)
  BY <1>13, <1>14 DEF Written
<1>15. c + 1 \in 0 .. SizeOf(call) /\ BufferOK(call, d) /\ ShownOK(call, k, c + 1, d)
  BY <1>4, <1>7, <1>9, <1>12, <1>16, TextShown
<1> QED
  BY <1>4, <1>6, <1>7, <1>8, <1>15, NextItem DEF it

\* %s.
LEMMA StringKeeps == PrintInv /\ PutString => PrintInv'
<1> SUFFICES ASSUME PrintInv, PutString
             PROVE  PrintInv'
  OBVIOUS
<1>1. PICK call, k, c, a, p, b :
        call = print /\ k = fmt /\ c = count /\ a = ap /\ p = padding /\ b = buf
  OBVIOUS
<1>2. More /\ Item.conv = "s"
  BY DEF PutString
<1>3. /\ AtItem(call, k, c, a, p, b) /\ Item = call.fmt[k] /\ size = SizeOf(call)
      /\ Width = WidthOf(call.fmt[k], p)
  BY <1>1, <1>2, MoreIs
<1> DEFINE it == call.fmt[k]
           str == call.args[a]
           n == IF Len(str) < SizeOf(call) - c THEN Len(str) ELSE SizeOf(call) - c
           d == [i \in DOMAIN b |-> IF i \in c .. c + n - 1 THEN str[i - c + 1] ELSE b[i]]
<1>4. /\ call \in PRINTS /\ k \in 1 .. Len(call.fmt) /\ ~Stopped(call, k - 1)
      /\ BufferOK(call, b) /\ c \in 0 .. SizeOf(call) /\ ArgsOK(call, k - 1, a)
      /\ ShownOK(call, k - 1, c, b) /\ p = Stages(call)[k - 1].w /\ c < SizeOf(call)
  BY <1>3 DEF AtItem, CallOK
<1>5. it.conv = "s"
  BY <1>2, <1>3
<1>6. /\ print' = call /\ ppc' = "format" /\ fmt' = k + 1 /\ count' = c + n
      /\ ap' = a + 1 /\ buf' = d /\ padding' = WidthOf(it, p)
  BY <1>1, <1>3 DEF PutString, More
<1>7. ~Stopped(call, k)
  BY <1>4, <1>5, GoesOn
<1>8. ArgsOK(call, k, a + 1)
  BY <1>4, <1>5, <1>7, ArgsNext
<1>9. PICK text : ItemAt(call, k, text)
  BY DEF ItemAt
<1>10. text = str
  <2>1. a = Stages(call)[k - 1].ap
    BY <1>4, <1>5, <1>7, ArgFits
  <2> QED
    BY <1>5, <1>9, <2>1 DEF ItemAt, Text
<1>11. n = IF Len(text) < SizeOf(call) - c THEN Len(text) ELSE SizeOf(call) - c
  BY <1>10
<1> HIDE DEF n
<1>12. Written(b, d, c, n, text)
  BY <1>10 DEF Written
<1> HIDE DEF d, str, it
<1>13. c + n \in 0 .. SizeOf(call) /\ BufferOK(call, d) /\ ShownOK(call, k, c + n, d)
  BY <1>4, <1>7, <1>9, <1>11, <1>12, TextShown
<1> QED
  BY <1>4, <1>6, <1>7, <1>8, <1>13, NextItem DEF it

\* %p with no room.
LEMMA SkipKeeps == PrintInv /\ SkipPointer => PrintInv'
<1> SUFFICES ASSUME PrintInv, SkipPointer
             PROVE  PrintInv'
  OBVIOUS
<1>1. PICK call, k, c, a, p, b :
        call = print /\ k = fmt /\ c = count /\ a = ap /\ p = padding /\ b = buf
  OBVIOUS
<1>2. More /\ Item.conv = "p" /\ size - count <= 2
  BY DEF SkipPointer
<1>3. /\ AtItem(call, k, c, a, p, b) /\ Item = call.fmt[k] /\ size = SizeOf(call)
      /\ Width = WidthOf(call.fmt[k], p)
  BY <1>1, <1>2, MoreIs
<1> DEFINE it == call.fmt[k]
           S == SizeOf(call)
<1>4. /\ call \in PRINTS /\ k \in 1 .. Len(call.fmt) /\ ~Stopped(call, k - 1)
      /\ BufferOK(call, b) /\ c \in 0 .. S /\ ArgsOK(call, k - 1, a)
      /\ ShownOK(call, k - 1, c, b) /\ p = Stages(call)[k - 1].w /\ c < S
  BY <1>3 DEF AtItem, CallOK
<1>5. it.conv = "p" /\ S - c <= 2
  BY <1>1, <1>2, <1>3
<1>6. /\ print' = call /\ ppc' = "format" /\ fmt' = k + 1 /\ count' = c
      /\ ap' = a /\ buf' = b /\ padding' = WidthOf(it, p)
  BY <1>1, <1>3 DEF SkipPointer, More
<1>7. ~Stopped(call, k)
  BY <1>4, <1>5, GoesOn
<1>8. SkippedBy(call, k)
  <2>1. CASE SkippedBy(call, k - 1)
    BY <2>1, <1>4, SkippedStays
  <2>2. CASE ~SkippedBy(call, k - 1)
    <3> DEFINE l == Len(Out(call, k - 1))
    <3>1. c = IF l < S THEN l ELSE S
      BY <2>2, <1>4 DEF ShownOK
    <3>2. S \in Nat /\ Len(call.fmt) \in Nat
      BY <1>4, CallFacts
    <3>3. k - 1 \in 0 .. Len(call.fmt)
      BY <3>2, <1>4
    <3>4. l \in Nat
      BY <3>3, <1>4, CallFacts
    <3> HIDE DEF l, S
    <3>5. l \in S - 2 .. S - 1
      BY <3>1, <3>2, <3>4, <1>4, <1>5
    <3> QED
      BY <3>5, <1>4, <1>5, SkippedStays DEF l, S
  <2> QED
    BY <2>1, <2>2
<1>9. ArgsOK(call, k, a)
  BY <1>4, <1>5, <1>7, <1>8, ArgsSkip
<1>10. ShownOK(call, k, c, b)
  BY <1>8 DEF ShownOK
<1> QED
  BY <1>4, <1>6, <1>7, <1>9, <1>10, NextItem

\* The end of the format, and an unknown specifier.
LEMMA EndKeeps == PrintInv /\ (UnknownSpecifier \/ EndOfFormat) => PrintInv'
<1> SUFFICES ASSUME PrintInv, UnknownSpecifier \/ EndOfFormat
             PROVE  PrintInv'
  OBVIOUS
<1>1. /\ ppc = "format" /\ ppc' = "done"
      /\ print' = print /\ fmt' = fmt /\ count' = count /\ ap' = ap /\ buf' = buf
  BY DEF UnknownSpecifier, EndOfFormat, More
<1>2. /\ CallOK(print, fmt - 1, count, ap, buf) /\ ShownOK(print, fmt - 1, count, buf)
      /\ fmt \in Nat
  BY <1>1 DEF PrintInv
<1>3. EndedBy(print, fmt, count)
  <2>1. /\ print \in PRINTS /\ fmt - 1 \in 0 .. Len(print.fmt) /\ count \in 0 .. SizeOf(print)
        /\ size = SizeOf(print)
    BY <1>2 DEF CallOK, size, SizeOf
  <2>2. SizeOf(print) \in Nat /\ Len(print.fmt) \in Nat
    BY <2>1, CallFacts
  <2>3. CASE UnknownSpecifier
    <3>1. More /\ Item.conv \notin {"literal", "%", "c", "s"} \cup DOMAIN Radix
      BY <2>3 DEF UnknownSpecifier
    <3>2. fmt \in 1 .. Len(print.fmt) /\ Item = print.fmt[fmt]
      BY <3>1, <2>1, <2>2, <1>2 DEF More, Item
    <3>3. print.fmt[fmt] \in Items
      BY <3>2, <2>1, CallFacts, ItemOK
    <3> QED
      BY <3>1, <3>2, <3>3 DEF Items, EndedBy
  <2>4. CASE EndOfFormat
    <3>1. ~(fmt <= Len(print.fmt)) \/ ~(count < SizeOf(print))
      BY <2>4, <2>1, <1>1 DEF EndOfFormat, More
    <3> QED
      BY <3>1, <2>1, <2>2, <1>2 DEF EndedBy
  <2> QED
    BY <2>3, <2>4
<1>4. CallOK(print', fmt' - 1, count', ap', buf') /\ ShownOK(print', fmt' - 1, count', buf')
      /\ fmt' \in Nat /\ EndedBy(print', fmt', count')
  BY <1>1, <1>2, <1>3
<1> QED
  BY <1>1, <1>4 DEF PrintInv

\* A call begins.
LEMMA CallKeeps ==
  ASSUME NEW call \in PRINTS, PrintCall(call)
  PROVE  PrintInv'
<1> DEFINE S == SizeOf(call)
<1>1. S \in Nat /\ Len(call.fmt) \in Nat /\ PrintsOK(call)
  BY CallFacts
<1>2. /\ print' = call /\ ppc' = "format" /\ fmt' = 1 /\ ap' = 1 /\ count' = 0 /\ padding' = 0
      /\ buf' = IF call.fn = "kprintf" THEN kprintf ELSE snprintf(call)
  BY DEF PrintCall
<1>3. buf' = [i \in 0 .. S + Beyond |-> BlankOf(call)]
  BY <1>1, <1>2 DEF kprintf, snprintf, SizeOf, BlankOf
<1>4. BufferOK(call, buf')
  BY <1>3 DEF BufferOK
<1>5. Stages(call)[0] = Empty
  BY <1>1, StagesAre
<1>6. Out(call, 0) = <<>> /\ Stages(call)[0].ap = 1 /\ Stages(call)[0].w = 0
  BY <1>5 DEF Out, Empty
<1>7. ArgsOK(call, 0, 1)
  BY <1>6 DEF ArgsOK
<1>8. ShownOK(call, 0, 0, buf')
  <2>1. Len(Out(call, 0)) = 0
    BY <1>6
  <2>2. 0 = IF 0 < S THEN 0 ELSE S
    BY <1>1
  <2>3. Shows(buf', Out(call, 0), 0)
    BY DEF Shows
  <2> QED
    BY <2>1, <2>2, <2>3 DEF ShownOK
<1>9. ~Stopped(call, 0)
  BY DEF Stopped
<1>10. CallOK(call, 0, 0, 1, buf')
  BY <1>1, <1>4, <1>7, <1>9 DEF CallOK
<1>11. 1 - 1 = 0 /\ 1 \in Nat
  OBVIOUS
<1>12. /\ CallOK(print', fmt' - 1, count', ap', buf') /\ ShownOK(print', fmt' - 1, count', buf')
       /\ fmt' \in Nat /\ padding' = Stages(print')[fmt' - 1].w
  BY <1>2, <1>6, <1>8, <1>10, <1>11
<1> QED
  BY <1>2, <1>12 DEF PrintInv

-----------------------------------------------------------------------------
(* Numbers. *)

\* What stands in front of a number is at most two characters.
LEMMA FrontIs ==
  ASSUME NEW it, NEW v
  PROVE  /\ Front(it, v) \in Seq(Chars)
         /\ it.conv = "p" =>
              Len(Front(it, v)) = 2 /\ Front(it, v)[1] = "0" /\ Front(it, v)[2] = "x"
         /\ Minus(it, v) => Len(Front(it, v)) = 1 /\ Front(it, v)[1] = "-" /\ it.conv # "p"
         /\ it.conv # "p" /\ ~Minus(it, v) => Len(Front(it, v)) = 0
<1>1. "0" \in Chars /\ "x" \in Chars /\ "-" \in Chars
  BY DEF Chars
<1>2. CASE it.conv = "p"
  BY <1>1, <1>2 DEF Front, Minus
<1>3. CASE Minus(it, v)
  <2>1. it.conv # "p"
    BY <1>3 DEF Minus
  <2> QED
    BY <1>1, <1>3, <2>1 DEF Front
<1>4. CASE it.conv # "p" /\ ~Minus(it, v)
  BY <1>1, <1>4 DEF Front
<1> QED
  BY <1>2, <1>3, <1>4

\* A number in full: what stands in front, zeros, and the digits.
NumberParts(text, front, z, n, b) ==
  /\ z \in Nat /\ Len(front) \in Nat /\ basepow(n, b) \in Nat \ {0}
  /\ Len(text) = Len(front) + z + basepow(n, b)
  /\ \A i \in 1 .. Len(front) : text[i] = front[i]
  /\ \A i \in 1 .. z : text[Len(front) + i] = "0"
  /\ \A j \in 1 .. basepow(n, b) : text[Len(front) + z + j] = Numerals(n, b)[j]
LEMMA NumberInFull ==
  ASSUME NEW it, it.conv \in DOMAIN Radix, NEW v \in Words, NEW w \in Nat
  PROVE  NumberParts(Text(it, v, w), Front(it, v),
                     ZerosFor(Unsigned(it, v), Radix[it.conv], w),
                     Unsigned(it, v), Radix[it.conv])
<1>1. PICK n, b, front : n = Unsigned(it, v) /\ b = Radix[it.conv] /\ front = Front(it, v)
  OBVIOUS
<1>2. PICK p, z : p = Padded(n, b, w) /\ z = ZerosFor(n, b, w)
  OBVIOUS
<1>3. n \in Nat /\ b \in Bases
  BY <1>1, UnsignedIs, WordRange, RadixIs
<1>4. front \in Seq(Chars) /\ Text(it, v, w) = front \o p
  BY <1>1, <1>2, NumberText
<1>5. basepow(n, b) \in Nat \ {0}
  BY <1>3, NumeralTypes
<1>6. /\ z \in Nat
      /\ p \in Seq(Chars) /\ Len(p) = z + basepow(n, b)
      /\ \A i \in 1 .. z : p[i] = "0"
      /\ \A j \in 1 .. basepow(n, b) : p[z + j] = Numerals(n, b)[j]
  BY <1>2, <1>3, PaddedIs
<1> DEFINE F == Len(front)
           D == basepow(n, b)
           t == front \o p
           N == Numerals(n, b)
<1>7. F \in Nat
  BY <1>4, LenProperties
<1>8. /\ Len(t) = F + Len(p)
      /\ \A i \in 1 .. F + Len(p) : t[i] = IF i <= F THEN front[i] ELSE p[i - F]
  BY <1>4, <1>6, ConcatProperties
<1> HIDE DEF F, D, t, N
<1>9. D \in Nat \ {0} /\ Len(p) = z + D /\ \A j \in 1 .. D : p[z + j] = N[j]
  BY <1>5, <1>6 DEF D, N
<1>10. Len(t) = F + z + D
  <2>1. z \in Nat /\ F \in Nat /\ D \in Nat
    BY <1>6, <1>7, <1>9
  <2>2. F + (z + D) = F + z + D
    BY <2>1
  <2>3. Len(t) = F + Len(p) /\ Len(p) = z + D
    BY <1>8, <1>9
  <2> QED
    BY <2>2, <2>3
<1>11. \A i \in 1 .. F : t[i] = front[i]
  BY <1>6, <1>7, <1>8, <1>9
<1>12. ASSUME NEW i \in 1 .. z + D
       PROVE  t[F + i] = p[i]
  <2>1. F + i \in 1 .. F + Len(p) /\ ~(F + i <= F) /\ (F + i) - F = i
    BY <1>6, <1>7, <1>9
  <2> QED
    BY <2>1, <1>8
<1>13. \A i \in 1 .. z : t[F + i] = "0"
  BY <1>6, <1>9, <1>12
<1>14. ASSUME NEW j \in 1 .. D
       PROVE  t[F + z + j] = N[j]
  <2>1. z + j \in 1 .. z + D /\ F + (z + j) = F + z + j
    BY <1>6, <1>7, <1>9
  <2>2. t[F + (z + j)] = p[z + j]
    BY <2>1, <1>12
  <2> QED
    BY <2>1, <2>2, <1>9
<1>15. z \in Nat
  BY <1>6
<1>16. NumberParts(t, front, z, n, b)
  BY <1>7, <1>9, <1>10, <1>11, <1>13, <1>14, <1>15 DEF NumberParts, F, D, N
<1>17. Text(it, v, w) = t
  BY <1>4 DEF t
<1> QED
  BY <1>1, <1>2, <1>16, <1>17

\* A %d has no width.
LEMMA DecimalWidth ==
  ASSUME NEW call \in PRINTS, NEW k \in 1 .. Len(call.fmt), ~Stopped(call, k),
         call.fmt[k].conv = "d"
  PROVE  WidthOf(call.fmt[k], Stages(call)[k - 1].w) = 0
<1>1. PICK text : ItemAt(call, k, text)
  BY DEF ItemAt
<1>2. Stages(call)[k].w = WidthOf(call.fmt[k], Stages(call)[k - 1].w)
  BY <1>1, ItemFacts
<1>3. PrintsOK(call) /\ Len(call.fmt) \in Nat
  BY CallFacts
<1>4. \A j \in 1 .. k : call.fmt[j].width <= 0
  BY <1>3, ItemOK
<1>5. k \in 0 .. Len(call.fmt)
  BY <1>3
<1> QED
  BY <1>2, <1>3, <1>4, <1>5, NoWidth

\* What stands in front is written inside the size.
LEMMA FrontWritten ==
  ASSUME NEW call \in PRINTS, NEW c \in 0 .. SizeOf(call), NEW b, BufferOK(call, b),
         NEW front, Len(front) \in Nat, c + Len(front) <= SizeOf(call),
         NEW d, Written(b, d, c, Len(front), front)
  PROVE  /\ BufferOK(call, d)
         /\ \A i \in 1 .. c : d[i - 1] = b[i - 1]
         /\ \A i \in 1 .. Len(front) : d[c + i - 1] = front[i]
<1> DEFINE S == SizeOf(call)
           F == Len(front)
<1>1. S \in Nat /\ c \in Nat /\ F \in Nat /\ c + F <= S /\ Beyond = 12
  BY CallFacts DEF Beyond
<1>2. DOMAIN b = 0 .. S + Beyond /\ \A i \in DOMAIN b : i >= S => b[i] = BlankOf(call)
  BY DEF BufferOK
<1>3. /\ DOMAIN d = DOMAIN b
      /\ \A i \in DOMAIN b : d[i] = IF i \in c .. c + F - 1 THEN front[i - c + 1] ELSE b[i]
  BY DEF Written
<1> HIDE DEF S, F
<1>4. ASSUME NEW i \in DOMAIN b, i >= S
      PROVE  d[i] = BlankOf(call)
  <2>1. i \notin c .. c + F - 1
    BY <1>1, <1>2, <1>4
  <2> QED
    BY <2>1, <1>2, <1>3, <1>4
<1>5. BufferOK(call, d)
  BY <1>2, <1>3, <1>4 DEF BufferOK, S
<1>6. ASSUME NEW i \in 1 .. c
      PROVE  d[i - 1] = b[i - 1]
  <2>1. i - 1 \in DOMAIN b /\ i - 1 \notin c .. c + F - 1
    BY <1>1, <1>2
  <2> QED
    BY <2>1, <1>3
<1>7. ASSUME NEW i \in 1 .. F
      PROVE  d[c + i - 1] = front[i]
  <2>1. c + i - 1 \in DOMAIN b /\ c + i - 1 \in c .. c + F - 1 /\ (c + i - 1) - c + 1 = i
    BY <1>1, <1>2
  <2> QED
    BY <2>1, <1>3
<1> QED
  BY <1>5, <1>6, <1>7 DEF F

\* The text of an item stands behind the text of the items before it.
Extended(o, out, c, l, text) ==
  /\ Len(out) = c + l /\ \A i \in 1 .. c : out[i] = o[i]
  /\ \A j \in 1 .. l : out[c + j] = text[j]
LEMMA ItemExtends ==
  ASSUME NEW call \in PRINTS, NEW k \in 1 .. Len(call.fmt), ~Stopped(call, k),
         NEW text, ItemAt(call, k, text)
  PROVE  Extended(Out(call, k - 1), Out(call, k), Len(Out(call, k - 1)), Len(text), text)
  BY ItemFacts DEF Extended, Begins

\* snprintnum up to its loops, in rigid names.
NumberStart(call, k, c, b, v, start, first, n, d) ==
  LET it == call.fmt[k]
      un == Unsigned(it, v)
      nl == basepow(un, Radix[it.conv])
  IN  /\ start = IF it.conv = "p" THEN c + 2 ELSE c
      /\ first = IF Minus(it, v) THEN 1 ELSE 0
      /\ n = [un |-> un, base |-> Radix[it.conv], nl |-> nl,
              pad |-> WidthOf(it, Stages(call)[k - 1].w) - nl,
              count |-> first, at |-> start + first]
      /\ Written(b, d, c, Len(Front(it, v)), Front(it, v))

\* Where a number's parts stand: behind c come front, zeros and digits.
LEMMA FourNaturals ==
  ASSUME NEW c \in Nat, NEW f \in Nat, NEW z \in Nat, NEW l \in Nat
  PROVE  /\ f + z + l \in Nat /\ c + f + z \in Nat /\ c + (f + z + l) = c + f + z + l
         /\ c + f \in Nat /\ c + f + z + l \in Nat
         /\ c + f + z \in c + f .. c + f + z + l
  OBVIOUS

LEMMA DigitBehind ==
  ASSUME NEW c \in Nat, NEW f \in Nat, NEW z \in Nat, NEW l \in Nat, NEW j \in 1 .. l
  PROVE  f + z + j \in 1 .. f + z + l /\ c + (f + z + j) = c + f + z + j
  OBVIOUS

\* Of a number nothing is written yet but what stands in front.
LEMMA NumberBegins ==
  ASSUME NEW call \in PRINTS, NEW k \in 1 .. Len(call.fmt), ~Stopped(call, k),
         call.fmt[k].conv \in DOMAIN Radix,
         NEW c \in 0 .. SizeOf(call), c < SizeOf(call), NEW b, BufferOK(call, b),
         ShownOK(call, k - 1, c, b), NEW v \in Words,
         ~SkippedBy(call, k) => v = call.args[Stages(call)[k - 1].ap],
         call.fmt[k].conv = "p" => SizeOf(call) - c > 2,
         NEW start, NEW first, NEW n, NEW d, NumberStart(call, k, c, b, v, start, first, n, d)
  PROVE  /\ start \in 0 .. SizeOf(call) /\ BufferOK(call, d)
         /\ n.pad > 0 => PaddingOK(call, k, start, d, n)
         /\ ~(n.pad > 0) => DigitsOK(call, k, start, d, n)
<1>1. PICK it, w, un, base, front :
        /\ it = call.fmt[k] /\ w = WidthOf(it, Stages(call)[k - 1].w)
        /\ un = Unsigned(it, v) /\ base = Radix[it.conv] /\ front = Front(it, v)
  OBVIOUS
<1>2. PICK nl, z, S, F, text :
        /\ nl = basepow(un, base) /\ z = ZerosFor(un, base, w)
        /\ S = SizeOf(call) /\ F = Len(front) /\ text = Text(it, v, w)
  OBVIOUS
<1>3. S \in Nat /\ c \in Nat /\ c < S /\ Len(call.fmt) \in Nat
  BY <1>2, CallFacts
<1>4. w \in Nat
  <2>1. PICK t : ItemAt(call, k, t)
    BY DEF ItemAt
  <2> QED
    BY <2>1, <1>1, ItemFacts
<1>5. un \in Words /\ un \in Nat /\ base \in Bases
  BY <1>1, UnsignedIs, WordRange, RadixIs
<1>6. NumberParts(text, front, z, un, base)
  BY <1>1, <1>2, <1>4, NumberInFull
<1>7. nl \in Nat \ {0} /\ z \in Nat /\ F \in Nat /\ z = IF w > nl THEN w - nl ELSE 0
  BY <1>2, <1>6 DEF NumberParts, ZerosFor
<1>8. /\ it.conv = "p" => F = 2 /\ start = c + 2 /\ first = 0
      /\ Minus(it, v) => F = 1 /\ start = c /\ first = 1
      /\ it.conv # "p" /\ ~Minus(it, v) => F = 0 /\ start = c /\ first = 0
  BY <1>1, <1>2, FrontIs DEF NumberStart, Minus
<1>9. /\ n = [un |-> un, base |-> base, nl |-> nl, pad |-> w - nl,
              count |-> first, at |-> start + first]
      /\ Written(b, d, c, Len(front), front)
  BY <1>1, <1>2 DEF NumberStart
<1>10. it.conv = "p" => S - c > 2
  BY <1>1, <1>2
<1>11. /\ start \in 0 .. S /\ first \in 0 .. 1 /\ start + first = c + F /\ c + F <= S
       /\ start \in Nat /\ first \in Nat
  BY <1>3, <1>8, <1>10
<1>12. /\ n.un = un /\ n.base = base /\ n.nl = nl /\ n.pad = w - nl
       /\ n.count = first /\ n.at = start + first /\ n \in Locals
  <2>1. w - nl \in Int /\ start + first \in Nat /\ nl \in Nat
    BY <1>4, <1>7, <1>11
  <2> QED
    BY <1>5, <1>9, <1>11, <2>1 DEF Locals, Bases
<1>13. /\ BufferOK(call, d)
       /\ \A i \in 1 .. c : d[i - 1] = b[i - 1]
       /\ \A i \in 1 .. F : d[c + i - 1] = front[i]
  <2>1. Len(front) \in Nat /\ c + Len(front) <= SizeOf(call)
    BY <1>2, <1>7, <1>11
  <2>2. /\ BufferOK(call, d)
        /\ \A i \in 1 .. c : d[i - 1] = b[i - 1]
        /\ \A i \in 1 .. Len(front) : d[c + i - 1] = front[i]
    BY <2>1, <1>9, FrontWritten
  <2> QED
    BY <2>2, <1>2
<1>14. LocalsOK(call, start, n)
  BY <1>2, <1>11, <1>12, <1>3 DEF LocalsOK
<1>15. n.pad > 0 => first = 0 /\ start < S
  <2>1. Minus(it, v) => w = 0
    BY <1>1, DecimalWidth DEF Minus
  <2> QED
    BY <2>1, <1>3, <1>4, <1>7, <1>8, <1>10, <1>12
<1>16. ASSUME ~SkippedBy(call, k)
       PROVE  LET out == Out(call, k)
                  P == c + F + z
              IN  /\ P \in n.at .. Len(out) /\ Len(out) = P + nl /\ Len(out) \in Nat
                  /\ NumberAt(out, P, d, n)
                  /\ \A i \in n.at + 1 .. P : out[i] = "0"
  <2> DEFINE out == Out(call, k)
             o == Out(call, k - 1)
             N == Numerals(un, base)
             P == c + F + z
  <2>1. ~SkippedBy(call, k - 1)
    BY <1>16, SkippedStays
  <2>2. c = (IF Len(o) < S THEN Len(o) ELSE S) /\ Shows(b, o, c)
    BY <2>1, <1>2 DEF ShownOK
  <2>3. ItemAt(call, k, text)
    BY <1>1, <1>2, <1>16 DEF ItemAt
  <2>4. Extended(o, out, Len(o), Len(text), text)
    BY <2>3, ItemExtends
  <2>5. k - 1 \in 0 .. Len(call.fmt)
    BY <1>3
  <2>6. Len(o) \in Nat
    BY <2>5, CallFacts
  <2> HIDE DEF out, o, N
  <2>7. c = Len(o)
    BY <2>2, <2>6, <1>3
  <2>8. /\ Len(text) = F + z + nl
        /\ \A i \in 1 .. F : text[i] = front[i]
        /\ \A i \in 1 .. z : text[F + i] = "0"
        /\ \A j \in 1 .. nl : text[F + z + j] = N[j]
    BY <1>2, <1>6 DEF NumberParts, N
  <2>15. PICK l : l = F + z + nl
    OBVIOUS
  <2>16. /\ Len(out) = c + l /\ \A i \in 1 .. c : out[i] = o[i]
         /\ \A j \in 1 .. l : out[c + j] = text[j]
    BY <2>4, <2>7, <2>8, <2>15 DEF Extended
  <2>18. c \in Nat /\ F \in Nat /\ z \in Nat /\ nl \in Nat
    BY <1>3, <1>7
  <2>19. F + z + nl \in Nat /\ c + F + z \in Nat /\ c + (F + z + nl) = c + F + z + nl
         /\ c + F \in Nat /\ c + F + z + nl \in Nat /\ c + F + z \in c + F .. c + F + z + nl
    BY <2>18, FourNaturals
  <2>17. l \in Nat /\ P \in Nat /\ c + l = P + nl
    BY ONLY <2>15, <2>19 DEF P
  <2>9. n.at = c + F /\ Len(out) = P + nl /\ P \in Nat
    BY <2>16, <2>17, <1>11, <1>12
  <2>10. Len(out) \in Nat /\ P \in n.at .. Len(out)
    BY ONLY <2>9, <2>19 DEF P
  <2>11. ASSUME NEW i \in 1 .. c + F
         PROVE  d[i - 1] = out[i]
    <3>1. CASE i <= c
      <4>1. i \in 1 .. c
        BY <3>1, <1>3
      <4>2. d[i - 1] = b[i - 1] /\ b[i - 1] = o[i] /\ out[i] = o[i]
        BY <4>1, <1>13, <2>2, <2>16 DEF Shows
      <4> QED
        BY <4>2
    <3>2. CASE i > c
      <4>1. i - c \in 1 .. F /\ i - c \in 1 .. l /\ c + (i - c) - 1 = i - 1
            /\ c + (i - c) = i
        BY <3>2, <2>15, <1>3, <1>7
      <4>2. d[c + (i - c) - 1] = front[i - c]
        BY <4>1, <1>13
      <4>3. out[c + (i - c)] = text[i - c] /\ text[i - c] = front[i - c]
        BY <4>1, <2>16, <2>8
      <4> QED
        BY <4>1, <4>2, <4>3
    <3> QED
      BY <3>1, <3>2, <1>3
  <2>12. ASSUME NEW j \in 1 .. nl
         PROVE  out[P + j] = N[j]
    <3>3. j \in 1 .. nl
      OBVIOUS
    <3>1. F + z + j \in 1 .. l /\ c + (F + z + j) = P + j
      BY ONLY <3>3, <2>15, <2>18, DigitBehind DEF P
    <3>2. out[c + (F + z + j)] = text[F + z + j]
      BY <3>1, <2>16
    <3> QED
      BY <3>1, <3>2, <2>8
  <2>13. ASSUME NEW i \in n.at + 1 .. P
         PROVE  out[i] = "0"
    <3> DEFINE q == i - (c + F)
    <3>1. q \in 1 .. z /\ F + q \in 1 .. l /\ c + (F + q) = i
      <4>1. i \in c + F + 1 .. c + F + z
        BY <2>9
      <4> QED
        BY <4>1, <2>15, <2>18
    <3> HIDE DEF q
    <3>2. out[c + (F + q)] = text[F + q] /\ text[F + q] = "0"
      BY <3>1, <2>16, <2>8
    <3> QED
      BY <3>1, <3>2
  <2>14. NumberAt(out, P, d, n)
    <3>1. Shows(d, out, n.at)
      BY <2>9, <2>11 DEF Shows
    <3>2. n.nl <= Len(out) - P
      BY <2>9, <1>7, <1>12
    <3>3. \A j \in 1 .. n.nl : out[P + j] = Numerals(n.un, n.base)[j]
      BY <2>12, <1>12 DEF N
    <3> QED
      BY <3>1, <3>2, <3>3 DEF NumberAt
  <2> QED
    BY <2>9, <2>10, <2>13, <2>14 DEF out
<1>17. ASSUME n.pad > 0
       PROVE  PaddingOK(call, k, start, d, n)
  <2>1. n.count = n.at - start /\ n.count < S - start
    BY <1>3, <1>11, <1>12, <1>15, <1>17
  <2>2. ASSUME ~SkippedBy(call, k)
        PROVE  \E P \in n.at .. Len(Out(call, k)) :
                 NumberAt(Out(call, k), P, d, n) /\ PaddingAt(Out(call, k), P, n)
    <3> DEFINE out == Out(call, k)
               P == c + F + z
    <3>1. /\ P \in n.at .. Len(out) /\ Len(out) = P + nl /\ Len(out) \in Nat
          /\ NumberAt(out, P, d, n)
          /\ \A i \in n.at + 1 .. P : out[i] = "0"
      BY <2>2, <1>16
    <3>2. n.at + n.pad = P
      BY <1>3, <1>4, <1>7, <1>11, <1>12, <1>15, <1>17
    <3>3. P \in Nat
      BY <1>3, <1>7
    <3> HIDE DEF out, P
    <3>4. n.nl = Len(out) - P
      BY <3>1, <3>3, <1>7, <1>12
    <3>5. PaddingAt(out, P, n)
      BY <3>1, <3>2, <3>4 DEF PaddingAt
    <3> QED
      BY <3>1, <3>5 DEF out
  <2> QED
    BY <2>1, <2>2, <1>2, <1>14, <1>17 DEF PaddingOK
<1>18. ASSUME ~(n.pad > 0)
       PROVE  DigitsOK(call, k, start, d, n)
  <2>1. ASSUME ~SkippedBy(call, k)
        PROVE  \E P \in n.at .. Len(Out(call, k)) :
                 NumberAt(Out(call, k), P, d, n) /\ DigitsAt(call, Out(call, k), P, start, d, n)
    <3> DEFINE out == Out(call, k)
               P == c + F + z
    <3>1. /\ P \in n.at .. Len(out) /\ Len(out) = P + nl /\ Len(out) \in Nat
          /\ NumberAt(out, P, d, n)
      BY <2>1, <1>16
    <3>2. n.at = P
      BY <1>3, <1>4, <1>7, <1>11, <1>12, <1>18
    <3>3. P \in Nat
      BY <1>3, <1>7
    <3> HIDE DEF out, P
    <3> DEFINE D == Len(out) - P
               M == IF D < S - n.at THEN D ELSE S - n.at
    <3>4. D = nl /\ n.nl = nl
      BY <3>1, <3>3, <1>7, <1>12
    <3>5. \A j \in n.nl .. D - 1 : n.at + j < S => d[n.at + j] = out[n.at + j + 1]
      BY <3>4, <1>7
    <3>6. M \in Int /\ M <= nl
      BY <3>2, <3>3, <3>4, <1>3, <1>7
    <3> HIDE DEF M
    <3>7. n.count = (n.at - start) + (IF n.nl < M THEN M - n.nl ELSE 0)
      BY <3>4, <3>6, <1>7, <1>11, <1>12
    <3>8. DigitsAt(call, out, P, start, d, n)
      BY <3>2, <3>5, <3>7, <1>2 DEF DigitsAt, M
    <3> QED
      BY <3>1, <3>8 DEF out
  <2> QED
    BY <2>1, <1>14 DEF DigitsOK
<1> QED
  BY <1>2, <1>11, <1>13, <1>17, <1>18

\* In a number.
LEMMA InNumber ==
  ASSUME NEW call \in PRINTS, NEW k \in 1 .. Len(call.fmt), ~Stopped(call, k),
         NEW c \in 0 .. SizeOf(call), NEW a, ArgsOK(call, k, a), NEW b, BufferOK(call, b),
         NEW p, p = Stages(call)[k].w, NEW n,
         print' = call, fmt' = k, count' = c, ap' = a, buf' = b, padding' = p, num' = n,
         \/ ppc' = "padding" /\ PaddingOK(call, k, c, b, n)
         \/ ppc' = "digits" /\ DigitsOK(call, k, c, b, n)
  PROVE  PrintInv'
<1>1. Len(call.fmt) \in Nat
  BY CallFacts
<1>2. k \in 0 .. Len(call.fmt) /\ k \in Nat /\ k # 0
  BY <1>1
<1>3. CallOK(call, k, c, a, b)
  BY <1>2 DEF CallOK
<1>4. CallOK(print', fmt', count', ap', buf') /\ fmt' # 0 /\ fmt' \in Nat
      /\ padding' = Stages(print')[fmt'].w
  BY <1>2, <1>3
<1>5. \/ ppc' = "padding" /\ PaddingOK(print', fmt', count', buf', num')
      \/ ppc' = "digits" /\ DigitsOK(print', fmt', count', buf', num')
  OBVIOUS
<1> QED
  BY <1>4, <1>5 DEF PrintInv

\* A number begins.
LEMMA NumberKeeps == PrintInv /\ PutNumber => PrintInv'
<1> SUFFICES ASSUME PrintInv, PutNumber
             PROVE  PrintInv'
  OBVIOUS
<1>1. PICK call, k, c, a, p, b :
        call = print /\ k = fmt /\ c = count /\ a = ap /\ p = padding /\ b = buf
  OBVIOUS
<1>2. More /\ Item.conv \in DOMAIN Radix /\ (Item.conv = "p" => size - count > 2)
  BY DEF PutNumber
<1>3. /\ AtItem(call, k, c, a, p, b) /\ Item = call.fmt[k] /\ size = SizeOf(call)
      /\ Width = WidthOf(call.fmt[k], p)
  BY <1>1, <1>2, MoreIs
<1>4. /\ call \in PRINTS /\ k \in 1 .. Len(call.fmt) /\ ~Stopped(call, k - 1)
      /\ BufferOK(call, b) /\ c \in 0 .. SizeOf(call) /\ ArgsOK(call, k - 1, a)
      /\ ShownOK(call, k - 1, c, b) /\ p = Stages(call)[k - 1].w /\ c < SizeOf(call)
  BY <1>3 DEF AtItem, CallOK
<1> DEFINE it == call.fmt[k]
           v == call.args[a]
           start == IF it.conv = "p" THEN c + 2 ELSE c
           first == IF Minus(it, v) THEN 1 ELSE 0
           un == Unsigned(it, v)
           nl == basepow(un, Radix[it.conv])
           w == WidthOf(it, p)
           n == [un |-> un, base |-> Radix[it.conv], nl |-> nl, pad |-> w - nl,
                 count |-> first, at |-> start + first]
           d == buf'
<1>5. it.conv \in DOMAIN Radix /\ (it.conv = "p" => SizeOf(call) - c > 2)
  BY <1>1, <1>2, <1>3
<1>6. ~Stopped(call, k)
  BY <1>4, <1>5, GoesOn, RadixIs
<1>7. v \in Words
  BY <1>4, <1>5, <1>6, ArgFits
<1>8. un = IF Minus(it, v) THEN (2 ^ INT_BITS - v) % 2 ^ INT_BITS ELSE v
  BY <1>7, UnsignedIs DEF Unsigned
<1>9. /\ print' = call /\ fmt' = k /\ count' = start /\ ap' = a + 1 /\ padding' = w
      /\ num' = n /\ ppc' = (IF w > nl THEN "padding" ELSE "digits")
      /\ d = [i \in DOMAIN b |->
                CASE start > c /\ i = c         -> "0"
                  [] start > c /\ i = c + 1     -> "x"
                  [] Minus(it, v) /\ i = start  -> "-"
                  [] OTHER                      -> b[i]]
  <2>1. Minus(it, v) <=> Item.conv = "d" /\ print.args[ap] >= 2 ^ (INT_BITS - 1)
    BY <1>1, <1>3 DEF Minus
  <2> QED
    BY <1>1, <1>3, <1>8, <2>1 DEF PutNumber
<1>10. c \in Nat /\ SizeOf(call) \in Nat /\ DOMAIN b = 0 .. SizeOf(call) + Beyond /\ Beyond = 12
  BY <1>4, CallFacts DEF BufferOK, Beyond
<1>11. PICK front : front = Front(it, v)
  OBVIOUS
<1>12. Written(b, d, c, Len(front), front)
  <2>1. DOMAIN d = DOMAIN b
    BY <1>9
  <2>2. ASSUME NEW i \in DOMAIN b
        PROVE  d[i] = IF i \in c .. c + Len(front) - 1 THEN front[i - c + 1] ELSE b[i]
    <3>0. i \in Int
      BY <1>10
    <3>1. CASE it.conv = "p"
      <4>1. Len(front) = 2 /\ front[1] = "0" /\ front[2] = "x" /\ start = c + 2 /\ ~Minus(it, v)
        BY <3>1, <1>11, FrontIs DEF Minus
      <4>2. start > c
        BY <4>1, <1>10
      <4>3. i \in c .. c + 2 - 1 <=> i = c \/ i = c + 1
        BY <3>0, <1>10
      <4>4. CASE i = c
        <5>1. i # c + 1 /\ i - c + 1 = 1
          BY <4>4, <1>10
        <5>2. d[i] = "0"
          BY <4>1, <4>2, <4>4, <5>1, <1>9
        <5> QED
          BY <4>1, <4>3, <4>4, <5>1, <5>2
      <4>5. CASE i = c + 1
        <5>1. i # c /\ i - c + 1 = 2
          BY <4>5, <1>10
        <5>2. d[i] = "x"
          BY <4>1, <4>2, <4>5, <5>1, <1>9
        <5> QED
          BY <4>1, <4>3, <4>5, <5>1, <5>2
      <4>6. CASE i # c /\ i # c + 1
        <5>1. d[i] = b[i]
          BY <4>1, <4>6, <1>9
        <5> QED
          BY <4>1, <4>3, <4>6, <5>1
      <4> QED
        BY <4>4, <4>5, <4>6
    <3>2. CASE Minus(it, v)
      <4>1. Len(front) = 1 /\ front[1] = "-" /\ it.conv # "p" /\ start = c /\ ~(start > c)
        BY <3>2, <1>10, <1>11, FrontIs
      <4>2. i \in c .. c + 1 - 1 <=> i = c
        BY <3>0, <1>10
      <4>3. i = c => i - c + 1 = 1
        BY <1>10
      <4>4. d[i] = IF i = c THEN "-" ELSE b[i]
        BY <3>2, <4>1, <1>9
      <4> QED
        BY <4>1, <4>2, <4>3, <4>4
    <3>3. CASE it.conv # "p" /\ ~Minus(it, v)
      <4>1. Len(front) = 0 /\ start = c /\ ~(start > c)
        BY <3>3, <1>10, <1>11, FrontIs
      <4>2. i \notin c .. c + 0 - 1
        BY <3>0, <1>10
      <4>3. d[i] = b[i]
        BY <3>3, <4>1, <1>9
      <4> QED
        BY <4>1, <4>2, <4>3
    <3> QED
      BY <3>1, <3>2, <3>3
  <2> QED
    BY <2>1, <2>2 DEF Written
<1>13. NumberStart(call, k, c, b, v, start, first, n, d)
  BY <1>4, <1>11, <1>12 DEF NumberStart
<1>14. ~SkippedBy(call, k) => v = call.args[Stages(call)[k - 1].ap]
  BY <1>4, SkippedStays DEF ArgsOK
<1>15. w \in Nat /\ w = Stages(call)[k].w
  <2>1. PICK t : ItemAt(call, k, t)
    BY DEF ItemAt
  <2> QED
    BY <2>1, <1>4, <1>6, ItemFacts
<1>16. nl \in Nat
  BY <1>5, <1>7, UnsignedIs, WordRange, RadixIs, NumeralTypes
<1>17. (n.pad > 0) <=> (w > nl)
  BY <1>15, <1>16
<1>18. ArgsOK(call, k, a + 1)
  <2>1. it.conv \notin {"literal", "%"}
    BY <1>5, RadixIs
  <2> QED
    BY <2>1, <1>4, <1>6, ArgsNext
<1>19. PICK st, fi, nn, dd : st = start /\ fi = first /\ nn = n /\ dd = buf'
  OBVIOUS
<1>20. PICK vv : vv = v
  OBVIOUS
<1>21. /\ NumberStart(call, k, c, b, vv, st, fi, nn, dd) /\ vv \in Words
       /\ ~SkippedBy(call, k) => vv = call.args[Stages(call)[k - 1].ap]
       /\ call.fmt[k].conv \in DOMAIN Radix
       /\ call.fmt[k].conv = "p" => SizeOf(call) - c > 2
  BY <1>5, <1>7, <1>13, <1>14, <1>19, <1>20
<1>22. /\ print' = call /\ fmt' = k /\ count' = st /\ ap' = a + 1
       /\ padding' = Stages(call)[k].w
       /\ num' = nn /\ buf' = dd /\ ppc' = (IF nn.pad > 0 THEN "padding" ELSE "digits")
  BY <1>9, <1>15, <1>17, <1>19
<1> HIDE DEF start, first, n, d, un, nl, w, v, it
<1>23. /\ st \in 0 .. SizeOf(call) /\ BufferOK(call, dd)
       /\ nn.pad > 0 => PaddingOK(call, k, st, dd, nn)
       /\ ~(nn.pad > 0) => DigitsOK(call, k, st, dd, nn)
  BY <1>4, <1>6, <1>21, NumberBegins
<1>24. \/ ppc' = "padding" /\ PaddingOK(call, k, st, dd, nn)
       \/ ppc' = "digits" /\ DigitsOK(call, k, st, dd, nn)
  BY <1>22, <1>23
<1> QED
  BY <1>4, <1>6, <1>18, <1>22, <1>23, <1>24, InNumber

\* The last digit, and the digits in front of it.
LEMMA LastDigit ==
  ASSUME NEW b \in Bases, NEW n \in Words
  PROVE  /\ n \div b \in Words /\ basepow(n, b) \in Nat \ {0}
         /\ Numerals(n, b)[basepow(n, b)] = digits[(n % b) + 1]
         /\ n \div b = 0 => basepow(n, b) = 1
         /\ n \div b # 0 =>
              /\ basepow(n \div b, b) = basepow(n, b) - 1
              /\ \A j \in 1 .. basepow(n, b) - 1 : Numerals(n \div b, b)[j] = Numerals(n, b)[j]
<1> DEFINE q == n \div b
           r == n % b
<1>1. n \in Nat /\ b \in Nat
  BY WordRange DEF Bases
<1>2. /\ q \in 0 .. n
      /\ n < b => q = 0 /\ r = n
      /\ q = 0 => n < b
  BY <1>1, Quotients
<1>3. q \in Words
  <2>1. 2 ^ INT_BITS \in Nat
    BY WordRange
  <2>2. n \in 0 .. 2 ^ INT_BITS - 1
    BY DEF Words
  <2> HIDE DEF q
  <2> QED
    BY <2>1, <2>2, <1>2 DEF Words
<1>4. q \in Nat
  BY <1>2
<1>5. /\ basepow(n, b) = IF n < b THEN 1 ELSE 1 + basepow(q, b)
      /\ Numerals(n, b) = IF n < b THEN <<digits[n + 1]>>
                          ELSE Append(Numerals(q, b), digits[r + 1])
  BY <1>1, BasepowIs, NumeralsIs
<1>6. /\ Numerals(q, b) \in Seq(Chars) /\ Len(Numerals(q, b)) = basepow(q, b)
      /\ basepow(q, b) \in Nat /\ basepow(n, b) \in Nat \ {0}
  BY <1>1, <1>4, NumeralTypes
<1> HIDE DEF q, r
<1>7. CASE q = 0
  <2>1. n < b /\ r = n
    BY <1>2, <1>7
  <2>2. basepow(n, b) = 1 /\ Numerals(n, b) = <<digits[r + 1]>>
    BY <2>1, <1>5
  <2> QED
    BY <2>2, <1>3, <1>6, <1>7 DEF q, r
<1>8. CASE q # 0
  <2>1. ~(n < b)
    BY <1>2, <1>8
  <2> DEFINE s == Numerals(q, b)
             l == basepow(q, b)
             x == digits[r + 1]
  <2>2. basepow(n, b) = 1 + l /\ Numerals(n, b) = Append(s, x)
    BY <2>1, <1>5
  <2>3. s \in Seq(Chars) /\ Len(s) = l /\ l \in Nat
    BY <1>6
  <2> HIDE DEF s, l, x
  <2>4. Append(s, x)[l + 1] = x /\ \A j \in 1 .. l : Append(s, x)[j] = s[j]
    BY <2>3
  <2>5. basepow(n, b) = l + 1 /\ l = basepow(n, b) - 1
    BY <2>2, <2>3
  <2>6. Numerals(n, b)[basepow(n, b)] = x /\ \A j \in 1 .. basepow(n, b) - 1 : s[j] = Numerals(n, b)[j]
    BY <2>2, <2>4, <2>5
  <2> QED
    BY <2>5, <2>6, <1>3, <1>6, <1>8 DEF q, r, s, l, x
<1> QED
  BY <1>7, <1>8

\* A round of the padding loop.
PadNext(b, n, d, m) ==
  /\ d = [b EXCEPT ![n.at] = "0"]
  /\ m = [n EXCEPT !.at = @ + 1, !.count = @ + 1, !.pad = @ - 1]
LEMMA PadNextIs ==
  ASSUME NEW n \in Locals, NEW b, NEW d, NEW m, PadNext(b, n, d, m)
  PROVE  /\ m.un = n.un /\ m.base = n.base /\ m.nl = n.nl
         /\ m.at = n.at + 1 /\ m.count = n.count + 1 /\ m.pad = n.pad - 1 /\ m \in Locals
         /\ DOMAIN d = DOMAIN b /\ \A i \in DOMAIN b : d[i] = IF i = n.at THEN "0" ELSE b[i]
<1>1. DOMAIN d = DOMAIN b /\ \A i \in DOMAIN b : d[i] = IF i = n.at THEN "0" ELSE b[i]
  BY DEF PadNext
<1>2. n.at \in Nat /\ n.count \in Nat /\ n.pad \in Int
  BY DEF Locals
<1>3. n.at + 1 \in Nat /\ n.count + 1 \in Nat /\ n.pad - 1 \in Int
  BY <1>2
<1>4. m = [un |-> n.un, base |-> n.base, nl |-> n.nl, pad |-> n.pad - 1,
           count |-> n.count + 1, at |-> n.at + 1]
  BY DEF PadNext, Locals
<1>5. m \in Locals
  BY <1>3, <1>4 DEF Locals
<1>6. /\ m.un = n.un /\ m.base = n.base /\ m.nl = n.nl
      /\ m.at = n.at + 1 /\ m.count = n.count + 1 /\ m.pad = n.pad - 1
  BY <1>4
<1> QED
  BY <1>1, <1>5, <1>6
LEMMA PadRound ==
  ASSUME NEW call \in PRINTS, NEW k \in 0 .. Len(call.fmt), NEW c \in 0 .. SizeOf(call),
         NEW b, BufferOK(call, b), NEW n, PaddingOK(call, k, c, b, n),
         NEW d, NEW m, PadNext(b, n, d, m)
  PROVE  /\ BufferOK(call, d)
         /\ IF n.pad = 1 \/ n.count + 1 = SizeOf(call) - c
            THEN DigitsOK(call, k, c, d, m) ELSE PaddingOK(call, k, c, d, m)
<1>1. PICK S, out : S = SizeOf(call) /\ out = Out(call, k)
  OBVIOUS
<1>2. S \in Nat /\ c \in Nat /\ c <= S /\ Len(out) \in Nat /\ Beyond = 12
  BY <1>1, CallFacts DEF Beyond
<1>3. /\ n \in Locals /\ n.nl = basepow(n.un, n.base)
      /\ c <= n.at /\ n.at - c <= n.count /\ n.count <= S - c
      /\ n.pad > 0 /\ n.count = n.at - c /\ n.count < S - c
      /\ ~SkippedBy(call, k) =>
           \E P \in n.at .. Len(out) : NumberAt(out, P, b, n) /\ PaddingAt(out, P, n)
  BY <1>1 DEF PaddingOK, LocalsOK
<1>4. n.at \in Nat /\ n.count \in Nat /\ n.pad \in Int /\ n.nl \in Nat
  BY <1>3 DEF Locals
<1>5. /\ m.un = n.un /\ m.base = n.base /\ m.nl = n.nl
      /\ m.at = n.at + 1 /\ m.count = n.count + 1 /\ m.pad = n.pad - 1 /\ m \in Locals
  BY <1>3, PadNextIs
<1>6. DOMAIN b = 0 .. S + Beyond /\ \A i \in DOMAIN b : i >= S => b[i] = BlankOf(call)
  BY <1>1 DEF BufferOK
<1>7. n.at < S
  BY <1>2, <1>3, <1>4
<1>8. DOMAIN d = DOMAIN b /\ \A i \in DOMAIN b : d[i] = IF i = n.at THEN "0" ELSE b[i]
  BY <1>3, PadNextIs
<1>9. BufferOK(call, d)
  <2>1. \A i \in DOMAIN d : i >= S => d[i] = BlankOf(call)
    BY <1>2, <1>4, <1>6, <1>7, <1>8
  <2> QED
    BY <2>1, <1>1, <1>6, <1>8 DEF BufferOK
<1>10. LocalsOK(call, c, m)
  <2>1. m.at - c <= m.count /\ m.count <= S - c /\ c <= m.at
    BY <1>2, <1>3, <1>4, <1>5
  <2> QED
    BY <2>1, <1>1, <1>3, <1>5 DEF LocalsOK
<1>14. PICK at, cnt, pad, L : at = n.at /\ cnt = n.count /\ pad = n.pad /\ L = Len(out)
  OBVIOUS
<1>15. /\ at \in Nat /\ cnt \in Nat /\ pad \in Int /\ L \in Nat /\ S \in Nat /\ c \in Nat
       /\ pad > 0 /\ cnt = at - c /\ cnt < S - c
       /\ m.at = at + 1 /\ m.count = cnt + 1 /\ m.pad = pad - 1
  BY <1>2, <1>3, <1>4, <1>5, <1>14
<1>11. ASSUME ~SkippedBy(call, k)
       PROVE  \E P \in m.at .. Len(out) :
                /\ NumberAt(out, P, d, m) /\ PaddingAt(out, P, m) /\ P \in Nat
                /\ n.pad = 1 => m.at = P
  <2>1. PICK P \in n.at .. Len(out) : NumberAt(out, P, b, n) /\ PaddingAt(out, P, n)
    BY <1>3, <1>11
  <2>2. /\ Shows(b, out, n.at) /\ n.nl <= Len(out) - P
        /\ \A j \in 1 .. n.nl : out[P + j] = Numerals(n.un, n.base)[j]
    BY <2>1 DEF NumberAt
  <2>3. /\ n.nl = Len(out) - P /\ n.at + n.pad = P
        /\ \A i \in n.at + 1 .. P : out[i] = "0"
    BY <2>1 DEF PaddingAt
  <2>4. P \in Nat /\ P \in m.at .. Len(out) /\ m.at + m.pad = P /\ (n.pad = 1 => m.at = P)
    <3>1. P \in at .. L /\ at + pad = P
      BY <2>3, <1>14
    <3>2. P \in Nat /\ P \in at + 1 .. L /\ (at + 1) + (pad - 1) = P /\ (pad = 1 => at + 1 = P)
      BY <3>1, <1>15
    <3> QED
      BY <3>2, <1>14, <1>15
  <2>5. ASSUME NEW i \in 1 .. m.at
        PROVE  d[i - 1] = out[i]
    <3>1. i - 1 \in DOMAIN b
      BY <1>2, <1>4, <1>5, <1>6, <1>7
    <3>2. CASE i = n.at + 1
      <4>1. i - 1 = n.at /\ i \in n.at + 1 .. P
        BY <3>2, <2>4, <1>4, <1>5
      <4> QED
        BY <4>1, <3>1, <2>3, <1>8
    <3>3. CASE i # n.at + 1
      <4>1. i \in 1 .. n.at /\ i - 1 # n.at
        BY <3>3, <1>4, <1>5
      <4>2. b[i - 1] = out[i]
        BY <4>1, <2>2 DEF Shows
      <4> QED
        BY <4>1, <4>2, <3>1, <1>8
    <3> QED
      BY <3>2, <3>3
  <2>6. Shows(d, out, m.at)
    BY <2>5 DEF Shows
  <2>7. NumberAt(out, P, d, m)
    BY <2>2, <2>6, <1>5 DEF NumberAt
  <2>8. \A i \in m.at + 1 .. P : i \in n.at + 1 .. P
    BY <2>4, <1>4, <1>5
  <2>9. PaddingAt(out, P, m)
    BY <2>3, <2>4, <2>8, <1>5 DEF PaddingAt
  <2> QED
    BY <2>4, <2>7, <2>9
<1>12. CASE n.pad = 1 \/ n.count + 1 = S - c
  <2>1. ASSUME ~SkippedBy(call, k)
        PROVE  \E P \in m.at .. Len(out) :
                 NumberAt(out, P, d, m) /\ DigitsAt(call, out, P, c, d, m)
    <3>1. PICK P \in m.at .. Len(out) :
                /\ NumberAt(out, P, d, m) /\ PaddingAt(out, P, m) /\ P \in Nat
                /\ n.pad = 1 => m.at = P
      BY <2>1, <1>11
    <3> DEFINE D == Len(out) - P
               M == IF D < S - m.at THEN D ELSE S - m.at
    <3>2. m.at = P \/ m.at = S
      <4>1. pad = 1 \/ cnt + 1 = S - c
        BY <1>12, <1>14
      <4>2. cnt + 1 = S - c => at + 1 = S
        BY <1>15
      <4> QED
        BY <4>1, <4>2, <3>1, <1>14, <1>15
    <3>3. m.nl = D /\ D \in Nat
      BY <3>1, <1>2 DEF PaddingAt
    <3>4. M \in Int /\ M <= D
      <4>1. PICK x, y : x = D /\ y = m.at
        OBVIOUS
      <4>2. x \in Nat /\ y \in Nat
        BY <4>1, <3>3, <1>15
      <4>3. M = IF x < S - y THEN x ELSE S - y
        BY <4>1
      <4> HIDE DEF M, D
      <4>4. M \in Int /\ M <= x
        BY <4>2, <4>3, <1>2
      <4> QED
        BY <4>1, <4>4
    <3>5. \A j \in m.nl .. D - 1 : m.at + j < S => d[m.at + j] = out[m.at + j + 1]
      BY <3>3
    <3> HIDE DEF M, D
    <3>6. m.count = (m.at - c) + (IF m.nl < M THEN M - m.nl ELSE 0)
      <4>1. ~(m.nl < M)
        BY <3>3, <3>4
      <4> QED
        BY <4>1, <1>2, <1>3, <1>4, <1>5
    <3>7. DigitsAt(call, out, P, c, d, m)
      BY <3>2, <3>5, <3>6, <1>1 DEF DigitsAt, D, M
    <3> QED
      BY <3>1, <3>7
  <2>2. DigitsOK(call, k, c, d, m)
    BY <2>1, <1>1, <1>10 DEF DigitsOK
  <2> QED
    BY <2>2, <1>1, <1>9, <1>12
<1>13. CASE ~(n.pad = 1 \/ n.count + 1 = S - c)
  <2>1. m.pad > 0 /\ m.count = m.at - c /\ m.count < S - c
    <3>1. ~(pad = 1) /\ ~(cnt + 1 = S - c)
      BY <1>13, <1>14
    <3>2. pad - 1 > 0 /\ cnt + 1 = (at + 1) - c /\ cnt + 1 < S - c
      BY <3>1, <1>15
    <3> QED
      BY <3>2, <1>15
  <2>2. PaddingOK(call, k, c, d, m)
    BY <2>1, <1>1, <1>10, <1>11 DEF PaddingOK
  <2> QED
    BY <2>2, <1>1, <1>9, <1>13
<1> QED
  BY <1>12, <1>13

\* A round of the digit loop, in rigid names: the digit is stored if it fits.
DigitNext(call, c, b, n, fits, written, d) ==
  /\ fits <=> n.count + (n.nl - 1) < SizeOf(call) - c
  /\ written = IF fits THEN n.count + 1 ELSE n.count
  /\ d = IF fits THEN [b EXCEPT ![n.at + (n.nl - 1)] = digits[(n.un % n.base) + 1]] ELSE b

\* The arithmetic of a round: the digit fits just when its cell is inside the
\* size, and the count goes on counting the stored ones.
LEMMA FitsIs ==
  ASSUME NEW S \in Nat, NEW c \in Nat, NEW at \in Nat, NEW cnt \in Nat, NEW nl \in Nat,
         NEW D \in Nat, NEW P \in Nat, nl > 0, nl <= D, at = P \/ at = S, at <= S, c <= at,
         NEW M, M = IF D < S - at THEN D ELSE S - at,
         cnt = (at - c) + (IF nl < M THEN M - nl ELSE 0),
         NEW fits, fits <=> cnt + (nl - 1) < S - c,
         NEW written, written = IF fits THEN cnt + 1 ELSE cnt
  PROVE  /\ fits <=> at + (nl - 1) < S
         /\ fits => at = P
         /\ written = (at - c) + (IF nl - 1 < M THEN M - (nl - 1) ELSE 0)
<1>1. M \in Int
  OBVIOUS
<1>2. CASE nl <= M
  <2>1. cnt = (at - c) + (M - nl) /\ M <= S - at /\ nl <= S - at
    BY <1>1, <1>2
  <2>2. cnt + (nl - 1) < S - c /\ at + (nl - 1) < S /\ at # S
    BY <2>1, <1>1
  <2> QED
    BY <1>1, <1>2, <2>1, <2>2
<1>3. CASE ~(nl <= M)
  <2>1. cnt = at - c /\ M = S - at /\ nl > S - at
    BY <1>1, <1>3
  <2>2. ~(cnt + (nl - 1) < S - c) /\ ~(at + (nl - 1) < S)
    BY <2>1
  <2> QED
    BY <1>1, <1>3, <2>1, <2>2
<1> QED
  BY <1>2, <1>3

LEMMA DigitRound ==
  ASSUME NEW call \in PRINTS, NEW k \in 0 .. Len(call.fmt), NEW c \in 0 .. SizeOf(call),
         NEW b, BufferOK(call, b), NEW n, DigitsOK(call, k, c, b, n),
         NEW fits, NEW written, NEW d, DigitNext(call, c, b, n, fits, written, d)
  PROVE  /\ BufferOK(call, d)
         /\ n.un \div n.base = 0 =>
              c + written \in 0 .. SizeOf(call) /\ ShownOK(call, k, c + written, d)
         /\ n.un \div n.base # 0 =>
              \A m : m = [un |-> n.un \div n.base, base |-> n.base, nl |-> n.nl - 1,
                          pad |-> n.pad, count |-> written, at |-> n.at]
                     => DigitsOK(call, k, c, d, m)
<1>1. PICK S, out, at, cnt, nl, un, base :
        /\ S = SizeOf(call) /\ out = Out(call, k)
        /\ at = n.at /\ cnt = n.count /\ nl = n.nl /\ un = n.un /\ base = n.base
  OBVIOUS
<1>2. PICK q, x : q = un \div base /\ x = digits[(un % base) + 1]
  OBVIOUS
<1>3. S \in Nat /\ c \in Nat /\ c <= S /\ Len(out) \in Nat /\ Beyond = 12
  BY <1>1, CallFacts DEF Beyond
<1>4. n \in Locals /\ LocalsOK(call, c, n)
  BY DEF DigitsOK, LocalsOK
<1>5. /\ un \in Words /\ base \in Bases /\ nl \in Nat /\ cnt \in Nat /\ at \in Nat /\ n.pad \in Int
  BY <1>1, <1>4 DEF Locals, Bases
<1>6. nl = basepow(un, base) /\ c <= at /\ at - c <= cnt /\ cnt <= S - c
  BY <1>1, <1>4 DEF LocalsOK
<1>7. /\ q \in Words /\ nl \in Nat \ {0} /\ Numerals(un, base)[nl] = x
      /\ q = 0 => nl = 1
      /\ q # 0 => /\ basepow(q, base) = nl - 1
                  /\ \A j \in 1 .. nl - 1 : Numerals(q, base)[j] = Numerals(un, base)[j]
  BY <1>2, <1>5, <1>6, LastDigit
<1>8. /\ fits <=> cnt + (nl - 1) < S - c
      /\ written = IF fits THEN cnt + 1 ELSE cnt
      /\ d = IF fits THEN [b EXCEPT ![at + (nl - 1)] = x] ELSE b
  BY <1>1, <1>2 DEF DigitNext
<1>9. DOMAIN d = DOMAIN b /\ \A i \in DOMAIN b : d[i] = IF fits /\ i = at + (nl - 1) THEN x ELSE b[i]
  BY <1>8
<1>10. DOMAIN b = 0 .. S + Beyond /\ \A i \in DOMAIN b : i >= S => b[i] = BlankOf(call)
  BY <1>1 DEF BufferOK
<1>11. fits => at + (nl - 1) < S
  <2>1. cnt + (nl - 1) < S - c => at + (nl - 1) < S
    BY <1>3, <1>5, <1>6, <1>7
  <2> QED
    BY <2>1, <1>8
<1>12. BufferOK(call, d)
  <2>1. ASSUME NEW i \in DOMAIN b, i >= S
        PROVE  d[i] = BlankOf(call)
    <3>1. ~(fits /\ i = at + (nl - 1))
      BY <2>1, <1>3, <1>5, <1>7, <1>10, <1>11
    <3> QED
      BY <3>1, <2>1, <1>9, <1>10
  <2> QED
    BY <2>1, <1>1, <1>9, <1>10 DEF BufferOK
<1>13. written \in Nat /\ at - c <= written /\ written <= S - c
  <2>1. PICK new : new = cnt + 1
    OBVIOUS
  <2>2. fits => new <= S - c
    <3>1. cnt + (nl - 1) < S - c => cnt + 1 <= S - c
      BY <1>3, <1>5, <1>7
    <3> QED
      BY <3>1, <2>1, <1>8
  <2>3. new \in Nat /\ at - c <= new
    BY <2>1, <1>3, <1>5, <1>6
  <2>4. written = IF fits THEN new ELSE cnt
    BY <2>1, <1>8
  <2>5. CASE fits
    BY <2>2, <2>3, <2>4, <2>5
  <2>6. CASE ~fits
    BY <2>4, <2>6, <1>5, <1>6
  <2> QED
    BY <2>5, <2>6
\* Where the digits are those of the expansion.
<1>14. ASSUME ~SkippedBy(call, k)
       PROVE  \E P \in at .. Len(out) :
                /\ P \in Nat /\ (at = P \/ at = S) /\ nl <= Len(out) - P
                /\ Shows(d, out, at)
                /\ \A j \in 1 .. nl : out[P + j] = Numerals(un, base)[j]
                /\ \A j \in nl - 1 .. Len(out) - P - 1 :
                     at + j < S => d[at + j] = out[at + j + 1]
                /\ written = (at - c)
                     + (IF nl - 1 < (IF Len(out) - P < S - at THEN Len(out) - P ELSE S - at)
                        THEN (IF Len(out) - P < S - at THEN Len(out) - P ELSE S - at) - (nl - 1)
                        ELSE 0)
  <2>1. PICK P \in at .. Len(out) : NumberAt(out, P, b, n) /\ DigitsAt(call, out, P, c, b, n)
    BY <1>1, <1>14 DEF DigitsOK
  <2> DEFINE D == Len(out) - P
             M == IF D < S - at THEN D ELSE S - at
  <2>2. /\ Shows(b, out, at) /\ nl <= D
        /\ \A j \in 1 .. nl : out[P + j] = Numerals(un, base)[j]
    BY <2>1, <1>1 DEF NumberAt
  <2>3. /\ at = P \/ at = S
        /\ \A j \in nl .. D - 1 : at + j < S => b[at + j] = out[at + j + 1]
        /\ cnt = (at - c) + (IF nl < M THEN M - nl ELSE 0)
    BY <2>1, <1>1 DEF DigitsAt
  <2>4. P \in Nat /\ D \in Nat /\ at <= S /\ nl > 0
    BY <1>3, <1>5, <1>6, <1>7
  <2> HIDE DEF D, M
  <2>5. M = IF D < S - at THEN D ELSE S - at
    BY DEF M
  <2>6. /\ fits <=> at + (nl - 1) < S
        /\ fits => at = P
        /\ written = (at - c) + (IF nl - 1 < M THEN M - (nl - 1) ELSE 0)
    <3>1. /\ S \in Nat /\ c \in Nat /\ at \in Nat /\ cnt \in Nat /\ nl \in Nat
          /\ D \in Nat /\ P \in Nat /\ nl > 0 /\ nl <= D /\ at <= S /\ c <= at
      BY <2>2, <2>4, <1>3, <1>5, <1>6
    <3>2. at = P \/ at = S
      BY <2>3
    <3>3. cnt = (at - c) + (IF nl < M THEN M - nl ELSE 0)
      BY <2>3
    <3>4. fits <=> cnt + (nl - 1) < S - c
      BY <1>8
    <3>5. written = IF fits THEN cnt + 1 ELSE cnt
      BY <1>8
    <3> QED
      BY <3>1, <3>2, <3>3, <3>4, <3>5, <2>5, FitsIs
  <2>7. ASSUME NEW i \in 1 .. at
        PROVE  d[i - 1] = out[i]
    <3>1. i - 1 \in DOMAIN b /\ i - 1 # at + (nl - 1)
      BY <2>4, <1>3, <1>5, <1>10
    <3>2. b[i - 1] = out[i]
      BY <2>2 DEF Shows
    <3> QED
      BY <3>1, <3>2, <1>9
  <2>8. ASSUME NEW j \in nl - 1 .. D - 1, at + j < S
        PROVE  d[at + j] = out[at + j + 1]
    <3>1. at + j \in DOMAIN b
      BY <2>4, <2>8, <1>3, <1>5, <1>10
    <3>2. CASE j = nl - 1
      <4>1. fits /\ at = P
        BY <2>6, <2>8, <3>2
      <4>2. d[at + j] = x
        BY <3>1, <3>2, <4>1, <1>9
      <4>3. at + j + 1 = P + nl /\ nl \in 1 .. nl
        BY <3>2, <4>1, <2>4, <1>5
      <4>4. out[P + nl] = x
        BY <4>3, <2>2, <1>7
      <4> QED
        BY <4>2, <4>3, <4>4
    <3>3. CASE j # nl - 1
      <4>1. j \in nl .. D - 1 /\ at + j # at + (nl - 1)
        BY <3>3, <2>4, <1>5
      <4>2. b[at + j] = out[at + j + 1]
        BY <4>1, <2>3, <2>8
      <4> QED
        BY <4>1, <4>2, <3>1, <1>9
    <3> QED
      BY <3>2, <3>3
  <2>9. Shows(d, out, at)
    BY <2>7 DEF Shows
  <2> QED
    BY <2>2, <2>3, <2>4, <2>6, <2>8, <2>9 DEF D, M
<1>15. ASSUME q = 0
       PROVE  c + written \in 0 .. S /\ ShownOK(call, k, c + written, d)
  <2>1. c + written \in 0 .. S
    BY <1>3, <1>13
  <2>2. ASSUME ~SkippedBy(call, k)
        PROVE  /\ c + written = IF Len(out) < S THEN Len(out) ELSE S
               /\ Shows(d, out, c + written)
    <3>1. PICK P \in at .. Len(out) :
                /\ P \in Nat /\ (at = P \/ at = S) /\ nl <= Len(out) - P
                /\ Shows(d, out, at)
                /\ \A j \in nl - 1 .. Len(out) - P - 1 :
                     at + j < S => d[at + j] = out[at + j + 1]
                /\ written = (at - c)
                     + (IF nl - 1 < (IF Len(out) - P < S - at THEN Len(out) - P ELSE S - at)
                        THEN (IF Len(out) - P < S - at THEN Len(out) - P ELSE S - at) - (nl - 1)
                        ELSE 0)
      BY <2>2, <1>14
    <3>2. PICK L, M : L = Len(out) /\ M = IF L - P < S - at THEN L - P ELSE S - at
      OBVIOUS
    <3>3. nl = 1 /\ L \in Nat /\ P \in at .. L /\ 1 <= L - P /\ P \in Nat /\ at <= S
      BY <3>1, <3>2, <1>3, <1>5, <1>6, <1>7, <1>15
    <3>4. M \in Nat /\ M <= L - P /\ at + M <= S
      BY <3>2, <3>3, <1>3, <1>5
    <3>5. written = (at - c) + (IF nl - 1 < M THEN M - (nl - 1) ELSE 0)
      BY <3>1, <3>2
    <3>6. c + written = at + M
      BY <3>3, <3>4, <3>5, <1>3, <1>5
    <3>7. at + M = IF L < S THEN L ELSE S
      <4>1. CASE at = P
        BY <4>1, <3>2, <3>3, <1>3, <1>5
      <4>2. CASE at = S
        <5>1. M = 0 /\ ~(L < S)
          BY <4>2, <3>2, <3>3, <1>3, <1>5
        <5> QED
          BY <5>1, <4>2, <1>3
      <4> QED
        BY <3>1, <4>1, <4>2
    <3>8. ASSUME NEW i \in 1 .. at + M
          PROVE  d[i - 1] = out[i]
      <4>1. CASE i <= at
        <5>1. i \in 1 .. at
          BY <4>1, <1>5
        <5> QED
          BY <5>1, <3>1 DEF Shows
      <4>2. CASE i > at
        <5> DEFINE j == i - at - 1
        <5>1. j \in 0 .. L - P - 1 /\ at + j < S /\ at + j = i - 1 /\ at + j + 1 = i
          BY <4>2, <3>3, <3>4, <1>3, <1>5
        <5> HIDE DEF j
        <5>2. j \in nl - 1 .. Len(out) - P - 1
          BY <5>1, <3>2, <3>3
        <5>3. d[at + j] = out[at + j + 1]
          BY <5>1, <5>2, <3>1
        <5> QED
          BY <5>1, <5>3
      <4> QED
        BY <4>1, <4>2, <3>4, <1>5
    <3>9. Shows(d, out, c + written)
      BY <3>6, <3>8 DEF Shows
    <3> QED
      BY <3>2, <3>6, <3>7, <3>9
  <2>3. ShownOK(call, k, c + written, d)
    BY <2>2, <1>1 DEF ShownOK
  <2> QED
    BY <2>1, <2>3
<1>16. ASSUME q # 0, NEW m,
              m = [un |-> q, base |-> base, nl |-> nl - 1, pad |-> n.pad,
                   count |-> written, at |-> at]
       PROVE  DigitsOK(call, k, c, d, m)
  <2>1. m.un = q /\ m.base = base /\ m.nl = nl - 1 /\ m.count = written /\ m.at = at
    BY <1>16
  <2>2. m \in Locals
    <3>1. nl - 1 \in Nat
      BY <1>7
    <3> QED
      BY <3>1, <1>5, <1>7, <1>13, <1>16 DEF Locals, Bases
  <2>3. LocalsOK(call, c, m)
    BY <2>1, <2>2, <1>1, <1>6, <1>7, <1>13, <1>16 DEF LocalsOK
  <2>4. ASSUME ~SkippedBy(call, k)
        PROVE  \E P \in m.at .. Len(out) :
                 NumberAt(out, P, d, m) /\ DigitsAt(call, out, P, c, d, m)
    <3>1. PICK P \in at .. Len(out) :
                /\ P \in Nat /\ (at = P \/ at = S) /\ nl <= Len(out) - P
                /\ Shows(d, out, at)
                /\ \A j \in 1 .. nl : out[P + j] = Numerals(un, base)[j]
                /\ \A j \in nl - 1 .. Len(out) - P - 1 :
                     at + j < S => d[at + j] = out[at + j + 1]
                /\ written = (at - c)
                     + (IF nl - 1 < (IF Len(out) - P < S - at THEN Len(out) - P ELSE S - at)
                        THEN (IF Len(out) - P < S - at THEN Len(out) - P ELSE S - at) - (nl - 1)
                        ELSE 0)
      BY <2>4, <1>14
    <3>2. NumberAt(out, P, d, m)
      <4>1. nl - 1 <= Len(out) - P
        BY <3>1, <1>3, <1>5
      <4>2. \A j \in 1 .. nl - 1 : j \in 1 .. nl
        BY <1>5
      <4>3. \A j \in 1 .. nl - 1 : out[P + j] = Numerals(q, base)[j]
        BY <4>2, <3>1, <1>7, <1>16
      <4> QED
        BY <4>1, <4>3, <3>1, <2>1 DEF NumberAt
    <3>3. DigitsAt(call, out, P, c, d, m)
      BY <3>1, <2>1, <1>1 DEF DigitsAt
    <3> QED
      BY <3>2, <3>3, <2>1
  <2> QED
    BY <2>3, <2>4, <1>1 DEF DigitsOK
<1> QED
  BY <1>1, <1>2, <1>12, <1>15, <1>16

\* The place a step of snprintnum begins at.
LEMMA NumberPlace ==
  PrintInv /\ ppc \in {"padding", "digits"} =>
    /\ print \in PRINTS /\ fmt \in 1 .. Len(print.fmt) /\ ~Stopped(print, fmt)
    /\ BufferOK(print, buf) /\ count \in 0 .. SizeOf(print) /\ ArgsOK(print, fmt, ap)
    /\ padding = Stages(print)[fmt].w /\ Room = SizeOf(print) - count
    /\ ppc = "padding" => PaddingOK(print, fmt, count, buf, num)
    /\ ppc = "digits" => DigitsOK(print, fmt, count, buf, num)
<1> SUFFICES ASSUME PrintInv, ppc \in {"padding", "digits"}
             PROVE  /\ print \in PRINTS /\ fmt \in 1 .. Len(print.fmt) /\ ~Stopped(print, fmt)
                    /\ BufferOK(print, buf) /\ count \in 0 .. SizeOf(print)
                    /\ ArgsOK(print, fmt, ap)
                    /\ padding = Stages(print)[fmt].w /\ Room = SizeOf(print) - count
                    /\ ppc = "padding" => PaddingOK(print, fmt, count, buf, num)
                    /\ ppc = "digits" => DigitsOK(print, fmt, count, buf, num)
  OBVIOUS
<1>1. /\ fmt # 0 /\ CallOK(print, fmt, count, ap, buf) /\ padding = Stages(print)[fmt].w
      /\ ppc = "padding" => PaddingOK(print, fmt, count, buf, num)
      /\ ppc = "digits" => DigitsOK(print, fmt, count, buf, num)
  BY DEF PrintInv
<1>2. /\ print \in PRINTS /\ fmt \in 0 .. Len(print.fmt) /\ ~Stopped(print, fmt)
      /\ BufferOK(print, buf) /\ count \in 0 .. SizeOf(print) /\ ArgsOK(print, fmt, ap)
  BY <1>1 DEF CallOK
<1>3. fmt \in 1 .. Len(print.fmt)
  BY <1>1, <1>2, CallFacts
<1>4. Room = SizeOf(print) - count
  BY DEF Room, size, SizeOf
<1> QED
  BY <1>1, <1>2, <1>3, <1>4

LEMMA PadKeeps == PrintInv /\ Pad => PrintInv'
<1> SUFFICES ASSUME PrintInv, Pad
             PROVE  PrintInv'
  OBVIOUS
<1>1. PICK call, k, c, a, b, n :
        call = print /\ k = fmt /\ c = count /\ a = ap /\ b = buf /\ n = num
  OBVIOUS
<1>2. ppc = "padding"
  BY DEF Pad
<1>3. /\ call \in PRINTS /\ k \in 1 .. Len(call.fmt) /\ ~Stopped(call, k)
      /\ BufferOK(call, b) /\ c \in 0 .. SizeOf(call) /\ ArgsOK(call, k, a)
      /\ padding = Stages(call)[k].w /\ Room = SizeOf(call) - c
      /\ PaddingOK(call, k, c, b, n)
  BY <1>1, <1>2, NumberPlace
<1>4. PICK d, m : d = buf' /\ m = num'
  OBVIOUS
<1>5. /\ PadNext(b, n, d, m)
      /\ print' = call /\ fmt' = k /\ count' = c /\ ap' = a /\ padding' = Stages(call)[k].w
      /\ ppc' = IF n.pad = 1 \/ n.count + 1 = SizeOf(call) - c THEN "digits" ELSE "padding"
  BY <1>1, <1>3, <1>4 DEF Pad, PadNext
<1>6. k \in 0 .. Len(call.fmt)
  BY <1>3
<1>7. /\ BufferOK(call, d)
      /\ IF n.pad = 1 \/ n.count + 1 = SizeOf(call) - c
         THEN DigitsOK(call, k, c, d, m) ELSE PaddingOK(call, k, c, d, m)
  BY <1>3, <1>5, <1>6, PadRound
<1>8. \/ ppc' = "padding" /\ PaddingOK(call, k, c, d, m)
      \/ ppc' = "digits" /\ DigitsOK(call, k, c, d, m)
  BY <1>5, <1>7
<1> QED
  BY <1>3, <1>4, <1>5, <1>7, <1>8, InNumber

LEMMA DigitKeeps == PrintInv /\ WriteDigit => PrintInv'
<1> SUFFICES ASSUME PrintInv, WriteDigit
             PROVE  PrintInv'
  OBVIOUS
<1>1. PICK call, k, c, a, b, n :
        call = print /\ k = fmt /\ c = count /\ a = ap /\ b = buf /\ n = num
  OBVIOUS
<1>2. ppc = "digits"
  BY DEF WriteDigit
<1>3. /\ call \in PRINTS /\ k \in 1 .. Len(call.fmt) /\ ~Stopped(call, k)
      /\ BufferOK(call, b) /\ c \in 0 .. SizeOf(call) /\ ArgsOK(call, k, a)
      /\ padding = Stages(call)[k].w /\ Room = SizeOf(call) - c
      /\ DigitsOK(call, k, c, b, n)
  BY <1>1, <1>2, NumberPlace
<1>4. PICK fits, written, d : /\ fits <=> Fits(num.nl - 1)
                              /\ written = IF fits THEN n.count + 1 ELSE n.count
                              /\ d = buf'
  OBVIOUS
<1>5. fits <=> n.count + (n.nl - 1) < SizeOf(call) - c
  BY <1>1, <1>3, <1>4 DEF Fits
<1>6. d = IF fits THEN [b EXCEPT ![n.at + (n.nl - 1)] = digits[(n.un % n.base) + 1]] ELSE b
  BY <1>1, <1>4 DEF WriteDigit
<1>7. DigitNext(call, c, b, n, fits, written, d)
  BY <1>4, <1>5, <1>6 DEF DigitNext
<1>8. PICK un : un = n.un \div n.base
  OBVIOUS
<1>9. /\ print' = call /\ ap' = a /\ padding' = padding /\ buf' = d
      /\ num' = IF un = 0 THEN NoNum
                ELSE [n EXCEPT !.nl = n.nl - 1, !.un = un, !.count = written]
      /\ count' = IF un = 0 THEN c + written ELSE c
      /\ ppc' = IF un = 0 THEN "format" ELSE "digits"
      /\ fmt' = IF un = 0 THEN k + 1 ELSE k
  BY <1>1, <1>4, <1>8 DEF WriteDigit
<1>10. k \in 0 .. Len(call.fmt)
  BY <1>3
<1>11. /\ BufferOK(call, d)
       /\ un = 0 => c + written \in 0 .. SizeOf(call) /\ ShownOK(call, k, c + written, d)
       /\ un # 0 =>
            \A m : m = [un |-> un, base |-> n.base, nl |-> n.nl - 1,
                        pad |-> n.pad, count |-> written, at |-> n.at]
                   => DigitsOK(call, k, c, d, m)
  BY <1>3, <1>7, <1>8, <1>10, DigitRound
<1>12. CASE un = 0
  <2>1. PICK text : ItemAt(call, k, text)
    BY DEF ItemAt
  <2>2. Stages(call)[k].w = WidthOf(call.fmt[k], Stages(call)[k - 1].w)
    BY <2>1, <1>3, ItemFacts
  <2>3. padding' = WidthOf(call.fmt[k], Stages(call)[k - 1].w)
    BY <2>2, <1>3, <1>9
  <2>4. print' = call /\ ppc' = "format" /\ fmt' = k + 1 /\ count' = c + written /\ ap' = a
        /\ buf' = d
    BY <1>9, <1>12
  <2>5. BufferOK(call, d) /\ c + written \in 0 .. SizeOf(call) /\ ShownOK(call, k, c + written, d)
    BY <1>11, <1>12
  <2> QED
    BY <2>3, <2>4, <2>5, <1>3, NextItem
<1>13. CASE un # 0
  <2>1. PICK m : m = num'
    OBVIOUS
  <2>2. n \in Locals
    BY <1>3 DEF DigitsOK, LocalsOK
  <2>3. m = [un |-> un, base |-> n.base, nl |-> n.nl - 1,
             pad |-> n.pad, count |-> written, at |-> n.at]
    BY <2>1, <2>2, <1>9, <1>13 DEF Locals
  <2>4. DigitsOK(call, k, c, d, m)
    BY <2>3, <1>11, <1>13
  <2>5. /\ print' = call /\ ppc' = "digits" /\ fmt' = k /\ count' = c /\ ap' = a /\ buf' = d
        /\ padding' = Stages(call)[k].w
    BY <1>3, <1>9, <1>13
  <2> QED
    BY <2>1, <2>4, <2>5, <1>3, <1>11, InNumber
<1> QED
  BY <1>12, <1>13

-----------------------------------------------------------------------------
(* The invariant, and the property. *)

LEMMA PrintInvInit == PrintInit => PrintInv
  BY DEF PrintInit, PrintInv

LEMMA PrintInvStep == PrintInv /\ [PrintNext]_printvars => PrintInv'
<1> SUFFICES ASSUME PrintInv, [PrintNext]_printvars
             PROVE  PrintInv'
  OBVIOUS
<1>1. ASSUME NEW call \in PRINTS, PrintCall(call)
      PROVE  PrintInv'
  BY <1>1, CallKeeps
<1>2. CASE PutCharacter
  BY <1>2, CharacterKeeps
<1>3. CASE PutString
  BY <1>3, StringKeeps
<1>4. CASE SkipPointer
  BY <1>4, SkipKeeps
<1>5. CASE UnknownSpecifier \/ EndOfFormat
  BY <1>5, EndKeeps
<1>6. CASE PutNumber
  BY <1>6, NumberKeeps
<1>7. CASE Pad
  BY <1>7, PadKeeps
<1>8. CASE WriteDigit
  BY <1>8, DigitKeeps
<1>9. CASE PrintReturn
  BY <1>9 DEF PrintReturn, PrintInv
<1>10. CASE UNCHANGED printvars
  BY <1>10 DEF PrintInv, printvars
<1> QED
  BY <1>1, <1>2, <1>3, <1>4, <1>5, <1>6, <1>7, <1>8, <1>9, <1>10 DEF PrintNext, PrintStep

\* The invariant gives the property: where the format ended, the stage reached
\* and the whole expansion agree as far as the buffer goes.
LEMMA PrintInvShows == PrintInv => PrintsPrefix
<1> SUFFICES ASSUME PrintInv
             PROVE  PrintsPrefix
  OBVIOUS
<1>1. PICK call, S : call = print /\ S = SizeOf(call)
  OBVIOUS
<1>2. size = S
  BY <1>1 DEF size, SizeOf
<1>3. ASSUME ppc # "idle"
      PROVE  \A i \in DOMAIN buf :
               i >= size => buf[i] = IF print.fn = "kprintf" THEN END ELSE UNTOUCHED
  <2>1. BufferOK(call, buf)
    BY <1>1, <1>3 DEF PrintInv, CallOK
  <2> QED
    BY <2>1, <1>1, <1>2 DEF BufferOK, BlankOf
<1>4. ASSUME ppc = "done"
      PROVE  /\ count <= size
             /\ ~PointerSkipped =>
                  LET full == Expansion(print)[Len(print.fmt)]
                  IN  /\ count = IF Len(full) < size THEN Len(full) ELSE size
                      /\ \A i \in 1 .. count : buf[i - 1] = full[i]
  <2>1. PICK k, L : k = fmt - 1 /\ L = Len(call.fmt)
    OBVIOUS
  <2>2. /\ CallOK(call, k, count, ap, buf) /\ ShownOK(call, k, count, buf)
        /\ EndedBy(call, fmt, count) /\ fmt \in Nat
    BY <2>1, <1>1, <1>4 DEF PrintInv
  <2>3. call \in PRINTS /\ k \in 0 .. L /\ count \in 0 .. S
    BY <2>1, <2>2, <1>1 DEF CallOK
  <2>4. S \in Nat /\ L \in Nat /\ PrintsOK(call)
    BY <2>1, <2>3, <1>1, CallFacts
  <2>5. count <= size
    BY <2>3, <2>4, <1>2
  <2>6. ASSUME ~PointerSkipped
        PROVE  LET full == Expansion(print)[Len(print.fmt)]
               IN  /\ count = IF Len(full) < size THEN Len(full) ELSE size
                   /\ \A i \in 1 .. count : buf[i - 1] = full[i]
    <3> DEFINE full == Out(call, L)
               out == Out(call, k)
    <3>1. \A i \in 0 .. L : Expansion(print)[i] = Out(call, i)
      BY <2>1, <1>1 DEF Expansion, Out
    <3>2. ~SkippedBy(call, k)
      <4> SUFFICES ASSUME NEW j \in 1 .. k, call.fmt[j].conv = "p",
                          Len(Out(call, j - 1)) \in S - 2 .. S - 1
                   PROVE  FALSE
        BY <1>1 DEF SkippedBy
      <4>1. j \in 1 .. L /\ j - 1 \in 0 .. L
        BY <2>3, <2>4
      <4>2. Len(Expansion(print)[j - 1]) \in size - 2 .. size - 1
        BY <4>1, <3>1, <1>2
      <4> QED
        BY <4>1, <4>2, <2>1, <2>6, <1>1 DEF PointerSkipped
    <3>3. count = (IF Len(out) < S THEN Len(out) ELSE S) /\ Shows(buf, out, count)
      BY <3>2, <2>2, <1>1 DEF ShownOK
    <3>4. Len(out) \in Nat /\ Len(full) \in Nat /\ L \in k .. L
      BY <2>1, <2>3, <2>4, CallFacts
    <3>5. Begins(out, full)
      BY <2>1, <2>3, <2>4, <3>4, StagesGrow DEF Out
    <3> HIDE DEF full, out
    <3>6. out = full \/ count = S
      <4>1. CASE fmt = L + 1
        <5>1. k = L
          BY <4>1, <2>1, <2>2, <2>4
        <5> QED
          BY <5>1 DEF out, full
      <4>2. CASE count = S
        BY <4>2
      <4>3. CASE fmt # L + 1 /\ call.fmt[fmt].conv = "!"
        <5>1. k \in 0 .. L - 1 /\ k + 1 = fmt /\ fmt \in 1 .. k + 1
          BY <4>3, <2>1, <2>2, <2>3, <2>4
        <5>2. Stopped(call, k + 1)
          BY <5>1, <4>3 DEF Stopped
        <5>3. Stages(call)[L] = Stages(call)[k]
          BY <5>1, <5>2, <2>1, <2>4, <3>4, StagesStop
        <5> QED
          BY <5>3 DEF Out, out, full
      <4> QED
        BY <4>1, <4>2, <4>3, <2>1, <2>2, <1>1 DEF EndedBy
    <3>7. count = IF Len(full) < S THEN Len(full) ELSE S
      <4>1. CASE out = full
        BY <4>1, <3>3
      <4>2. CASE count = S
        BY <4>2, <3>3, <3>4, <3>5, <2>4 DEF Begins
      <4> QED
        BY <3>6, <4>1, <4>2
    <3>8. \A i \in 1 .. count : buf[i - 1] = full[i]
      <4>1. \A i \in 1 .. count : i \in 1 .. Len(out)
        BY <3>3, <3>4, <2>4
      <4> QED
        BY <4>1, <3>3, <3>5 DEF Shows, Begins
    <3>9. Expansion(print)[Len(print.fmt)] = full
      BY <3>1, <2>1, <2>4, <1>1 DEF full
    <3> QED
      BY <3>7, <3>8, <3>9, <1>2
  <2> QED
    BY <2>5, <2>6
<1> QED
  BY <1>3, <1>4 DEF PrintsPrefix

\* kprintf and snprintf print the expansion of their format, cut at the size of
\* the buffer, and nothing behind it: vsnprintf and snprintnum of print.c, for
\* every call that PrintsOK describes, every buffer size and every width of int.
THEOREM PrintsAreRight == PrintSpec => []PrintsPrefix
<1>1. PrintInit => PrintInv
  BY PrintInvInit
<1>2. PrintInv /\ [PrintNext]_printvars => PrintInv'
  BY PrintInvStep
<1>3. PrintInv => PrintsPrefix
  BY PrintInvShows
<1> QED
  BY <1>1, <1>2, <1>3, PTL DEF PrintSpec
=============================================================================
