-------------------------------- MODULE Str --------------------------------
(***************************************************************************)
(* The string and memory functions, lib/string/str.c and mem.c, with the   *)
(* loops of the source over a memory of cells 0 .. CELLS - 1.  A pointer   *)
(* is the index of a cell, a character a number, 0 the NUL.  The functions *)
(* run to their end in one step: nothing in the kernel interrupts them     *)
(* that shares their memory.                                               *)
(***************************************************************************)
EXTENDS Integers, FiniteSetsExt

CONSTANTS CELLS,   \* cells of memory a caller owns
          CHARS,   \* characters other than NUL
          STRFNS   \* the functions called

NULL == -1
Cells == 0 .. CELLS - 1
Memories == {m \in [Cells -> {0} \cup CHARS] : m[CELLS - 1] = 0}

ASSUME StrAssumption == CELLS \in Nat \ {0} /\ CHARS \subseteq 1 .. 127

(***************************************************************************)
(* str.c                                                                   *)
(***************************************************************************)
RECURSIVE isof(_, _, _)
isof(m, c, charset) ==
  m[charset] # 0 /\ (c = m[charset] \/ isof(m, c, charset + 1))

RECURSIVE strlen(_, _)
strlen(m, s) == IF m[s] = 0 THEN 0 ELSE 1 + strlen(m, s + 1)

RECURSIVE strchr(_, _, _)
strchr(m, s, c) ==
  IF m[s] # 0 /\ m[s] # c THEN strchr(m, s + 1, c)
  ELSE IF m[s] = c THEN s ELSE NULL

\* The loop of strrchr, s being len cells into the string.
RECURSIVE scanback(_, _, _, _)
scanback(m, s, c, len) ==
  IF len > 0 /\ m[s] # c THEN scanback(m, s - 1, c, len - 1)
  ELSE IF m[s] = c THEN s ELSE NULL
strrchr(m, s, c) == scanback(m, s + strlen(m, s), c, strlen(m, s))

RECURSIVE strcmp(_, _, _)
strcmp(m, s1, s2) ==
  IF m[s1] # 0 /\ m[s2] # 0 /\ m[s1] = m[s2] THEN strcmp(m, s1 + 1, s2 + 1)
  ELSE m[s1] - m[s2]

\* n-- is evaluated once more when the loop ends: the count that is compared
\* with 0 is n - 1, and a huge number for n = 0.
RECURSIVE strncmp(_, _, _, _)
strncmp(m, s1, s2, n) ==
  IF n # 0 /\ m[s1] # 0 /\ m[s2] # 0 /\ m[s1] = m[s2]
  THEN strncmp(m, s1 + 1, s2 + 1, n - 1)
  ELSE IF n = 1 THEN 0 ELSE m[s1] - m[s2]

\* The functions that write return the memory they leave.
RECURSIVE strcpy(_, _, _)
strcpy(m, dst, src) ==
  IF m[src] = 0 THEN [m EXCEPT ![dst] = 0]
  ELSE strcpy([m EXCEPT ![dst] = m[src]], dst + 1, src + 1)

RECURSIVE strncpy(_, _, _, _)
strncpy(m, dst, src, n) ==
  IF n = 0 THEN m ELSE strncpy([m EXCEPT ![dst] = m[src]], dst + 1, src + 1, n - 1)

RECURSIVE strspn(_, _, _)
strspn(m, s, accept) ==
  IF m[s] # 0 /\ isof(m, m[s], accept) THEN 1 + strspn(m, s + 1, accept) ELSE 0

RECURSIVE strcspn(_, _, _)
strcspn(m, s, reject) ==
  IF m[s] # 0 /\ ~isof(m, m[s], reject) THEN 1 + strcspn(m, s + 1, reject) ELSE 0

RECURSIVE strpbrk(_, _, _)
strpbrk(m, s, accept) ==
  IF m[s] # 0 /\ ~isof(m, m[s], accept) THEN strpbrk(m, s + 1, accept)
  ELSE IF m[s] # 0 THEN s ELSE NULL

\* The inner loop of strstr: the needle ends before a difference.
RECURSIVE begins(_, _, _)
begins(m, tmph, tmpn) ==
  IF m[tmph] # 0 /\ m[tmpn] # 0 /\ m[tmph] = m[tmpn]
  THEN begins(m, tmph + 1, tmpn + 1) ELSE m[tmpn] = 0

\* The end of the haystack, not NULL, when nothing was found.
RECURSIVE strstr(_, _, _)
strstr(m, haystack, needle) ==
  IF m[haystack] # 0 /\ ~begins(m, haystack, needle)
  THEN strstr(m, haystack + 1, needle) ELSE haystack

\* strtok leaves its static pointer at the token it returns, and ends it.
strtok(m, str, delim) ==
  LET ptr == str + strspn(m, str, delim)
  IN  [ptr |-> ptr, mem |-> [m EXCEPT ![ptr + strcspn(m, ptr, delim)] = 0]]

\* strcat and strncat go on behind the NUL of dst.
strcat(m, dst, src) == strcpy(m, dst + strlen(m, dst) + 1, src)
strncat(m, dst, src, n) ==
  LET end == dst + strlen(m, dst) + 1
  IN  [strncpy(m, end, src, n) EXCEPT ![end + n] = 0]

(***************************************************************************)
(* mem.c                                                                   *)
(***************************************************************************)
RECURSIVE memchr(_, _, _, _)
memchr(m, s, c, n) ==
  IF n = 0 THEN NULL ELSE IF m[s] = c THEN s ELSE memchr(m, s + 1, c, n - 1)

\* The loop of memrchr, which begins at s[n] and ends at s[1].
RECURSIVE memback(_, _, _, _)
memback(m, sc, c, n) ==
  IF n = 0 THEN NULL ELSE IF m[sc] = c THEN sc ELSE memback(m, sc - 1, c, n - 1)
memrchr(m, s, c, n) == memback(m, s + n, c, n)

RECURSIVE memcmp(_, _, _, _)
memcmp(m, s1, s2, n) ==
  IF n > 0 /\ m[s1] = m[s2] THEN memcmp(m, s1 + 1, s2 + 1, n - 1)
  ELSE IF n = 0 THEN 0 ELSE m[s1] - m[s2]

RECURSIVE memcpy(_, _, _, _)
memcpy(m, dst, src, n) ==
  IF n = 0 THEN m ELSE memcpy([m EXCEPT ![dst] = m[src]], dst + 1, src + 1, n - 1)

\* Variant with a fault: always from the front.
memmove_forward(m, dst, src, n) == memcpy(m, dst, src, n)

RECURSIVE memmove(_, _, _, _)
memmove(m, dst, src, n) ==
  CASE n = 0 -> m
    [] n > 0 /\ dst > src ->
         memmove([m EXCEPT ![dst + n - 1] = m[src + n - 1]], dst, src, n - 1)
    [] OTHER -> memmove([m EXCEPT ![dst] = m[src]], dst + 1, src + 1, n - 1)

RECURSIVE memset(_, _, _, _)
memset(m, s, c, n) ==
  IF n = 0 THEN m ELSE memset([m EXCEPT ![s] = c], s + 1, c, n - 1)

-----------------------------------------------------------------------------
VARIABLES was,   \* the memory when the function was called
          mem,   \* the memory when it returned
          call,  \* [fn, a, b, n]: two arguments and a count or character
          ret    \* a number or pointer, 0 for a function that returns dst

strvars == <<was, mem, call, ret>>

AllZero == [i \in Cells |-> 0]
NoCall == [fn |-> "none", a |-> 0, b |-> 0, n |-> 0]

StrInit == was = AllZero /\ mem = AllZero /\ call = NoCall /\ ret = 0

Reads == {"strlen", "strchr", "strrchr", "strcmp", "strncmp", "strspn", "strcspn",
          "strpbrk", "strstr", "memchr", "memrchr", "memcmp"}

\* The value a function that only reads returns.
Returned(m, k) ==
  CASE k.fn = "strlen"  -> strlen(m, k.a)
    [] k.fn = "strchr"  -> strchr(m, k.a, k.n)
    [] k.fn = "strrchr" -> strrchr(m, k.a, k.n)
    [] k.fn = "strcmp"  -> strcmp(m, k.a, k.b)
    [] k.fn = "strncmp" -> strncmp(m, k.a, k.b, k.n)
    [] k.fn = "strspn"  -> strspn(m, k.a, k.b)
    [] k.fn = "strcspn" -> strcspn(m, k.a, k.b)
    [] k.fn = "strpbrk" -> strpbrk(m, k.a, k.b)
    [] k.fn = "strstr"  -> strstr(m, k.a, k.b)
    [] k.fn = "memchr"  -> memchr(m, k.a, k.b, k.n)
    [] k.fn = "memrchr" -> memrchr(m, k.a, k.b, k.n)
    [] k.fn = "memcmp"  -> memcmp(m, k.a, k.b, k.n)

\* The memory a function that writes leaves.
Written(m, k) ==
  CASE k.fn = "strcpy"  -> strcpy(m, k.a, k.b)
    [] k.fn = "strncpy" -> strncpy(m, k.a, k.b, k.n)
    [] k.fn = "strcat"  -> strcat(m, k.a, k.b)
    [] k.fn = "strncat" -> strncat(m, k.a, k.b, k.n)
    [] k.fn = "strtok"  -> strtok(m, k.a, k.b).mem
    [] k.fn = "memcpy"  -> memcpy(m, k.a, k.b, k.n)
    [] k.fn = "memmove" -> memmove(m, k.a, k.b, k.n)
    [] k.fn = "memset"  -> memset(m, k.a, k.b, k.n)

Apart(a, b, n) == a + n <= b \/ b + n <= a

\* The cells of src that C lets strncpy and strncat read.
SrcCells(m, k) == IF k.n <= strlen(m, k.b) THEN k.n ELSE strlen(m, k.b) + 1

\* Arguments for which C defines the call: the memory is the caller's and the
\* areas of functions other than memmove do not overlap.  What strncpy, strncat
\* and memrchr read besides is in the same memory.
Defined(m, k) ==
  CASE k.fn \in {"strlen"} -> k.b = 0 /\ k.n = 0
    [] k.fn \in {"strchr", "strrchr"} -> k.b = 0
    [] k.fn \in {"strcmp", "strspn", "strcspn", "strpbrk", "strstr"} -> k.n = 0
    [] k.fn = "strncmp" -> TRUE
    [] k.fn = "strtok"  -> k.n = 0
    [] k.fn = "strcpy"  -> k.n = 0 /\ k.a + strlen(m, k.b) < CELLS
                           /\ Apart(k.a, k.b, strlen(m, k.b) + 1)
    [] k.fn = "strcat"  -> k.n = 0 /\ k.b > k.a + strlen(m, k.a)
                           /\ k.a + strlen(m, k.a) + 2 + strlen(m, k.b) <= k.b
    [] k.fn = "strncat" -> k.a + strlen(m, k.a) + 2 + k.n <= k.b
                           /\ k.b + k.n <= CELLS
    [] k.fn = "strncpy" -> k.a + k.n <= CELLS /\ k.b + k.n <= CELLS
                           /\ (k.a + k.n <= k.b \/ k.b + SrcCells(m, k) <= k.a)
    [] k.fn \in {"memchr", "memset"} -> k.a + k.n <= CELLS
    [] k.fn = "memrchr" -> k.a + k.n < CELLS
    [] k.fn = "memcpy"  -> k.a + k.n <= CELLS /\ k.b + k.n <= CELLS /\ Apart(k.a, k.b, k.n)
    [] k.fn \in {"memcmp", "memmove"} -> k.a + k.n <= CELLS /\ k.b + k.n <= CELLS

StrCall(k) ==
  /\ was' \in Memories
  /\ Defined(was', k)
  /\ call' = k
  /\ \/ /\ k.fn \in Reads
        /\ ret' = Returned(was', k)
        /\ mem' = was'
     \/ /\ k.fn \notin Reads
        /\ ret' = IF k.fn = "strtok" THEN strtok(was', k.a, k.b).ptr ELSE k.a
        /\ mem' = Written(was', k)

\* A second strtok with str = NULL goes on where the static pointer is.
StrtokAgain ==
  /\ call.fn = "strtok"
  /\ was' = mem
  /\ call' = [call EXCEPT !.fn = "strtok again", !.a = ret]
  /\ ret' = strtok(mem, ret, call.b).ptr
  /\ mem' = strtok(mem, ret, call.b).mem

StrReturn ==
  /\ call # NoCall
  /\ was' = AllZero /\ mem' = AllZero /\ call' = NoCall /\ ret' = 0

StrArgs == [fn : STRFNS, a : Cells, b : Cells, n : 0 .. CELLS]
StrNext == (call = NoCall /\ \E k \in StrArgs : StrCall(k)) \/ StrtokAgain \/ StrReturn
StrSpec == StrInit /\ [][StrNext]_strvars

-----------------------------------------------------------------------------
\* The cells of the string at p, without its NUL.
Chars(m, p) == {i \in p .. CELLS - 1 : \A j \in p .. i : m[j] # 0}
Least(S) == IF S = {} THEN NULL ELSE Min(S)
Greatest(S) == IF S = {} THEN NULL ELSE Max(S)
Sign(i) == IF i < 0 THEN -1 ELSE IF i > 0 THEN 1 ELSE 0

\* How two areas compare within the offsets D: by the first that differs.
Compare(m, a, b, D) ==
  LET diff == {i \in D : m[a + i] # m[b + i]}
  IN  IF diff = {} THEN 0 ELSE Sign(m[a + Min(diff)] - m[b + Min(diff)])

\* Exactly the n cells from dst on change, to what src held before.
Copied(dst, src, n) ==
  mem = [i \in Cells |-> IF i \in dst .. dst + n - 1 THEN was[src + i - dst] ELSE was[i]]

\* The offsets at which both strings have a character or the first NUL.
Both(a, b) ==
  {i \in 0 .. CELLS - 1 : a + i < CELLS /\ b + i < CELLS /\
     \A j \in 0 .. i - 1 : was[a + j] # 0 /\ was[b + j] # 0}

\* string.h, "They are almost all named after the glibc ones, thus you can see
\* their respective manual": searches find the first or the last match,
\* comparisons go by the first difference, copies change the destination alone,
\* and memmove copies the old contents however its areas overlap.  strncmp,
\* strncpy, strstr, strtok, strcat, strncat and memrchr do something else than
\* their manuals and are not among them.
StringsAgree ==
  LET a == call.a  b == call.b  n == call.n
      str == Chars(was, a)
      set == {was[i] : i \in Chars(was, b)}
      area(p) == p .. p + n - 1
  IN  CASE call.fn = "strlen"  -> ret = Cardinality(str)
        [] call.fn = "strchr"  -> ret = Least({i \in str \cup {a + Cardinality(str)} : was[i] = n})
        [] call.fn = "strrchr" -> ret = Greatest({i \in str \cup {a + Cardinality(str)} : was[i] = n})
        [] call.fn = "strcmp"  -> Sign(ret) = Compare(was, a, b, Both(a, b))
        [] call.fn = "strspn"  -> a + ret = Min({i \in a .. CELLS - 1 : was[i] \notin set})
        [] call.fn = "strcspn" -> a + ret = Min({i \in a .. CELLS - 1 : was[i] \in set \cup {0}})
        [] call.fn = "strpbrk" -> ret = Least({i \in str : was[i] \in set})
        [] call.fn = "memchr"  -> ret = Least({i \in area(a) : was[i] = b})
        [] call.fn = "memcmp"  -> Sign(ret) = Compare(was, a, b, 0 .. n - 1)
        [] call.fn = "strcpy"  -> Copied(a, b, strlen(was, b) + 1)
        [] call.fn \in {"memcpy", "memmove"} -> Copied(a, b, n)
        [] call.fn = "memset"  -> mem = [i \in Cells |-> IF i \in area(a) THEN b ELSE was[i]]
        [] OTHER -> TRUE

\* The tests of strncmp, lib/string/test.c: strncmp(s1, s2, 0) == 0 of "" and
\* "Hello", 5 characters of "Hello" and "Hello world" agree and 6 do not: the
\* result goes by the first difference among the first n characters.
StrncmpAsTested ==
  call.fn = "strncmp" =>
    Sign(ret) = Compare(was, call.a, call.b, Both(call.a, call.b) \cap (0 .. call.n - 1))
=============================================================================
