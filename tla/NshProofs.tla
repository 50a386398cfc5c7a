----------------------------- MODULE NshProofs -----------------------------
(***************************************************************************)
(* The shell, for buffers of every size, every alphabet and every table of *)
(* builtins: what it edits is what is shown, what it splits are the words  *)
(* of the line, and what it runs is the builtin the first one names.       *)
(***************************************************************************)
EXTENDS Nsh, LevelInduction

TextChars == LETTERS \cup {SPACE}

\* Where nsh_createcmd cuts: the first of the spaces after a word, or of the
\* line.
Cut(i) == line[i + 1] = SPACE /\ (i = 0 \/ line[i] # SPACE)

\* The buffer holds the line, cut as far as the split has come.
BufferInv ==
  /\ line \in Seq(TextChars)
  /\ nsh_bufindex = Len(line)
  /\ nsh_bufindex < NSH_BUFSIZE
  /\ nsh_buf = [i \in BufIndex |->
                  IF i >= Len(line) \/ (i < ibuf /\ Cut(i)) THEN NUL ELSE line[i + 1]]

\* The pointers so far are those of the words so far, and the split is between
\* a word and spaces.  Each word takes two bytes but for the last one.
SplitInv ==
  /\ nsh_cmd \in [CmdIndex -> BufIndex \cup {NULL}]
  /\ icmd \in CmdIndex
  /\ ibuf \in 0 .. Len(line)
  /\ 2 * icmd <= ibuf + 1
  /\ ibuf < Len(line) /\ line[ibuf + 1] # SPACE => 2 * icmd <= ibuf
  /\ ibuf \in 1 .. (Len(line) - 1) => (line[ibuf] = SPACE <=> line[ibuf + 1] # SPACE)
  /\ {nsh_cmd[n] + 1 : n \in 0 .. (icmd - 1)} = {i \in Starts(line) : i <= ibuf}
  /\ \A m, n \in 0 .. (icmd - 1) : m < n => nsh_cmd[m] < nsh_cmd[n]
  /\ icmd = 0 => nsh_cmd[0] = NULL

\* Where the shell is in its handling of a line.
ControlInv ==
  /\ pc \in {"edit", "nsh_createcmd", "nsh_execcmd", "nsh_newline"}
  /\ nsh_cmdnarg \in 0 .. (NSH_BUFSIZE \div 2)
  /\ ran \in 0 .. Len(BUILTINS)
  /\ pc = "edit" => ibuf = 0 /\ icmd = 0
  /\ pc \in {"nsh_execcmd", "nsh_newline"} => ibuf = Len(line)
  /\ pc = "nsh_execcmd" => nsh_cmdnarg = icmd

NInv == BufferInv /\ SplitInv /\ ControlInv /\ RunsNamedBuiltin

-----------------------------------------------------------------------------
(***************************************************************************)
(* Strings in the buffer                                                   *)
(***************************************************************************)

\* The least of a set of indices, as CString and StopAt take it.
LEMMA LeastIndex ==
  ASSUME NEW S \in SUBSET BufIndex, S # {}
  PROVE  /\ (CHOOSE j \in S : \A m \in S : j <= m) \in S
         /\ \A m \in S : (CHOOSE j \in S : \A i \in S : j <= i) <= m
         /\ \A e \in S : (\A m \in S : e <= m)
                           => (CHOOSE j \in S : \A m \in S : j <= m) = e
<1>1. S \in SUBSET Nat
  BY NshAssumption DEF BufIndex
<1>2. \E j \in S : \A m \in S : j <= m
  BY <1>1, LeastNat
<1> DEFINE c == CHOOSE j \in S : \A m \in S : j <= m
<1>3. c \in S /\ \A m \in S : c <= m
  BY <1>2
<1> HIDE DEF c
<1>4. \A e \in S : (\A m \in S : e <= m) => c = e
  BY <1>1, <1>3
<1> QED
  BY <1>3, <1>4 DEF c

\* The string at p ends at the first NUL.
LEMMA CStringIs ==
  ASSUME NEW p \in BufIndex, NEW e \in BufIndex, p <= e, nsh_buf[e] = NUL,
         \A i \in BufIndex : p <= i /\ i < e => nsh_buf[i] # NUL
  PROVE  CString(p) = [i \in 1 .. (e - p) |-> nsh_buf[p + i - 1]]
<1> DEFINE ends == {i \in BufIndex : i >= p /\ nsh_buf[i] = NUL}
<1>1. ends \in SUBSET BufIndex /\ e \in ends
  BY NshAssumption DEF BufIndex
<1>2. \A m \in ends : e <= m
  BY NshAssumption DEF BufIndex
<1>3. (CHOOSE i \in ends : \A j \in ends : i <= j) = e
  <2> HIDE DEF ends
  <2> QED
    BY <1>1, <1>2, LeastIndex
<1> QED
  BY <1>3 DEF CString

\* Where an inner loop stops: at the first character it looks for.
LEMMA StopAtIs ==
  ASSUME NEW i \in Nat, NEW chars, NEW z \in BufIndex, i <= z, nsh_buf[z] \in chars
  PROVE  /\ StopAt(i, chars) \in BufIndex
         /\ i <= StopAt(i, chars) /\ StopAt(i, chars) <= z
         /\ nsh_buf[StopAt(i, chars)] \in chars
         /\ \A j \in BufIndex : i <= j /\ j < StopAt(i, chars) => nsh_buf[j] \notin chars
<1> DEFINE S == {j \in BufIndex : j >= i /\ nsh_buf[j] \in chars}
           e == CHOOSE j \in S : \A m \in S : j <= m
<1>1. S \in SUBSET BufIndex /\ z \in S
  BY NshAssumption DEF BufIndex
<1>2. e \in S /\ \A m \in S : e <= m
  <2> HIDE DEF S
  <2> QED
    BY <1>1, LeastIndex
<1>3. StopAt(i, chars) = e
  BY DEF StopAt
<1> HIDE DEF e
<1>4. e \in BufIndex /\ e >= i /\ nsh_buf[e] \in chars /\ e <= z
  BY <1>1, <1>2
<1>5. ASSUME NEW j \in BufIndex, i <= j, j < e, nsh_buf[j] \in chars
      PROVE  FALSE
  <2>1. j \in Int /\ e \in Int
    BY <1>4, NshAssumption DEF BufIndex
  <2>2. j \in S
    BY <1>5, <2>1
  <2> QED
    BY <1>2, <1>5, <2>1, <2>2
<1> QED
  BY <1>3, <1>4, <1>5

\* The characters of a line are in the buffer, but for the cuts.
LEMMA BufferFacts ==
  ASSUME BufferInv
  PROVE  /\ Len(line) \in Nat /\ Len(line) \in BufIndex
         /\ NSH_BUFSIZE \in Nat /\ BufIndex \subseteq Nat
         /\ \A i \in 1 .. Len(line) : line[i] \in TextChars /\ line[i] # NUL
         /\ \A i \in BufIndex : i >= Len(line) => nsh_buf[i] = NUL
         /\ \A i \in BufIndex : i < Len(line) /\ i < ibuf /\ Cut(i) => nsh_buf[i] = NUL
         /\ \A i \in BufIndex : i < Len(line) /\ ~ (i < ibuf /\ Cut(i))
                                  => nsh_buf[i] = line[i + 1]
<1>1. Len(line) \in Nat /\ Len(line) \in BufIndex /\ NSH_BUFSIZE \in Nat
      /\ BufIndex \subseteq Nat
  BY NshAssumption DEF BufferInv, BufIndex
<1>2. \A i \in 1 .. Len(line) : line[i] \in TextChars /\ line[i] # NUL
  BY NshAssumption DEF BufferInv, TextChars
<1>3. \A i \in BufIndex :
        nsh_buf[i] = IF i >= Len(line) \/ (i < ibuf /\ Cut(i)) THEN NUL ELSE line[i + 1]
  BY DEF BufferInv
<1>4. \A i \in BufIndex : i >= Len(line) \/ i < Len(line)
  BY <1>1
<1>5. \A i \in BufIndex : i < Len(line) => ~ (i >= Len(line))
  BY <1>1
<1> HIDE DEF Cut
<1> QED
  BY <1>1, <1>2, <1>3, <1>4, <1>5

-----------------------------------------------------------------------------
(***************************************************************************)
(* Editing                                                                 *)
(***************************************************************************)

\* The buffer of a line that is not being split.
Image(s) == [i \in BufIndex |-> IF i >= Len(s) THEN NUL ELSE s[i + 1]]

\* While the user edits, nothing of the line is cut.
LEMMA EditBuffer ==
  ASSUME ibuf = 0
  PROVE  BufferInv <=> /\ line \in Seq(TextChars)
                       /\ nsh_bufindex = Len(line)
                       /\ nsh_bufindex < NSH_BUFSIZE
                       /\ nsh_buf = Image(line)
<1>1. \A i \in BufIndex : ~ (i < ibuf)
  BY NshAssumption DEF BufIndex
<1>2. [i \in BufIndex |->
         IF i >= Len(line) \/ (i < ibuf /\ Cut(i)) THEN NUL ELSE line[i + 1]]
        = Image(line)
  <2> HIDE DEF Cut
  <2> QED
    BY <1>1 DEF Image
<1> QED
  BY <1>2 DEF BufferInv

\* A split that has not begun has found nothing.
LEMMA EditSplit ==
  ASSUME line \in Seq(TextChars), ibuf = 0, icmd = 0,
         nsh_cmd \in [CmdIndex -> BufIndex \cup {NULL}], nsh_cmd[0] = NULL
  PROVE  SplitInv
<1>1. Len(line) \in Nat /\ Starts(line) \subseteq 1 .. Len(line)
  BY DEF Starts
<1>2. {i \in Starts(line) : i <= ibuf} = {}
  BY <1>1
<1>3. 0 .. (icmd - 1) = {}
  OBVIOUS
<1>4. {nsh_cmd[n] + 1 : n \in 0 .. (icmd - 1)} = {}
  BY <1>3
<1>5. icmd \in CmdIndex /\ ibuf \in 0 .. Len(line)
  BY <1>1, NshAssumption DEF CmdIndex
<1>6. ibuf \notin 1 .. (Len(line) - 1)
  BY <1>1
<1>7. 2 * icmd <= ibuf + 1 /\ 2 * icmd <= ibuf
  OBVIOUS
<1> QED
  BY <1>2, <1>3, <1>4, <1>5, <1>6, <1>7 DEF SplitInv

\* A step of the editor: the new line is in the buffer and nothing else moves.
LEMMA EditKeepsNInv ==
  ASSUME NInv, pc = "edit", line' \in Seq(TextChars), nsh_bufindex' = Len(line'),
         nsh_bufindex' < NSH_BUFSIZE, nsh_buf' = Image(line'),
         UNCHANGED <<nsh_cmd, nsh_cmdnarg, pc, locals, ran>>
  PROVE  NInv'
<1>1. ibuf' = 0 /\ icmd' = 0 /\ UNCHANGED <<nsh_cmd, nsh_cmdnarg, pc, ran>>
      /\ icmd = 0
  BY DEF NInv, ControlInv, locals
<1>2. BufferInv'
  <2>1. (ibuf = 0)' => (BufferInv' <=> (/\ line \in Seq(TextChars)
                                        /\ nsh_bufindex = Len(line)
                                        /\ nsh_bufindex < NSH_BUFSIZE
                                        /\ nsh_buf = Image(line))')
    BY EditBuffer, PTL
  <2> QED
    BY <1>1, <2>1 DEF Image
<1>3. SplitInv'
  <2>1. nsh_cmd \in [CmdIndex -> BufIndex \cup {NULL}] /\ nsh_cmd[0] = NULL
    BY <1>1 DEF NInv, SplitInv
  <2>2. (/\ line \in Seq(TextChars) /\ ibuf = 0 /\ icmd = 0
         /\ nsh_cmd \in [CmdIndex -> BufIndex \cup {NULL}] /\ nsh_cmd[0] = NULL)'
          => SplitInv'
    BY EditSplit, PTL
  <2> QED
    BY <1>1, <2>1, <2>2
<1>4. ControlInv' /\ RunsNamedBuiltin'
  BY <1>1 DEF NInv, ControlInv, RunsNamedBuiltin
<1> QED
  BY <1>2, <1>3, <1>4 DEF NInv

\* What the editor knows of its line.
LEMMA EditFacts ==
  ASSUME NInv, pc = "edit"
  PROVE  /\ line \in Seq(TextChars) /\ Len(line) \in Nat /\ nsh_bufindex = Len(line)
         /\ Len(line) < NSH_BUFSIZE /\ nsh_buf = Image(line)
         /\ NSH_BUFSIZE \in Nat
         /\ CString(0) = line
<1>1. ibuf = 0 /\ BufferInv
  BY DEF NInv, ControlInv
<1>2. /\ line \in Seq(TextChars) /\ nsh_bufindex = Len(line)
      /\ nsh_bufindex < NSH_BUFSIZE /\ nsh_buf = Image(line)
  BY <1>1, EditBuffer
<1>3. /\ Len(line) \in Nat /\ Len(line) \in BufIndex /\ NSH_BUFSIZE \in Nat
      /\ \A i \in 1 .. Len(line) : line[i] # NUL
  BY <1>1, BufferFacts
<1>4. /\ \A i \in BufIndex : i >= Len(line) => nsh_buf[i] = NUL
      /\ \A i \in BufIndex : i < Len(line) => nsh_buf[i] = line[i + 1]
  <2>1. BufIndex \subseteq Nat
    BY <1>1, BufferFacts
  <2> QED
    BY <1>2, <1>3, <2>1 DEF Image
<1>5. 0 \in BufIndex
  BY NshAssumption DEF BufIndex
<1>6. CString(0) = [i \in 1 .. (Len(line) - 0) |-> nsh_buf[0 + i - 1]]
  <2>1. nsh_buf[Len(line)] = NUL
    BY <1>3, <1>4
  <2>2. \A i \in BufIndex : 0 <= i /\ i < Len(line) => nsh_buf[i] # NUL
    BY <1>3, <1>4 DEF BufIndex
  <2> QED
    BY <1>3, <1>5, <2>1, <2>2, CStringIs
<1>7. \A i \in 1 .. Len(line) : nsh_buf[0 + i - 1] = line[i]
  BY <1>2, <1>3, <1>4 DEF BufIndex
<1>8. line = [i \in 1 .. Len(line) |-> line[i]]
  BY <1>2
<1>9. CString(0) = line
  BY <1>3, <1>6, <1>7, <1>8
<1> QED
  BY <1>2, <1>3, <1>9

\* nsh_addchar appends a printable character, unless the buffer is full.
LEMMA OtherCharKeepsNInv ==
  ASSUME NInv, NEW c \in TextChars, OtherChar(c)
  PROVE  NInv'
<1>1. /\ line \in Seq(TextChars) /\ Len(line) \in Nat /\ nsh_bufindex = Len(line)
      /\ nsh_buf = Image(line) /\ NSH_BUFSIZE \in Nat
  BY EditFacts DEF OtherChar
<1>2. /\ line' = Append(line, c) /\ nsh_bufindex' = nsh_bufindex + 1
      /\ nsh_bufindex < NSH_BUFSIZE - 1
      /\ nsh_buf' = [nsh_buf EXCEPT ![nsh_bufindex] = c]
  BY DEF OtherChar
<1>3. /\ line' \in Seq(TextChars) /\ Len(line') = Len(line) + 1
      /\ \A i \in 1 .. Len(line) : line'[i] = line[i]
      /\ line'[Len(line) + 1] = c
  BY <1>1, <1>2
<1>4. nsh_bufindex' = Len(line') /\ nsh_bufindex' < NSH_BUFSIZE
  BY <1>1, <1>2, <1>3
<1>5. nsh_buf' = Image(line')
  <2>1. nsh_buf' = [i \in BufIndex |-> IF i = Len(line) THEN c ELSE nsh_buf[i]]
    BY <1>1, <1>2 DEF Image
  <2>2. ASSUME NEW i \in BufIndex
        PROVE  (IF i = Len(line) THEN c ELSE nsh_buf[i]) =
                 IF i >= Len(line') THEN NUL ELSE line'[i + 1]
    <3>1. i \in Nat
      BY NshAssumption DEF BufIndex
    <3>2. CASE i = Len(line)
      BY <1>1, <1>3, <3>1, <3>2
    <3>3. CASE i > Len(line)
      BY <1>1, <1>3, <3>1, <3>3 DEF Image
    <3>4. CASE i < Len(line)
      <4>1. i + 1 \in 1 .. Len(line)
        BY <1>1, <3>1, <3>4
      <4>2. nsh_buf[i] = line[i + 1] /\ ~ (i >= Len(line'))
        BY <1>1, <1>3, <3>1, <3>4 DEF Image
      <4> QED
        BY <1>1, <1>3, <3>1, <3>4, <4>1, <4>2
    <3> QED
      BY <1>1, <3>1, <3>2, <3>3, <3>4
  <2> QED
    BY <2>1, <2>2 DEF Image
<1> QED
  BY <1>3, <1>4, <1>5, EditKeepsNInv DEF OtherChar

\* A backspace takes the last character away, in the buffer and on the screen.
LEMMA BackspaceKeepsNInv ==
  ASSUME NInv, Backspace
  PROVE  NInv'
<1>1. /\ line \in Seq(TextChars) /\ Len(line) \in Nat /\ nsh_bufindex = Len(line)
      /\ Len(line) < NSH_BUFSIZE /\ nsh_buf = Image(line) /\ NSH_BUFSIZE \in Nat
  BY EditFacts DEF Backspace
<1>2. /\ line' = SubSeq(line, 1, Len(line) - 1) /\ nsh_bufindex' = nsh_bufindex - 1
      /\ nsh_bufindex > 0
      /\ nsh_buf' = [nsh_buf EXCEPT ![nsh_bufindex - 1] = NUL]
  BY DEF Backspace, Front
<1>3. /\ line' \in Seq(TextChars) /\ Len(line') = Len(line) - 1
      /\ \A i \in 1 .. (Len(line) - 1) : line'[i] = line[i]
  BY <1>1, <1>2
<1>4. nsh_bufindex' = Len(line') /\ nsh_bufindex' < NSH_BUFSIZE
  BY <1>1, <1>2, <1>3
<1>5. nsh_buf' = Image(line')
  <2>1. nsh_buf' = [i \in BufIndex |-> IF i = Len(line) - 1 THEN NUL ELSE nsh_buf[i]]
    BY <1>1, <1>2 DEF Image
  <2>2. ASSUME NEW i \in BufIndex
        PROVE  (IF i = Len(line) - 1 THEN NUL ELSE nsh_buf[i]) =
                 IF i >= Len(line') THEN NUL ELSE line'[i + 1]
    <3>1. i \in Nat
      BY NshAssumption DEF BufIndex
    <3>2. CASE i >= Len(line) - 1
      BY <1>1, <1>3, <3>1, <3>2 DEF Image
    <3>3. CASE i < Len(line) - 1
      <4>1. i + 1 \in 1 .. (Len(line) - 1)
        BY <1>1, <3>1, <3>3
      <4>2. nsh_buf[i] = line[i + 1] /\ ~ (i >= Len(line')) /\ i # Len(line) - 1
        BY <1>1, <1>3, <3>1, <3>3 DEF Image
      <4> QED
        BY <1>3, <4>1, <4>2
    <3> QED
      BY <1>1, <3>1, <3>2, <3>3
  <2> QED
    BY <2>1, <2>2 DEF Image
<1> QED
  BY <1>3, <1>4, <1>5, EditKeepsNInv DEF Backspace

\* t is the text, or a builtin that begins with it, and fits into the buffer.
Completion(text, t) ==
  /\ t \in Seq(TextChars) /\ Len(t) < NSH_BUFSIZE
  /\ IsPrefix(text, t)
  /\ t = text \/ \E i \in DOMAIN BUILTINS : BUILTINS[i] = t

\* The loop over the builtins leaves the text or a builtin that begins with it.
LEMMA CompletedIs ==
  ASSUME NEW text \in Seq(TextChars), Len(text) < NSH_BUFSIZE
  PROVE  Completion(text, Completed(text))
<1> DEFINE N == Len(BUILTINS)
           S == {t \in Seq(TextChars) : Completion(text, t)}
           G == [p \in Nat \X S |->
                   IF p[1] \in 1 .. N THEN Complete(p[2], BUILTINS[p[1]]) ELSE text]
           Def(f) == f = [i \in 0 .. N |->
                            IF i = 0 THEN text ELSE Complete(f[i - 1], BUILTINS[i])]
           after == CHOOSE f : Def(f)
<1>1. N \in Nat /\ DOMAIN BUILTINS = 1 .. N
  BY NshAssumption
<1>2. text \in S
  BY DEF Completion, IsPrefix
<1>3. ASSUME NEW t \in S, NEW i \in 1 .. N
      PROVE  Complete(t, BUILTINS[i]) \in S
  <2>1. CASE ~IsStrictPrefix(t, BUILTINS[i])
    BY <2>1 DEF Complete
  <2>2. CASE IsStrictPrefix(t, BUILTINS[i])
    <3> DEFINE b == BUILTINS[i]
    <3>1. b \in Seq(LETTERS) /\ Len(b) < NSH_BUFSIZE
      <4> DEFINE E == Seq(LETTERS)
      <4>1. BUILTINS \in Seq(E) /\ Len(BUILTINS[i]) \in 1 .. (NSH_BUFSIZE - 1)
        BY <1>1, NshAssumption
      <4>2. Len(BUILTINS[i]) < NSH_BUFSIZE
        BY <4>1, NshAssumption
      <4> HIDE DEF E
      <4>3. BUILTINS[i] \in E
        BY <4>1
      <4> QED
        BY <4>2, <4>3 DEF E
    <3>2. b \in Seq(TextChars)
      BY <3>1 DEF TextChars
    <3>3. t \in Seq(TextChars) /\ IsPrefix(text, t) /\ IsPrefix(t, b)
      BY <2>2 DEF Completion, IsStrictPrefix
    <3> HIDE DEF b
    <3>4. IsPrefix(text, b)
      <4>1. Len(text) <= Len(t) /\ Len(t) <= Len(b) /\ Len(text) \in Nat
            /\ Len(t) \in Nat /\ Len(b) \in Nat
        BY <3>2, <3>3 DEF IsPrefix
      <4>2. \A j \in 1 .. Len(text) : text[j] = t[j]
        <5>1. SubSeq(text, 1, Len(text)) = SubSeq(t, 1, Len(text))
          BY <3>3 DEF IsPrefix
        <5>2. \A j \in 1 .. Len(text) : /\ SubSeq(text, 1, Len(text))[j] = text[j]
                                        /\ SubSeq(t, 1, Len(text))[j] = t[j]
          BY <3>3, <4>1
        <5> QED
          BY <5>1, <5>2
      <4>3. \A j \in 1 .. Len(t) : t[j] = b[j]
        <5>1. SubSeq(t, 1, Len(t)) = SubSeq(b, 1, Len(t))
          BY <3>3 DEF IsPrefix
        <5>2. \A j \in 1 .. Len(t) : /\ SubSeq(t, 1, Len(t))[j] = t[j]
                                     /\ SubSeq(b, 1, Len(t))[j] = b[j]
          BY <3>2, <3>3, <4>1
        <5> QED
          BY <5>1, <5>2
      <4>4. \A j \in 1 .. Len(text) : text[j] = b[j]
        BY <4>1, <4>2, <4>3
      <4>5. SubSeq(text, 1, Len(text)) = SubSeq(b, 1, Len(text))
        <5>1. SubSeq(text, 1, Len(text)) = [j \in 1 .. Len(text) |-> text[j]]
          BY <4>1
        <5>2. SubSeq(b, 1, Len(text)) = [j \in 1 .. Len(text) |-> b[j]]
          BY <3>2, <4>1
        <5> QED
          BY <4>4, <5>1, <5>2
      <4> QED
        BY <4>1, <4>5 DEF IsPrefix
    <3>5. Complete(t, BUILTINS[i]) = b
      BY <2>2 DEF Complete, b
    <3>6. \E j \in DOMAIN BUILTINS : BUILTINS[j] = b
      BY <1>1 DEF b
    <3> QED
      BY <3>1, <3>2, <3>4, <3>5, <3>6 DEF Completion
  <2> QED
    BY <2>1, <2>2
<1>4. Completed(text) = after[N]
  BY DEF Completed
<1> HIDE DEF N, S
<1>5. \E f : Def(f)
  <2>1. G \in [Nat \X S -> S]
    BY <1>2, <1>3
  <2>2. HasTable(S, text, G, N)
    <3> HIDE DEF G
    <3> QED
      BY <1>1, <1>2, <2>1, TableExists
  <2>3. PICK f : LevelTable(f, S, text, G, N)
    BY <2>2 DEF HasTable
  <2>4. f \in [0 .. N -> S] /\ f[0] = text
    BY <2>3 DEF LevelTable
  <2>5. ASSUME NEW i \in 1 .. N
        PROVE  f[i] = Complete(f[i - 1], BUILTINS[i])
    <3>1. f[i] = G[<<i, f[i - 1]>>]
      BY <2>3 DEF LevelTable
    <3>2. <<i, f[i - 1]>> \in Nat \X S
      BY <1>1, <2>4
    <3> QED
      BY <3>1, <3>2
  <2>6. \A i \in 0 .. N : f[i] = IF i = 0 THEN text ELSE Complete(f[i - 1], BUILTINS[i])
    <3> SUFFICES ASSUME NEW i \in 0 .. N, i # 0
                 PROVE  f[i] = Complete(f[i - 1], BUILTINS[i])
      BY <2>4
    <3>1. i \in 1 .. N
      BY <1>1
    <3> QED
      BY <2>5, <3>1
  <2>7. Def(f)
    BY <2>4, <2>6
  <2> QED
    BY <2>7
<1>6. Def(after)
  <2> HIDE DEF Def
  <2> QED
    BY <1>5
<1> HIDE DEF after
<1>7. \A i \in 0 .. N : after[i] = IF i = 0 THEN text ELSE Complete(after[i - 1], BUILTINS[i])
  BY <1>6
<1> DEFINE T == {n \in Nat : n <= N /\ after[n] \notin S}
<1>8. T = {}
  <2> SUFFICES ASSUME T # {}
               PROVE  FALSE
    OBVIOUS
  <2>1. PICK n \in T : \A o \in T : n <= o
    <3>1. T \in SUBSET Nat
      OBVIOUS
    <3> HIDE DEF T
    <3> QED
      BY <3>1, LeastNat
  <2>2. n \in Nat /\ n <= N /\ after[n] \notin S
    BY <2>1
  <2>3. n # 0
    BY <1>1, <1>2, <1>7, <2>2
  <2>4. n - 1 \in Nat /\ n - 1 <= N /\ n \in 1 .. N /\ n \in 0 .. N /\ ~ (n <= n - 1)
    BY <1>1, <2>2, <2>3
  <2>5. after[n - 1] \in S
    BY <2>1, <2>4
  <2>6. after[n] = Complete(after[n - 1], BUILTINS[n])
    BY <1>7, <2>3, <2>4
  <2> QED
    BY <1>3, <2>2, <2>4, <2>5, <2>6
<1>9. after[N] \in S
  <2>1. N \notin T
    BY <1>8
  <2> QED
    BY <1>1, <2>1
<1> QED
  BY <1>4, <1>9 DEF S

\* A sequence is its beginning followed by the rest.
LEMMA PutTogether ==
  ASSUME NEW S, NEW a \in Seq(S), NEW b \in Seq(S), NEW c \in Seq(S),
         Len(b) = Len(c) - Len(a),
         \A j \in 1 .. Len(a) : a[j] = c[j],
         \A j \in 1 .. Len(b) : b[j] = c[Len(a) + j]
  PROVE  a \o b = c
<1> DEFINE q == a \o b
<1>1. q \in Seq(S) /\ Len(q) = Len(a) + Len(b)
  OBVIOUS
<1>2. Len(a) \in Nat /\ Len(b) \in Nat /\ Len(c) \in Nat
  OBVIOUS
<1>3. ASSUME NEW j \in 1 .. Len(c)
      PROVE  q[j] = c[j]
  <2>1. CASE j <= Len(a)
    <3>1. q[j] = a[j]
      BY <1>2, <2>1
    <3> QED
      BY <1>2, <2>1, <3>1
  <2>2. CASE j > Len(a)
    <3>1. q[j] = b[j - Len(a)]
      BY <1>2, <2>2
    <3>2. j - Len(a) \in 1 .. Len(b) /\ Len(a) + (j - Len(a)) = j
      BY <1>2, <2>2
    <3> QED
      BY <3>1, <3>2
  <2> QED
    BY <1>2, <2>1, <2>2
<1> HIDE DEF q
<1>4. q = [j \in 1 .. Len(q) |-> q[j]] /\ c = [j \in 1 .. Len(c) |-> c[j]]
  BY <1>1
<1>5. Len(q) = Len(c)
  BY <1>1, <1>2
<1>6. q = c
  BY <1>3, <1>4, <1>5
<1> QED
  BY <1>6 DEF q

\* What Tabulation makes of the line: the completed line, all of it in the buffer.
LEMMA TabulationIs ==
  ASSUME NInv, Tabulation
  PROVE  /\ line \in Seq(TextChars) /\ Completion(line, line')
         /\ nsh_buf' = Image(line') /\ nsh_bufindex' = Len(line')
         /\ pc = "edit" /\ UNCHANGED <<nsh_cmd, nsh_cmdnarg, pc, locals, ran>>
<1> DEFINE t == Completed(CString(0))
           r == SubSeq(t, Len(CString(0)) + 1, Len(t))
           room == NSH_BUFSIZE - nsh_bufindex
           n == IF Len(r) < room THEN Len(r) ELSE room
<1>1. /\ pc = "edit" /\ UNCHANGED <<nsh_cmd, nsh_cmdnarg, pc, locals, ran>>
      /\ nsh_buf' = [i \in BufIndex |->
                       IF nsh_bufindex <= i /\ i < nsh_bufindex + n
                       THEN r[i - nsh_bufindex + 1] ELSE nsh_buf[i]]
      /\ nsh_bufindex' = nsh_bufindex + n
      /\ line' = line \o r
  BY DEF Tabulation
<1>2. /\ line \in Seq(TextChars) /\ Len(line) < NSH_BUFSIZE /\ CString(0) = line
      /\ Len(line) \in Nat /\ nsh_bufindex = Len(line) /\ nsh_buf = Image(line)
      /\ NSH_BUFSIZE \in Nat
  BY <1>1, EditFacts
<1>3. Completion(line, t)
  BY <1>2, CompletedIs
<1> HIDE DEF t
<1>4. t \in Seq(TextChars) /\ Len(t) \in Nat /\ Len(line) <= Len(t) /\ Len(t) < NSH_BUFSIZE
  BY <1>3 DEF Completion, IsPrefix
<1>5. \A j \in 1 .. Len(line) : line[j] = t[j]
  <2>1. SubSeq(line, 1, Len(line)) = SubSeq(t, 1, Len(line))
    BY <1>3 DEF Completion, IsPrefix
  <2>2. \A j \in 1 .. Len(line) : /\ SubSeq(line, 1, Len(line))[j] = line[j]
                                  /\ SubSeq(t, 1, Len(line))[j] = t[j]
    BY <1>2, <1>4
  <2> QED
    BY <2>1, <2>2
<1>6. /\ r \in Seq(TextChars) /\ Len(r) = Len(t) - Len(line)
      /\ \A j \in 1 .. Len(r) : r[j] = t[Len(line) + j]
  BY <1>2, <1>4
<1> HIDE DEF r
<1>7. n = Len(t) - Len(line)
  BY <1>2, <1>4, <1>6
<1> HIDE DEF n
<1>8. line' = t
  BY <1>1, <1>2, <1>4, <1>5, <1>6, PutTogether
<1>9. nsh_buf' = Image(line')
  <2>1. ASSUME NEW i \in BufIndex
        PROVE  (IF nsh_bufindex <= i /\ i < nsh_bufindex + n
                THEN r[i - nsh_bufindex + 1] ELSE nsh_buf[i])
               = (IF i >= Len(t) THEN NUL ELSE t[i + 1])
    <3>1. i \in Nat
      BY <1>2 DEF BufIndex
    <3>2. CASE i >= Len(t)
      BY <1>2, <1>4, <1>7, <3>1, <3>2 DEF Image
    <3>3. CASE i < Len(line)
      <4>1. nsh_buf[i] = line[i + 1]
        BY <1>2, <3>1, <3>3 DEF Image
      <4>2. line[i + 1] = t[i + 1]
        BY <1>2, <1>5, <3>1, <3>3
      <4> QED
        BY <1>2, <1>4, <3>1, <3>3, <4>1, <4>2
    <3>4. CASE Len(line) <= i /\ i < Len(t)
      <4>1. r[i - Len(line) + 1] = t[Len(line) + (i - Len(line) + 1)]
        BY <1>2, <1>4, <1>6, <3>1, <3>4
      <4>2. Len(line) + (i - Len(line) + 1) = i + 1 /\ i < Len(line) + n
        BY <1>2, <1>4, <1>7, <3>1, <3>4
      <4>3. r[i - nsh_bufindex + 1] = t[i + 1]
        BY <1>2, <4>1, <4>2
      <4> QED
        BY <1>2, <1>4, <3>1, <3>4, <4>2, <4>3
    <3> QED
      BY <1>2, <1>4, <3>1, <3>2, <3>3, <3>4
  <2> QED
    BY <1>1, <1>8, <2>1 DEF Image
<1>10. nsh_bufindex' = Len(line')
  BY <1>1, <1>2, <1>4, <1>7, <1>8
<1> QED
  BY <1>1, <1>2, <1>3, <1>8, <1>9, <1>10

\* A tab puts the completion in the place of the line.
LEMMA TabulationKeepsNInv ==
  ASSUME NInv, Tabulation
  PROVE  NInv'
<1>1. line' \in Seq(TextChars) /\ Len(line') < NSH_BUFSIZE
  BY TabulationIs DEF Completion
<1> QED
  BY <1>1, TabulationIs, EditKeepsNInv

-----------------------------------------------------------------------------
(***************************************************************************)
(* The prompt                                                              *)
(***************************************************************************)

\* nsh_newline clears at least the first pointer.
LEMMA NewlineKeepsNInv ==
  ASSUME NInv, nsh_newline
  PROVE  NInv'
<1>1. /\ nsh_buf' = [i \in BufIndex |-> NUL]
      /\ nsh_cmd' = [i \in CmdIndex |-> IF i \in ClearedCmds THEN NULL ELSE nsh_cmd[i]]
      /\ nsh_bufindex' = 0 /\ nsh_cmdnarg' = 0 /\ pc' = "edit" /\ line' = <<>>
      /\ ibuf' = 0 /\ icmd' = 0 /\ ran' = 0
  BY DEF nsh_newline
<1>2. line' \in Seq(TextChars) /\ Len(line') = 0
  BY <1>1
<1>3. NSH_BUFSIZE \in Nat /\ 0 < NSH_BUFSIZE /\ 0 \in ClearedCmds /\ 0 \in CmdIndex
  BY NshAssumption DEF ClearedCmds, CmdIndex
<1>4. nsh_cmd' \in [CmdIndex -> BufIndex \cup {NULL}] /\ nsh_cmd'[0] = NULL
  BY <1>1, <1>3 DEF NInv, SplitInv
<1>5. BufferInv'
  <2>1. (ibuf = 0)' => (BufferInv' <=> (/\ line \in Seq(TextChars)
                                        /\ nsh_bufindex = Len(line)
                                        /\ nsh_bufindex < NSH_BUFSIZE
                                        /\ nsh_buf = Image(line))')
    BY EditBuffer, PTL
  <2>2. \A i \in BufIndex : i >= Len(line')
    BY <1>2, NshAssumption DEF BufIndex
  <2>3. nsh_buf' = Image(line')
    BY <1>1, <2>2 DEF Image
  <2> QED
    BY <1>1, <1>2, <1>3, <2>1, <2>3 DEF Image
<1>6. SplitInv'
  <2>1. (/\ line \in Seq(TextChars) /\ ibuf = 0 /\ icmd = 0
         /\ nsh_cmd \in [CmdIndex -> BufIndex \cup {NULL}] /\ nsh_cmd[0] = NULL)'
          => SplitInv'
    BY EditSplit, PTL
  <2> QED
    BY <1>1, <1>2, <1>4, <2>1
<1>7. ControlInv' /\ RunsNamedBuiltin'
  BY <1>1, NshAssumption DEF ControlInv, RunsNamedBuiltin
<1> QED
  BY <1>5, <1>6, <1>7 DEF NInv

\* Enter starts the split at the first byte, or a new line if nothing was typed.
LEMMA NewLineKeepsNInv ==
  ASSUME NInv, NewLine
  PROVE  NInv'
<1>1. CASE nsh_newline
  BY <1>1, NewlineKeepsNInv
<1>2. CASE /\ pc' = "nsh_createcmd"
           /\ UNCHANGED <<nsh_buf, nsh_cmd, nsh_bufindex, nsh_cmdnarg, locals, line, ran>>
  BY <1>2 DEF NInv, BufferInv, SplitInv, ControlInv, RunsNamedBuiltin, locals, Cut, Starts
<1> QED
  BY <1>1, <1>2 DEF NewLine

-----------------------------------------------------------------------------
(***************************************************************************)
(* Splitting                                                               *)
(***************************************************************************)

\* When the split is at a character it has yet to look at, that character is in
\* the buffer, and so are the ones behind it.
LEMMA SplitFacts ==
  ASSUME NInv, ibuf < nsh_bufindex
  PROVE  /\ Len(line) \in Nat /\ ibuf \in Nat /\ ibuf < Len(line)
         /\ ibuf \in BufIndex /\ Len(line) \in BufIndex /\ BufIndex \subseteq Nat
         /\ nsh_buf[Len(line)] = NUL
         /\ \A i \in BufIndex : ibuf <= i /\ i < Len(line) =>
              nsh_buf[i] = line[i + 1] /\ line[i + 1] \in TextChars /\ line[i + 1] # NUL
         /\ ibuf = 0 \/ (line[ibuf] = SPACE <=> line[ibuf + 1] # SPACE)
<1>1. /\ Len(line) \in Nat /\ Len(line) \in BufIndex /\ NSH_BUFSIZE \in Nat
      /\ BufIndex \subseteq Nat
  BY BufferFacts DEF NInv
<1>2. ibuf \in Nat /\ ibuf < Len(line)
  BY <1>1 DEF NInv, SplitInv, BufferInv
<1>3. ibuf \in BufIndex
  BY <1>1, <1>2 DEF BufIndex
<1>4. nsh_buf[Len(line)] = NUL
  BY <1>1, BufferFacts DEF NInv
<1>5. ASSUME NEW i \in BufIndex, ibuf <= i, i < Len(line)
      PROVE  nsh_buf[i] = line[i + 1] /\ line[i + 1] \in TextChars /\ line[i + 1] # NUL
  <2>1. ~ (i < ibuf) /\ i + 1 \in 1 .. Len(line)
    BY <1>1, <1>2, <1>5
  <2> QED
    BY <1>5, <2>1, BufferFacts DEF NInv
<1>6. ibuf = 0 \/ ibuf \in 1 .. (Len(line) - 1)
  BY <1>1, <1>2
<1>7. ibuf = 0 \/ (line[ibuf] = SPACE <=> line[ibuf + 1] # SPACE)
  BY <1>6 DEF NInv, SplitInv
<1> QED
  BY <1>1, <1>2, <1>3, <1>4, <1>5, <1>7

\* A word: it starts at ibuf, and the split goes on behind it.
LEMMA CreateWordKeepsNInv ==
  ASSUME NInv, CreateWord
  PROVE  NInv'
<1> DEFINE e == StopAt(ibuf, {SPACE, NUL})
           L == Len(line)
<1>1. /\ pc = "nsh_createcmd" /\ ibuf < nsh_bufindex /\ nsh_buf[ibuf] \notin {SPACE, NUL}
      /\ nsh_cmd' = [nsh_cmd EXCEPT ![icmd] = ibuf] /\ icmd' = icmd + 1 /\ ibuf' = e
      /\ UNCHANGED <<nsh_buf, nsh_bufindex, nsh_cmdnarg, pc, line, ran>>
  BY DEF CreateWord
<1>2. /\ L \in Nat /\ ibuf \in Nat /\ ibuf < L /\ ibuf \in BufIndex /\ L \in BufIndex
      /\ BufIndex \subseteq Nat /\ nsh_buf[L] = NUL
      /\ \A i \in BufIndex : ibuf <= i /\ i < L =>
           nsh_buf[i] = line[i + 1] /\ line[i + 1] \in TextChars /\ line[i + 1] # NUL
      /\ ibuf = 0 \/ (line[ibuf] = SPACE <=> line[ibuf + 1] # SPACE)
  BY <1>1, SplitFacts
<1>3. /\ e \in BufIndex /\ ibuf <= e /\ e <= L /\ nsh_buf[e] \in {SPACE, NUL}
      /\ \A j \in BufIndex : ibuf <= j /\ j < e => nsh_buf[j] \notin {SPACE, NUL}
  BY <1>2, StopAtIs
<1> HIDE DEF e, L
<1>4. e \in Nat /\ ibuf + 1 <= e
  <2>1. e # ibuf
    BY <1>1, <1>3
  <2> QED
    BY <1>2, <1>3, <2>1
<1>5. \A i \in Nat : ibuf <= i /\ i < e => i \in BufIndex /\ line[i + 1] # SPACE
  <2> SUFFICES ASSUME NEW i \in Nat, ibuf <= i, i < e
               PROVE  i \in BufIndex /\ line[i + 1] # SPACE
    OBVIOUS
  <2>1. i \in BufIndex /\ i < L
    BY <1>2, <1>3, <1>4, NshAssumption DEF BufIndex
  <2> QED
    BY <1>2, <1>3, <2>1
<1>6. e < L => line[e + 1] = SPACE
  BY <1>2, <1>3
<1>7. line[ibuf + 1] # SPACE /\ (ibuf = 0 \/ line[ibuf] = SPACE)
  <2>1. line[ibuf + 1] # SPACE
    BY <1>2, <1>4, <1>5
  <2> QED
    BY <1>2, <2>1
<1>8. BufferInv'
  <2>1. \A i \in BufIndex : (i < ibuf /\ Cut(i)) <=> (i < e /\ Cut(i))
    <3> SUFFICES ASSUME NEW i \in BufIndex
                 PROVE  (i < ibuf /\ Cut(i)) <=> (i < e /\ Cut(i))
      OBVIOUS
    <3>1. i \in Nat
      BY <1>2
    <3>2. CASE i < ibuf
      BY <1>2, <1>4, <3>1, <3>2
    <3>3. CASE ~ (i < ibuf)
      <4>1. i < e => line[i + 1] # SPACE
        BY <1>2, <1>5, <3>1, <3>3
      <4> QED
        BY <3>3, <4>1 DEF Cut
    <3> QED
      BY <3>2, <3>3
  <2>2. \A i : Cut(i)' <=> Cut(i)
    BY <1>1 DEF Cut
  <2>3. nsh_buf = [i \in BufIndex |->
                     IF i >= Len(line) \/ (i < ibuf /\ Cut(i)) THEN NUL ELSE line[i + 1]]
    BY DEF NInv, BufferInv
  <2> HIDE DEF Cut
  <2>4. nsh_buf' = [i \in BufIndex |->
                      IF i >= Len(line') \/ (i < ibuf' /\ Cut(i)') THEN NUL
                                                                 ELSE line'[i + 1]]
    BY <1>1, <2>1, <2>2, <2>3
  <2> QED
    BY <1>1, <2>4 DEF NInv, BufferInv
<1>9. /\ icmd \in Nat /\ icmd \in CmdIndex /\ icmd' \in CmdIndex /\ 2 * icmd <= ibuf
      /\ 2 * icmd' <= e + 1
  <2>1. icmd \in CmdIndex /\ 2 * icmd <= ibuf
    BY <1>2, <1>7 DEF NInv, SplitInv, L
  <2>2. icmd \in Nat
    BY <2>1, NshAssumption DEF CmdIndex
  <2>3. 2 * icmd' <= e + 1
    BY <1>1, <1>2, <1>4, <2>1, <2>2
  <2>4. NSH_BUFSIZE \in Nat /\ e < NSH_BUFSIZE
    BY <1>3, NshAssumption DEF BufIndex
  <2>5. icmd' \in CmdIndex
    BY <1>1, <1>4, <2>2, <2>3, <2>4 DEF CmdIndex
  <2> QED
    BY <2>1, <2>2, <2>3, <2>5
<1>10. nsh_cmd \in [CmdIndex -> BufIndex \cup {NULL}]
       /\ nsh_cmd' \in [CmdIndex -> BufIndex \cup {NULL}]
  BY <1>1, <1>2, <1>9 DEF NInv, SplitInv
<1>11. /\ nsh_cmd'[icmd] = ibuf
       /\ \A n \in 0 .. (icmd - 1) : n \in CmdIndex /\ n # icmd /\ nsh_cmd'[n] = nsh_cmd[n]
  <2>1. \A n \in 0 .. (icmd - 1) : n \in CmdIndex /\ n # icmd
    BY <1>9, NshAssumption DEF CmdIndex
  <2> QED
    BY <1>1, <1>9, <1>10, <2>1
<1>12. {nsh_cmd[n] + 1 : n \in 0 .. (icmd - 1)} = {i \in Starts(line) : i <= ibuf}
  BY DEF NInv, SplitInv
<1>13. {i \in Starts(line) : i <= e} = {i \in Starts(line) : i <= ibuf} \cup {ibuf + 1}
  <2>1. DOMAIN line = 1 .. L
    BY DEF NInv, BufferInv, L
  <2>2. ibuf + 1 \in Starts(line)
    <3>1. ibuf + 1 \in DOMAIN line /\ (ibuf + 1) - 1 = ibuf /\ (ibuf + 1 = 1 <=> ibuf = 0)
      BY <1>2, <2>1
    <3> QED
      BY <1>7, <3>1 DEF Starts
  <2>3. ASSUME NEW i \in Starts(line), i <= e
        PROVE  i <= ibuf \/ i = ibuf + 1
    <3>1. i \in 1 .. L /\ (i = 1 \/ line[i - 1] = SPACE)
      BY <2>1 DEF Starts
    <3>2. ASSUME i > ibuf + 1
          PROVE  FALSE
      <4>1. i - 2 \in Nat /\ ibuf <= i - 2 /\ i - 2 < e /\ (i - 2) + 1 = i - 1 /\ i # 1
        BY <1>2, <1>4, <2>3, <3>1, <3>2
      <4>2. line[(i - 2) + 1] # SPACE
        BY <1>5, <4>1
      <4> QED
        BY <3>1, <4>1, <4>2
    <3> QED
      BY <1>2, <3>1, <3>2
  <2>4. \A i \in Starts(line) : i <= ibuf => i <= e
    BY <1>2, <1>4, <2>1 DEF Starts
  <2> QED
    BY <1>4, <2>2, <2>3, <2>4
<1>14. 0 .. (icmd' - 1) = (0 .. (icmd - 1)) \cup {icmd}
  BY <1>1, <1>9
<1>15. {nsh_cmd'[n] + 1 : n \in 0 .. (icmd' - 1)} = {i \in Starts(line) : i <= e}
  <2>1. {nsh_cmd'[n] + 1 : n \in 0 .. (icmd' - 1)}
          = {nsh_cmd[n] + 1 : n \in 0 .. (icmd - 1)} \cup {ibuf + 1}
    BY <1>11, <1>14
  <2> QED
    BY <1>12, <1>13, <2>1
<1>16. \A m, n \in 0 .. (icmd' - 1) : m < n => nsh_cmd'[m] < nsh_cmd'[n]
  <2> SUFFICES ASSUME NEW m \in 0 .. (icmd' - 1), NEW n \in 0 .. (icmd' - 1), m < n
               PROVE  nsh_cmd'[m] < nsh_cmd'[n]
    OBVIOUS
  <2>1. m \in 0 .. (icmd - 1) /\ (n = icmd \/ n \in 0 .. (icmd - 1))
    BY <1>1, <1>9, <1>14
  <2>2. CASE n = icmd
    <3>1. nsh_cmd[m] + 1 <= ibuf
      BY <1>12, <2>1
    <3>2. nsh_cmd[m] \in Int
      <4>1. nsh_cmd[m] \in BufIndex \cup {NULL}
        BY <1>10, <1>11, <2>1
      <4>2. BufIndex \subseteq Int /\ NULL \in Int
        BY <1>2 DEF NULL
      <4> QED
        BY <4>1, <4>2
    <3>3. nsh_cmd[m] < ibuf
      BY <1>2, <3>1, <3>2
    <3> QED
      BY <1>11, <2>1, <2>2, <3>3
  <2>3. CASE n \in 0 .. (icmd - 1)
    <3>1. nsh_cmd[m] < nsh_cmd[n]
      BY <2>1, <2>3 DEF NInv, SplitInv
    <3> QED
      BY <1>11, <2>1, <2>3, <3>1
  <2> QED
    BY <2>1, <2>2, <2>3
<1>17. SplitInv'
  <2>1. ibuf' \in 0 .. Len(line')
    BY <1>1, <1>2, <1>3, <1>4 DEF L
  <2>2. ibuf' < Len(line') => line'[ibuf' + 1] = SPACE
    BY <1>1, <1>6 DEF L
  <2>3. ibuf' \in 1 .. (Len(line') - 1) =>
          (line'[ibuf'] = SPACE <=> line'[ibuf' + 1] # SPACE)
    <3> SUFFICES ASSUME ibuf' \in 1 .. (Len(line') - 1)
                 PROVE  line'[ibuf'] # SPACE /\ line'[ibuf' + 1] = SPACE
      OBVIOUS
    <3>1. e < L
      BY <1>1, <1>2, <1>4 DEF L
    <3>2. e - 1 \in Nat /\ ibuf <= e - 1 /\ e - 1 < e /\ (e - 1) + 1 = e
      BY <1>2, <1>4
    <3>3. line[(e - 1) + 1] # SPACE
      BY <1>5, <3>2
    <3> QED
      BY <1>1, <1>6, <3>1, <3>2, <3>3
  <2>4. icmd' # 0
    BY <1>1, <1>9
  <2>5. Starts(line)' = Starts(line)
    BY <1>1 DEF Starts
  <2> QED
    BY <1>1, <1>9, <1>10, <1>15, <1>16, <2>1, <2>2, <2>3, <2>4, <2>5 DEF SplitInv
<1>18. ControlInv' /\ RunsNamedBuiltin'
  BY <1>1 DEF NInv, ControlInv, RunsNamedBuiltin
<1> QED
  BY <1>8, <1>17, <1>18 DEF NInv

\* Spaces: the first one is cut, and the split goes on behind them.
LEMMA CreateSkipKeepsNInv ==
  ASSUME NInv, CreateSkip
  PROVE  NInv'
<1> DEFINE e == StopAt(ibuf + 1, LETTERS \cup {NUL})
           L == Len(line)
<1>1. /\ pc = "nsh_createcmd" /\ ibuf < nsh_bufindex /\ nsh_buf[ibuf] = SPACE
      /\ nsh_buf' = [nsh_buf EXCEPT ![ibuf] = NUL] /\ ibuf' = e
      /\ UNCHANGED <<nsh_cmd, nsh_bufindex, nsh_cmdnarg, pc, icmd, line, ran>>
  BY DEF CreateSkip
<1>2. /\ L \in Nat /\ ibuf \in Nat /\ ibuf < L /\ ibuf \in BufIndex /\ L \in BufIndex
      /\ BufIndex \subseteq Nat /\ nsh_buf[L] = NUL
      /\ \A i \in BufIndex : ibuf <= i /\ i < L =>
           nsh_buf[i] = line[i + 1] /\ line[i + 1] \in TextChars /\ line[i + 1] # NUL
      /\ ibuf = 0 \/ (line[ibuf] = SPACE <=> line[ibuf + 1] # SPACE)
  BY <1>1, SplitFacts
<1>3. /\ e \in BufIndex /\ ibuf + 1 <= e /\ e <= L /\ nsh_buf[e] \in LETTERS \cup {NUL}
      /\ \A j \in BufIndex : ibuf + 1 <= j /\ j < e => nsh_buf[j] \notin LETTERS \cup {NUL}
  <2>1. ibuf + 1 \in Nat /\ ibuf + 1 <= L /\ nsh_buf[L] \in LETTERS \cup {NUL}
    BY <1>2
  <2> QED
    BY <1>2, <2>1, StopAtIs
<1> HIDE DEF e, L
<1>4. e \in Nat
  BY <1>2, <1>3
<1>5. \A i \in Nat : ibuf <= i /\ i < e => i \in BufIndex /\ line[i + 1] = SPACE
  <2> SUFFICES ASSUME NEW i \in Nat, ibuf <= i, i < e
               PROVE  i \in BufIndex /\ line[i + 1] = SPACE
    OBVIOUS
  <2>1. i \in BufIndex /\ i < L /\ (i = ibuf \/ ibuf + 1 <= i)
    BY <1>2, <1>3, <1>4, NshAssumption DEF BufIndex
  <2>2. nsh_buf[i] = line[i + 1] /\ line[i + 1] \in TextChars /\ line[i + 1] # NUL
    BY <1>2, <2>1
  <2>3. i = ibuf \/ line[i + 1] \notin LETTERS
    BY <1>3, <2>1, <2>2
  <2> QED
    BY <1>1, <2>1, <2>2, <2>3 DEF TextChars
<1>6. e < L => line[e + 1] # SPACE
  <2> SUFFICES ASSUME e < L
               PROVE  line[e + 1] # SPACE
    OBVIOUS
  <2>1. ibuf <= e
    BY <1>2, <1>3, <1>4
  <2>2. nsh_buf[e] = line[e + 1] /\ line[e + 1] # NUL
    BY <1>2, <1>3, <2>1
  <2> QED
    BY <1>3, <2>2, NshAssumption
<1>7. line[ibuf + 1] = SPACE /\ (ibuf = 0 \/ line[ibuf] # SPACE)
  <2>1. line[ibuf + 1] = SPACE
    BY <1>2, <1>3, <1>4, <1>5
  <2> QED
    BY <1>2, <2>1
<1>8. BufferInv'
  <2>1. ASSUME NEW i \in BufIndex
        PROVE  (i < e /\ Cut(i)) <=> (i = ibuf \/ (i < ibuf /\ Cut(i)))
    <3>1. i \in Nat
      BY <1>2
    <3>2. CASE i < ibuf
      BY <1>2, <1>3, <1>4, <3>1, <3>2
    <3>3. CASE i = ibuf
      BY <1>2, <1>3, <1>4, <1>7, <3>3 DEF Cut
    <3>4. CASE i > ibuf
      <4>1. ASSUME i < e
            PROVE  ~Cut(i)
        <5>1. i - 1 \in Nat /\ ibuf <= i - 1 /\ i - 1 < e /\ (i - 1) + 1 = i /\ i # 0
          BY <1>2, <1>4, <3>1, <3>4, <4>1
        <5>2. line[(i - 1) + 1] = SPACE
          BY <1>5, <5>1
        <5> QED
          BY <5>1, <5>2 DEF Cut
      <4> QED
        BY <1>2, <3>1, <3>4, <4>1
    <3> QED
      BY <1>2, <3>1, <3>2, <3>3, <3>4
  <2>2. \A i : Cut(i)' <=> Cut(i)
    BY <1>1 DEF Cut
  <2>3. nsh_buf = [i \in BufIndex |->
                     IF i >= Len(line) \/ (i < ibuf /\ Cut(i)) THEN NUL ELSE line[i + 1]]
    BY DEF NInv, BufferInv
  <2> HIDE DEF Cut
  <2>4. nsh_buf' = [i \in BufIndex |-> IF i = ibuf THEN NUL ELSE nsh_buf[i]]
    BY <1>1, <2>3
  <2>5. nsh_buf' = [i \in BufIndex |->
                      IF i >= Len(line') \/ (i < ibuf' /\ Cut(i)') THEN NUL
                                                                 ELSE line'[i + 1]]
    BY <1>1, <2>1, <2>2, <2>3, <2>4
  <2> QED
    BY <1>1, <2>5 DEF NInv, BufferInv
<1>9. icmd \in Nat /\ icmd \in CmdIndex /\ 2 * icmd' <= e
  <2>1. icmd \in CmdIndex /\ 2 * icmd <= ibuf + 1
    BY DEF NInv, SplitInv
  <2>2. icmd \in Nat
    BY <2>1, NshAssumption DEF CmdIndex
  <2> QED
    BY <1>1, <1>2, <1>3, <1>4, <2>1, <2>2
<1>10. {i \in Starts(line) : i <= e} = {i \in Starts(line) : i <= ibuf}
  <2>1. DOMAIN line = 1 .. L
    BY DEF NInv, BufferInv, L
  <2>2. ASSUME NEW i \in Starts(line)
        PROVE  i <= e <=> i <= ibuf
    <3>1. i \in 1 .. L /\ line[i] # SPACE
      BY <2>1 DEF Starts
    <3>2. ASSUME i > ibuf, i <= e
          PROVE  FALSE
      <4>1. i - 1 \in Nat /\ ibuf <= i - 1 /\ i - 1 < e /\ (i - 1) + 1 = i
        BY <1>2, <1>4, <3>1, <3>2
      <4>2. line[(i - 1) + 1] = SPACE
        BY <1>5, <4>1
      <4> QED
        BY <3>1, <4>1, <4>2
    <3> QED
      BY <1>2, <1>3, <1>4, <3>1, <3>2
  <2> QED
    BY <2>2
<1>11. SplitInv'
  <2>1. ibuf' \in 0 .. Len(line')
    BY <1>1, <1>2, <1>3, <1>4 DEF L
  <2>2. 2 * icmd' <= ibuf' + 1 /\ 2 * icmd' <= ibuf'
    BY <1>1, <1>4, <1>9
  <2>3. ibuf' \in 1 .. (Len(line') - 1) =>
          (line'[ibuf'] = SPACE <=> line'[ibuf' + 1] # SPACE)
    <3> SUFFICES ASSUME ibuf' \in 1 .. (Len(line') - 1)
                 PROVE  line'[ibuf'] = SPACE /\ line'[ibuf' + 1] # SPACE
      OBVIOUS
    <3>1. e < L
      BY <1>1, <1>2, <1>4 DEF L
    <3>2. e - 1 \in Nat /\ ibuf <= e - 1 /\ e - 1 < e /\ (e - 1) + 1 = e
      BY <1>2, <1>3, <1>4
    <3>3. line[(e - 1) + 1] = SPACE
      BY <1>5, <3>2
    <3> QED
      BY <1>1, <1>6, <3>1, <3>2, <3>3
  <2>4. Starts(line)' = Starts(line)
    BY <1>1 DEF Starts
  <2>5. {nsh_cmd'[n] + 1 : n \in 0 .. (icmd' - 1)} = {i \in Starts(line)' : i <= ibuf'}
    BY <1>1, <1>10, <2>4 DEF NInv, SplitInv
  <2> QED
    BY <1>1, <1>9, <2>1, <2>2, <2>3, <2>5 DEF NInv, SplitInv
<1>12. ControlInv' /\ RunsNamedBuiltin'
  BY <1>1 DEF NInv, ControlInv, RunsNamedBuiltin
<1> QED
  BY <1>8, <1>11, <1>12 DEF NInv

\* nsh_createcmd returns when it has reached the end of the line.
LEMMA CreateDoneKeepsNInv ==
  ASSUME NInv, CreateDone
  PROVE  NInv'
<1>1. /\ pc = "nsh_createcmd" /\ ibuf >= nsh_bufindex /\ nsh_cmdnarg' = icmd
      /\ pc' = "nsh_execcmd"
      /\ UNCHANGED <<nsh_buf, nsh_cmd, nsh_bufindex, ibuf, icmd, line, ran>>
  BY DEF CreateDone, locals
<1>2. ibuf = Len(line)
  <2>1. Len(line) \in Nat /\ nsh_bufindex = Len(line) /\ ibuf \in 0 .. Len(line)
    BY BufferFacts DEF NInv, SplitInv, BufferInv
  <2> QED
    BY <1>1, <2>1
<1>3. BufferInv' /\ SplitInv'
  BY <1>1 DEF NInv, BufferInv, SplitInv, Cut, Starts
<1>4. ControlInv' /\ RunsNamedBuiltin'
  BY <1>1, <1>2 DEF NInv, SplitInv, ControlInv, RunsNamedBuiltin, CmdIndex
<1> QED
  BY <1>3, <1>4 DEF NInv

-----------------------------------------------------------------------------
(***************************************************************************)
(* Running                                                                 *)
(***************************************************************************)

\* Once the line is split, the string at the start of a word is that word.
LEMMA WordIsString ==
  ASSUME NInv, ibuf = Len(line), NEW s \in Starts(line)
  PROVE  s - 1 \in BufIndex /\ CString(s - 1) = WordAt(line, s)
<1> DEFINE L == Len(line)
           ends == {j \in s .. L : j = L \/ line[j + 1] = SPACE}
           e == CHOOSE j \in ends : \A m \in ends : j <= m
<1>1. /\ L \in Nat /\ L \in BufIndex /\ NSH_BUFSIZE \in Nat /\ BufIndex \subseteq Nat
      /\ \A i \in 1 .. L : line[i] \in TextChars /\ line[i] # NUL
      /\ \A i \in BufIndex : i >= L => nsh_buf[i] = NUL
      /\ \A i \in BufIndex : i < L /\ i < L /\ Cut(i) => nsh_buf[i] = NUL
      /\ \A i \in BufIndex : i < L /\ ~ (i < L /\ Cut(i)) => nsh_buf[i] = line[i + 1]
  BY BufferFacts DEF NInv
<1>2. line \in Seq(TextChars) /\ s \in 1 .. L /\ line[s] # SPACE
  BY DEF Starts, NInv, BufferInv
<1>3. ends \in SUBSET BufIndex /\ L \in ends
  BY <1>1, <1>2, NshAssumption DEF BufIndex
<1>4. e \in ends /\ \A m \in ends : e <= m
  <2> HIDE DEF ends
  <2> QED
    BY <1>3, LeastIndex
<1>5. WordAt(line, s) = SubSeq(line, s, e)
  BY DEF WordAt
<1> HIDE DEF e
<1>6. e \in s .. L /\ (e = L \/ line[e + 1] = SPACE) /\ e \in BufIndex /\ e \in Nat
  BY <1>1, <1>3, <1>4
<1>7. \A j \in s .. e : line[j] # SPACE
  <2> SUFFICES ASSUME NEW j \in s .. e, line[j] = SPACE
               PROVE  FALSE
    OBVIOUS
  <2>1. j # s /\ j - 1 \in s .. L /\ (j - 1) + 1 = j /\ ~ (e <= j - 1)
    BY <1>1, <1>2, <1>6
  <2>2. j - 1 \in ends
    BY <2>1
  <2> QED
    BY <1>4, <2>1, <2>2
<1> HIDE DEF ends, L
<1>8. s - 1 \in BufIndex /\ s - 1 <= e
  BY <1>1, <1>2, <1>6 DEF BufIndex
<1>9. nsh_buf[e] = NUL
  <2>1. CASE e = L
    BY <1>1, <1>6, <2>1
  <2>2. CASE e # L
    <3>1. e < L /\ line[e + 1] = SPACE /\ line[e] # SPACE
      BY <1>1, <1>2, <1>6, <1>7, <2>2
    <3>2. Cut(e)
      BY <3>1 DEF Cut
    <3> HIDE DEF Cut
    <3> QED
      BY <1>1, <1>6, <3>1, <3>2
  <2> QED
    BY <2>1, <2>2
<1>10. ASSUME NEW i \in BufIndex, s - 1 <= i, i < e
       PROVE  nsh_buf[i] = line[i + 1] /\ line[i + 1] # NUL
  <2>1. i \in Nat /\ i < L /\ i + 1 \in s .. e /\ i + 1 \in 1 .. L
    BY <1>1, <1>2, <1>6, <1>10
  <2>2. ~Cut(i)
    BY <1>7, <2>1 DEF Cut
  <2> HIDE DEF Cut
  <2> QED
    BY <1>1, <2>1, <2>2
<1>11. CString(s - 1) = [i \in 1 .. (e - (s - 1)) |-> nsh_buf[(s - 1) + i - 1]]
  BY <1>6, <1>8, <1>9, <1>10, CStringIs
<1>12. ASSUME NEW i \in 1 .. (e - (s - 1))
       PROVE  nsh_buf[(s - 1) + i - 1] = line[s + i - 1]
  <2>1. /\ (s - 1) + i - 1 \in BufIndex /\ s - 1 <= (s - 1) + i - 1
        /\ (s - 1) + i - 1 < e /\ ((s - 1) + i - 1) + 1 = s + i - 1
    BY <1>1, <1>2, <1>6 DEF BufIndex
  <2> QED
    BY <1>10, <2>1
<1>13. SubSeq(line, s, e) = [i \in 1 .. (e - (s - 1)) |-> line[s + i - 1]]
  <2>1. e - (s - 1) = e - s + 1
    BY <1>2, <1>6
  <2> QED
    BY <1>1, <1>2, <1>6, <2>1 DEF L
<1> QED
  BY <1>5, <1>8, <1>11, <1>12, <1>13

\* What nsh_createcmd has left for nsh_execcmd.
LEMMA ArgvHolds ==
  ASSUME NInv, pc = "nsh_execcmd"
  PROVE  /\ {nsh_cmd[n] + 1 : n \in 0 .. (nsh_cmdnarg - 1)} = Starts(line)
         /\ \A m, n \in 0 .. (nsh_cmdnarg - 1) : m < n => nsh_cmd[m] < nsh_cmd[n]
         /\ \A n \in 0 .. (nsh_cmdnarg - 1) :
              nsh_cmd[n] \in BufIndex /\ CString(nsh_cmd[n]) = WordAt(line, nsh_cmd[n] + 1)
<1>1. ibuf = Len(line) /\ nsh_cmdnarg = icmd /\ Len(line) \in Nat
  BY BufferFacts DEF NInv, ControlInv
<1>2. Starts(line) \subseteq 1 .. Len(line)
  BY DEF Starts, NInv, BufferInv
<1>3. {i \in Starts(line) : i <= ibuf} = Starts(line)
  BY <1>1, <1>2
<1>4. {nsh_cmd[n] + 1 : n \in 0 .. (nsh_cmdnarg - 1)} = Starts(line)
  BY <1>1, <1>3 DEF NInv, SplitInv
<1>5. ASSUME NEW n \in 0 .. (nsh_cmdnarg - 1)
      PROVE  nsh_cmd[n] \in BufIndex /\ CString(nsh_cmd[n]) = WordAt(line, nsh_cmd[n] + 1)
  <2>1. nsh_cmd[n] + 1 \in Starts(line)
    BY <1>4
  <2>2. nsh_cmd[n] \in Int
    <3>1. n \in CmdIndex
      BY <1>1, NshAssumption DEF NInv, SplitInv, CmdIndex
    <3>2. nsh_cmd[n] \in BufIndex \cup {NULL}
      BY <3>1 DEF NInv, SplitInv
    <3>3. BufIndex \subseteq Int /\ NULL \in Int
      BY NshAssumption DEF BufIndex, NULL
    <3> QED
      BY <3>2, <3>3
  <2>3. (nsh_cmd[n] + 1) - 1 = nsh_cmd[n]
    BY <2>2
  <2>4. /\ (nsh_cmd[n] + 1) - 1 \in BufIndex
        /\ CString((nsh_cmd[n] + 1) - 1) = WordAt(line, nsh_cmd[n] + 1)
    BY <1>1, <2>1, WordIsString
  <2> QED
    BY <2>3, <2>4
<1>6. \A m, n \in 0 .. (nsh_cmdnarg - 1) : m < n => nsh_cmd[m] < nsh_cmd[n]
  BY <1>1 DEF NInv, SplitInv
<1> QED
  BY <1>4, <1>5, <1>6

\* Found is a builtin of that name, or 0 when there is none.
LEMMA FoundIs ==
  ASSUME NEW word
  PROVE  /\ Found(word) \in 0 .. Len(BUILTINS)
         /\ Found(word) # 0 => BUILTINS[Found(word)] = word
         /\ Found(word) = 0 => \A i \in DOMAIN BUILTINS : BUILTINS[i] # word
<1> DEFINE S == {i \in DOMAIN BUILTINS : BUILTINS[i] = word}
<1>1. DOMAIN BUILTINS = 1 .. Len(BUILTINS) /\ Len(BUILTINS) \in Nat
  BY NshAssumption
<1>2. CASE S = {}
  BY <1>1, <1>2 DEF Found
<1>3. CASE S # {}
  <2>1. S \in SUBSET Nat
    BY <1>1
  <2> DEFINE c == CHOOSE i \in S : \A j \in S : i <= j
  <2>2. c \in S
    <3> HIDE DEF S
    <3>1. \E i \in S : \A j \in S : i <= j
      BY <1>3, <2>1, LeastNat
    <3> QED
      BY <3>1
  <2>3. Found(word) = c
    BY <1>3 DEF Found
  <2> HIDE DEF c
  <2>4. Found(word) \in 1 .. Len(BUILTINS) /\ BUILTINS[Found(word)] = word
    BY <1>1, <2>2, <2>3
  <2>5. Found(word) # 0 /\ Found(word) \in 0 .. Len(BUILTINS)
    BY <1>1, <2>4
  <2> QED
    BY <2>4, <2>5
<1> QED
  BY <1>2, <1>3

\* The first pointer is the first word, and NULL on a blank line.
LEMMA FirstPointer ==
  ASSUME NInv, pc = "nsh_execcmd"
  PROVE  /\ nsh_cmd[0] = NULL <=> Starts(line) = {}
         /\ nsh_cmd[0] # NULL => CString(nsh_cmd[0]) = FirstWord(line)
<1>1. nsh_cmdnarg = icmd /\ icmd \in Nat
  BY NshAssumption DEF NInv, ControlInv
<1>2. CASE icmd = 0
  <2>1. nsh_cmd[0] = NULL
    BY <1>2 DEF NInv, SplitInv
  <2>2. 0 .. (nsh_cmdnarg - 1) = {}
    BY <1>1, <1>2
  <2>3. Starts(line) = {}
    BY <2>2, ArgvHolds
  <2> QED
    BY <2>1, <2>3
<1>3. CASE icmd # 0
  <2>1. 0 \in 0 .. (nsh_cmdnarg - 1)
    BY <1>1, <1>3
  <2>2. /\ nsh_cmd[0] \in BufIndex /\ nsh_cmd[0] + 1 \in Starts(line)
        /\ CString(nsh_cmd[0]) = WordAt(line, nsh_cmd[0] + 1)
    BY <2>1, ArgvHolds
  <2>3. nsh_cmd[0] \in Nat /\ nsh_cmd[0] # NULL
    BY <2>2, NshAssumption DEF BufIndex, NULL
  <2>4. ASSUME NEW j \in Starts(line)
        PROVE  nsh_cmd[0] + 1 <= j
    <3>1. PICK n \in 0 .. (nsh_cmdnarg - 1) : j = nsh_cmd[n] + 1
      BY ArgvHolds
    <3>2. nsh_cmd[n] \in Nat
      BY ArgvHolds, NshAssumption DEF BufIndex
    <3>3. n = 0 \/ 0 < n
      BY <1>1
    <3>4. n = 0 \/ nsh_cmd[0] < nsh_cmd[n]
      BY <2>1, <3>3, ArgvHolds
    <3> QED
      BY <2>3, <3>1, <3>2, <3>4
  <2>5. (CHOOSE i \in Starts(line) : \A j \in Starts(line) : i <= j) = nsh_cmd[0] + 1
    <3>1. \A i \in Starts(line) : i \in Nat
      BY DEF Starts, NInv, BufferInv
    <3> DEFINE c == CHOOSE i \in Starts(line) : \A j \in Starts(line) : i <= j
    <3>2. c \in Starts(line) /\ \A j \in Starts(line) : c <= j
      BY <2>2, <2>4
    <3> HIDE DEF c
    <3>3. c = nsh_cmd[0] + 1
      BY <2>2, <2>4, <3>1, <3>2
    <3> QED
      BY <3>3 DEF c
  <2> QED
    BY <2>2, <2>3, <2>5 DEF FirstWord
<1> QED
  BY <1>2, <1>3

\* nsh_execcmd compares the first pointer's string with the names.
LEMMA ExecKeepsNInv ==
  ASSUME NInv, nsh_execcmd
  PROVE  NInv'
<1>1. /\ pc = "nsh_execcmd" /\ pc' = "nsh_newline"
      /\ UNCHANGED <<nsh_buf, nsh_cmd, nsh_bufindex, nsh_cmdnarg, ibuf, icmd, line>>
      /\ \/ nsh_cmd[0] = NULL /\ ran' = 0
         \/ nsh_cmd[0] # NULL /\ ran' = Found(CString(nsh_cmd[0]))
  BY DEF nsh_execcmd, locals
<1>2. BufferInv' /\ SplitInv'
  BY <1>1 DEF NInv, BufferInv, SplitInv, Cut, Starts
<1>3. ran' \in 0 .. Len(BUILTINS)
  BY <1>1, FoundIs, NshAssumption
<1>4. ControlInv'
  BY <1>1, <1>3 DEF NInv, ControlInv
<1>5. Starts(line)' = Starts(line) /\ FirstWord(line)' = FirstWord(line)
  BY <1>1 DEF Starts, FirstWord, WordAt
<1>6. RunsNamedBuiltin'
  <2>1. CASE nsh_cmd[0] = NULL
    BY <1>1, <1>5, <2>1, FirstPointer DEF RunsNamedBuiltin
  <2>2. CASE nsh_cmd[0] # NULL
    <3>1. ran' = Found(FirstWord(line)) /\ Starts(line) # {}
      BY <1>1, <2>2, FirstPointer
    <3> QED
      BY <1>5, <3>1, FoundIs DEF RunsNamedBuiltin
  <2> QED
    BY <2>1, <2>2
<1> QED
  BY <1>2, <1>4, <1>6 DEF NInv

-----------------------------------------------------------------------------
\* The invariant holds throughout.
LEMMA NInvHolds ==
  NSpec => []NInv
<1>1. NInit => NInv
  <2> SUFFICES ASSUME NInit
               PROVE  NInv
    OBVIOUS
  <2>1. /\ line \in Seq(TextChars) /\ Len(line) = 0 /\ ibuf = 0 /\ icmd = 0
        /\ nsh_cmd \in [CmdIndex -> BufIndex \cup {NULL}] /\ nsh_bufindex = 0
        /\ nsh_buf = [i \in BufIndex |-> NUL]
    BY DEF NInit
  <2>2. 0 < NSH_BUFSIZE /\ 0 \in CmdIndex
    BY NshAssumption DEF CmdIndex
  <2>3. nsh_buf = Image(line)
    <3>1. \A i \in BufIndex : i >= Len(line)
      BY <2>1, NshAssumption DEF BufIndex
    <3> QED
      BY <2>1, <3>1 DEF Image
  <2>4. BufferInv
    BY <2>1, <2>2, <2>3, EditBuffer
  <2>5. SplitInv
    BY <2>1, <2>2, EditSplit DEF NInit
  <2>6. ControlInv /\ RunsNamedBuiltin
    BY <2>2, NshAssumption DEF NInit, ControlInv, RunsNamedBuiltin
  <2> QED
    BY <2>4, <2>5, <2>6 DEF NInv
<1>2. NInv /\ [NNext]_nshvars => NInv'
  <2> SUFFICES ASSUME NInv, [NNext]_nshvars
               PROVE  NInv'
    OBVIOUS
  <2>1. ASSUME NEW c \in LETTERS \cup {SPACE}, OtherChar(c)
        PROVE  NInv'
    BY <2>1, OtherCharKeepsNInv DEF TextChars
  <2>2. CASE Prompt
    BY <2>2, NewlineKeepsNInv DEF Prompt
  <2>3. CASE UNCHANGED nshvars
    <3>1. /\ UNCHANGED <<nsh_buf, nsh_cmd, nsh_bufindex, nsh_cmdnarg>>
          /\ UNCHANGED <<pc, ibuf, icmd, line, ran>>
      BY <2>3 DEF nshvars, locals
    <3>2. Starts(line)' = Starts(line) /\ FirstWord(line)' = FirstWord(line)
      BY <3>1 DEF Starts, FirstWord, WordAt
    <3>3. BufferInv'
      BY <3>1 DEF NInv, BufferInv, Cut
    <3>4. SplitInv'
      BY <3>1, <3>2 DEF NInv, SplitInv
    <3>5. ControlInv' /\ RunsNamedBuiltin'
      BY <3>1, <3>2 DEF NInv, ControlInv, RunsNamedBuiltin
    <3> QED
      BY <3>3, <3>4, <3>5 DEF NInv
  <2> QED
    BY <2>1, <2>2, <2>3, BackspaceKeepsNInv, TabulationKeepsNInv, NewLineKeepsNInv,
       CreateWordKeepsNInv, CreateSkipKeepsNInv, CreateDoneKeepsNInv, ExecKeepsNInv
       DEF NNext
<1> QED
  BY <1>1, <1>2, PTL DEF NSpec

\* The editor, the in-place split and the dispatch stay within nsh_buf and
\* nsh_cmd: the split needs no bound of its own, since a line of NSH_BUFSIZE
\* bytes has at most NSH_BUFSIZE / 2 words.
THEOREM IndicesStayInside ==
  NSpec => []NTypeOK
<1>1. NInv => NTypeOK
  <2> SUFFICES ASSUME NInv
               PROVE  NTypeOK
    OBVIOUS
  <2>1. /\ Len(line) \in Nat /\ Len(line) \in BufIndex /\ NSH_BUFSIZE \in Nat
        /\ BufIndex \subseteq Nat
        /\ \A i \in 1 .. Len(line) : line[i] \in TextChars
    BY BufferFacts DEF NInv
  <2>2. nsh_buf \in [BufIndex -> LETTERS \cup {SPACE, NUL}]
    <3>1. nsh_buf = [i \in BufIndex |-> nsh_buf[i]]
      BY DEF NInv, BufferInv
    <3>2. ASSUME NEW i \in BufIndex
          PROVE  nsh_buf[i] \in LETTERS \cup {SPACE, NUL}
      <4>1. i \in Nat /\ (i >= Len(line) \/ i + 1 \in 1 .. Len(line))
        BY <2>1
      <4>2. nsh_buf[i] = NUL \/ (i + 1 \in 1 .. Len(line) /\ nsh_buf[i] = line[i + 1])
        <5> HIDE DEF Cut
        <5> QED
          BY <4>1 DEF NInv, BufferInv
      <4> QED
        BY <2>1, <4>2 DEF TextChars
    <3> QED
      BY <3>1, <3>2
  <2>3. nsh_bufindex \in BufIndex /\ ibuf \in BufIndex
    BY <2>1 DEF NInv, BufferInv, SplitInv, BufIndex
  <2> QED
    BY <2>2, <2>3 DEF NTypeOK, NInv, SplitInv, ControlInv
<1> QED
  BY <1>1, NInvHolds, PTL

\* While a line is edited the buffer holds what the screen shows, after any mix
\* of typing, erasing and completing.
THEOREM EditorShowsBuffer ==
  NSpec => []BufferIsLine
<1>1. NInv => BufferIsLine
  <2> SUFFICES ASSUME NInv, pc = "edit"
               PROVE  /\ CString(0) = line /\ nsh_bufindex = Len(line)
                      /\ \A i \in BufIndex : i >= nsh_bufindex => nsh_buf[i] = NUL
    BY DEF BufferIsLine
  <2> QED
    BY EditFacts, BufferFacts DEF NInv
<1> QED
  BY <1>1, NInvHolds, PTL

\* What nsh_createcmd leaves for the builtin is the words of the line, in order
\* and each once, whatever nsh_cmd held before.
THEOREM SplitIsRight ==
  NSpec => []ArgvIsLine
<1>1. NInv => ArgvIsLine
  BY ArgvHolds DEF ArgvIsLine
<1> QED
  BY <1>1, NInvHolds, PTL

\* The builtin that runs is the one the first word names; a blank line runs
\* none, though nsh_newline clears only a quarter of the pointers it means to.
THEOREM DispatchIsRight ==
  NSpec => []RunsNamedBuiltin
<1>1. NInv => RunsNamedBuiltin
  BY DEF NInv
<1> QED
  BY <1>1, NInvHolds, PTL

\* A completion turns the line into the name of a builtin it was a prefix of.
THEOREM CompletesToBuiltin ==
  NSpec => CompletionIsBuiltin
<1>1. NInv /\ [NNext]_nshvars =>
        [Tabulation /\ line' # line =>
           IsPrefix(line, line') /\ \E i \in DOMAIN BUILTINS : BUILTINS[i] = line']_nshvars
  BY TabulationIs DEF Completion
<1> QED
  BY <1>1, NInvHolds, PTL DEF NSpec, CompletionIsBuiltin
=============================================================================
