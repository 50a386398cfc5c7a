-------------------------------- MODULE Nsh --------------------------------
(***************************************************************************)
(* The shell, kernel/nsh/nsh.c: its line editor, the in-place split of the *)
(* line into words and the dispatch to a builtin.  The split takes a step  *)
(* for each turn of its outer loop.  What a builtin does is not part of    *)
(* this module.                                                            *)
(*                                                                         *)
(* A pointer into nsh_buf is an index, and NULL is -1; NUL is the byte 0.  *)
(* The loop of nsh_execcmd also compares with the NULL that ends the table *)
(* of builtins, that is with the bytes at address 0, the start of the      *)
(* interrupt table: no line that can be typed equals them.                 *)
(***************************************************************************)
EXTENDS Integers, Sequences, SequencesExt

CONSTANTS NSH_BUFSIZE,  \* bytes of nsh_buf (1024)
          LETTERS,      \* the characters words are made of
          SPACE, NUL,
          BUILTINS      \* the names of the builtins, in table order

ASSUME NshAssumption ==
  /\ NSH_BUFSIZE \in Nat /\ NSH_BUFSIZE >= 8
  /\ SPACE \notin LETTERS /\ NUL \notin LETTERS /\ SPACE # NUL
  /\ BUILTINS \in Seq(Seq(LETTERS))
  /\ \A i \in DOMAIN BUILTINS : Len(BUILTINS[i]) \in 1 .. (NSH_BUFSIZE - 1)

BufIndex == 0 .. (NSH_BUFSIZE - 1)
CmdIndex == 0 .. (NSH_BUFSIZE \div 2)
NULL == -1
\* memset clears NSH_BUFSIZE / 2 bytes of nsh_cmd, whose elements have four.
ClearedCmds == 0 .. ((NSH_BUFSIZE \div 2) \div 4 - 1)

VARIABLES nsh_buf, nsh_cmd, nsh_bufindex, nsh_cmdnarg,
          pc,          \* "edit", or the function nsh_addchar has called
          ibuf, icmd,  \* locals of nsh_createcmd
          line,        \* what stands on the screen after the prompt
          ran          \* the builtin the line has run, 0 for none

locals == <<ibuf, icmd>>
nshvars == <<nsh_buf, nsh_cmd, nsh_bufindex, nsh_cmdnarg, pc, locals, line, ran>>

NInit ==
  /\ nsh_buf = [i \in BufIndex |-> NUL]
  /\ nsh_cmd = [i \in CmdIndex |-> NULL]
  /\ nsh_bufindex = 0 /\ nsh_cmdnarg = 0
  /\ pc = "edit"
  /\ ibuf = 0 /\ icmd = 0
  /\ line = <<>>
  /\ ran = 0

-----------------------------------------------------------------------------
(***************************************************************************)
(* nsh_addchar                                                             *)
(***************************************************************************)

\* Variant with a fault: no byte is kept for the NUL.
OtherCharFull(c) ==
  /\ pc = "edit"
  /\ nsh_bufindex < NSH_BUFSIZE
  /\ nsh_buf' = [nsh_buf EXCEPT ![nsh_bufindex] = c]
  /\ nsh_bufindex' = nsh_bufindex + 1
  /\ line' = Append(line, c)
  /\ UNCHANGED <<nsh_cmd, nsh_cmdnarg, pc, locals, ran>>

\* A full buffer takes no more.
OtherChar(c) ==
  /\ pc = "edit"
  /\ nsh_bufindex < NSH_BUFSIZE - 1
  /\ nsh_buf' = [nsh_buf EXCEPT ![nsh_bufindex] = c]
  /\ nsh_bufindex' = nsh_bufindex + 1
  /\ line' = Append(line, c)
  /\ UNCHANGED <<nsh_cmd, nsh_cmdnarg, pc, locals, ran>>

\* Variant with a fault: the character stays in the buffer.
BackspaceKeepsChar ==
  /\ pc = "edit" /\ nsh_bufindex > 0
  /\ nsh_bufindex' = nsh_bufindex - 1
  /\ line' = Front(line)
  /\ UNCHANGED <<nsh_buf, nsh_cmd, nsh_cmdnarg, pc, locals, ran>>

Backspace ==
  /\ pc = "edit" /\ nsh_bufindex > 0
  /\ nsh_bufindex' = nsh_bufindex - 1
  /\ nsh_buf' = [nsh_buf EXCEPT ![nsh_bufindex - 1] = NUL]
  /\ line' = Front(line)
  /\ UNCHANGED <<nsh_cmd, nsh_cmdnarg, pc, locals, ran>>

\* The string at p.
CString(p) ==
  LET ends == {i \in BufIndex : i >= p /\ nsh_buf[i] = NUL}
      end == CHOOSE i \in ends : \A j \in ends : i <= j
  IN  [i \in 1 .. (end - p) |-> nsh_buf[p + i - 1]]

\* Variant with a fault: a line that is no prefix is completed as well.
CompleteAny(text, name) ==
  IF Len(text) < Len(name) THEN text \o SubSeq(name, Len(text) + 1, Len(name))
                           ELSE text
\* A builtin whose name begins with the line completes it.
Complete(text, name) == IF IsStrictPrefix(text, name) THEN name ELSE text

\* What the loop over the builtins makes of the line.
Completed(text) ==
  LET after[i \in 0 .. Len(BUILTINS)] ==
        IF i = 0 THEN text ELSE Complete(after[i - 1], BUILTINS[i])
  IN  after[Len(BUILTINS)]

\* The rest of the name is printed whole and appended while there is room.
Tabulation ==
  LET text == CString(0)
      rest == SubSeq(Completed(text), Len(text) + 1, Len(Completed(text)))
      room == NSH_BUFSIZE - nsh_bufindex
      n == IF Len(rest) < room THEN Len(rest) ELSE room
  IN  /\ pc = "edit" /\ nsh_bufindex # 0
      /\ nsh_buf' = [i \in BufIndex |->
                       IF nsh_bufindex <= i /\ i < nsh_bufindex + n
                       THEN rest[i - nsh_bufindex + 1] ELSE nsh_buf[i]]
      /\ nsh_bufindex' = nsh_bufindex + n
      /\ line' = line \o rest
      /\ UNCHANGED <<nsh_cmd, nsh_cmdnarg, pc, locals, ran>>

\* nsh_newline, when nothing was typed or the builtin has returned.
nsh_newline ==
  /\ nsh_buf' = [i \in BufIndex |-> NUL]
  /\ nsh_cmd' = [i \in CmdIndex |-> IF i \in ClearedCmds THEN NULL ELSE nsh_cmd[i]]
  /\ nsh_bufindex' = 0
  /\ nsh_cmdnarg' = 0
  /\ pc' = "edit"
  /\ line' = <<>>
  /\ ibuf' = 0 /\ icmd' = 0
  /\ ran' = 0

NewLine ==
  /\ pc = "edit"
  /\ \/ nsh_bufindex = 0 /\ nsh_newline
     \/ /\ nsh_bufindex # 0
        /\ pc' = "nsh_createcmd"
        /\ UNCHANGED <<nsh_buf, nsh_cmd, nsh_bufindex, nsh_cmdnarg, locals, line, ran>>

-----------------------------------------------------------------------------
(***************************************************************************)
(* nsh_createcmd and nsh_execcmd                                           *)
(***************************************************************************)

\* Where an inner loop that starts at i stops.
StopAt(i, chars) ==
  LET S == {j \in BufIndex : j >= i /\ nsh_buf[j] \in chars}
  IN  CHOOSE j \in S : \A m \in S : j <= m

CreateWord ==
  /\ pc = "nsh_createcmd" /\ ibuf < nsh_bufindex
  /\ nsh_buf[ibuf] \notin {SPACE, NUL}
  /\ nsh_cmd' = [nsh_cmd EXCEPT ![icmd] = ibuf]
  /\ icmd' = icmd + 1
  /\ ibuf' = StopAt(ibuf, {SPACE, NUL})
  /\ UNCHANGED <<nsh_buf, nsh_bufindex, nsh_cmdnarg, pc, line, ran>>

\* Variants with a fault: the space is not turned into a NUL; the index stays.
CreateSkipKeeps ==
  /\ pc = "nsh_createcmd" /\ ibuf < nsh_bufindex
  /\ nsh_buf[ibuf] = SPACE
  /\ ibuf' = StopAt(ibuf + 1, LETTERS \cup {NUL})
  /\ UNCHANGED <<nsh_buf, nsh_cmd, nsh_bufindex, nsh_cmdnarg, pc, icmd, line, ran>>
CreateSkipStays ==
  /\ pc = "nsh_createcmd" /\ ibuf < nsh_bufindex
  /\ nsh_buf[ibuf] = SPACE
  /\ nsh_buf' = [nsh_buf EXCEPT ![ibuf] = NUL]
  /\ UNCHANGED <<nsh_cmd, nsh_bufindex, nsh_cmdnarg, pc, locals, line, ran>>

CreateSkip ==
  /\ pc = "nsh_createcmd" /\ ibuf < nsh_bufindex
  /\ nsh_buf[ibuf] = SPACE
  /\ nsh_buf' = [nsh_buf EXCEPT ![ibuf] = NUL]
  /\ ibuf' = StopAt(ibuf + 1, LETTERS \cup {NUL})
  /\ UNCHANGED <<nsh_cmd, nsh_bufindex, nsh_cmdnarg, pc, icmd, line, ran>>

CreateDone ==
  /\ pc = "nsh_createcmd" /\ ibuf >= nsh_bufindex
  /\ nsh_cmdnarg' = icmd
  /\ pc' = "nsh_execcmd"
  /\ UNCHANGED <<nsh_buf, nsh_cmd, nsh_bufindex, locals, line, ran>>

\* Variant with a fault: the last builtin is not looked at.
FoundSkipsLast(word) ==
  LET S == {i \in 1 .. (Len(BUILTINS) - 1) : BUILTINS[i] = word}
  IN  IF S = {} THEN 0 ELSE CHOOSE i \in S : \A j \in S : i <= j
\* The first builtin with that name.
Found(word) ==
  LET S == {i \in DOMAIN BUILTINS : BUILTINS[i] = word}
  IN  IF S = {} THEN 0 ELSE CHOOSE i \in S : \A j \in S : i <= j

nsh_execcmd ==
  /\ pc = "nsh_execcmd"
  /\ \/ nsh_cmd[0] = NULL /\ ran' = 0
     \/ nsh_cmd[0] # NULL /\ ran' = Found(CString(nsh_cmd[0]))
  /\ pc' = "nsh_newline"
  /\ UNCHANGED <<nsh_buf, nsh_cmd, nsh_bufindex, nsh_cmdnarg, locals, line>>

Prompt == pc = "nsh_newline" /\ nsh_newline

createcmd == CreateWord \/ CreateSkip \/ CreateDone

NNext ==
  \/ \E c \in LETTERS \cup {SPACE} : OtherChar(c)
  \/ Backspace \/ Tabulation \/ NewLine
  \/ CreateWord \/ CreateSkip \/ CreateDone
  \/ nsh_execcmd \/ Prompt

\* The kernel's thread goes on with a line once Enter was typed.
NSpec == NInit /\ [][NNext]_nshvars /\ WF_nshvars(createcmd \/ nsh_execcmd \/ Prompt)

-----------------------------------------------------------------------------
\* The indices stay in their arrays, with a byte left for the NUL.
NTypeOK ==
  /\ nsh_buf \in [BufIndex -> LETTERS \cup {SPACE, NUL}]
  /\ nsh_cmd \in [CmdIndex -> BufIndex \cup {NULL}]
  /\ nsh_bufindex \in BufIndex /\ nsh_cmdnarg \in 0 .. (NSH_BUFSIZE \div 2)
  /\ pc \in {"edit", "nsh_createcmd", "nsh_execcmd", "nsh_newline"}
  /\ ibuf \in BufIndex /\ icmd \in CmdIndex
  /\ ran \in 0 .. Len(BUILTINS)

\* While a line is edited the buffer holds what the screen shows, followed by
\* NULs only, after any mix of typing, erasing and completing.
BufferIsLine ==
  pc = "edit" =>
    /\ CString(0) = line /\ nsh_bufindex = Len(line)
    /\ \A i \in BufIndex : i >= nsh_bufindex => nsh_buf[i] = NUL

\* The words of a line, the reference for nsh_createcmd.
Starts(s) == {i \in DOMAIN s : s[i] # SPACE /\ (i = 1 \/ s[i - 1] = SPACE)}
WordAt(s, i) ==
  LET ends == {j \in i .. Len(s) : j = Len(s) \/ s[j + 1] = SPACE}
  IN  SubSeq(s, i, CHOOSE j \in ends : \A m \in ends : j <= m)
FirstWord(s) == WordAt(s, CHOOSE i \in Starts(s) : \A j \in Starts(s) : i <= j)

\* What nsh_execcmd hands to a builtin is the words of the line, in order and
\* each once, whatever nsh_cmd held before and wherever the spaces were.
ArgvIsLine ==
  pc = "nsh_execcmd" =>
    /\ {nsh_cmd[n] + 1 : n \in 0 .. (nsh_cmdnarg - 1)} = Starts(line)
    /\ \A m, n \in 0 .. (nsh_cmdnarg - 1) : m < n => nsh_cmd[m] < nsh_cmd[n]
    /\ \A n \in 0 .. (nsh_cmdnarg - 1) :
         CString(nsh_cmd[n]) = WordAt(line, nsh_cmd[n] + 1)

\* The builtin that runs is the one the first word names, and no stale pointer
\* runs one for a blank line.
RunsNamedBuiltin ==
  pc = "nsh_newline" =>
    \/ ran # 0 /\ Starts(line) # {} /\ BUILTINS[ran] = FirstWord(line)
    \/ /\ ran = 0
       /\ Starts(line) # {} =>
            \A i \in DOMAIN BUILTINS : BUILTINS[i] # FirstWord(line)

\* A completion turns the line into the name of a builtin it was a prefix of.
CompletionIsBuiltin ==
  [][Tabulation /\ line' # line =>
       IsPrefix(line, line') /\ \E i \in DOMAIN BUILTINS : BUILTINS[i] = line']_nshvars

\* nsh_createcmd and nsh_execcmd end, and the prompt comes back.
PromptReturns == (pc # "edit") ~> (pc = "edit")
=============================================================================
