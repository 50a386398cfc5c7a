------------------------------ MODULE Builtins ------------------------------
(***************************************************************************)
(* The builtins color, hexdump and info of the shell: how they read their  *)
(* arguments with the number parsers, walk over memory, and change the     *)
(* colour of the current screen and give it back.  A word of the command   *)
(* line is a sequence of characters, a keyword a sequence of one.          *)
(***************************************************************************)
EXTENDS Strtol

CONSTANTS COMMANDS,     \* the command lines run: sequences of words
          COLORS,       \* the colours a screen may have when one is run
          MEMORY,       \* the bytes at the addresses that can be read
          BITMAPS,      \* the bytes of each order's bitmap
          NBYTES_LINE   \* bytes in a line of hexdump, 16 in the kernel

\* The shell runs a builtin that the first word names; a NUL ends a word.
ASSUME BuiltinsAssumption ==
  /\ \A words \in COMMANDS :
       /\ words \in Seq(Seq(STRING \ {NUL})) /\ words # <<>>
       /\ words[1] \in {<<"color">>, <<"hexdump">>, <<"info">>}
  /\ BITMAPS \in Seq(Seq(0 .. 255))
  /\ DOMAIN MEMORY \subseteq 0 .. ULONG_MAX
  /\ MEMORY \in [DOMAIN MEMORY -> 0 .. 255]
  /\ NBYTES_LINE \in Nat \ {0}

KPM_NORDERS == Len(BITMAPS)

\* The addresses boot_init maps: 4 MiB at 0 and at KERNEL_VIRT_OFFSET, no more.
MAPPED == DOMAIN MEMORY

\* The colours, in the order of enum sb_color.
Colours == <<"black", "blue", "green", "cyan", "red", "magenta", "brown",
             "lightgrey", "darkgrey", "lightblue", "lightgreen", "lightcyan",
             "lightred", "lightmagenta", "lightbrown", "white">>
Colour(name) == (CHOOSE i \in 1 .. 16 : Colours[i] = name) - 1
SB_DFL_COLOR == Colour("black") * 16 + Colour("white")

\* The colour byte with another foreground or background.
sb_set_fg(color, fg) == (color \div 16) * 16 + (fg % 16)
sb_set_bg(color, bg) == (bg % 16) * 16 + (color % 16)

VARIABLES argv,    \* the command line, or <<>>
          bpc,     \* where the builtin is
          color,   \* of the current screen
          before,  \* its colour when the builtin was called
          addr,    \* hexdump: the address, info: the order
          left,    \* bytes still to be shown
          shown,   \* the cells put on the screen
          status   \* the return value

builtinvars == <<argv, bpc, color, before, addr, left, shown, status>>
allvars == <<parsevars, builtinvars>>

BInit ==
  /\ PInit
  /\ argv = <<>> /\ bpc = "idle" /\ color = SB_DFL_COLOR /\ before = SB_DFL_COLOR
  /\ addr = 0 /\ left = 0 /\ shown = <<>> /\ status = 0

argc == Len(argv)
Is(i, word) == argv[i] = <<word>>

\* nsh_run calls the builtin; the screen may have any colour.
Run(words, col) ==
  /\ bpc = "idle"
  /\ argv' = words
  /\ bpc' = words[1][1]
  /\ color' = col /\ before' = col
  /\ addr' = 0 /\ left' = 0 /\ shown' = <<>> /\ status' = 0
  /\ UNCHANGED parsevars

Return(st) ==
  /\ bpc' = "returned"
  /\ status' = st
  /\ UNCHANGED <<argv, before>>

-----------------------------------------------------------------------------
IsColour(word) == \E i \in 1 .. 16 : <<Colours[i]>> = word

color_builtin ==
  /\ bpc = "color"
  /\ LET reset == argc >= 2 /\ Is(2, "reset")
         set == argc >= 3 /\ ~reset /\ (Is(2, "fg") \/ Is(2, "bg")) /\ IsColour(argv[3])
     IN  /\ Return(IF set THEN 0 ELSE -1)
         /\ color' = CASE reset -> SB_DFL_COLOR
                       [] set /\ Is(2, "fg") -> sb_set_fg(color, Colour(argv[3][1]))
                       [] set /\ Is(2, "bg") -> sb_set_bg(color, Colour(argv[3][1]))
                       [] OTHER -> color
  /\ UNCHANGED <<parsevars, addr, left, shown>>

-----------------------------------------------------------------------------
\* A builtin calls a parser on one of its words, in base 0.
ParseWord(fn, i, at) ==
  /\ StrtolCall([fn |-> fn, str |-> argv[i], base |-> 0])
  /\ bpc' = at

Parsing == bpc \in {"addr", "size", "order"}
ParseStep == Parsing /\ StrtolStep /\ UNCHANGED builtinvars

\* The parser stopped before the end of the word.
Malformed == At(result.endptr) # NUL

Usage ==
  /\ (bpc = "hexdump" /\ argc < 3) \/ (bpc = "info" /\ argc < 2)
  /\ Return(-1)
  /\ UNCHANGED <<parsevars, color, addr, left, shown>>

HexdumpAddress ==
  /\ bpc = "hexdump" /\ argc >= 3
  /\ ParseWord(strtoul, 2, "addr")
  /\ UNCHANGED <<argv, color, before, addr, left, shown, status>>

HexdumpSize ==
  /\ bpc = "addr" /\ spc = "done" /\ ~Malformed
  /\ addr' = result.val
  /\ ParseWord(strtoul, 3, "size")
  /\ UNCHANGED <<argv, color, before, left, shown, status>>

\* A word that is no number.
NotANumber ==
  /\ Parsing /\ spc = "done" /\ Malformed
  /\ StrtolReturn
  /\ Return(-1)
  /\ UNCHANGED <<color, addr, left, shown>>

\* hx_print up to its loop.
hx_print ==
  /\ bpc = "size" /\ spc = "done" /\ ~Malformed
  /\ left' = result.val
  /\ color' = sb_set_fg(SB_DFL_COLOR, Colour("white"))
  /\ bpc' = "lines"
  /\ StrtolReturn
  /\ UNCHANGED <<argv, before, addr, shown, status>>

\* Byte i of the line that begins at addr, and a cell of it: the byte in hex.  The
\* column of characters shows the same bytes once more.
LineAddr(i) == (addr + i - 1) % (ULONG_MAX + 1)
HexCell(at) == [at |-> at, hex |-> MEMORY[at]]

hx_printline(nbytes) == [i \in 1 .. nbytes |-> HexCell(LineAddr(i))]
Readable(nbytes) == \A i \in 1 .. nbytes : LineAddr(i) \in MAPPED

FullLine ==
  /\ bpc = "lines" /\ left >= NBYTES_LINE /\ Readable(NBYTES_LINE)
  /\ shown' = shown \o hx_printline(NBYTES_LINE)
  /\ color' = sb_set_fg(color, Colour("white"))
  /\ addr' = (addr + NBYTES_LINE) % (ULONG_MAX + 1)
  /\ left' = left - NBYTES_LINE
  /\ UNCHANGED <<parsevars, argv, bpc, before, status>>

\* Variant with a fault: a last line that is not full is left out.
RestLineDropped ==
  /\ bpc = "lines" /\ left < NBYTES_LINE /\ Readable(left)
  /\ color' = before
  /\ Return(0)
  /\ UNCHANGED <<parsevars, addr, left, shown>>

\* The rest, and the colour the screen had.
RestLine ==
  /\ bpc = "lines" /\ left < NBYTES_LINE /\ Readable(left)
  /\ shown' = shown \o hx_printline(left)
  /\ color' = before
  /\ Return(0)
  /\ UNCHANGED <<parsevars, addr, left>>

\* A byte of the line is at no mapped address.  idt_init sets no gate for the
\* page fault; double_fault_handler prints and halts with interrupts off.
LineFaults ==
  /\ bpc = "lines"
  /\ \E n \in 0 .. NBYTES_LINE - 1 :
       /\ n < left /\ Readable(n) /\ LineAddr(n + 1) \notin MAPPED
       /\ shown' = shown \o hx_printline(n)
  /\ bpc' = "halted"
  /\ UNCHANGED <<parsevars, argv, color, before, addr, left, status>>

-----------------------------------------------------------------------------
\* info of what only prints: the descriptor tables, the stack, the registers
\* and, without an order, the sizes the allocator keeps.
InfoPrints ==
  /\ bpc = "info" /\ argc >= 2 /\ ~(Is(2, "buddy") /\ argc > 2)
  /\ Return(IF argv[2][1] \in {"gdt", "stack", "buddy", "idt", "registers"} THEN 0 ELSE -1)
  /\ UNCHANGED <<parsevars, color, addr, left, shown>>

InfoOrder ==
  /\ bpc = "info" /\ argc > 2 /\ Is(2, "buddy")
  /\ ParseWord(strtol, 3, "order")
  /\ UNCHANGED <<argv, color, before, addr, left, shown, status>>

info_buddy ==
  /\ bpc = "order" /\ spc = "done" /\ ~Malformed
  /\ StrtolReturn
  /\ UNCHANGED <<argv, color, before, shown>>
  /\ \/ /\ result.val < 0 \/ result.val >= KPM_NORDERS
        /\ bpc' = "returned" /\ status' = -1
        /\ UNCHANGED <<addr, left>>
     \/ /\ result.val \in 0 .. KPM_NORDERS - 1
        /\ addr' = result.val
        /\ left' = Len(BITMAPS[result.val + 1])
        /\ bpc' = "bitmap"
        /\ UNCHANGED status

\* A byte of the bitmap.
BitmapCell(order, i) == [at |-> i, val |-> BITMAPS[order + 1][i]]

\* A round of the loop, which sets the colour back.
info_buddy_print_order ==
  /\ bpc = "bitmap"
  /\ IF left = 0 THEN Return(0) /\ UNCHANGED <<left, shown>>
     ELSE /\ shown' = Append(shown, BitmapCell(addr, Len(shown) + 1))
          /\ left' = left - 1
          /\ UNCHANGED <<argv, bpc, before, status>>
  /\ color' = before
  /\ UNCHANGED <<parsevars, addr>>

-----------------------------------------------------------------------------
\* No builtin runs.
NoBuiltin ==
  /\ argv' = <<>> /\ bpc' = "idle" /\ color' = SB_DFL_COLOR /\ before' = SB_DFL_COLOR
  /\ addr' = 0 /\ left' = 0 /\ shown' = <<>> /\ status' = 0
  /\ UNCHANGED parsevars

\* The shell takes the status; the builtin's locals are gone.
Forget == bpc = "returned" /\ NoBuiltin

\* The user starts the halted machine again.
Reboot == bpc = "halted" /\ NoBuiltin

BuiltinStep ==
  \/ color_builtin \/ Usage \/ ParseStep \/ NotANumber
  \/ HexdumpAddress \/ HexdumpSize \/ hx_print \/ FullLine \/ RestLine \/ LineFaults
  \/ InfoPrints \/ InfoOrder \/ info_buddy \/ info_buddy_print_order

\* The builtins on their own, one after another.
BuiltinNext ==
  \/ \E words \in COMMANDS, col \in COLORS : Run(words, col)
  \/ BuiltinStep
  \/ Forget
  \/ Reboot

BuiltinSpec == BInit /\ [][BuiltinNext]_allvars

\* What the words of a command say.
Word(fn, i) == Numeral([fn |-> fn, str |-> argv[i], base |-> 0])
WellFormed(fn, i) == Word(fn, i).endptr = Len(argv[i]) + 1
InRange(n) == n \in 0 .. KPM_NORDERS - 1

\* The address of byte i of those a hexdump asks for, and what it shows of it.
DumpAddr(i) == (Word(strtoul, 2).val + i - 1) % (ULONG_MAX + 1)
BytesRight ==
  \A i \in 1 .. Len(shown) :
    DumpAddr(i) \in MAPPED /\ shown[i] = [at |-> DumpAddr(i), hex |-> MEMORY[DumpAddr(i)]]

\* hexdump shows the bytes from its address on, as many as its size says, each
\* once and in order, whatever the size leaves for the last line and where the
\* addresses wrap; info shows the bitmap of the order it was given; both show
\* nothing when a word is not a number or out of range, and both give the screen
\* its colour back.  hexdump halts the machine exactly when one of the bytes is at
\* no mapped address, with those before it shown.
DumpsWhatWasAsked ==
  LET dump == Is(1, "hexdump") /\ argc >= 3
      gooddump == dump /\ WellFormed(strtoul, 2) /\ WellFormed(strtoul, 3)
      bitmap == Is(1, "info") /\ argc >= 3 /\ Is(2, "buddy")
      goodbitmap == bitmap /\ WellFormed(strtol, 3) /\ InRange(Word(strtol, 3).val)
      bits == BITMAPS[Word(strtol, 3).val + 1]
  IN  /\ bpc = "returned" =>
           /\ ~Is(1, "color") => color = before
           /\ dump \/ bitmap => status = IF gooddump \/ goodbitmap THEN 0 ELSE -1
           /\ gooddump => Len(shown) = Word(strtoul, 3).val /\ BytesRight
           /\ goodbitmap =>
                /\ Len(shown) = Len(bits)
                /\ \A i \in 1 .. Len(shown) : shown[i] = [at |-> i, val |-> bits[i]]
           /\ ~gooddump /\ ~goodbitmap => shown = <<>>
      /\ bpc = "halted" =>
           /\ gooddump /\ Len(shown) < Word(strtoul, 3).val /\ BytesRight
           /\ DumpAddr(Len(shown) + 1) \notin MAPPED
=============================================================================
