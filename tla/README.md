# nulix: a TLA+ verification project

nulix is a small 32-bit x86 kernel. It boots from multiboot, sets up its
descriptor tables, a buddy allocator over the physical memory, two text screens
and a keyboard driver, and then runs a shell, `nsh`, in the kernel's only thread.
This directory holds TLA+ models of the parts that carry its logic, the TLC runs
that check them on small instances and the TLAPS proofs that carry the most
important properties over to every instance.

`tlc -config X.cfg M` checks a run; `tlapm M.tla` checks the proofs of a module.

## 1. Inventory

| component | state | operations | what is hard | what makes it correct |
|---|---|---|---|---|
| physical memory manager, `kernel/memory/kpm.c` | one bitmap of enabled frames, eleven bitmaps of blocks, one per order | `kpm_init`, `kpm_enable`, `kpm_disable`, `kpm_alloc`, `kpm_free` | redundant bitmaps, 32-bit arithmetic, ragged memory maps, arbitrary chunks freed | orders agree, no frame handed out twice, reserved frames never, best block first |
| `alloc`, `free` builtins | the chunks the user was told of | `alloc_loop` over `kpm_alloc`, `kpm_free` | failure in the middle of a loop, termination | no frame lost or double-booked; gives up only when nothing is left |
| screen buffers, `kernel/screenbuf.c` | per screen: circular buffer, top, viewport, cursor, loaded; the VGA memory and the cursor registers | print, erase, scroll, clear, load, unload | wrap-around, write-through to the display, viewport behind the cursor | display mirrors the buffer; the buffer is the last lines |
| screen builtins, `builtins/utils.c` | `sb_current` | `clear`, `next`, `prev` | switching in any state | one buffer is loaded, the current one |
| keyboard, `kernel/keyboard` | prefix flag, modifiers, layout | `KBD_getevent`, `KBD_getchar`, `KBD_setkeymap` | multi-byte codes, lost bytes, bytes read late | events, modifiers and characters follow the keys |
| shell, `kernel/nsh/nsh.c` | line buffer, argument pointers, indices | edit, complete, split, dispatch | in-place split, stale pointers, full buffer | argv is the line's words; the named builtin runs |
| real time clock, `drivers/rtc/rtc.c` | none of its own; reads the chip's registers | `rtc_read_time`, `rtc_get_timestamp` | the chip changes the registers meanwhile | the time returned is that of one moment |
| spinlock, `kernel/spinlock.c` | the lock word | `kspin_init`, `kspin_lock`, `kspin_trylock`, `kspin_drop` | CPUs interleave | mutual exclusion, no lost update |
| interrupts, `idt.c`, `isr.c`, `pic_8259.c`, builtin `interrupt` | requests, masks and in-service bits of two controllers, descriptor table, interrupt flag, handlers on the stack | initialisation, end of interrupt, handlers | requests during boot, nesting after `sti`, a saved word below the stack pointer | interrupted code goes on as it was; every request has a gate and is served |
| number parsers, `lib/std` | none | `strtol`, `strtoll`, `strtoul`, `strtoull`, `atoi` | saturation with an accumulator of the result's own width | the number the string begins with, or the nearest end of the type |
| `kprintf`, `print.c` | none | `vsnprintf`, `snprintnum`, `snprintf`, `kprintf` | digits written from the last to the first, at the end of the buffer | a prefix of the expansion, nothing behind the size |
| strings and memory, `lib/string` | none | `str*`, `mem*` | overlaps, counts at zero, missing NULs | those the kernel relies on agree with the manual; where others do not, section 4 |
| other builtins | the colour of the screen | `color`, `hexdump`, `info` | last line not full, addresses that wrap or are not mapped, the colour changed in between | every byte shown once, the colour given back |
| ports, GDT, boot, paging, `power`, `shell.c` | none of their own | straight-line code | | not modelled, see section 8 |

How they interact. `kernel_main` calls `kpm_init`, then `sb_init` and `sb_load`,
then `nsh`, which never returns. The shell polls `KBD_geteventbytype`, asks
`KBD_getchar` for the character and either edits its line (`nsh_addchar`, which
echoes through `kprintf` to `sb_putchar`) or scrolls (`nsh_shortcut`). Enter runs
a builtin, and that is the only way `kpm_alloc`, `kpm_free`, `sb_clear`, screen
switches, keymap switches and the clock are reached. The
timer and keyboard handlers only acknowledge their interrupt, and the exception
handlers print: interrupts share the stack and the segments with the code they
interrupt, and nothing else. Concurrency is
therefore with devices (the keyboard's queue, the clock chip, the interrupt
controllers), and between CPUs for the spinlock, which no code of the kernel
calls yet. Everything prints through `kprintf`, and `alloc`, `free`, `hexdump`
and `info` read their arguments with the number parsers: an address that one of
them prints comes back as an argument of another.

The hazards these parts are exposed to, each at its line and with the properties
that would catch it, are listed in `PROJECT.json`.

## 2. Modules

| module | models | composed of |
|---|---|---|
| `Kpm` | `kpm.c` | |
| `FrameAllocator` | abstract: grants and releases of disjoint sets of frames | |
| `AllocBuiltin` | `alloc.c`, `free.c` over the manager | extends `Kpm`, implements `FrameAllocator` |
| `Screenbuf` | `screenbuf.c`, `utils.c`, the shell's echo and scroll keys | implements `Scrollback` |
| `Scrollback` | abstract: queues of the last `SB_HEIGHT` lines | |
| `Keyboard` | `keyboard.c`, `scancodes.c`, the keymaps, `keymap.c`, and the keyboard | |
| `Nsh` | `nsh.c`: editor, completion, split, dispatch | |
| `Rtc` | `rtc.c` and the clock chip | |
| `Spinlock` | `spinlock.c` and a client | |
| `Interrupts` | `idt.c`, `isr.c`, `pic_8259.c`, `interrupt.c`, the macros of `idt_internal.h`, and the CPU | |
| `Strtol` | the number parsers | |
| `Builtins` | `color.c`, `hexdump.c`, `info.c`, the colour setters | extends `Strtol` |
| `Kprintf` | `print.c` | |
| `Str` | `str.c`, `mem.c` | |
| `Calls` | the last four and the user who types what was printed | extends `Builtins`, `Kprintf`, `Str` |
| `LevelInduction`, `KpmProofs`, `ConcurrencyProofs`, `StrtolProofs`, `RtcProofs`, `NshProofs`, `ScreenbufProofs`, `KprintfProofs` | proofs | each extends the module it is about; `KpmProofs` also covers `AllocBuiltin`, `StrtolProofs` also `Builtins`, `ConcurrencyProofs` covers `Interrupts`, `Spinlock` and `Keyboard` |
| `MC*` | instances for TLC | `MCProgress` puts `AllocBuiltin`, `Interrupts` and `Spinlock` side by side, `MCTerminal` does so with `Screenbuf` and `Keyboard` |

Definitions have the names of the functions they translate. A definition whose
comment begins "Variant with a fault" is not part of any specification: put in
the place of the definition that follows it, it is a plausible bug, and
the property named beside it in `PROJECT.json` then fails.

**Kpm.** Bitmaps are sets: `enabled` the frames whose bit of `enabled_frames` is
1, `free[n]` the blocks of order n whose bit is 0. `kpm_init` takes one step per
memory map entry and per `kpm_disable`; every other operation is one step, the
update of the higher orders included. Arithmetic on addresses is modulo
`ADDR_SPACE`, the 2^32 of the code. The macros that set and clear bits check no
index, and neither does the model: a write that does not stay in the bitmaps
raises `oob`, after which nothing more is said, because what it hit is unknown.
`OnlyStraysEscape` names the calls that can do it. Addresses are
physical: `SK` and `EK` are the image's bounds after the subtraction of
`KERNEL_VIRT_OFFSET`.

**AllocBuiltin.** `alloc_loop` takes a step per turn. The user frees only chunks
that were printed (`held`); frees of anything else are in `Kpm`'s own `Next`.
`free` reads both numbers back with `strtol`, which saturates at `LONG_MAX`
(`ReadBack`). On a machine with more than 2 GiB a chunk in the upper half is
therefore not released (section 4, item 4); `LowMemory` says that the machine is
not one of those.

**Screenbuf.** Pointers into a buffer are line numbers and an offset. The
operations are functions from a buffer and the display to their new values, as
the code's functions are. `misled` is a history variable: it records that
`sb_diff` was given the viewport that `sb_scroll_down` left before the buffer
and returned a distance a whole buffer too long (section 4). What the code
promises of the display is checked up to that point, and that it does not hold
beyond is a run of its own. `Mirrored` compares what is seen: the cells, and a
cursor exactly when the buffer's own cursor is on display, at its place. `wiped`, another history
variable, tells a `clear` from a loss of lines in the refinement of `Scrollback`.

**Keyboard.** The user's strokes become bytes in a queue which may lose some;
the driver takes one byte per step. `sent`, `lost` and `events` are histories
the properties compare; a byte carries the number of its stroke and its place
among the stroke's bytes, which the driver does not see. Of the code tables a few entries of each kind are kept.

**Nsh.** `nsh_buf` is an array with NULs, pointers are indices. `line` is what
stands on the screen. A completion appends the rest of the name as far as there
is room, as the loop of `nsh.c:169` does. The split takes a step per turn of its
outer loop, on the real buffer.

**Rtc.** The chip raises its update bit, changes the six registers in any order
and drops the bit; the driver reads one register per step, from a chip in BCD or
binary, with 24 or 12 hours. The timestamp is the 32-bit sum of the code, carried
in two halves of 16 bits so that TLC's integers hold every intermediate value.

**Interrupts.** A controller is three sets of lines. The initialisation of the
controllers is two steps, because requests arrive between them; a handler takes
a step for each macro and for its body. `Enter` is the CPU: the frame it pushes
overwrites what lies below the stack pointer, so a handler that is interrupted
between `LOAD_INTERRUPT_STACK` and `RESET_INTERRUPT_STACK` would find garbage in
place of its data segment. The second controller hangs on line 2, which stays
masked.

**Strtol, Builtins, Kprintf, Str, Calls.** `Strtol` scans a character per step,
`Kprintf` writes an item, a zero or a digit per step, `Builtins` shows a line or a
byte per step. Only some addresses are mapped (`MAPPED`): boot maps 4 MiB at two
places, and no gate takes a page fault, so the first byte of a dump that is not
mapped stops the machine (`LineFaults`) until the user starts it again. `Str` writes the loops of the library as recursive operators over
a small memory, each call one step. `Calls` lets one call run at a time, as the
kernel's single thread does, and adds the step in which the user types a printed
address as an argument of `free` or `hexdump`. A parser's type is given by its
largest unsigned value alone.

**Spinlock.** `acquire_or_one` is atomic, every turn of a loop a step. The
client (external, the kernel has none) reads the guarded word in one step and
writes it back incremented in another.

**MCProgress, MCTerminal.** The parts put side by side share no variable. A
behaviour is one part alone (`part`), with the others standing still, so
the states are the sum of the parts' states and the properties of each part are
checked over all of its own behaviours.

## 3. Runs

| run | shows |
|---|---|
| `kpm` | orders agree; free implies enabled; reserved frames never available; on an ordinary map exactly the right frames are enabled after boot; `kpm_alloc` takes the best block; only stray map entries and chunks leave the bitmaps |
| `progress` | `alloc` and `free`: every frame free or in one chunk; the loop ends, delivers, fails only when nothing is left; refinement of `FrameAllocator`. Interrupts: handlers nest only where it is safe; main resumes with its segments, interrupts on and everything acknowledged; every request that gets through has a gate; timer and keyboard are served. Spinlock: mutual exclusion; no lost update; the lock is passed on |
| `terminal` | Screens: display mirrors the buffer; viewport within the history; refinement of `Scrollback`. Keyboard: events, modifiers, characters follow the strokes; resynchronisation after a lost byte |
| `nsh` | buffer is the line; argv is its words; the named builtin runs; completion yields a builtin; the prompt returns |
| `rtc` | no torn time; day of year and 32-bit timestamp right; the read returns |
| `calls` | numbers parsed as spelt, saturated at the ends; `vsnprintf` writes a prefix of the expansion and nothing behind its size; a printed address reads back; the string functions that agree with their manuals do so for all short strings; `hexdump` and `info` show what was asked, as far as it is mapped, and give the colour back |
| `kpm_page_tables`, `kpm_split_memory`, `rtc_twelve_hour`, `alloc_high_memory`, `screenbuf_misled`, `strncmp_tests` | violations, section 4, items 1 to 6 |

Bounds, and why they are enough:

- `kpm`: 16 frames of 4 bytes, four orders, so two blocks of the highest order,
  an address space of 128 bytes so that 32-bit wraps happen. Maps have holes,
  unaligned bases and lengths, overlaps and regions past the end. The chunks
  handed to `kpm_free` include unaligned, empty, partial, reserved and
  out-of-range ones. Each order relates only to the next, so four orders show
  every relation between orders; the proofs remove the bound.
- `progress`, the builtins: 8 frames, three orders, five usable frames in fragments; requests of
  nothing, of a block and a half, and of more than there is.
- `terminal`, the screens: lines of two cells, two on display, four in the buffer, a command
  line of three characters. The first screen is explored completely, with all
  wraps; the second stops (`SecondScreenShort`) when it leaves its second line,
  which is enough to meet the first in every state of it. The proofs remove both
  bounds.
- `terminal`, the keyboard: `MAXKEYS` = 4 strokes of seven keys, a queue of `QUEUE` = 4 bytes,
  `MAXLOST` = 1 lost byte: a modifier held, a key pressed under it and released,
  or a garbled stroke followed by the one it disturbs and one more. The proofs remove these bounds.
- `nsh`: all lines of up to seven bytes over two letters and the space, any
  number of lines in sequence; five argument pointers of which one is cleared.
- `rtc`: windows of two or three seconds at every kind of carry. The ASSUME says
  that no two times of a window have the same seconds, and that a field which
  has changed within the window does not change back, which is what time does
  within a minute: a call that takes a minute or more is outside the model (and
  could return a torn time). The proofs remove the bound on the windows.
- `progress`, the spinlock: three CPUs, four updates; proved for all.
- `progress`, the interrupts: lines 0 (timer, and IRQ 8 of the second controller), 1
  (keyboard) and 4 (masked) and `MAXRAISES` = 4 requests, which nest handlers of
  both lines and an exception on one stack and still leave one pending; the
  proofs remove both bounds for the safety properties.
- `calls`: an `int` and a `long` of 6 bits and a `long long` of 7, so that three
  digits overflow each type; all digit strings of up to three characters with
  and without sign and prefix, in bases 0, 10 and 16, and 2, 8 and 36 for
  `strtol`; buffers of 0 to 9 bytes under formats of up to four items, so that
  the end of the buffer falls on every byte of a number, its padding and its
  prefix; dumps of lines of four bytes at addresses that wrap, and in a memory
  with holes; every memory of
  five cells over two characters and NUL for the string functions, overlapping
  arguments included.

Deadlock is not checked where the system may stop: in `kpm` a behaviour ends when
`oob` is raised, in `progress` `int 8` halts the machine for good, and in
`terminal` the strokes run out.

Fairness. In `progress` each part has its own. `alloc`, and `nsh`: the kernel's single thread keeps executing what it has
started (weak fairness of the running function's steps); the user need not type.
`rtc`: the chip completes an update it began and the driver keeps polling; the
chip need not begin updates, and the windows are finite, so passes agree in the
end because at most a few updates disturb them, as in reality where one happens
per second. Spinlock: each CPU that polls or is inside keeps executing. No
CPU is guaranteed the lock, and the property does not claim it. Interrupts:
the CPU keeps executing the code it is in (weak fairness of boot and handlers),
and takes a pending request at an instruction boundary; as the interrupt flag
goes on and off between boundaries that is strong fairness of the delivery.
Devices need not raise requests.

## 4. Disagreements between code and documentation

1. `boot_init.c` puts the page directory and the page table into frames 1 and 2,
   which the CPU uses from then on. `kpm_init` reserves frame 0, the kernel and
   its own bitmaps only: frames 1 and 2 are enabled and handed out
   (`kpm_page_tables`).
2. `kpm.c:105` wraps for a region that starts past the managed memory:
   `kpm_enable` leaves the bitmaps (`kpm_split_memory`).
3. `rtc.c:118` turns 12 PM into 0 h, and 12 AM stays 12 (`rtc_twelve_hour`).
4. `free.c:35` reads the address with `strtol`. An address from 2 GiB on becomes
   0x7fffffff, which is not aligned, so `kpm_free` ignores the chunk that `alloc`
   printed, `free` returns 0, and its frames are lost (`alloc_high_memory`).
5. `screenbuf.c:213` puts the viewport before the buffer when the cursor is in the
   first lines of a wrapped one. `sb_diff`, whose comment asks for pointers inside
   the buffer, is then a whole buffer too long, and an erased character stays on
   display (`screenbuf_misled`).
6. `str.c:55` decrements the count once too often: `strncmp` reports the character
   behind the first `n` when those agree, and 0 when they differ in the last one
   only. The assertions `lib/string/test.c:100-102`, such as `strncmp("Hello",
   "Hello world", 5) == 0`, fail (`strncmp_tests`).

Met while modelling, with no run of their own.

Memory: `kpm.c:99-100` drops an available region whole when its base is not on a
page, where `kpm.c:24-25` says that the available regions are set free;
`kpm.c:58` casts 64-bit addresses and lengths to 32 bits, so an available region
at 4 GiB is enabled at address 0. `EnabledMatchesMap` speaks of maps without
either (`OrdinaryMap`), and nothing else does: the other properties hold for all
maps. Further, `kpm_init` walks the memory map until an entry of
size 0 and ignores its `count`; `kernel.c:44` passes `mem_upper - mem_lower`
where `kpm.c:30` asks for the total; the comment `kpm.c:198-199` says "up to
@size bytes" while blocks are rounded up; `alloc` returns 0 also when the loop
failed (`alloc.c:70-72`); `free.c:30` asks for one argument and reads two;
`hexdump` of an address that boot did not map faults, and as no gate takes the
fault the machine stops.

Screen, keyboard, shell: `screenbuf.c:212` asks for more than `VGA_HEIGHT` lines
between the viewport and the cursor, so after scrolling up by one line a typed
character leaves the view where it is, with the cursor below the display, where
`nsh.c:141` says "put the viewport where the cursor is"; `screenbuf.c:49` compares
the cursor position with `VGA_WIDTH * SB_HEIGHT`, so a cursor outside the display
is not disabled as the comment `screenbuf.c:43-47` says, though its position, past
the last cell, hides it; `keyboard.c:181` drops the shifted character of a key
that has no regular one; `nsh.c:68` clears a quarter of `nsh_cmd`.

Printing: a `%p` that meets one or two bytes of room is skipped without taking
its argument, which the next specifier then prints; a negative `%d` with a width
that starts at the last byte of the buffer misses the equality that ends the
padding loop and writes on (no format of the kernel has one); `kprintf` keeps
4096 bytes on the boot stack.

Strings: `string.h:17-20` refers to the manual. Besides `strncmp`, `strncpy`
copies `n` bytes whether or not the string has ended; `strcat` and `strncat` write
behind the NUL of their destination; `strstr` returns the end of the haystack when
the needle is not there; `strtok` goes on at the token it returned; `memrchr`
looks at `s[n]` down to `s[1]`. `StringsAgree` says nothing of these seven; it
states what the manual says of all the others, without exceptions.

Other: `pic_8259.c:83` sends no second acknowledgement for IRQ 8; `rtc.c:149`
overflows an `int` from 2039 on, and the timestamp is then right modulo 2^32
with the wrapping arithmetic of the build; `spinlock.h` declares `kspin_new`,
`spinlock.c` defines `kspin_init`.

## 5. Proofs

For every value of the constants that satisfies the named assumptions:

- `KpmProofs`. Assumption `KpmAssumption`: positive page size and number of
  orders, an address space of whole pages, requests that do not wrap when
  rounded up to pages (they are `int32_t`); nothing about freed chunks. The
  inductive invariant `IndInv` is `TypeOK`, which bounds the bitmaps only while no
  write has left them, `OrdersAgree` and `FreeFramesEnabled`.
  `StraysOnlyEscape` takes the calls one by one: what `kpm_alloc` takes are blocks
  whose bit is clear, hence inside; `kpm_enable` and `kpm_disable` cut their limit
  at the last frame, which is right unless the base lies beyond it or the sum
  wraps. The heart is `UpdateAgrees`: after any
  change of order 0 within a set R of frames, recomputing only the blocks that
  meet R makes all orders agree. It is an argument by levels, written with the
  least level at which a claim fails (`LeastNat` in `LevelInduction`), since a
  claim about a recursive function of the orders cannot be proved by a cited
  induction rule. `AllocTakesBest` then needs that blocks of lower orders nest
  in higher ones (`SubBlock`) and that addresses do not wrap (`MemoryFits`).
  `ReservedNeverHandedOut` follows `kpm_init` call by call: `ReservedInv` says
  that what it has taken away so far (`Taken`) is not enabled, that nothing is
  allocated before it returns, and that what is allocated later is enabled. It
  needs `ImageAssumption`, the layout `linker.ld` gives: the image starts at a
  page above frame 0, and neither it nor the manager's structures behind it
  reach the last page of the address space, where `ALIGNNEXT` would wrap.
  `EnabledAsMapped` adds `MapInv`, that the enabled frames are so far those of
  the entries looked at (`Listed`) less the ones taken away. It speaks of an
  `OrdinaryMap`: available regions start on a page, or `kpm.c:99` drops them, and
  end below 4 GiB, where the casts of `kpm.c:58` lose nothing. Both hold up to a step that leaves the bitmaps
  (section 4, item 2).
- `KpmProofs`, the part about `AllocBuiltin`. Assumption `LongAssumption`: half the
  address space is whole pages and holds the biggest block. `BInv` adds that held chunks are page aligned, lie in
  the enabled frames and are disjoint, and that nothing is held before boot ends.
  Without the alignment `kpm_free` would ignore the chunk and the frames would
  leak; without disjointness a free would release another chunk's frames. Under
  `LowMemory`, the hypothesis that addresses survive `free`'s `strtol`, it adds
  that no enabled frame is neither free nor held; without it a chunk of the upper
  half is read as an address that is not aligned, and the bitmaps do not change.
  From it, for every machine: `StaysInBounds`; under `LowMemory`:
  `FramesAccounted`, `FailsOnlyExhausted`, and `Refinement`,
  that `BSafety` implements `FrameAllocator` (boot steps stutter except the last,
  a turn of the loop is a grant, `free` a release). `LoopInv` adds the account
  of a running loop: the frames it has got and the bytes it still misses make up
  the request exactly. A turn that is short takes a whole block and leaves the
  rest; the last one takes a block of fewer than twice the frames still needed
  (`BlockNotTwice`), so `LoopAlwaysDelivers` bounds the sum by twice the request.
- `ConcurrencyProofs`, the interrupts. Assumption `IrqAssumption`: lines are numbers 0 to 7. The
  properties say nothing of who may interrupt whom; `IInv` does. A handler is
  busy from the entry of a request's handler, or from `LOAD_INTERRUPT_STACK` of
  any, until `RESET_INTERRUPT_STACK`; interrupts are on only while the innermost
  handler is not busy, only the innermost one can be busy, every frame was pushed
  with interrupts on, and what is in service is the innermost handler's own
  request until it is acknowledged. Three lemmas (`Push`, `Replace`, `Pop`) carry
  this through the stack's changes. From it, for any depth of nesting:
  `NestingIsSafe`, `RequestsHaveGates` and `MainAlwaysResumes`.
- `ConcurrencyProofs`, the spinlock. `LInv` adds to mutual exclusion that the
  holder's copy of the word is current; from both follows that no update is lost.
- `StrtolProofs`. Assumption `StrtolAssumption`: the unsigned maxima are odd
  naturals, bases are 0 or 2 to 36; nothing about the strings. `PInv` says that
  the accumulator is at most the limit of the sign that was read, and that a
  minus sign was read only by a signed parser. `CutoffExact` is the arithmetic:
  what the test against `cutoff` and `cutlim` lets pass stays within the limit.
  From it `ParsersNeverOverflow`: no product or sum of the scan wraps, and the
  value returned is one of its type, the lowest one included. `ParsersCorrect` is
  the whole specification: the result is `Numeral`, the reference that looks at
  the string as a whole. `ParsedInv` ties the scan to it: behind the spaces the
  cursor stands where the reference starts (`SpaceInv`); among the digits
  everything between the first one and the cursor is a digit of the base, and
  the accumulator is the number they spell (`Leading`), or that number is beyond
  the limit of its sign once `any` is -1 (`DigitsInv`). That saturation is final
  needs that the number spelt never decreases as digits are added.
- `StrtolProofs`, the part about `Builtins`. Assumption `BuiltinsAssumption`: what
  the shell hands over, a line whose first word names the builtin and whose words
  have no NUL inside; bytes in memory and bitmaps. Any set of addresses may be
  mapped. `BuiltinInv` has the parsers'
  invariant and, for each place of a builtin, the word being parsed, what the
  words before it said, and the part of the dump on the screen: the bytes shown
  and the bytes left make up the size, and the address is the first one advanced
  by what is shown, modulo the address space. A parser that is done has read its
  word (`WordRead`), and `*endptr` is the NUL exactly when all of it is a number.
  Every byte shown is a mapped one, and a halt has the first that is not next.
  From it `DumpsAreRight`. `BuiltinSpec` is what `Calls` lets run while no other
  call does.
- `RtcProofs`. Assumption `RtcAssumption` (section 3), windows of any length; and
  the hypothesis `HoursReadable`: a chip that counts to twelve is not read at
  noon or midnight, where the code is wrong (section 4, item 3). A pass of the
  driver may be torn; that two equal passes are not is the point. `ChipInv`: the
  registers change during updates only, and then one second further.
  `DriverInv`: there is a moment b, when the driver saw the bit clear, such that
  the pass before showed for each register a time up to b, and this pass
  so far a time from b on. When the passes are equal, each register showed the
  same value before and after b, and since a field does not change back within a
  minute it had that value at b: `ReadsOneMoment`. Day registers are never 0,
  which tells a real pass from the zeros the driver starts with. The decoding
  lemmas invert BCD, the PM bit and the two-digit year for every value a register
  can hold. `TimestampIsSeconds` compares the sum of the code with a count of
  days: a closed form of the calendar (`DaysTo`) for the leap years, and
  arithmetic modulo 2^32 on halves of 16 bits, where a pair stands for every
  integer it is congruent to (`Halves`).
- `NshProofs`. Assumption `NshAssumption`: a buffer of at least eight bytes, space
  and NUL are not letters, and names of builtins are not empty and fit the
  buffer, so that a completion is never cut at its end. `BufferInv`: the buffer is the line followed by NULs, with a NUL in
  place of the first space behind each word that the split has passed.
  `SplitInv`: the pointers set so far are the starts of the words passed, in
  order, and there are at most half as many as bytes passed, which is why
  `nsh_cmd` with half the size of the buffer never overflows; the split stops
  between a word and spaces only. `ControlInv` says where in the line each
  function is. From them: `IndicesStayInside`, `EditorShowsBuffer`,
  `SplitIsRight`, `DispatchIsRight`, and `CompletesToBuiltin`, whose loop over
  the table of builtins is a recursive function, carried by the least index at
  which the claim would fail.
- `ScreenbufProofs`. Assumption `ScreenbufAssumption`: a display lower than the
  buffer, lines that an `unsigned short` can index, and a command line shorter
  than the buffer less one line (1024 against 199 lines of 80), else erasing it
  would run over the top. Lines are counted from the top of the circular buffer
  (`Depth` is the cursor's line, `Height` the display's first). The inductive
  invariant `SInv` says of every screen that the cursor's line is written exactly
  up to the cursor and that all below it is blank (`TextOK`): `sb_backspace`
  looks for the end of the line before by its last cell in use, and `sb_crlf`
  writes the next line cell by cell. Of the current screen it says that what was
  typed since the prompt can be erased, since the lines it filled have no blank
  (`TypedOK`), and that it alone is loaded; of the view, that it starts at or
  above the cursor, does not reach around to the top, and lies before the buffer
  only with the cursor on display (`ViewOK`). `ViewOK` and the mirror (`MirrorInv`, which also gives the cursor's place in the
  registers off display) hold until `misled` (section 4, item 5), which the proof
  finds to be the only way to lose them.
  Each function of `screenbuf.c` has a lemma that says which line and cell it
  changes, on the buffer and on the display alike. From it: `ScreenbufTypes`,
  `DisplayIsMirror`, `ViewStaysInHistory`, and `ScreensKeepLastLines`, the
  refinement of `Scrollback`: a buffer is mapped to its lines from the top to the
  cursor (`Page`), a printed character or newline to a write or to a push
  that drops the oldest line of a full buffer, scrolling and switching to
  stutters.
- `ConcurrencyProofs`, the keyboard driver. Assumption `KeyboardAssumption`: the keyboard has keys of the
  tables, and perhaps one the driver has no name for. The argument follows one
  position, the byte the driver reads next (`HereStroke`, `HereAt`). `FifoInv`:
  the queue is a run of consecutive bytes that ends with the last stroke.
  `PrefixInv`: when neither this stroke nor the one before lost a byte, the prefix
  flag is a function of the position, since prefixes stand at odd places and are
  never a stroke's last byte; it is down between two strokes. Hence every byte of
  such a stroke is looked up in the right table, and the key found is the one
  struck: `EventsInv` has the three parts of the property by indices, and that the
  stroke at the position is not reported yet. `HistoryInv`: each stroke changes
  what is held and locked as `set_modifiers` changes the flags; `ModInv`: the
  flags are those held before the stroke at the position, all of them if nothing
  was lost, otherwise those struck since the driver is in step again. From them:
  `EventsFollow`, `ModifiersFollow` and `CharactersRight`. The last has a
  hypothesis, `HasRegular`: a key has a regular character in a layout or none at
  all. Of the tables of the model only the French `%` key fails it; there
  `keyboard.c:181` returns too early (section 4) and the statement is false.

- `KprintfProofs`. Assumption `PrintAssumption`: powers of two are positive
  naturals, and `kprintf`'s buffer is not empty. Assumption `PrintsAssumption`: the
  calls are of the kernel's kind (`PrintsOK`): every specifier has an argument of
  its type, a `%d` has no width (with one the padding loop can leave the buffer,
  section 4), and behind a `%p` only numbers are printed (a skipped `%p` hands its
  argument to the next specifier, which must not take a number for a string).
  Nothing else is assumed of formats, strings, widths and sizes. `PrintInv`
  compares the buffer with the stages of the expansion, item by item (`Stages`).
  Between items the output is the expansion of the items done, as far as it fits
  (`ShownOK`); the next argument is the expansion's, or an earlier one behind a
  skipped `%p`, and then a number (`ArgsOK`). In the padding loop the zeros still
  to come and the digits make up the rest of the number (`PaddingOK`). In the
  digit loop the digits go from the last to the first, so what is in the buffer is
  no prefix of anything: `DigitsOK` says which digits are stored, those that lie
  inside, and that as many are counted, so that the count is right when the loop
  ends, and is the whole room when the number was cut. `basepow` and the digits of
  the reference are recursive functions over division; a lemma derives their
  equation once, and that both have the same length. From it `PrintsAreRight`.
  `PrintSpec` is what `Calls` lets run while no other call does.

Only model-checked: `PrintedReadsBack` of `Calls`, which extends `Str`;
`StringsAgree`, since what the recursive operators of `Str` compute is out of
reach, and with it whatever is stated in a module that extends it; and all liveness properties
(`LoopTerminates`, `PromptReturns`, `ReadReturns`, `SomeoneGetsIn`,
`RaisedServed`), which are out of the prover's reach.

## 6. Plan

1. Done: `Kpm`, `AllocBuiltin`, `FrameAllocator` with proofs; `Spinlock` with
   proofs; `Screenbuf`, `Scrollback`, `Keyboard`, `Nsh`, `Rtc`.
2. Done: `Interrupts` and `Strtol` with proofs; `Kprintf`, `Str`, `Builtins` and their
   composition `Calls`; 12-hour clocks and the 32-bit timestamp.
3. Done: proofs of `ReservedNeverAvailable`, `EnabledMatchesMap`, `LoopDelivers`,
   `NumbersParsed`; of the clock; of the shell.
4. Done: proofs of the screen buffers and of their refinement of `Scrollback`.
5. Done: proofs of the keyboard driver: events, modifiers, characters; of the
   builtins `hexdump` and `info`; of `kprintf` and `snprintf`.
6. Done: `free`'s number parsing, unmapped memory under `hexdump`, writes that
   leave the bitmaps, counts beyond the strings' ends; the disagreements that
   properties used to exempt, as violations (`alloc_high_memory`,
   `screenbuf_misled`, `strncmp_tests`).
7. Open: violations for the rest of section 4 (regions dropped for their base,
   the view left in place by `sb_scroll_down`).

## 7. Abstractions

Characters, words and times are small sets; the colour of a cell is part of the
character. Logging, the text of messages and the layout of printed chunks are
left out. A tab is never printed by the kernel, so `sb_tabulation` is not in the
model. The comparison of a command with the NULL name that ends the table of
builtins (`nsh.c:106`) reads address 0, where the interrupt table is; no typed
line equals it.

## 8. Not modelled

- Boot code, the GDT's descriptors, paging and ports: straight-line hardware
  set-up that runs once. What it leaves behind is in the initial states; the
  frames of the page tables are in `PageTables`, the addresses they map in
  `MAPPED` of `Builtins`.
- `power`: writes a port and halts.
- `shell.c`: the Makefile does not build it; `nsh` took its place.
- Functions nothing calls: `sb_tabulation` (no tab is ever printed),
  `irq_set_mask`, `KBD_flush`, `bsearch`, `abs`.
- The exact layout of what `info` and `help` print, and the texts of messages.
