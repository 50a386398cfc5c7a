-------------------------------- MODULE Kpm --------------------------------
(***************************************************************************)
(* The kernel physical memory manager, kernel/memory/kpm.c: a buddy        *)
(* allocator over page frames.                                             *)
(*                                                                         *)
(* A bitmap of the code is a set here.  `enabled' holds the frames whose   *)
(* bit of buddy->enabled_frames is 1; `free[n]' holds the block indices    *)
(* whose bit of buddy->orders[n].bitmap is 0.  The padding bits that round *)
(* a bitmap up to a byte are set by the memset of kpm_init and written by  *)
(* nobody, so no padding index is ever a member of free[n].                *)
(*                                                                         *)
(* Addresses and sizes are bytes and are taken modulo ADDR_SPACE, the 2^32 *)
(* of size_t and uintptr_t.  The macros of kpm.h check no bound.  `oob' is *)
(* a history variable: a bit outside the bitmaps was written.  What that   *)
(* overwrote is not modelled, so the behaviour ends there, and a property  *)
(* that reads the bitmaps says `~oob'.                                     *)
(***************************************************************************)
EXTENDS Integers, Sequences, FiniteSets

CONSTANTS PAGE_SIZE,     \* bytes of a page frame (4096 in kpm.h)
          KPM_NORDERS,   \* number of orders (11 in kpm.h)
          ADDR_SPACE,    \* number of 32-bit values
          MEM,           \* the memkb argument of kpm_init, in bytes
          SK, EK,        \* physical bounds of the kernel image (linker.ld)
          SIZEOF_BUDDY,  \* sizeof(buddy_t)
          MMAPS,         \* the memory maps a boot loader may hand over
          SIZES,         \* the sizes kpm_alloc may be asked for
          CHUNKS         \* the chunks kpm_free may be handed

ASSUME KpmAssumption ==
  /\ PAGE_SIZE \in Nat \ {0}
  /\ KPM_NORDERS \in Nat \ {0}
  /\ ADDR_SPACE \in Nat \ {0}
  /\ ADDR_SPACE % PAGE_SIZE = 0
  /\ MEM \in Nat
  /\ MMAPS \subseteq Seq([addr : Nat, len : Nat, available : BOOLEAN])
  \* requests come from alloc as int32_t, so rounding one up does not wrap
  /\ SIZES \subseteq {size \in Nat : size + PAGE_SIZE <= ADDR_SPACE}
  /\ CHUNKS \subseteq [addr : Nat, size : Nat]

(***************************************************************************)
(* Sizes, orders and blocks                                                *)
(***************************************************************************)

Orders == 0 .. (KPM_NORDERS - 1)

\* 1 << n: the number of frames of a block of order n.
FramesPerBlock[n \in Orders] ==
  IF n = 0 THEN 1 ELSE 2 * FramesPerBlock[n - 1]

\* The macros of kpm.h, with the wrap of the 32-bit addition.
Align(size, align) == ((size % ADDR_SPACE) \div align) * align
AlignNext(size, align) == Align((size + align - 1) % ADDR_SPACE, align)
IsAligned(size, align) == size % align = 0
NBytesFromNBits(n) == AlignNext(n, 8) \div 8

\* buddy->nframes: whole blocks of the highest order only.
NFrames ==
  Align((MEM % ADDR_SPACE) \div PAGE_SIZE, FramesPerBlock[KPM_NORDERS - 1])

Frames == 0 .. (NFrames - 1)

\* Variant with a fault: one frame too many.
FramesOfLong(n, i) ==
  (i * FramesPerBlock[n]) .. (i * FramesPerBlock[n] + FramesPerBlock[n])

\* The frames block i of order n stands for.
FramesOf(n, i) ==
  (i * FramesPerBlock[n]) .. (i * FramesPerBlock[n] + FramesPerBlock[n] - 1)

\* Bytes of the bitmaps of orders 0 to n.
OrdersSize[n \in Orders] ==
  NBytesFromNBits(NFrames \div FramesPerBlock[n])
    + IF n = 0 THEN 0 ELSE OrdersSize[n - 1]

\* buddy->size, and where the structure is put.
BuddySize ==
  SIZEOF_BUDDY + NBytesFromNBits(NFrames) + OrdersSize[KPM_NORDERS - 1]
BuddyAddr == AlignNext(EK, PAGE_SIZE)

\* linker.ld puts the image at 1 MiB, on a page boundary, and with the buddy
\* structure behind it ends it well below the end of the address space.
ASSUME ImageAssumption ==
  /\ SK \in Nat /\ EK \in Nat /\ SIZEOF_BUDDY \in Nat
  /\ IsAligned(SK, PAGE_SIZE) /\ PAGE_SIZE <= SK /\ SK < EK
  /\ EK + PAGE_SIZE <= ADDR_SPACE
  /\ BuddyAddr + BuddySize + PAGE_SIZE <= ADDR_SPACE

-----------------------------------------------------------------------------
VARIABLES enabled,  \* frames set in buddy->enabled_frames
          free,     \* free[n]: blocks of order n whose bit is clear
          oob,      \* history: a bitmap was accessed outside its bounds
          mmap,     \* the memory map of this boot
          step,     \* the next call kpm_init makes
          chunk,    \* the chunk the last successful kpm_alloc filled in
          ret       \* what the last kpm_alloc returned

bitmaps == <<enabled, free, oob>>
bootvars == <<mmap, step>>
outvars == <<chunk, ret>>
kpmvars == <<bitmaps, bootvars, outvars>>

BootDone == step > Len(mmap) + 3
Running == BootDone /\ ~oob

\* The state after the two memsets of kpm_init: nothing enabled, all taken.
Init ==
  /\ enabled = {}
  /\ free = [n \in Orders |-> {}]
  /\ oob = FALSE
  /\ mmap \in MMAPS
  /\ step = 1
  /\ chunk = [addr |-> 0, size |-> 0]
  /\ ret = 0

-----------------------------------------------------------------------------
(***************************************************************************)
(* Updating the tree                                                       *)
(***************************************************************************)

\* Variant with a fault: a block that only overlaps the frames R is skipped.
TouchedWholeOnly(n, R) == {i \in R : FramesOf(n, i) \subseteq R}

\* The blocks of order n that kpm_update_order visits for the frames R.
Touched(n, R) == {f \div FramesPerBlock[n] : f \in R}

\* kpm_update_order: a visited block is free when both its children are;
\* `below' is order n - 1 as it stands when order n is updated.
kpm_update_order(n, below, R) ==
  (free[n] \ Touched(n, R))
    \cup {i \in Touched(n, R) : {2 * i, 2 * i + 1} \subseteq below}

\* The loop over the orders 1 .. KPM_NORDERS - 1 that ends every operation;
\* `frames' is order 0 as the operation left it.
UpdateOrders(frames, R) ==
  LET up[n \in Orders] ==
        IF n = 0 THEN frames ELSE kpm_update_order(n, up[n - 1], R)
  IN  up

\* A change of the frames R and the update of the orders above them.
SetFrames(R, newenabled, frames) ==
  /\ enabled' = newenabled
  /\ free' = UpdateOrders(frames, R)
  /\ oob' = ~(R \subseteq Frames)

(***************************************************************************)
(* Enabling and disabling regions                                          *)
(***************************************************************************)

\* Variant with a fault: no region is cut.
ClipNone(base, limit) == limit

\* Regions that end past the last frame are cut; the subtraction is on
\* 32-bit unsigned values.
Clip(base, limit) ==
  IF ((base + limit) % ADDR_SPACE) \div PAGE_SIZE > NFrames
  THEN (NFrames * PAGE_SIZE - base) % ADDR_SPACE
  ELSE limit

RegionFrames(base, limit) ==
  (base \div PAGE_SIZE) .. (base \div PAGE_SIZE + limit \div PAGE_SIZE - 1)

\* Variants with a fault: the limit is rounded the wrong way.
kpm_enable_roundup(base, limit) ==
  LET R == RegionFrames(base, Clip(base, AlignNext(limit, PAGE_SIZE)))
  IN  \/ ~IsAligned(base, PAGE_SIZE) /\ UNCHANGED bitmaps
      \/ /\ IsAligned(base, PAGE_SIZE)
         /\ SetFrames(R, enabled \cup R, free[0] \cup R)
kpm_disable_rounddown(base, limit) ==
  LET R == RegionFrames(base, Clip(base, Align(limit, PAGE_SIZE)))
  IN  \/ ~IsAligned(base, PAGE_SIZE) /\ UNCHANGED bitmaps
      \/ /\ IsAligned(base, PAGE_SIZE)
         /\ SetFrames(R, enabled \ R, free[0] \ R)

kpm_enable(base, limit) ==
  LET R == RegionFrames(base, Clip(base, Align(limit, PAGE_SIZE)))
  IN  \/ ~IsAligned(base, PAGE_SIZE) /\ UNCHANGED bitmaps
      \/ /\ IsAligned(base, PAGE_SIZE)
         /\ SetFrames(R, enabled \cup R, free[0] \cup R)

kpm_disable(base, limit) ==
  LET R == RegionFrames(base, Clip(base, AlignNext(limit, PAGE_SIZE)))
  IN  \/ ~IsAligned(base, PAGE_SIZE) /\ UNCHANGED bitmaps
      \/ /\ IsAligned(base, PAGE_SIZE)
         /\ SetFrames(R, enabled \ R, free[0] \ R)

(***************************************************************************)
(* kpm_init, one call per step: first the entries of the memory map, then  *)
(* frame 0, the kernel image and the buddy structure.  Nothing else runs   *)
(* before it returns.                                                      *)
(***************************************************************************)

\* The casts of kpm_init drop the high half of a 64-bit address or length.
KpmInitEntry ==
  LET entry == mmap[step]
  IN  /\ step <= Len(mmap) /\ ~oob
      /\ \/ /\ entry.available
            /\ kpm_enable(entry.addr % ADDR_SPACE, entry.len % ADDR_SPACE)
         \/ ~entry.available /\ UNCHANGED bitmaps
      /\ step' = step + 1
      /\ UNCHANGED <<mmap, outvars>>

KpmInitReserve ==
  /\ step > Len(mmap) /\ ~BootDone /\ ~oob
  /\ CASE step = Len(mmap) + 1 -> kpm_disable(0, PAGE_SIZE)
       [] step = Len(mmap) + 2 -> kpm_disable(SK, EK - SK)
       [] OTHER                -> kpm_disable(BuddyAddr, BuddySize)
  /\ step' = step + 1
  /\ UNCHANGED <<mmap, outvars>>

(***************************************************************************)
(* Allocating and freeing                                                  *)
(***************************************************************************)

\* Frames a request of `size' bytes needs.
FramesNeeded(size) == AlignNext(size, PAGE_SIZE) \div PAGE_SIZE

\* The lowest order whose blocks hold n frames, or else the highest order.
Fits(n) == {o \in Orders : FramesPerBlock[o] >= n}
find_best_fit_order(size) ==
  LET fits == Fits(FramesNeeded(size))
  IN  IF fits = {} THEN KPM_NORDERS - 1
      ELSE CHOOSE o \in fits : \A p \in fits : o <= p

\* The first clear bit of a bitmap that has one.
bitmap_ffu(S) == CHOOSE i \in S : \A j \in S : i <= j

\* Variant with a fault: only the best order is looked at.
CandidatesBestOnly(size) ==
  {o \in Orders : o = find_best_fit_order(size) /\ free[o] # {}}

\* The orders the search may stop at, and the one it does: it goes down.
Candidates(size) ==
  {o \in Orders : o <= find_best_fit_order(size) /\ free[o] # {}}
\* Variant with a fault: the search goes up from order 0.
SmallestOrder(size) ==
  CHOOSE o \in Candidates(size) : \A p \in Candidates(size) : o <= p
ChosenOrder(size) ==
  CHOOSE o \in Candidates(size) : \A p \in Candidates(size) : p <= o

kpm_alloc_ok(size) ==
  LET o == ChosenOrder(size)
      i == bitmap_ffu(free[o])
      R == FramesOf(o, i)
  IN  /\ Candidates(size) # {}
      /\ SetFrames(R, enabled, free[0] \ R)
      /\ chunk' = [addr |-> i * PAGE_SIZE * FramesPerBlock[o],
                   size |-> PAGE_SIZE * FramesPerBlock[o]]
      /\ ret' = 0

kpm_alloc_fail(size) ==
  /\ Candidates(size) = {}
  /\ ret' = -1
  /\ UNCHANGED <<bitmaps, chunk>>

kpm_alloc(size) == kpm_alloc_ok(size) \/ kpm_alloc_fail(size)

\* The frames of a chunk record.
ChunkFrames(c) ==
  (c.addr \div PAGE_SIZE) .. (c.addr \div PAGE_SIZE + FramesNeeded(c.size) - 1)

\* Variant with a fault: the frames are released without a look at enabled_frames.
kpm_free_any(c) ==
  LET R == ChunkFrames(c)
  IN  \/ ~IsAligned(c.addr, PAGE_SIZE) /\ UNCHANGED bitmaps
      \/ /\ IsAligned(c.addr, PAGE_SIZE)
         /\ SetFrames(R, enabled, free[0] \cup R)

\* Only enabled frames are released, but every parent is recomputed.
kpm_free(c) ==
  LET R == ChunkFrames(c)
  IN  \/ ~IsAligned(c.addr, PAGE_SIZE) /\ UNCHANGED bitmaps
      \/ /\ IsAligned(c.addr, PAGE_SIZE)
         /\ SetFrames(R, enabled, free[0] \cup (R \cap enabled))

-----------------------------------------------------------------------------
Alloc(size) ==
  /\ Running
  /\ kpm_alloc(size)
  /\ UNCHANGED bootvars

Free(c) ==
  /\ Running
  /\ kpm_free(c)
  /\ UNCHANGED <<bootvars, outvars>>

Next ==
  \/ KpmInitEntry
  \/ KpmInitReserve
  \/ \E size \in SIZES : Alloc(size)
  \/ \E c \in CHUNKS : Free(c)

Spec == Init /\ [][Next]_kpmvars

-----------------------------------------------------------------------------
(***************************************************************************)
(* Properties                                                              *)
(***************************************************************************)

\* The bitmaps hold frame and block indices, the out-parameter a chunk.
TypeOK ==
  /\ ~oob => enabled \subseteq Frames /\ free \in [Orders -> SUBSET Frames]
  /\ oob \in BOOLEAN
  /\ step \in Nat
  /\ chunk \in [addr : Nat, size : Nat]
  /\ ret \in {0, -1}

\* The bytes below nframes.
MemoryEnd == NFrames * PAGE_SIZE

\* An available entry that starts past the last frame, or that goes over the
\* end of the address space: the sum and the difference of kpm.c:105-106 wrap.
StrayEntry(e) ==
  /\ e.available
  /\ \/ e.addr % ADDR_SPACE > MemoryEnd
     \/ (e.addr % ADDR_SPACE) + (e.len % ADDR_SPACE) >= ADDR_SPACE

\* The macros of kpm.h check no index, yet the cut of kpm_enable and kpm_disable
\* keeps them inside the bitmaps.  Only these calls leave them: kpm_enable for a
\* stray entry of the memory map, kpm_disable on a machine that ends below the
\* kernel, kpm_free of a chunk that reaches past the last frame.  No kpm_alloc does.
OnlyStraysEscape ==
  [][~oob /\ oob' =>
       \/ step <= Len(mmap) /\ StrayEntry(mmap[step])
       \/ step > Len(mmap) /\ ~BootDone /\ MemoryEnd < BuddyAddr
       \/ \E c \in CHUNKS : Free(c) /\ c.addr + c.size > MemoryEnd]_kpmvars

\* kpm_update_order keeps every order in step with order 0: a block's bit is
\* clear exactly when all the frames it stands for are free.
OrdersAgree ==
  ~oob => \A n \in Orders : \A i \in Frames :
            i \in free[n] <=> FramesOf(n, i) \subseteq free[0]

\* The check in kpm_free: a frame that is not enabled is never free, whatever
\* chunk is handed back.
FreeFramesEnabled == ~oob => free[0] \subseteq enabled

\* The three kpm_disable calls of kpm_init: once it has returned, frame 0, the
\* kernel image and the buddy structure are never enabled, free or handed out.
Reserved ==
  {0} \cup ((SK \div PAGE_SIZE) .. ((EK - 1) \div PAGE_SIZE))
      \cup ((BuddyAddr \div PAGE_SIZE)
              .. ((BuddyAddr + BuddySize - 1) \div PAGE_SIZE))
ReservedNeverAvailable ==
  Running => Reserved \cap (enabled \cup free[0] \cup ChunkFrames(chunk)) = {}

\* A memory map whose available regions start on a page and end below the end
\* of the address space.  kpm_enable drops any other base without a word
\* (kpm.c:99), and kpm_init keeps the low 32 bits of an address and a length.
OrdinaryMap ==
  \A k \in 1 .. Len(mmap) : mmap[k].available =>
    /\ IsAligned(mmap[k].addr, PAGE_SIZE)
    /\ mmap[k].addr + mmap[k].len < ADDR_SPACE

\* After kpm_init, on an ordinary map, the enabled frames are exactly those that
\* lie whole in an available region, below nframes and not reserved.
InRegion(f, e) ==
  /\ e.available
  /\ e.addr <= f * PAGE_SIZE /\ (f + 1) * PAGE_SIZE <= e.addr + e.len
EnabledMatchesMap ==
  Running /\ OrdinaryMap =>
    enabled = {f \in Frames \ Reserved :
                 \E k \in 1 .. Len(mmap) : InRegion(f, mmap[k])}

\* kpm_alloc hands out frames that were free and takes no other; it fails only
\* when no frame is free; and it returns less than it was asked for only when
\* no block twice as big is free (kpm.c:203, "if there is no contiguous block
\* big enough").
AllocTakesBestBlock ==
  [][\A bytes \in SIZES : Alloc(bytes) =>
       \/ ret' = -1 /\ free[0] = {} /\ free'[0] = {}
       \/ /\ ret' = 0
          /\ ChunkFrames(chunk') # {}
          /\ ChunkFrames(chunk') \subseteq free[0]
          /\ free'[0] = free[0] \ ChunkFrames(chunk')
          /\ \/ chunk'.size >= bytes
             \/ \A o \in Orders, i \in Frames :
                  PAGE_SIZE * FramesPerBlock[o] > chunk'.size
                    => ~(FramesOf(o, i) \subseteq free[0])]_kpmvars

\* boot_init puts the page directory at 0x1000 and its page table at 0x2000.
PageTables == {1, 2}

\* What documentation/buddy-allocator/README.md says of kpm_init: the available
\* regions are enabled "except reserved areas".  The pages cr3 points to, with
\* which the kernel runs from boot_init on, are none to hand out.
PageTablesKept ==
  Running => PageTables \cap (enabled \cup ChunkFrames(chunk)) = {}

\* kpm_init, "set the available RAM regions as free blocks": it gets through
\* the memory map without leaving the bitmaps.
BootInBounds == ~BootDone => ~oob
=============================================================================
