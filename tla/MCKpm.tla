------------------------------- MODULE MCKpm -------------------------------
(***************************************************************************)
(* A 16-frame machine with 4-byte pages and four orders for TLC: frame 0,  *)
(* low memory in frames 1 and 2, a hole in frame 3, the kernel in frame 4, *)
(* the buddy structure in frames 5 and 6 and memory up to and past frame   *)
(* 15.  The address space ends at byte 128.                                *)
(***************************************************************************)
EXTENDS Kpm

Entry(addr, len, available) ==
  [addr |-> addr, len |-> len, available |-> available]

\* Memory up to a little more than nframes, and a hole below the kernel.
PlainMap == <<Entry(0, 12, TRUE), Entry(12, 4, FALSE), Entry(16, 56, TRUE)>>

\* Regions with unaligned lengths, two that overlap.
RaggedMap == <<Entry(0, 11, TRUE), Entry(12, 11, TRUE), Entry(28, 14, TRUE),
               Entry(36, 22, TRUE)>>

\* Regions with an unaligned base, one past 32 bits and one too long for them.
OddMap == <<Entry(13, 30, TRUE), Entry(132, 9, TRUE), Entry(44, 140, TRUE)>>

\* A region that ends the address space.
LastMap == <<Entry(4, 12, TRUE), Entry(32, 96, TRUE)>>

\* An available region that starts past the last frame.
SplitMap == <<Entry(0, 12, TRUE), Entry(16, 48, TRUE), Entry(80, 16, TRUE)>>

MCMMAPS == {PlainMap, RaggedMap, OddMap, LastMap, SplitMap}
SplitMMAPS == {SplitMap}
PlainMMAPS == {PlainMap}

\* From one byte to more than the biggest block.
MCSIZES == {1, 7, 12, 40}

\* Unaligned and partial chunks, chunks over reserved frames and holes, one of
\* no size and one past the last frame.
MCCHUNKS == [addr : {4, 12, 32, 48}, size : {0, 5, 16}]
              \cup {[addr |-> 30, size |-> 8], [addr |-> 0, size |-> 64],
                    [addr |-> 60, size |-> 8]}
=============================================================================
