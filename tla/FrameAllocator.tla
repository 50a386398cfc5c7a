--------------------------- MODULE FrameAllocator ---------------------------
(***************************************************************************)
(* What the physical memory manager promises the rest of the kernel, with  *)
(* no bitmaps, orders or addresses: once memory is set up, a request is    *)
(* granted a non-empty set of available frames or refused because there is *)
(* none, and a granted set comes back whole when it is released.           *)
(***************************************************************************)
EXTENDS Naturals

CONSTANT FRAMES     \* the page frames of the machine

VARIABLES up,       \* memory has been set up
          total,    \* the frames the allocator manages
          avail,    \* those nobody holds
          granted   \* the sets of frames that were handed out

avars == <<up, total, avail, granted>>

AInit ==
  /\ up = FALSE
  /\ total = {}
  /\ avail = {}
  /\ granted = {}

\* kpm_init returns.
Start ==
  /\ ~up
  /\ up' = TRUE
  /\ total' \in SUBSET FRAMES
  /\ avail' = total'
  /\ UNCHANGED granted

Grant(S) ==
  /\ up
  /\ S # {}
  /\ S \subseteq avail
  /\ avail' = avail \ S
  /\ granted' = granted \cup {S}
  /\ UNCHANGED <<up, total>>

Release(S) ==
  /\ S \in granted
  /\ avail' = avail \cup S
  /\ granted' = granted \ {S}
  /\ UNCHANGED <<up, total>>

ANext ==
  \/ Start
  \/ \E S \in SUBSET avail : Grant(S)
  \/ \E S \in granted : Release(S)

ASpec == AInit /\ [][ANext]_avars

=============================================================================
