---------------------------- MODULE AllocBuiltin ----------------------------
(***************************************************************************)
(* The shell builtins alloc and free (kernel/nsh/builtins/alloc.c, free.c) *)
(* driving the physical memory manager.  The shell runs one command at a   *)
(* time; alloc_loop calls kpm_alloc once per step until it has enough.     *)
(* The user hands back only chunks that alloc printed: what free does with *)
(* any other chunk is in Kpm's own Next.                                   *)
(***************************************************************************)
EXTENDS Kpm

\* The largest long, at which strtol saturates.
LONG_MAX == ADDR_SPACE \div 2 - 1

\* A long has the width of an address, and half the address space is whole
\* pages and more than the biggest block: 2^32 bytes, pages of 4 KiB, 4 MiB.
\* alloc reads its size with strtol too.
ASSUME LongAssumption ==
  /\ ADDR_SPACE % 2 = 0 /\ IsAligned(LONG_MAX + 1, PAGE_SIZE)
  /\ PAGE_SIZE > 1
  /\ PAGE_SIZE * FramesPerBlock[KPM_NORDERS - 1] <= LONG_MAX
  /\ SIZES \subseteq 0 .. LONG_MAX

\* A machine all of whose addresses a long can hold: up to 2 GiB.
LowMemory == MemoryEnd <= LONG_MAX + 1

VARIABLES pc,       \* "prompt", or "alloc_loop" while the loop runs
          asked,    \* the size given to the running or last alloc
          size,     \* the parameter of alloc_loop: what is still missing
          got,      \* the chunks this alloc printed
          held,     \* the chunks printed and not yet handed to free
          loopret,  \* what the last alloc_loop returned
          status,   \* what the last builtin returned
          fg        \* the foreground colour of the screen buffer

shvars == <<pc, asked, size, got, held, loopret, status, fg>>
vars == <<kpmvars, shvars>>

BInit ==
  /\ Init
  /\ pc = "prompt"
  /\ asked = 0
  /\ size = 0
  /\ got = {}
  /\ held = {}
  /\ loopret = 0
  /\ status = 0
  /\ fg = "user"

-----------------------------------------------------------------------------
\* kpm_init, before the shell starts.
Boot ==
  /\ KpmInitEntry \/ KpmInitReserve
  /\ UNCHANGED shvars

\* alloc, up to the call of alloc_loop, which saves the colour and sets green.
AllocStart(s) ==
  /\ Running /\ pc = "prompt"
  /\ pc' = "alloc_loop"
  /\ asked' = s
  /\ size' = s
  /\ got' = {}
  /\ fg' = "green"
  /\ UNCHANGED <<kpmvars, held, loopret, status>>

\* alloc or free called with too few or malformed arguments.
Usage ==
  /\ Running /\ pc = "prompt"
  /\ status' = -1
  /\ UNCHANGED <<kpmvars, pc, asked, size, got, held, loopret, fg>>

\* alloc_loop returns r, and alloc prints a message if need be and returns 0.
LoopReturns(r) ==
  /\ pc' = "prompt"
  /\ loopret' = r
  /\ status' = 0
  /\ fg' = "user"

\* Nothing was asked for: the loop is not entered.
LoopNothing ==
  /\ Running /\ pc = "alloc_loop" /\ size = 0
  /\ LoopReturns(0)
  /\ UNCHANGED <<kpmvars, asked, size, got, held>>

\* Variant with a fault: the loop ends with the first chunk.
LoopChunkOnce ==
  /\ Running /\ pc = "alloc_loop" /\ size > 0
  /\ kpm_alloc_ok(size)
  /\ got' = got \cup {chunk'}
  /\ held' = held \cup {chunk'}
  /\ LoopReturns(0)
  /\ UNCHANGED <<bootvars, asked, size>>

\* An iteration whose kpm_alloc succeeds.
LoopChunk ==
  /\ Running /\ pc = "alloc_loop" /\ size > 0
  /\ kpm_alloc_ok(size)
  /\ got' = got \cup {chunk'}
  /\ held' = held \cup {chunk'}
  /\ \/ /\ chunk'.size >= size
        /\ LoopReturns(0)
        /\ UNCHANGED size
     \/ /\ chunk'.size < size
        /\ size' = size - chunk'.size
        /\ UNCHANGED <<pc, loopret, status, fg>>
  /\ UNCHANGED <<bootvars, asked>>

\* Variant with a fault: the loop goes on.
LoopFailsRetries ==
  /\ Running /\ pc = "alloc_loop" /\ size > 0
  /\ kpm_alloc_fail(size)
  /\ UNCHANGED <<bootvars, shvars>>

\* An iteration whose kpm_alloc fails; the chunks of the earlier iterations
\* stay allocated.
LoopFails ==
  /\ Running /\ pc = "alloc_loop" /\ size > 0
  /\ kpm_alloc_fail(size)
  /\ LoopReturns(-1)
  /\ UNCHANGED <<bootvars, asked, size, got, held>>

\* What strtol makes of a printed number.
ReadBack(n) == IF n <= LONG_MAX THEN n ELSE LONG_MAX

\* Variant with a fault: the size is not passed on.
FreeChunkNoSize(c) ==
  /\ Running /\ pc = "prompt"
  /\ kpm_free([addr |-> ReadBack(c.addr), size |-> 0])
  /\ held' = held \ {c}
  /\ status' = 0
  /\ UNCHANGED <<bootvars, outvars, pc, asked, size, got, loopret, fg>>

\* free, given the address and size of a printed chunk.
FreeChunk(c) ==
  /\ Running /\ pc = "prompt"
  /\ kpm_free([addr |-> ReadBack(c.addr), size |-> ReadBack(c.size)])
  /\ held' = held \ {c}
  /\ status' = 0
  /\ UNCHANGED <<bootvars, outvars, pc, asked, size, got, loopret, fg>>

alloc_loop == LoopNothing \/ LoopChunk \/ LoopFails

BNext ==
  \/ Boot
  \/ \E s \in SIZES : AllocStart(s)
  \/ Usage
  \/ LoopNothing
  \/ LoopChunk
  \/ LoopFails
  \/ \E c \in held : FreeChunk(c)

BSafety == BInit /\ [][BNext]_vars

\* The kernel has one thread, which goes on executing alloc_loop.
BSpec == BSafety /\ WF_vars(alloc_loop)

-----------------------------------------------------------------------------
\* The manager's type; what alloc_loop still misses is a size_t and never wraps.
BTypeOK ==
  /\ TypeOK
  /\ pc \in {"prompt", "alloc_loop"}
  /\ {asked, size} \subseteq Nat
  /\ got \subseteq [addr : Nat, size : Nat]
  /\ held \subseteq [addr : Nat, size : Nat]
  /\ {loopret, status} \subseteq {0, -1}
  /\ fg \in {"user", "green"}

\* Every enabled frame is either free or in a printed chunk, and in one only:
\* kpm_alloc, kpm_free and the loop neither leak nor double-book a frame.
EveryFrameAccounted ==
  ~oob => /\ free[0] \cup UNION {ChunkFrames(c) : c \in held} = enabled
          /\ \A c \in held : ChunkFrames(c) \cap free[0] = {}
          /\ \A c, d \in held : c # d => ChunkFrames(c) \cap ChunkFrames(d) = {}

\* free.c, "Free a memory area from addr on a given size in bytes": the frames of
\* a chunk that alloc printed are free once the user has freed it.
FreeReleases ==
  [][\A c \in held : FreeChunk(c) => ChunkFrames(c) \subseteq free'[0]]_vars

\* Given back only what it handed out, kpm never leaves its bitmaps.
ClientInBounds == [][Running => ~oob']_vars

\* When alloc_loop returns 0 the chunks it printed hold what was asked for, and
\* rounding to blocks made that less than twice as many frames.
FramesOfAll(C) == UNION {ChunkFrames(c) : c \in C}
LoopDelivers ==
  Running /\ pc = "prompt" /\ loopret = 0 /\ got # {} =>
    /\ Cardinality(FramesOfAll(got)) >= FramesNeeded(asked)
    /\ Cardinality(FramesOfAll(got)) < 2 * FramesNeeded(asked)

\* alloc_loop gives up only when no frame is left, and even then every enabled
\* frame is in a chunk the user was told of and can free.
LoopFailsWhenExhausted ==
  [][LoopFails => free[0] = {} /\ FramesOfAll(held) = enabled]_vars

\* alloc_loop ends: every iteration takes a frame or is the last.
LoopTerminates == (pc = "alloc_loop") ~> (pc = "prompt")

-----------------------------------------------------------------------------
\* The builtins and the manager implement the frame allocator.
FA == INSTANCE FrameAllocator
        WITH FRAMES  <- Frames,
             up      <- Running,
             total   <- IF Running THEN enabled ELSE {},
             avail   <- IF Running THEN free[0] ELSE {},
             granted <- {ChunkFrames(c) : c \in held}

ImplementsFrameAllocator == FA!ASpec
=============================================================================
