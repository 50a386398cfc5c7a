------------------------------ MODULE Spinlock ------------------------------
(***************************************************************************)
(* The spinlock library, kernel/spinlock.c: one lock, the CPUs that use it *)
(* and the word it guards.  acquire_or_one is one atomic instruction; each *)
(* turn of the loop of kspin_lock is a step.  The kernel has no caller of  *)
(* the library yet: the client below reads the guarded word in one step    *)
(* and writes it back, one greater, in another.                            *)
(***************************************************************************)
EXTENDS Integers, FiniteSets

CONSTANTS CPUS,        \* the processors
          MAXUPDATES   \* bound: updates of the guarded word

ASSUME SpinlockAssumption == CPUS # {} /\ MAXUPDATES \in Nat

VARIABLES lock,     \* ks->lock
          ready,    \* kspin_init has been called
          lpc,       \* where CPU c is
          tryret,   \* tryret[c]: what kspin_trylock last returned to c
          data,     \* the guarded word
          seen,     \* seen[c]: the word as CPU c read it
          updates   \* history: how often the word was written

spinvars == <<lock, ready, lpc, tryret, data, seen, updates>>

\* Before kspin_init the structure holds whatever was in memory.
LInit ==
  /\ lock \in {0, 1}
  /\ ready = FALSE
  /\ lpc = [c \in CPUS |-> "idle"]
  /\ tryret = [c \in CPUS |-> 0]
  /\ data = 0
  /\ seen = [c \in CPUS |-> 0]
  /\ updates = 0

kspin_init ==
  /\ ~ready
  /\ ready' = TRUE
  /\ lock' = 0
  /\ UNCHANGED <<lpc, tryret, data, seen, updates>>

-----------------------------------------------------------------------------
\* Variant with a fault: the test and the store are two instructions, so the
\* value tested may be old.
acquire_or_one_racy(old) ==
  /\ old \in {0, lock}
  /\ lock' = 1

\* The compare-and-swap; old is the value it returns.
acquire_or_one(old) ==
  /\ old = lock
  /\ lock' = IF lock = 0 THEN 1 ELSE lock

\* Variant with a fault: the loop goes on while the lock was free.
kspin_lock_inverted(c) ==
  /\ ready /\ lpc[c] \in {"idle", "spinning"}
  /\ \/ acquire_or_one(1) /\ lpc' = [lpc EXCEPT ![c] = "locked"]
     \/ acquire_or_one(0) /\ lpc' = [lpc EXCEPT ![c] = "spinning"]
  /\ UNCHANGED <<ready, tryret, data, seen, updates>>

\* A turn of the loop.
kspin_lock(c) ==
  /\ ready /\ lpc[c] \in {"idle", "spinning"}
  /\ \/ acquire_or_one(0) /\ lpc' = [lpc EXCEPT ![c] = "locked"]
     \/ acquire_or_one(1) /\ lpc' = [lpc EXCEPT ![c] = "spinning"]
  /\ UNCHANGED <<ready, tryret, data, seen, updates>>

kspin_trylock(c) ==
  /\ ready /\ lpc[c] = "idle"
  /\ \E old \in {0, 1} :
       /\ acquire_or_one(old)
       /\ tryret' = [tryret EXCEPT ![c] = 0 - old]
       /\ lpc' = [lpc EXCEPT ![c] = IF 0 - old = 0 THEN "locked" ELSE "idle"]
  /\ UNCHANGED <<ready, data, seen, updates>>

\* Variant with a fault: the lock is left as it is.
kspin_drop_kept(c) ==
  /\ lpc[c] = "written"
  /\ lpc' = [lpc EXCEPT ![c] = "idle"]
  /\ UNCHANGED <<lock, ready, tryret, data, seen, updates>>

kspin_drop(c) ==
  /\ lpc[c] = "written"
  /\ lock' = 0
  /\ lpc' = [lpc EXCEPT ![c] = "idle"]
  /\ UNCHANGED <<ready, tryret, data, seen, updates>>

\* The client of the lock.
ReadWord(c) ==
  /\ lpc[c] = "locked"
  /\ seen' = [seen EXCEPT ![c] = data]
  /\ lpc' = [lpc EXCEPT ![c] = "read"]
  /\ UNCHANGED <<lock, ready, tryret, data, updates>>

WriteWord(c) ==
  /\ lpc[c] = "read"
  /\ \/ /\ updates < MAXUPDATES
        /\ data' = seen[c] + 1
        /\ updates' = updates + 1
     \/ /\ updates = MAXUPDATES
        /\ UNCHANGED <<data, updates>>
  /\ lpc' = [lpc EXCEPT ![c] = "written"]
  /\ UNCHANGED <<lock, ready, tryret, seen>>

LNext ==
  \/ kspin_init
  \/ \E c \in CPUS : kspin_lock(c) \/ kspin_trylock(c) \/ kspin_drop(c)
  \/ \E c \in CPUS : ReadWord(c) \/ WriteWord(c)

LSafety == LInit /\ [][LNext]_spinvars

\* Each CPU keeps executing: a spinning one its loop, the holder its way to
\* kspin_drop.  An idle CPU may stay so.
Proceed(c) == \/ lpc[c] = "spinning" /\ kspin_lock(c)
              \/ kspin_drop(c) \/ ReadWord(c) \/ WriteWord(c)
LSpec == LSafety /\ \A c \in CPUS : WF_spinvars(Proceed(c))

-----------------------------------------------------------------------------
Holding == {"locked", "read", "written"}

\* The lock word is 0 or 1, and every CPU is at a point of the library or of
\* the client.
LTypeOK ==
  /\ lock \in {0, 1}
  /\ ready \in BOOLEAN
  /\ lpc \in [CPUS -> {"idle", "spinning"} \cup Holding]
  /\ tryret \in [CPUS -> {0, -1}]
  /\ data \in Nat
  /\ seen \in [CPUS -> Nat]
  /\ updates \in 0 .. MAXUPDATES

\* However kspin_lock and kspin_trylock of several CPUs interleave, at most one
\* CPU has the lock, and the lock is busy while it does.
MutualExclusion ==
  \A c, d \in CPUS :
    lpc[c] \in Holding => lock = 1 /\ (lpc[d] \in Holding => c = d)

\* The inductive strengthening: nobody holds a lock that was not set up, and the
\* holder's copy of the word is current.
HolderUpToDate ==
  \A c \in CPUS :
    /\ lpc[c] \in Holding => ready
    /\ lpc[c] = "read" => seen[c] = data

\* What the lock is for: no update of the guarded word is lost.
NoUpdateLost == data = updates

\* While a CPU polls in kspin_lock the lock is passed on: some CPU, though not
\* always the one that polls, gets it.
SomeoneGetsIn ==
  (\E c \in CPUS : lpc[c] = "spinning") ~> (\E c \in CPUS : lpc[c] = "locked")
=============================================================================
