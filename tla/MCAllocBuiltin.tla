-------------------------- MODULE MCAllocBuiltin ---------------------------
(***************************************************************************)
(* A smaller machine for the builtins: eight frames of four bytes, three   *)
(* orders; frame 0, a kernel of one frame and a buddy structure of one     *)
(* leave five frames, fragmented so that a request can be met by chunks of *)
(* different orders, met in part, or not at all.                           *)
(***************************************************************************)
EXTENDS AllocBuiltin

Entry(addr, len, available) ==
  [addr |-> addr, len |-> len, available |-> available]

MCMMAPS == {<<Entry(0, 12, TRUE), Entry(12, 8, FALSE), Entry(20, 12, TRUE)>>,
            <<Entry(0, 10, TRUE), Entry(12, 30, TRUE)>>}

\* The same machine in an address space of 40 bytes, where a long ends at 19.
HighMMAPS == {<<Entry(0, 12, TRUE), Entry(12, 8, FALSE), Entry(20, 12, TRUE)>>}

MCSIZES == {0, 6, 28}
HighSIZES == {0, 6, 16}
MCCHUNKS == {}
=============================================================================
