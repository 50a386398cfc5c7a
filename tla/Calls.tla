------------------------------- MODULE Calls -------------------------------
(***************************************************************************)
(* The leaf code of the kernel put together: number parsers, builtins,     *)
(* kprintf and the string library.  The kernel has one thread; a call runs *)
(* to its end before the next begins.  What kprintf puts on the screen a   *)
(* user may type again, so a printed address reaches a parser.             *)
(***************************************************************************)
EXTENDS Builtins, Kprintf, Str

VARIABLE typed  \* the word whose %p is being read back, or -1

callvars == <<parsevars, builtinvars, printvars, strvars, typed>>

CInit == BInit /\ PrintInit /\ StrInit /\ typed = -1

Free == spc = "idle" /\ bpc = "idle" /\ ppc = "idle" /\ call = NoCall

\* A parser, called with the words of PARSES.
CallParser ==
  /\ \/ Free /\ \E k \in PARSES : StrtolCall(k)
     \/ bpc = "idle" /\ StrtolStep
  /\ UNCHANGED <<builtinvars, printvars, strvars, typed>>

ParserReturns ==
  /\ bpc = "idle" /\ StrtolReturn
  /\ typed' = -1
  /\ UNCHANGED <<builtinvars, printvars, strvars>>

\* A builtin, on a screen of any colour.
CallBuiltin ==
  /\ bpc = "idle" => Free
  /\ BuiltinNext
  /\ UNCHANGED <<printvars, strvars, typed>>

CallPrint ==
  /\ ppc = "idle" => Free
  /\ PrintNext
  /\ UNCHANGED <<parsevars, builtinvars, strvars, typed>>

CallString ==
  /\ Free \/ call # NoCall
  /\ StrNext
  /\ UNCHANGED <<parsevars, builtinvars, printvars, typed>>

\* Variant with a fault: the address is read as a decimal number.
AddressBaseTen == 10

\* The base in which free and hexdump read an address.
AddressBase == 0

\* The user types the address kprintf printed with %p as an argument of
\* hexdump (strtoul) or free (strtol).
TypeAddress ==
  /\ ppc = "done" /\ print.fn = "kprintf"
  /\ Len(print.fmt) = 1 /\ print.fmt[1].conv = "p" /\ ~PointerSkipped
  /\ \E fn \in {strtoul, strtol} :
       StrtolCall([fn |-> fn, str |-> Printed, base |-> AddressBase])
  /\ typed' = print.args[1]
  /\ PrintReturn
  /\ UNCHANGED <<builtinvars, strvars>>

CNext ==
  CallParser \/ ParserReturns \/ CallBuiltin \/ CallPrint \/ CallString \/ TypeAddress

CSpec == CInit /\ [][CNext]_callvars

\* An address printed with %p and typed again is the same address: for hexdump
\* every one, whatever zeros %8p put in front, for free those that a long holds.
\* (What free does with the others is AllocBuiltin's FreeReleases.)
PrintedReadsBack ==
  typed >= 0 /\ spc = "done" /\ (parse.fn.signed => typed <= SMAX(parse.fn)) =>
    result = [val |-> typed, endptr |-> Len(parse.str) + 1]
=============================================================================
