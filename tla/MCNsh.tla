------------------------------- MODULE MCNsh -------------------------------
(***************************************************************************)
(* Lines of up to seven bytes over two letters and the space, and builtins *)
(* of which two begin alike.  Of the five pointers of nsh_cmd one is       *)
(* cleared at a new prompt.                                                *)
(***************************************************************************)
EXTENDS Nsh

MCBUILTINS == << <<"a", "b", "a">>, <<"b">>, <<"a", "b", "b">> >>
=============================================================================
