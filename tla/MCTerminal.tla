---------------------------- MODULE MCTerminal -----------------------------
(***************************************************************************)
(* The two sides of the terminal in one state space: the screen buffers    *)
(* and the keyboard.  They share no state; a behaviour is one of them      *)
(* alone, the other standing still.                                        *)
(*                                                                         *)
(* Screens: four lines of two cells, two of them on display.  The first    *)
(* screen is explored whole, so its buffer wraps, the viewport lags behind *)
(* and reaches the top, and a command line runs over a line's end; the     *)
(* second, which the first is switched with, stops when it has left its    *)
(* second line.  Keyboard: all kinds of keys and one lost byte.            *)
(***************************************************************************)
EXTENDS Screenbuf, Keyboard

MCKEYS == {"KEY_A", "KEY_2", "KEY_LEFT_SHIFT", "KEY_CAPS_LOCK", "KEY_LEFT_ALT",
           "KEY_RIGHT_ALT", "PRINT"}

\* Bound: the lines of screen 1 that are written to.
SecondScreenShort == \A i \in Screens \ {0} : sb[i].cursor <= 1

VARIABLE part  \* the side that runs

MCInit == part \in {"screen", "keyboard"} /\ SInit /\ KInit

MCNext ==
  /\ UNCHANGED part
  /\ \/ part = "screen" /\ SNext /\ UNCHANGED kbdvars
     \/ part = "keyboard" /\ KNext /\ UNCHANGED sbvars

MCSpec == MCInit /\ [][MCNext]_<<sbvars, kbdvars, part>>
=============================================================================
