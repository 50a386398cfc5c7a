------------------------------ MODULE Keyboard ------------------------------
(***************************************************************************)
(* The keyboard driver, kernel/keyboard, the keyboard it polls and the     *)
(* builtin keymap.  The user presses and releases keys; the keyboard turns *)
(* that into scan codes of set 1, one byte or more, and queues them; the   *)
(* driver reads one byte at a time and puts key events together again.     *)
(* The queue may lose bytes.                                               *)
(*                                                                         *)
(* Of the tables of scancodes.c and of the keymaps a few entries of each   *)
(* kind are kept: modifiers and locks, keys that share a code with an      *)
(* extended key, a letter, keys with three characters, keys with none.     *)
(***************************************************************************)
EXTENDS Integers, Sequences, FiniteSets

CONSTANTS KEYS,     \* the keys of the keyboard
          MAXKEYS,  \* bound: key strokes, a press and a release being two
          QUEUE,    \* bytes the keyboard can queue
          MAXLOST   \* bound: bytes that get lost

\* kbd_reg_keycodes and kbd_ext_keycodes; other codes in range are UNKNOWN.
kbd_reg_keycodes ==
  [c \in {3, 28, 29, 30, 40, 42, 54, 56, 58, 69, 72} |->
     CASE c = 3  -> "KEY_2"            [] c = 28 -> "KEY_ENTER"
       [] c = 29 -> "KEY_LEFT_CTRL"    [] c = 30 -> "KEY_A"
       [] c = 40 -> "KEY_SINGLE_QUOTE" [] c = 42 -> "KEY_LEFT_SHIFT"
       [] c = 54 -> "KEY_RIGHT_SHIFT"  [] c = 56 -> "KEY_LEFT_ALT"
       [] c = 58 -> "KEY_CAPS_LOCK"    [] c = 69 -> "KEY_NUMLOCK"
       [] c = 72 -> "KEY_KEYPAD_8"]
kbd_ext_keycodes ==
  [c \in {28, 29, 56, 72} |->
     CASE c = 28 -> "KEY_KEYPAD_ENTER" [] c = 29 -> "KEY_RIGHT_CTRL"
       [] c = 56 -> "KEY_RIGHT_ALT"    [] c = 72 -> "KEY_CURSOR_UP"]
RegLength == 89    \* elements of kbd_reg_keycodes
ExtLength == 110   \* elements of kbd_ext_keycodes

AllKeys == {kbd_reg_keycodes[c] : c \in DOMAIN kbd_reg_keycodes}
             \cup {kbd_ext_keycodes[c] : c \in DOMAIN kbd_ext_keycodes}

\* A keyboard has keys of the tables, and one the driver has no name for.
ASSUME KeyboardAssumption ==
  /\ KEYS \subseteq AllKeys \cup {"PRINT"}
  /\ {MAXKEYS, QUEUE, MAXLOST} \subseteq Nat

\* A code past the end of its table reads what lies there.
Lookup(table, length, sc) ==
  IF sc >= length THEN AllKeys \cup {"UNKNOWN"}
  ELSE {IF sc \in DOMAIN table THEN table[sc] ELSE "UNKNOWN"}

(***************************************************************************)
(* Keymaps: flags and the regular, shifted and AltGr character, 0 for none *)
(***************************************************************************)
Entry(flag, reg, shift, altgr) ==
  [flag |-> flag, reg |-> reg, shift |-> shift, altgr |-> altgr]
NoEntry == Entry("0", "0", "0", "0")

US104_getkeymapentry(key) ==
  CASE key = "KEY_A"            -> Entry("CAPSLOCK", "a", "A", "0")
    [] key = "KEY_2"            -> Entry("0", "2", "@", "2")
    [] key = "KEY_SINGLE_QUOTE" -> Entry("0", "'", "quote", "0")
    [] key = "KEY_KEYPAD_8"     -> Entry("NO_MOD", "8", "0", "0")
    [] key \in {"KEY_ENTER", "KEY_KEYPAD_ENTER"} -> Entry("NO_MOD", "nl", "0", "0")
    [] OTHER                    -> NoEntry

FR_getkeymapentry(key) ==
  CASE key = "KEY_A"            -> Entry("CAPSLOCK", "q", "Q", "0")
    [] key = "KEY_2"            -> Entry("0", "e", "2", "~")
    [] key = "KEY_SINGLE_QUOTE" -> Entry("0", "0", "%", "0")
    [] OTHER                    -> US104_getkeymapentry(key)

getkeymapentry(layout, key) ==
  IF layout = "us" THEN US104_getkeymapentry(key) ELSE FR_getkeymapentry(key)

\* The bytes a key sends.  PRINT is a key the driver has no name for.
Bytes(key, type) ==
  LET up == IF type = "KEY_RELEASED" THEN 128 ELSE 0
      code(t) == CHOOSE c \in DOMAIN t : t[c] = key
  IN  CASE key = "PRINT" -> IF up = 0 THEN <<224, 42, 224, 55>>
                                      ELSE <<224, 183, 224, 170>>
        [] \E c \in DOMAIN kbd_ext_keycodes : kbd_ext_keycodes[c] = key
                         -> <<224, code(kbd_ext_keycodes) + up>>
        [] OTHER         -> <<code(kbd_reg_keycodes) + up>>

-----------------------------------------------------------------------------
VARIABLES held,     \* keys that are down
          locks,    \* the locks that are on, by the strokes so far
          sent,     \* history: the strokes, with what was held
          fifo,     \* bytes on their way, with the number of their stroke and
                    \* their place among its bytes
          lost,     \* history: the strokes a byte was lost of
          kbd_ext, modifiers, layout,  \* kbd_st
          events,   \* history: what KBD_getevent returned 0 for
          ret       \* what KBD_getevent last returned

kbd_st == <<kbd_ext, modifiers, layout>>
keyboardvars == <<held, locks, sent, fifo, lost>>
kbdvars == <<keyboardvars, kbd_st, events, ret>>

KInit ==
  /\ held = {} /\ locks = {}
  /\ sent = <<>> /\ fifo = <<>> /\ lost = {}
  /\ kbd_ext = FALSE /\ modifiers = {} /\ layout = "us"
  /\ events = <<>> /\ ret = 0

-----------------------------------------------------------------------------
Locks == {"KEY_CAPS_LOCK", "KEY_NUMLOCK"}
HoldModifiers == {"KEY_LEFT_SHIFT", "KEY_RIGHT_SHIFT", "KEY_LEFT_CTRL",
                  "KEY_RIGHT_CTRL", "KEY_LEFT_ALT", "KEY_RIGHT_ALT"}
Shifts == {"KEY_LEFT_SHIFT", "KEY_RIGHT_SHIFT"}
Toggle(S, x) == IF x \in S THEN S \ {x} ELSE S \cup {x}

\* The user presses or releases a key; a key held down repeats.
Stroke(key, type) ==
  /\ Len(sent) < MAXKEYS
  /\ Len(fifo) + Len(Bytes(key, type)) <= QUEUE
  /\ type = "KEY_RELEASED" => key \in held
  /\ held' = IF type = "KEY_PRESSED" THEN held \cup {key} ELSE held \ {key}
  /\ locks' = IF key \in Locks /\ type = "KEY_RELEASED" THEN Toggle(locks, key)
                                                       ELSE locks
  /\ sent' = Append(sent, [key |-> key, type |-> type, with |-> (held \ Locks) \cup locks])
  /\ fifo' = fifo \o [i \in 1 .. Len(Bytes(key, type)) |->
                        [byte |-> Bytes(key, type)[i], stroke |-> Len(sent) + 1,
                         at |-> i]]
  /\ UNCHANGED <<lost, kbd_st, events, ret>>

\* A byte gets lost on the way.
LoseByte ==
  /\ fifo # <<>> /\ Cardinality(lost) < MAXLOST
  /\ lost' = lost \cup {Head(fifo).stroke}
  /\ fifo' = Tail(fifo)
  /\ UNCHANGED <<held, locks, sent, kbd_st, events, ret>>

(***************************************************************************)
(* KBD_getevent, polled by KBD_geteventbytype                              *)
(***************************************************************************)

\* Variant with a fault: a released shift or control stays set.
set_modifiers_sticky(key, type) ==
  CASE key \in HoldModifiers -> modifiers \cup {key}
    [] key \in Locks /\ type = "KEY_RELEASED" -> Toggle(modifiers, key)
    [] OTHER -> modifiers

set_modifiers(key, type) ==
  CASE key \in HoldModifiers -> IF type = "KEY_PRESSED" THEN modifiers \cup {key}
                                                        ELSE modifiers \ {key}
    [] key \in Locks /\ type = "KEY_RELEASED" -> Toggle(modifiers, key)
    [] OTHER -> modifiers

\* Variant with a fault: AltGr does not come before the shifts.
KBD_getchar_noaltgr(key) ==
  LET ent == getkeymapentry(layout, key)
      shift == modifiers \cap Shifts # {}
  IN  IF ent.reg = "0" THEN "0"
      ELSE IF ent.flag = "NO_MOD" THEN ent.reg
      ELSE IF "KEY_CAPS_LOCK" \in modifiers /\ ent.flag = "CAPSLOCK"
      THEN IF shift THEN ent.reg ELSE ent.shift
      ELSE IF shift THEN ent.shift ELSE ent.reg

KBD_getchar(key) ==
  LET ent == getkeymapentry(layout, key)
      shift == modifiers \cap Shifts # {}
  IN  IF ent.reg = "0" THEN "0"
      ELSE IF ent.flag = "NO_MOD" THEN ent.reg
      ELSE IF "KEY_RIGHT_ALT" \in modifiers THEN ent.altgr
      ELSE IF "KEY_CAPS_LOCK" \in modifiers /\ ent.flag = "CAPSLOCK"
      THEN IF shift THEN ent.reg ELSE ent.shift
      ELSE IF shift THEN ent.shift ELSE ent.reg

\* A second prefix in a row is an error, the first one still counts.
ExtendedPrefix ==
  /\ fifo # <<>> /\ Head(fifo).byte = 224
  /\ ret' = IF kbd_ext THEN -1 ELSE -2
  /\ kbd_ext' = TRUE
  /\ fifo' = Tail(fifo)
  /\ UNCHANGED <<held, locks, sent, lost, modifiers, layout, events>>

\* Any other byte is a key.  A pressed one is returned to the shell, which asks
\* for its character.  ext is what the prefix flag becomes.
KeyEvent(ext) ==
  /\ fifo # <<>> /\ Head(fifo).byte # 224
  /\ LET sc == Head(fifo).byte
         type == IF sc > 128 THEN "KEY_RELEASED" ELSE "KEY_PRESSED"
         code == IF sc > 128 THEN sc - 128 ELSE sc
         found == IF kbd_ext THEN Lookup(kbd_ext_keycodes, ExtLength, code)
                             ELSE Lookup(kbd_reg_keycodes, RegLength, code)
     IN  \E key \in found :
           /\ modifiers' = set_modifiers(key, type)
           /\ \/ key = "UNKNOWN" /\ ret' = -1 /\ UNCHANGED events
              \/ /\ key # "UNKNOWN" /\ ret' = 0
                 /\ events' = Append(events,
                      [key |-> key, type |-> type, stroke |-> Head(fifo).stroke,
                       char |-> IF type = "KEY_PRESSED" THEN KBD_getchar(key) ELSE "0",
                       layout |-> layout])
  /\ kbd_ext' = ext
  /\ fifo' = Tail(fifo)
  /\ UNCHANGED <<held, locks, sent, lost, layout>>

\* Variant with a fault: the prefix is not forgotten.
KeyCodeKeepsPrefix == KeyEvent(kbd_ext)
KeyCode == KeyEvent(FALSE)

\* The builtin keymap, run by the shell between two events.
keymap(l) ==
  /\ ~kbd_ext /\ layout # l
  /\ layout' = l
  /\ UNCHANGED <<keyboardvars, kbd_ext, modifiers, events, ret>>

KNext ==
  \/ \E key \in KEYS, type \in {"KEY_PRESSED", "KEY_RELEASED"} : Stroke(key, type)
  \/ LoseByte
  \/ ExtendedPrefix
  \/ KeyCode
  \/ \E l \in {"us", "fr"} : keymap(l)

KSpec == KInit /\ [][KNext]_kbdvars

-----------------------------------------------------------------------------
Pressed(e) == e.type = "KEY_PRESSED"
EventSet == {events[i] : i \in DOMAIN events}
Chars == {"0", "a", "A", "q", "Q", "2", "@", "e", "~", "'", "quote", "%", "8", "nl"}

\* A lost byte garbles its own stroke and at most the next one.
Intact(i) == i \notin lost /\ i - 1 \notin lost
Consumed(i) == fifo = <<>> \/ Head(fifo).stroke > i

\* KBD_getevent reports every stroke of a key it knows, once and in order, with
\* the right key and direction, although keys share codes and the prefix is a
\* byte of its own; after a lost byte the driver is in step again with the next
\* stroke but one.
EventsFollowKeys ==
  /\ \A e \in EventSet : Intact(e.stroke) =>
       e.key = sent[e.stroke].key /\ e.type = sent[e.stroke].type
  /\ \A i, j \in DOMAIN events :
       i < j /\ Intact(events[j].stroke) => events[i].stroke < events[j].stroke
  /\ \A i \in DOMAIN sent :
       Intact(i) /\ Consumed(i) /\ sent[i].key \in AllKeys
         => \E e \in EventSet : e.stroke = i

\* set_modifiers tracks what is held: once the queue is empty a modifier is set
\* exactly when its key is down, if it was struck at all since the driver last
\* lost step, and without losses the locks agree as well.
LastStroke(m) ==
  LET S == {i \in DOMAIN sent : sent[i].key = m}
  IN  IF S = {} THEN 0 ELSE CHOOSE i \in S : \A j \in S : j <= i
ModifiersFollowKeys ==
  fifo = <<>> =>
    /\ \A m \in HoldModifiers :
         (\A i \in lost : LastStroke(m) > i + 1) => (m \in modifiers <=> m \in held)
    /\ lost = {} => modifiers \cap Locks = locks

\* The character of a key, by the flags of the keymap entries in keyboard.h:
\* AltGr, or else shift and capslock xored.
Wanted(l, key, with) ==
  LET ent == getkeymapentry(l, key)
      shift == with \cap Shifts # {}
      caps == "KEY_CAPS_LOCK" \in with /\ ent.flag = "CAPSLOCK"
  IN  IF ent.flag = "NO_MOD" THEN ent.reg
      ELSE IF "KEY_RIGHT_ALT" \in with THEN ent.altgr
      ELSE IF shift # caps THEN ent.shift ELSE ent.reg

\* KBD_getchar gives the character of the key with the modifiers that were down
\* when it was struck, however late the driver reads it.
CharactersAsTyped ==
  lost = {} => \A e \in EventSet :
    Pressed(e) => e.char = Wanted(e.layout, e.key, sent[e.stroke].with)

=============================================================================
