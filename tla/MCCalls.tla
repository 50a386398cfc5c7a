------------------------------ MODULE MCCalls ------------------------------
(***************************************************************************)
(* Words of six bits for int and long and of seven for long long, so that  *)
(* three digits overflow; formats of up to three items into buffers of 0   *)
(* to 9 bytes; lines of four bytes for hexdump; a memory of five cells.    *)
(***************************************************************************)
EXTENDS Calls

Digits10 == {"0", "1", "7", "a"}
Numbers == UNION {[1 .. n -> Digits10] : n \in 0 .. 3}
Decorated == {<<"-">> \o w : w \in Numbers} \cup {<<"0", "x">> \o w : w \in Numbers}
             \cup {<<" ", "+", "0", "X", "A">>, <<" ", " ", "-", "3", "2">>,
                   <<"-", "3", "3">>, <<"-", "0", "x", "2", "0">>, <<"6", "4">>,
                   <<"1", "2", "7", "x">>, <<"1", "2", "8">>, <<"z">>, <<" ">>,
                   <<"0", "x", "F">>, <<"1", "B", "g">>, <<"Z">>, <<"Y", "w">>}
MCPARSES ==
  [fn : Parsers, str : Numbers \cup Decorated, base : {0, 10, 16}]
  \cup {atoi(w) : w \in Numbers} \cup [fn : {strtol}, str : Numbers \cup {<<"Z">>, <<"Y", "w">>}, base : {2, 8, 36}]

Words == 0 .. 2 ^ INT_BITS - 1
Snprintf(fmts, argses) ==
  [fn : {"snprintf"}, size : 0 .. 9, fmt : fmts, args : argses]
MCPRINTS ==
  Snprintf({<<Conv(k, w)>> : k \in {"x", "p", "b", "u"}, w \in {-1, 0, 2, 8}},
           {<<n>> : n \in {0, 1, 9, 16, 31, 32, 63}})
  \cup Snprintf({<<Conv("d", -1), Lit("k")>>}, {<<n>> : n \in Words})
  \cup Snprintf({<<Lit("a"), Conv("%", -1), Conv("c", -1), Lit("b")>>}, {<<"q">>})
  \cup Snprintf({<<Conv("s", -1), Lit(":"), Conv("p", 4)>>, <<Conv("s", 3), Conv("x", -1), Conv("!", -1), Lit("z")>>},
                {<<<<"h", "e", "y">>, 42>>, <<<<>>, 5>>})
  \cup [fn : {"kprintf"}, size : {0}, fmt : {<<Conv("p", w)>> : w \in {-1, 4, 8}},
        args : {<<n>> : n \in Words}]
  \cup {[fn |-> "kprintf", size |-> 0,
         fmt |-> <<Conv("s", -1), Conv("b", 8), Lit("z")>>,
         args |-> <<<<"a", "b", "c", "d">>, 45>>]}

MCCOMMANDS ==
  {<< <<"hexdump">>, <<"0", "x">> \o a, n>> :
     a \in {<<"0">>, <<"3", "0">>, <<"3", "e">>, <<"1", "z">>, <<"f", "f">>},
     n \in {<<"0">>, <<"3">>, <<"4">>, <<"9">>, <<"k">>, <<"1", "6">>, <<"-", "1">>}}
  \cup {<< <<"hexdump">>, <<"1">> >>, << <<"info">> >>, << <<"color">> >>}
  \cup {<< <<"info">>, <<w>> >> : w \in {"gdt", "stack", "buddy", "idt", "registers", "x"}}
  \cup {<< <<"info">>, <<"buddy">>, n>> :
          n \in {<<"0">>, <<"1">>, <<"2">>, <<"-", "1">>, <<"7", "7">>, <<"1", "k">>}}
  \cup {<< <<"color">>, <<w>>, <<v>> >> : w \in {"fg", "bg", "reset", "x"},
                                          v \in {"red", "white", "pink"}}

MCCOLORS == {SB_DFL_COLOR, 39}

\* The two mapped areas, and the end of the address space, so that a dump wraps.
MCMAPPED == (0 .. 6) \cup (48 .. 57) \cup {62, 63}
MCMEMORY == [i \in MCMAPPED |->
               CASE i % 3 = 0 -> 0 [] i % 3 = 1 -> 65 + (i % 16) [] OTHER -> 128 + i]
MCBITMAPS == << <<0, 255, 60>>, <<255, 4>> >>

AllFns == Reads \cup {"strcpy", "strncpy", "strcat", "strncat", "strtok",
                      "memcpy", "memmove", "memset"}
=============================================================================
