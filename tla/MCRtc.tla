------------------------------- MODULE MCRtc -------------------------------
(***************************************************************************)
(* Windows of three seconds around carries: the turn of a year, when every *)
(* register changes, the ends of February in a leap year and in 2100, and  *)
(* the turn of the century, when the year register restarts.               *)
(***************************************************************************)
EXTENDS Rtc

Time(y, mo, d, h, mi, s) ==
  [year |-> y, mon |-> mo, day |-> d, hour |-> h, min |-> mi, sec |-> s]

NewYear(y) == <<Time(y, 12, 31, 23, 59, 58), Time(y, 12, 31, 23, 59, 59),
                Time(y + 1, 1, 1, 0, 0, 0)>>
LeapDay == <<Time(2024, 2, 28, 23, 59, 59), Time(2024, 2, 29, 0, 0, 0),
             Time(2024, 2, 29, 0, 0, 1)>>
NoLeapDay == <<Time(2100, 2, 28, 23, 59, 59), Time(2100, 3, 1, 0, 0, 0)>>
Summer == <<Time(2119, 8, 31, 18, 29, 59), Time(2119, 8, 31, 18, 30, 0)>>
Noon == <<Time(2023, 6, 15, 11, 59, 59), Time(2023, 6, 15, 12, 0, 0)>>

Morning == <<Time(2040, 6, 15, 9, 59, 59), Time(2040, 6, 15, 10, 0, 0)>>

\* Chips with 12 hours are checked away from noon and midnight.
MCCLOCKS ==
  [window : {NewYear(2023), NewYear(2099), LeapDay, NoLeapDay, Summer},
   fmt : [binary : BOOLEAN, h24 : {TRUE}]]
  \cup [window : {Morning, Summer}, fmt : [binary : BOOLEAN, h24 : {FALSE}]]
NoonCLOCKS == [window : {Noon}, fmt : [binary : BOOLEAN, h24 : {FALSE}]]
=============================================================================
