-------------------------------- MODULE Rtc --------------------------------
(***************************************************************************)
(* The real time clock driver, drivers/rtc/rtc.c, and the clock chip it    *)
(* races with.  The chip counts on while the driver reads its registers    *)
(* one by one: an update raises the update-in-progress bit, changes the    *)
(* registers in some order and drops the bit.                              *)
(*                                                                         *)
(* A window is the sequence of times, a second apart, that the clock goes  *)
(* through; it is shorter than a minute, which is what a call of           *)
(* rtc_read_time may take.  A format says how the chip was set up: binary  *)
(* or BCD, 24 or 12 hours.                                                 *)
(***************************************************************************)
EXTENDS Integers, Sequences

CONSTANT CLOCKS  \* records [window, fmt]: a sequence of times, each a record
                 \* [sec, min, hour, day, mon, year], and a [binary, h24]

Registers == <<"sec", "min", "hour", "day", "mon", "year">>
Fields == {Registers[k] : k \in 1 .. 6}

\* The moments the two digits of the year register stand for.
Moments == [sec : 0 .. 59, min : 0 .. 59, hour : 0 .. 23,
            day : 1 .. 31, mon : 1 .. 12, year : 2022 .. 2121]

\* Within a minute no second comes twice, and a field that has changed does not
\* change back.
ASSUME RtcAssumption ==
  \A clock \in CLOCKS :
    /\ clock.fmt \in [binary : BOOLEAN, h24 : BOOLEAN]
    /\ clock.window \in Seq(Moments) /\ clock.window # <<>>
    /\ \A t, u, v \in DOMAIN clock.window :
         LET w == clock.window
         IN  /\ w[t].sec = w[u].sec => t = u
             /\ t <= u /\ u <= v =>
                  \A f \in Fields : w[t][f] = w[v][f] => w[u][f] = w[t][f]

Zero == [f \in Fields |-> 0]

(***************************************************************************)
(* The chip                                                                *)
(***************************************************************************)
BCD(n) == (n \div 10) * 16 + (n % 10)

\* What the registers show at time t: bit 7 of the hour is the PM bit.
Encode(fmt, t) ==
  LET num(n) == IF fmt.binary THEN n ELSE BCD(n)
      hour12 == IF t.hour % 12 = 0 THEN 12 ELSE t.hour % 12
      pm == IF t.hour >= 12 THEN 128 ELSE 0
  IN  [f \in Fields |->
         CASE f = "year"             -> num(t.year % 100)
           [] f = "hour" /\ ~fmt.h24 -> num(hour12) + pm
           [] OTHER                  -> num(t[f])]

(***************************************************************************)
(* The driver's arithmetic                                                 *)
(***************************************************************************)

\* Variant with a fault: every fourth year is a leap year.
rtc_get_yday_julian(t) ==
  LET before == <<0, 31, 59, 90, 120, 151, 181, 212, 243, 273, 304, 334>>
  IN  t.day - 1 + before[t.mon] + IF t.mon > 2 /\ t.year % 4 = 0 THEN 1 ELSE 0

\* The days the months before t.mon add up to.
rtc_get_yday(t) ==
  LET leap == t.year % 4 = 0 /\ (t.year % 400 = 0 \/ t.year % 100 # 0)
      before == <<0, 31, 59, 90, 120, 151, 181, 212, 243, 273, 304, 334>>
  IN  t.day - 1 + before[t.mon] + IF t.mon > 2 /\ leap THEN 1 ELSE 0

rtc_convert_BCDtobinary(tm) ==
  [f \in Fields |->
     IF f = "hour"
     THEN (tm[f] % 16) + ((tm[f] % 128) \div 16) * 10 + (tm[f] \div 128) * 128
     ELSE (tm[f] % 16) + (tm[f] \div 16) * 10]

to24(fmt, hour) ==
  IF ~fmt.h24 /\ hour >= 128 THEN (hour - 128 + 12) % 24 ELSE hour

century(year) == IF year + 2000 < 2022 THEN year + 2100 ELSE year + 2000

\* What rtc_read_time makes of the registers once they were read.
Convert(fmt, tm) ==
  LET bin == IF fmt.binary THEN tm ELSE rtc_convert_BCDtobinary(tm)
      cal == [bin EXCEPT !.hour = to24(fmt, @), !.year = century(@)]
  IN  [sec |-> cal.sec, min |-> cal.min, hour |-> cal.hour, day |-> cal.day,
       mon |-> cal.mon, year |-> cal.year, yday |-> rtc_get_yday(cal)]

\* A uint32_t as its two halves, which is what TLC's integers hold.
HALF == 65536
U32(n) == <<n \div HALF, n % HALF>>
Plus(u, v) ==
  <<(u[1] + v[1] + (u[2] + v[2]) \div HALF) % HALF, (u[2] + v[2]) % HALF>>
Minus(u) == Plus(<<HALF - 1 - u[1], HALF - 1 - u[2]>>, U32(1))
Times(n, u) ==
  <<(n * u[1] + (n * u[2]) \div HALF) % HALF, (n * u[2]) % HALF>>

\* The sum of rtc_get_timestamp modulo 2^32.  From 2039 on the int product of
\* the years leaves its type; the imul of the build wraps it.
rtc_get_timestamp(t) ==
  LET year == t.year - 1900
      days(n) == Times(n, U32(86400))
      time == U32(t.sec + t.min * 60 + t.hour * 3600)
      years == Times(year - 70, U32(31536000))
      leaps == Plus(days((year - 69) \div 4), Minus(days((year - 1) \div 100)))
  IN  Plus(Plus(time, days(t.yday)),
           Plus(years, Plus(leaps, days((year + 299) \div 400))))

\* Variant with a fault: only the seconds are compared.
rtc_isdiff_seconds(tm1, tm2) == tm1.sec # tm2.sec
rtc_isdiff(tm1, tm2) == tm1 # tm2

-----------------------------------------------------------------------------
VARIABLES window,  \* the times the clock goes through
          fmt,     \* how the chip was set up
          now,     \* the clock is at window[now]
          uip,     \* the update-in-progress bit of register A
          stale,   \* registers that an update has still to change
          pc,      \* "idle", "wait" for ~uip, "read"
          k,       \* the next register to read
          tm, ltm, \* this pass and the one before
          called,  \* where the clock was when rtc_read_time was called
          result   \* what the last call stored, or <<>>

chipvars == <<window, fmt, now, uip, stale>>
rtcvars == <<chipvars, pc, k, tm, ltm, called, result>>

RInit ==
  /\ \E clock \in CLOCKS : window = clock.window /\ fmt = clock.fmt
  /\ now = 1
  /\ uip = FALSE
  /\ stale = {}
  /\ pc = "idle"
  /\ k = 1
  /\ tm = Zero
  /\ ltm = Zero
  /\ called = 1
  /\ result = <<>>

\* A register during an update shows the old or the new time.
rtc_get_reg(f) ==
  IF uip /\ f \notin stale THEN Encode(fmt, window[now + 1])[f]
                           ELSE Encode(fmt, window[now])[f]

UpdateBegins ==
  /\ ~uip /\ now < Len(window)
  /\ uip' = TRUE
  /\ stale' = Fields
  /\ UNCHANGED <<window, fmt, now, pc, k, tm, ltm, called, result>>

RegisterChanges(f) ==
  /\ f \in stale
  /\ stale' = stale \ {f}
  /\ UNCHANGED <<window, fmt, now, uip, pc, k, tm, ltm, called, result>>

UpdateEnds ==
  /\ uip /\ stale = {}
  /\ uip' = FALSE
  /\ now' = now + 1
  /\ UNCHANGED <<window, fmt, stale, pc, k, tm, ltm, called, result>>

-----------------------------------------------------------------------------
\* rtc_read_time up to the wait of its first pass.
ReadTime ==
  /\ pc = "idle"
  /\ pc' = "wait"
  /\ tm' = Zero
  /\ ltm' = Zero
  /\ called' = now
  /\ UNCHANGED <<chipvars, k, result>>

\* The wait loop sees the bit clear.
WaitUpdate ==
  /\ pc = "wait" /\ ~uip
  /\ pc' = "read"
  /\ k' = 1
  /\ UNCHANGED <<chipvars, tm, ltm, called, result>>

ReadRegister ==
  /\ pc = "read" /\ k <= 6
  /\ tm' = [tm EXCEPT ![Registers[k]] = rtc_get_reg(Registers[k])]
  /\ k' = k + 1
  /\ UNCHANGED <<chipvars, pc, ltm, called, result>>

\* Variant with a fault: the first pass is not remembered.
NextPassForgets ==
  /\ pc = "read" /\ k > 6 /\ rtc_isdiff(tm, ltm)
  /\ pc' = "wait"
  /\ UNCHANGED <<chipvars, k, tm, ltm, called, result>>

\* Two passes differ: once more.
NextPass ==
  /\ pc = "read" /\ k > 6 /\ rtc_isdiff(tm, ltm)
  /\ pc' = "wait"
  /\ ltm' = tm
  /\ UNCHANGED <<chipvars, k, tm, called, result>>

\* Two passes agree: the conversions, and the return.
Return ==
  /\ pc = "read" /\ k > 6 /\ ~rtc_isdiff(tm, ltm)
  /\ pc' = "idle"
  /\ result' = Convert(fmt, tm)
  /\ UNCHANGED <<chipvars, k, tm, ltm, called>>

chip == UpdateBegins \/ (\E f \in Fields : RegisterChanges(f)) \/ UpdateEnds
driver == ReadTime \/ WaitUpdate \/ ReadRegister \/ NextPass \/ Return
RNext == chip \/ driver

\* The chip finishes the updates it begins and the driver keeps polling.
RSpec ==
  /\ RInit /\ [][RNext]_rtcvars
  /\ WF_rtcvars((\E f \in Fields : RegisterChanges(f)) \/ UpdateEnds)
  /\ WF_rtcvars(WaitUpdate \/ ReadRegister \/ NextPass \/ Return)

-----------------------------------------------------------------------------
Returned == pc = "idle" /\ result # <<>>

\* Calendar reference: month lengths, and the days of the years since 1970.
IsLeap(y) == y % 4 = 0 /\ (y % 100 # 0 \/ y % 400 = 0)
MonthDays(y, m) ==
  CASE m \in {4, 6, 9, 11} -> 30 [] m = 2 -> (IF IsLeap(y) THEN 29 ELSE 28)
    [] OTHER -> 31
DaysBeforeMonth(y) ==
  LET f[m \in 1 .. 12] == IF m = 1 THEN 0 ELSE f[m - 1] + MonthDays(y, m - 1)
  IN  f
YearDays[y \in 1970 .. 2122] ==
  IF y = 1970 THEN 0 ELSE YearDays[y - 1] + IF IsLeap(y - 1) THEN 366 ELSE 365

\* The fields rtc_read_time stores are those of one moment during the call,
\* though the registers were read one by one while they changed: no mixture of
\* the second before and the second after a carry.
ReturnsTimeOfCall ==
  Returned => \E t \in called .. now :
                \A f \in Fields : result[f] = window[t][f]

\* rtc_get_timestamp is the number of seconds since 1 January 1970 modulo 2^32,
\* though terms of its sum overflow from 2039 on and the sum itself from 2106
\* on, and rtc_get_yday the number of days since 1 January.
TimestampCounts ==
  Returned =>
    /\ result.yday = DaysBeforeMonth(result.year)[result.mon] + result.day - 1
    /\ rtc_get_timestamp(result) =
         Plus(Times(YearDays[result.year] + result.yday, U32(86400)),
              U32((result.hour * 60 + result.min) * 60 + result.sec))

\* Clock updates do not keep rtc_read_time in its loop: it returns.
ReadReturns == (pc = "wait") ~> (pc = "idle")

\* The comment in rtc_read_time: with the PM bit set it converts "from 12 hour
\* clock to 24 hour clock".
HourConverted ==
  Returned => \E t \in called .. now : result.hour = window[t].hour
=============================================================================
