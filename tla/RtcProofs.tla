----------------------------- MODULE RtcProofs -----------------------------
(***************************************************************************)
(* What rtc_read_time returns, for every setting of the chip and every     *)
(* window of the clock: the time of one moment during the call.            *)
(***************************************************************************)
EXTENDS Rtc, LevelInduction

\* The time the registers show once the update under way is through.
Latest == IF uip THEN now + 1 ELSE now

\* The register f of a pass shows a time between lo and hi.
Shows(pass, f, lo, hi) ==
  \E x \in lo .. hi : pass[f] = Encode(fmt, window[x])[f]

\* The pass before this one was over when the clock was at b.
EarlierPass(b) == ltm = Zero \/ \A f \in Fields : Shows(ltm, f, 1, b)

\* The clock runs within its window, and changes registers during updates only.
ChipInv ==
  /\ \E clock \in CLOCKS : window = clock.window /\ fmt = clock.fmt
  /\ now \in 1 .. Len(window)
  /\ stale \subseteq Fields
  /\ uip \in BOOLEAN
  /\ uip => now < Len(window)
  /\ ~uip => stale = {}

\* A moment b, when the driver saw the bit clear, is between what the pass
\* before read and what this pass has read so far.
DriverInv ==
  /\ pc \in {"idle", "wait", "read"}
  /\ k \in 1 .. 7
  /\ tm \in [Fields -> Nat]
  /\ ltm \in [Fields -> Nat]
  /\ called \in 1 .. now
  /\ pc = "wait" => EarlierPass(Latest)
  /\ pc = "read" =>
       \E b \in called .. now :
         /\ EarlierPass(b)
         /\ \A i \in 1 .. k - 1 : Shows(tm, Registers[i], b, Latest)

RInv == ChipInv /\ DriverInv /\ ReturnsTimeOfCall

\* Registers that show 12 hours are decoded away from noon and midnight:
\* HourConverted fails there.
HoursReadable ==
  \A clock \in CLOCKS :
    ~clock.fmt.h24 =>
      \A t \in DOMAIN clock.window : clock.window[t].hour % 12 # 0

-----------------------------------------------------------------------------
\* What Convert makes of the value v of the register f.
Decode(fm, f, v) ==
  LET bin == IF fm.binary THEN v
             ELSE IF f = "hour" THEN (v % 16) + ((v % 128) \div 16) * 10
                                               + (v \div 128) * 128
             ELSE (v % 16) + (v \div 16) * 10
  IN  CASE f = "hour" -> to24(fm, bin)
        [] f = "year" -> century(bin)
        [] OTHER      -> bin

\* The registers by their names.
LEMMA FieldNames ==
  Fields = {"sec", "min", "hour", "day", "mon", "year"}
<1>1. {1, 2, 3, 4, 5, 6} = 1 .. 6
  OBVIOUS
<1> QED
  BY <1>1 DEF Fields, Registers

\* rtc_read_time reads each of the six registers once.
LEMMA RegisterFacts ==
  /\ \A i \in 1 .. 6 : Registers[i] \in Fields
  /\ \A f \in Fields : \E i \in 1 .. 6 : Registers[i] = f
  /\ \A i, j \in 1 .. 6 : Registers[i] = Registers[j] => i = j
<1>1. \A i \in 1 .. 6 : i = 1 \/ i = 2 \/ i = 3 \/ i = 4 \/ i = 5 \/ i = 6
  OBVIOUS
<1> QED
  BY <1>1 DEF Fields, Registers

\* Convert works on each register alone.
LEMMA ConvertFields ==
  ASSUME NEW fm, NEW pass \in [Fields -> Nat], NEW f \in Fields
  PROVE  Convert(fm, pass)[f] = Decode(fm, f, pass[f])
<1> DEFINE bin == IF fm.binary THEN pass ELSE rtc_convert_BCDtobinary(pass)
           cal == [bin EXCEPT !.hour = to24(fm, @), !.year = century(@)]
<1>1. bin = [g \in Fields |-> bin[g]]
  BY DEF rtc_convert_BCDtobinary
<1>2. /\ cal["hour"] = to24(fm, bin["hour"])
      /\ cal["year"] = century(bin["year"])
      /\ \A g \in Fields \ {"hour", "year"} : cal[g] = bin[g]
  <2> HIDE DEF bin
  <2> QED
    BY <1>1, FieldNames
<1>3. Convert(fm, pass)[f] = cal[f]
  <2> DEFINE y == rtc_get_yday(cal)
  <2>1. Convert(fm, pass) =
          [sec |-> cal.sec, min |-> cal.min, hour |-> cal.hour,
           day |-> cal.day, mon |-> cal.mon, year |-> cal.year, yday |-> y]
    BY DEF Convert
  <2> HIDE DEF cal, y
  <2> QED
    BY <2>1, FieldNames
<1>4. bin[f] = IF fm.binary THEN pass[f]
               ELSE IF f = "hour" THEN (pass[f] % 16) + ((pass[f] % 128) \div 16) * 10
                                               + (pass[f] \div 128) * 128
               ELSE (pass[f] % 16) + (pass[f] \div 16) * 10
  BY DEF rtc_convert_BCDtobinary
<1> HIDE DEF bin, cal
<1> QED
  BY <1>2, <1>3, <1>4, FieldNames DEF Decode

\* Two decimal digits come back from BCD, with or without the PM bit.
LEMMA BCDReadsBack ==
  ASSUME NEW n \in 0 .. 99
  PROVE  /\ BCD(n) \in Nat
         /\ (BCD(n) % 16) + (BCD(n) \div 16) * 10 = n
<1>1. n \div 10 \in 0 .. 9 /\ n % 10 \in 0 .. 9 /\ n = 10 * (n \div 10) + (n % 10)
  OBVIOUS
<1>2. \A a, b \in 0 .. 9 : /\ a * 16 + b \in Nat
                           /\ (a * 16 + b) % 16 = b
                           /\ (a * 16 + b) \div 16 = a
  OBVIOUS
<1> QED
  BY <1>1, <1>2 DEF BCD

\* rtc.c's BCD decoding of the hour keeps the PM bit aside.
LEMMA HourReadsBack ==
  ASSUME NEW n \in 0 .. 23, NEW pm \in {0, 128}
  PROVE  /\ BCD(n) + pm \in Nat
         /\ ((BCD(n) + pm) % 16) + (((BCD(n) + pm) % 128) \div 16) * 10
              + ((BCD(n) + pm) \div 128) * 128 = n + pm
<1>1. n \div 10 \in 0 .. 2 /\ n % 10 \in 0 .. 9 /\ n = 10 * (n \div 10) + (n % 10)
  OBVIOUS
<1>2. \A a \in 0 .. 2, b \in 0 .. 9 :
        /\ a * 16 + b + pm \in Nat
        /\ (a * 16 + b + pm) % 16 = b
        /\ ((a * 16 + b + pm) % 128) \div 16 = a
        /\ ((a * 16 + b + pm) \div 128) * 128 = pm
  OBVIOUS
<1> QED
  BY <1>1, <1>2 DEF BCD

\* What the chip shows is decoded to the time it shows.
LEMMA DecodeEncode ==
  ASSUME NEW fm \in [binary : BOOLEAN, h24 : BOOLEAN], NEW t \in Moments,
         ~fm.h24 => t.hour % 12 # 0,
         NEW f \in Fields
  PROVE  /\ Encode(fm, t)[f] \in Nat
         /\ Decode(fm, f, Encode(fm, t)[f]) = t[f]
<1>1. /\ t.sec \in 0 .. 59 /\ t.min \in 0 .. 59 /\ t.hour \in 0 .. 23
      /\ t.day \in 1 .. 31 /\ t.mon \in 1 .. 12 /\ t.year \in 2022 .. 2121
  BY DEF Moments
<1>2. CASE f = "year"
  <2>1. t.year % 100 \in 0 .. 99 /\ century(t.year % 100) = t.year
    BY <1>1 DEF century
  <2>2. Encode(fm, t)[f] = IF fm.binary THEN t.year % 100 ELSE BCD(t.year % 100)
    BY <1>2 DEF Encode
  <2>3. Decode(fm, f, Encode(fm, t)[f]) = century(t.year % 100)
    BY <1>2, <2>1, <2>2, BCDReadsBack DEF Decode
  <2>4. Encode(fm, t)[f] \in Nat
    BY <2>1, <2>2, BCDReadsBack
  <2> QED
    BY <1>2, <2>1, <2>3, <2>4
<1>3. CASE f = "hour"
  <2>1. CASE fm.h24
    <3>1. Encode(fm, t)[f] = IF fm.binary THEN t.hour ELSE BCD(t.hour)
      BY <1>3, <2>1 DEF Encode
    <3>2. t.hour + 0 = t.hour /\ BCD(t.hour) + 0 = BCD(t.hour)
      BY <1>1, BCDReadsBack
    <3>3. Decode(fm, f, Encode(fm, t)[f]) = to24(fm, t.hour)
      BY <1>1, <1>3, <3>1, <3>2, HourReadsBack DEF Decode
    <3>4. to24(fm, t.hour) = t.hour
      BY <2>1 DEF to24
    <3>5. Encode(fm, t)[f] \in Nat
      <4>1. t.hour \in 0 .. 99
        BY <1>1
      <4> QED
        BY <3>1, <4>1, BCDReadsBack
    <3> QED
      BY <1>3, <3>3, <3>4, <3>5
  <2>2. CASE ~fm.h24
    <3> DEFINE h == t.hour % 12
               pm == IF t.hour >= 12 THEN 128 ELSE 0
    <3>1. h \in 1 .. 11 /\ pm \in {0, 128}
          /\ t.hour = h + (IF pm = 128 THEN 12 ELSE 0)
      BY <1>1, <2>2
    <3>2. Encode(fm, t)[f] = IF fm.binary THEN h + pm ELSE BCD(h) + pm
      BY <1>3, <2>2 DEF Encode
    <3> HIDE DEF h, pm
    <3>3. Decode(fm, f, Encode(fm, t)[f]) = to24(fm, h + pm)
      BY <1>3, <3>1, <3>2, HourReadsBack DEF Decode
    <3>4. to24(fm, h + pm) = t.hour
      BY <1>1, <2>2, <3>1 DEF to24
    <3> QED
      BY <1>3, <3>1, <3>2, <3>3, <3>4, HourReadsBack
  <2> QED
    BY <2>1, <2>2
<1>4. CASE f \notin {"year", "hour"}
  <2>1. t[f] \in 0 .. 99
    BY <1>1, <1>4, FieldNames
  <2>2. Encode(fm, t)[f] = IF fm.binary THEN t[f] ELSE BCD(t[f])
    BY <1>4 DEF Encode
  <2>3. Decode(fm, f, Encode(fm, t)[f]) = t[f]
    BY <1>4, <2>1, <2>2, BCDReadsBack DEF Decode
  <2> QED
    BY <2>1, <2>2, <2>3, BCDReadsBack
<1> QED
  BY <1>2, <1>3, <1>4

\* The hours are readable at every moment of the window the clock runs in.
LEMMA WindowFacts ==
  ASSUME HoursReadable, ChipInv
  PROVE  /\ fmt \in [binary : BOOLEAN, h24 : BOOLEAN]
         /\ Len(window) \in Nat
         /\ \A t \in 1 .. Len(window) :
              window[t] \in Moments /\ (~fmt.h24 => window[t].hour % 12 # 0)
         /\ \A t, u, v \in 1 .. Len(window) :
              t <= u /\ u <= v =>
                \A f \in Fields : window[t][f] = window[v][f]
                                    => window[u][f] = window[t][f]
<1>1. PICK clock \in CLOCKS : window = clock.window /\ fmt = clock.fmt
  BY DEF ChipInv
<1>2. window \in Seq(Moments) /\ DOMAIN window = 1 .. Len(window)
  BY <1>1, RtcAssumption
<1> QED
  BY <1>1, <1>2, RtcAssumption DEF HoursReadable

\* What the chip shows at a moment of the window is decoded to that moment.
LEMMA ShownIsRead ==
  ASSUME HoursReadable, ChipInv, NEW f \in Fields, NEW t \in 1 .. Len(window)
  PROVE  Decode(fmt, f, Encode(fmt, window[t])[f]) = window[t][f]
<1>1. /\ fmt \in [binary : BOOLEAN, h24 : BOOLEAN]
      /\ window[t] \in Moments
      /\ ~fmt.h24 => window[t].hour % 12 # 0
  BY WindowFacts
<1> QED
  BY <1>1, DecodeEncode

\* The moment between two passes that agree is the one they decode to.
LEMMA AgreedMoment ==
  ASSUME HoursReadable, ChipInv, NEW pass \in [Fields -> Nat], NEW f \in Fields,
         NEW b \in 1 .. now,
         Shows(pass, f, 1, b), Shows(pass, f, b, Latest)
  PROVE  Convert(fmt, pass)[f] = window[b][f]
<1>1. now \in 1 .. Len(window) /\ Latest \in now .. Len(window)
  BY WindowFacts DEF ChipInv, Latest
<1>2. PICK x \in 1 .. b : pass[f] = Encode(fmt, window[x])[f]
  BY DEF Shows
<1>3. PICK y \in b .. Latest : pass[f] = Encode(fmt, window[y])[f]
  BY DEF Shows
<1>4. x \in 1 .. Len(window) /\ y \in 1 .. Len(window) /\ b \in 1 .. Len(window)
      /\ x <= b /\ b <= y
  BY <1>1, WindowFacts
<1>5. \A t \in 1 .. Len(window) : Decode(fmt, f, Encode(fmt, window[t])[f]) = window[t][f]
  BY ShownIsRead
<1>6. window[x][f] = window[y][f]
  BY <1>2, <1>3, <1>4, <1>5
<1>7. \A t, u, v \in 1 .. Len(window) :
        t <= u /\ u <= v => (window[t][f] = window[v][f] => window[u][f] = window[t][f])
  BY WindowFacts
<1>8. window[b][f] = window[x][f]
  BY <1>4, <1>6, <1>7
<1> QED
  BY <1>2, <1>4, <1>5, <1>8, ConvertFields

\* A pass never shows the zeros that stand for no pass before the first: the
\* day register counts from 1.
LEMMA DayNotZero ==
  ASSUME HoursReadable, ChipInv, NEW b \in 1 .. now, Shows(tm, "day", b, Latest)
  PROVE  tm # Zero
<1>1. now \in 1 .. Len(window) /\ Latest \in now .. Len(window)
  BY WindowFacts DEF ChipInv, Latest
<1>2. PICK y \in b .. Latest : tm["day"] = Encode(fmt, window[y])["day"]
  BY DEF Shows
<1>3. y \in 1 .. Len(window)
  BY <1>1, WindowFacts
<1>4. "day" \in Fields
  BY FieldNames
<1>5. Decode(fmt, "day", tm["day"]) = window[y].day
  BY <1>2, <1>3, <1>4, ShownIsRead
<1>8. window[y].day \in 1 .. 31
  <2>1. window[y] \in Moments
    BY <1>3, WindowFacts
  <2> QED
    BY <2>1 DEF Moments
<1>6. Decode(fmt, "day", 0) = 0
  BY DEF Decode
<1>7. Zero["day"] = 0
  BY <1>4 DEF Zero
<1> QED
  BY <1>5, <1>8, <1>6, <1>7

\* The chip's steps only move the latest time on.
LEMMA ChipKeepsChipInv ==
  ASSUME HoursReadable, ChipInv, chip
  PROVE  /\ ChipInv'
         /\ Latest' \in Nat /\ Latest \in Nat /\ now \in Nat /\ now' \in Nat
         /\ Latest <= Latest' /\ now <= now'
<1>1. now \in 1 .. Len(window) /\ Len(window) \in Nat
  BY WindowFacts DEF ChipInv
<1>2. CASE UpdateBegins
  <2>1. /\ ~uip /\ uip' /\ uip' \in BOOLEAN /\ now' = now /\ stale' = Fields
        /\ now < Len(window) /\ window' = window /\ fmt' = fmt
    BY <1>2 DEF UpdateBegins
  <2>2. ChipInv'
    BY <1>1, <2>1 DEF ChipInv
  <2>3. Latest = now /\ Latest' = now + 1
    BY <2>1 DEF Latest
  <2> QED
    BY <1>1, <2>1, <2>2, <2>3
<1>3. ASSUME NEW f \in Fields, RegisterChanges(f)
      PROVE  /\ ChipInv'
             /\ Latest' \in Nat /\ Latest \in Nat /\ now \in Nat /\ now' \in Nat
             /\ Latest <= Latest' /\ now <= now'
  <2>1. /\ UNCHANGED <<window, fmt, now, uip>> /\ f \in stale
        /\ stale' = stale \ {f}
    BY <1>3 DEF RegisterChanges
  <2>2. uip /\ now < Len(window)
    BY <2>1 DEF ChipInv
  <2>3. Latest = now + 1 /\ Latest' = now + 1
    BY <2>1, <2>2 DEF Latest
  <2>4. ChipInv'
    BY <2>1, <2>2 DEF ChipInv
  <2> QED
    BY <1>1, <2>1, <2>3, <2>4
<1>4. CASE UpdateEnds
  <2>1. /\ uip /\ ~uip' /\ uip' \in BOOLEAN /\ now' = now + 1
        /\ stale = {} /\ UNCHANGED <<window, fmt, stale>>
    BY <1>4 DEF UpdateEnds
  <2>2. now < Len(window)
    BY <2>1 DEF ChipInv
  <2>3. Latest = now + 1 /\ Latest' = now + 1
    BY <2>1 DEF Latest
  <2>4. ChipInv'
    BY <1>1, <2>1, <2>2 DEF ChipInv
  <2> QED
    BY <1>1, <2>1, <2>3, <2>4
<1> QED
  BY <1>2, <1>3, <1>4 DEF chip

\* What the chip does between the driver's steps keeps the invariant.
LEMMA ChipKeepsRInv ==
  ASSUME HoursReadable, RInv, chip
  PROVE  RInv'
<1>1. ChipInv /\ DriverInv /\ ReturnsTimeOfCall
  BY DEF RInv
<1>2. /\ ChipInv'
      /\ Latest' \in Nat /\ Latest \in Nat /\ now \in Nat /\ now' \in Nat
      /\ Latest <= Latest' /\ now <= now'
  BY <1>1, ChipKeepsChipInv
<1>3. UNCHANGED <<window, fmt, pc, k, tm, ltm, called, result>>
  BY DEF chip, UpdateBegins, RegisterChanges, UpdateEnds
<1> HIDE DEF Latest
<1>4. ASSUME NEW pass, NEW f, NEW lo \in Nat, NEW hi \in Nat, NEW hi2 \in Nat,
             hi <= hi2, Shows(pass, f, lo, hi)
      PROVE  Shows(pass, f, lo, hi2)'
  BY <1>3, <1>4 DEF Shows
<1>5. \A b \in Nat, c \in Nat : b <= c /\ EarlierPass(b) => EarlierPass(c)'
  BY <1>3, <1>4 DEF EarlierPass
<1>6. called' \in 1 .. now'
  BY <1>1, <1>2, <1>3 DEF DriverInv
<1>7. ASSUME pc = "wait"
      PROVE  EarlierPass(Latest)'
  <2>1. EarlierPass(Latest)
    BY <1>1, <1>7 DEF DriverInv
  <2>2. EarlierPass(Latest)' <=> (ltm' = Zero \/ \A f \in Fields : Shows(ltm, f, 1, Latest)')
    BY DEF EarlierPass
  <2>3. ASSUME NEW f \in Fields, Shows(ltm, f, 1, Latest)
        PROVE  Shows(ltm, f, 1, Latest)'
    BY <1>2, <1>3, <2>3 DEF Shows
  <2> QED
    BY <1>3, <2>1, <2>2, <2>3 DEF EarlierPass
<1>8. ASSUME pc = "read"
      PROVE  \E b \in called' .. now' :
               /\ EarlierPass(b)'
               /\ \A i \in 1 .. k' - 1 : Shows(tm, Registers[i], b, Latest)'
  <2>1. PICK b \in called .. now :
               /\ EarlierPass(b)
               /\ \A i \in 1 .. k - 1 : Shows(tm, Registers[i], b, Latest)
    BY <1>1, <1>8 DEF DriverInv
  <2>2. called \in Nat /\ b \in Nat /\ b \in called' .. now'
    BY <1>1, <1>2, <1>3 DEF DriverInv
  <2>3. EarlierPass(b)'
    BY <1>5, <2>1, <2>2
  <2>4. ASSUME NEW i \in 1 .. k' - 1
        PROVE  Shows(tm, Registers[i], b, Latest)'
    <3>1. Shows(tm, Registers[i], b, Latest)
      BY <1>3, <2>1
    <3> QED
      BY <1>2, <1>3, <2>2, <3>1 DEF Shows
  <2> QED
    BY <2>2, <2>3, <2>4
<1>9. DriverInv'
  BY <1>1, <1>3, <1>6, <1>7, <1>8 DEF DriverInv
<1>10. ReturnsTimeOfCall'
  <2>1. called \in Nat
    BY <1>1 DEF DriverInv
  <2> QED
    BY <1>1, <1>2, <1>3, <2>1 DEF ReturnsTimeOfCall, Returned
<1> QED
  BY <1>2, <1>9, <1>10 DEF RInv

-----------------------------------------------------------------------------
\* The driver leaves the chip alone.
LEMMA DriverKeepsChip ==
  ASSUME ChipInv, driver
  PROVE  /\ ChipInv'
         /\ UNCHANGED <<window, fmt, now, uip, Latest>>
BY DEF driver, ReadTime, WaitUpdate, ReadRegister, NextPass, Return, chipvars,
       ChipInv, Latest

\* No pass was made when rtc_read_time begins.
LEMMA ReadTimeKeepsRInv ==
  ASSUME RInv, ReadTime
  PROVE  DriverInv' /\ ReturnsTimeOfCall'
<1>1. /\ pc' = "wait" /\ tm' = Zero /\ ltm' = Zero /\ called' = now
      /\ now' = now /\ k' = k /\ DriverInv /\ ChipInv
  BY DEF ReadTime, RInv, chipvars
<1>2. Zero \in [Fields -> Nat]
  BY DEF Zero
<1>3. called' \in 1 .. now'
  BY <1>1 DEF ChipInv
<1>4. EarlierPass(Latest)'
  BY <1>1 DEF EarlierPass
<1> QED
  BY <1>1, <1>2, <1>3, <1>4 DEF DriverInv, ReturnsTimeOfCall, Returned

\* The bit is seen clear at the moment between the two passes.
LEMMA WaitKeepsRInv ==
  ASSUME RInv, WaitUpdate
  PROVE  DriverInv' /\ ReturnsTimeOfCall'
<1>1. /\ pc = "wait" /\ ~uip /\ pc' = "read" /\ k' = 1
      /\ UNCHANGED <<window, fmt, now, uip, tm, ltm, called>>
      /\ DriverInv /\ ChipInv
  BY DEF WaitUpdate, RInv, chipvars
<1>2. Latest = now
  BY <1>1 DEF Latest
<1>3. PICK b \in called .. now : b = now
  BY <1>1 DEF DriverInv, ChipInv
<1>4. EarlierPass(b)'
  <2>1. EarlierPass(b)
    BY <1>1, <1>2, <1>3 DEF DriverInv
  <2> QED
    BY <1>1, <2>1 DEF EarlierPass, Shows
<1>5. \A i \in 1 .. k' - 1 : Shows(tm, Registers[i], b, Latest)'
  BY <1>1
<1>6. \E c \in called' .. now' :
        /\ EarlierPass(c)'
        /\ \A i \in 1 .. k' - 1 : Shows(tm, Registers[i], c, Latest)'
  BY <1>1, <1>4, <1>5
<1>7. k' \in 1 .. 7
  BY <1>1
<1> QED
  BY <1>1, <1>6, <1>7 DEF DriverInv, ReturnsTimeOfCall, Returned

\* A register shows the time of the clock, or the one an update brings.
LEMMA RegisterShows ==
  ASSUME HoursReadable, RInv, NEW f \in Fields, NEW b \in 1 .. now
  PROVE  /\ rtc_get_reg(f) \in Nat
         /\ \E y \in b .. Latest : rtc_get_reg(f) = Encode(fmt, window[y])[f]
<1>1. ChipInv
  BY DEF RInv
<1>2. now \in 1 .. Len(window) /\ Latest \in now .. Len(window) /\ Len(window) \in Nat
  BY <1>1, WindowFacts DEF ChipInv, Latest
<1>3. \E y \in now .. Latest : rtc_get_reg(f) = Encode(fmt, window[y])[f]
  <2>1. CASE uip /\ f \notin stale
    <3>1. Latest = now + 1 /\ rtc_get_reg(f) = Encode(fmt, window[now + 1])[f]
      BY <2>1 DEF Latest, rtc_get_reg
    <3> QED
      BY <1>2, <3>1
  <2>2. CASE ~ (uip /\ f \notin stale)
    <3>1. rtc_get_reg(f) = Encode(fmt, window[now])[f]
      BY <2>2 DEF rtc_get_reg
    <3> QED
      BY <1>2, <3>1
  <2> QED
    BY <2>1, <2>2
<1>4. PICK y \in now .. Latest : rtc_get_reg(f) = Encode(fmt, window[y])[f]
  BY <1>3
<1>5. y \in 1 .. Len(window) /\ y \in b .. Latest
  BY <1>2
<1>6. Encode(fmt, window[y])[f] \in Nat
  <2>1. /\ fmt \in [binary : BOOLEAN, h24 : BOOLEAN]
        /\ window[y] \in Moments
        /\ ~fmt.h24 => window[y].hour % 12 # 0
    BY <1>1, <1>5, WindowFacts
  <2> QED
    BY <2>1, DecodeEncode
<1> QED
  BY <1>4, <1>5, <1>6

\* A register read now shows a time between the start of the pass and now.
LEMMA ReadRegisterKeepsRInv ==
  ASSUME HoursReadable, RInv, ReadRegister
  PROVE  DriverInv' /\ ReturnsTimeOfCall'
<1>1. /\ pc = "read" /\ k <= 6 /\ pc' = "read" /\ k' = k + 1
      /\ tm' = [tm EXCEPT ![Registers[k]] = rtc_get_reg(Registers[k])]
      /\ UNCHANGED <<window, fmt, now, uip, ltm, called>>
      /\ DriverInv /\ ChipInv
  BY DEF ReadRegister, RInv, chipvars
<1>2. k \in 1 .. 6 /\ k' \in 1 .. 7 /\ k' - 1 = k /\ Latest' = Latest
  BY <1>1 DEF DriverInv, Latest
<1>3. Registers[k] \in Fields
  BY <1>2, RegisterFacts
<1>4. PICK b \in called .. now :
        /\ EarlierPass(b)
        /\ \A i \in 1 .. k - 1 : Shows(tm, Registers[i], b, Latest)
  BY <1>1 DEF DriverInv
<1>5. b \in 1 .. now /\ called' = called /\ now' = now
  BY <1>1 DEF DriverInv, ChipInv
<1>6. /\ rtc_get_reg(Registers[k]) \in Nat
      /\ \E y \in b .. Latest :
           rtc_get_reg(Registers[k]) = Encode(fmt, window[y])[Registers[k]]
  BY <1>3, <1>5, RegisterShows
<1>7. tm \in [Fields -> Nat] /\ tm' \in [Fields -> Nat]
  BY <1>1, <1>3, <1>6 DEF DriverInv
<1>8. EarlierPass(b)'
  BY <1>1, <1>4 DEF EarlierPass, Shows
<1>9. ASSUME NEW i \in 1 .. k' - 1
      PROVE  Shows(tm, Registers[i], b, Latest)'
  <2>1. CASE i = k
    <3>1. tm'[Registers[i]] = rtc_get_reg(Registers[k])
      BY <1>1, <1>3, <1>7, <2>1
    <3> QED
      BY <1>1, <1>2, <1>6, <2>1, <3>1 DEF Shows
  <2>2. CASE i # k
    <3>1. i \in 1 .. k - 1 /\ i \in 1 .. 6
      <4>1. \A m \in 1 .. 6 : \A j \in 1 .. m :
              j # m => j \in 1 .. m - 1 /\ j \in 1 .. 6
        OBVIOUS
      <4> QED
        BY <1>2, <2>2, <4>1
    <3>2. Registers[i] \in Fields /\ Registers[i] # Registers[k]
      BY <1>2, <2>2, <3>1, RegisterFacts
    <3>3. tm'[Registers[i]] = tm[Registers[i]]
      BY <1>1, <1>7, <3>2
    <3>4. Shows(tm, Registers[i], b, Latest)
      BY <1>4, <3>1
    <3> QED
      BY <1>1, <1>2, <3>3, <3>4 DEF Shows
  <2> QED
    BY <2>1, <2>2
<1>10. \E c \in called' .. now' :
        /\ EarlierPass(c)'
        /\ \A i \in 1 .. k' - 1 : Shows(tm, Registers[i], c, Latest)'
  BY <1>5, <1>8, <1>9
<1> QED
  BY <1>1, <1>2, <1>7, <1>10 DEF DriverInv, ReturnsTimeOfCall, Returned

\* When the registers are through, a pass shows every field.
LEMMA PassIsWhole ==
  ASSUME RInv, pc = "read", k > 6
  PROVE  \E b \in called .. now :
           /\ EarlierPass(b)
           /\ \A f \in Fields : Shows(tm, f, b, Latest)
<1>1. k = 7
  BY DEF RInv, DriverInv
<1>2. PICK b \in called .. now :
        /\ EarlierPass(b)
        /\ \A i \in 1 .. k - 1 : Shows(tm, Registers[i], b, Latest)
  BY DEF RInv, DriverInv
<1>3. 1 .. k - 1 = 1 .. 6
  BY <1>1
<1> QED
  BY <1>2, <1>3, RegisterFacts

\* A pass that differs from the one before becomes the one to compare with.
LEMMA NextPassKeepsRInv ==
  ASSUME RInv, NextPass
  PROVE  DriverInv' /\ ReturnsTimeOfCall'
<1>1. /\ pc = "read" /\ k > 6 /\ pc' = "wait" /\ ltm' = tm
      /\ UNCHANGED <<window, fmt, now, uip, tm, k, called>>
      /\ DriverInv /\ ChipInv
  BY DEF NextPass, RInv, chipvars
<1>2. PICK b \in called .. now : \A f \in Fields : Shows(tm, f, b, Latest)
  BY <1>1, PassIsWhole
<1>3. b \in Nat /\ 1 <= b /\ Latest' = Latest
  BY <1>1 DEF DriverInv, ChipInv, Latest
<1>4. ASSUME NEW f \in Fields
      PROVE  Shows(ltm, f, 1, Latest)'
  <2>1. PICK x \in b .. Latest : tm[f] = Encode(fmt, window[x])[f]
    BY <1>2 DEF Shows
  <2>2. x \in 1 .. Latest
    BY <1>3
  <2> QED
    BY <1>1, <1>3, <2>1, <2>2 DEF Shows
<1>5. EarlierPass(Latest)'
  BY <1>4 DEF EarlierPass
<1> QED
  BY <1>1, <1>5 DEF DriverInv, ReturnsTimeOfCall, Returned

\* Two passes that agree show the moment between them.
LEMMA ReturnKeepsRInv ==
  ASSUME HoursReadable, RInv, Return
  PROVE  DriverInv' /\ ReturnsTimeOfCall'
<1>1. /\ pc = "read" /\ k > 6 /\ pc' = "idle" /\ tm = ltm
      /\ result' = Convert(fmt, tm)
      /\ UNCHANGED <<window, fmt, now, uip, tm, ltm, k, called>>
      /\ DriverInv /\ ChipInv
  BY DEF Return, RInv, chipvars, rtc_isdiff
<1>2. PICK b \in called .. now :
        EarlierPass(b) /\ \A f \in Fields : Shows(tm, f, b, Latest)
  BY <1>1, PassIsWhole
<1>3. b \in 1 .. now /\ tm \in [Fields -> Nat]
  BY <1>1 DEF DriverInv, ChipInv
<1>4. tm # Zero
  BY <1>1, <1>2, <1>3, DayNotZero, FieldNames
<1>5. \A f \in Fields : Shows(tm, f, 1, b)
  BY <1>1, <1>2, <1>4 DEF EarlierPass
<1>6. \A f \in Fields : Convert(fmt, tm)[f] = window[b][f]
  BY <1>1, <1>2, <1>3, <1>5, AgreedMoment
<1>7. \E t \in called' .. now' : \A f \in Fields : result'[f] = window'[t][f]
  BY <1>1, <1>2, <1>6
<1> QED
  BY <1>1, <1>7 DEF DriverInv, ReturnsTimeOfCall

\* The invariant holds throughout.
LEMMA RInvHolds ==
  ASSUME HoursReadable
  PROVE  RSpec => []RInv
<1>1. RInit => RInv
  <2> SUFFICES ASSUME RInit
               PROVE  RInv
    OBVIOUS
  <2>1. PICK clock \in CLOCKS : window = clock.window /\ fmt = clock.fmt
    BY DEF RInit
  <2>2. window \in Seq(Moments) /\ window # <<>>
    BY <2>1, RtcAssumption
  <2>3. 1 \in 1 .. Len(window)
    BY <2>2
  <2>4. ChipInv
    BY <2>1, <2>3 DEF RInit, ChipInv
  <2>5. Zero \in [Fields -> Nat]
    BY DEF Zero
  <2>6. DriverInv
    BY <2>5 DEF RInit, DriverInv
  <2>7. ReturnsTimeOfCall
    BY DEF RInit, ReturnsTimeOfCall, Returned
  <2> QED
    BY <2>4, <2>6, <2>7 DEF RInv
<1>2. RInv /\ [RNext]_rtcvars => RInv'
  <2> SUFFICES ASSUME RInv, [RNext]_rtcvars
               PROVE  RInv'
    OBVIOUS
  <2>1. CASE chip
    BY <2>1, ChipKeepsRInv
  <2>2. CASE driver
    <3>1. DriverInv' /\ ReturnsTimeOfCall'
      BY <2>2, ReadTimeKeepsRInv, WaitKeepsRInv, ReadRegisterKeepsRInv,
         NextPassKeepsRInv, ReturnKeepsRInv DEF driver
    <3>2. ChipInv'
      BY <2>2, DriverKeepsChip DEF RInv
    <3> QED
      BY <3>1, <3>2 DEF RInv
  <2>3. CASE UNCHANGED rtcvars
    BY <2>3 DEF rtcvars, chipvars, RInv, ChipInv, DriverInv, ReturnsTimeOfCall,
                Returned, EarlierPass, Shows, Latest
  <2> QED
    BY <2>1, <2>2, <2>3 DEF RNext
<1> QED
  BY <1>1, <1>2, PTL DEF RSpec

\* The fields rtc_read_time stores are those of one moment during the call,
\* whatever updates of the chip its reads meet and however many passes it
\* makes: for every setting of the chip, and in windows shorter than a minute
\* that HoursReadable allows.
THEOREM ReadsOneMoment ==
  HoursReadable => (RSpec => []ReturnsTimeOfCall)
<1> SUFFICES ASSUME HoursReadable
             PROVE  RSpec => []ReturnsTimeOfCall
  OBVIOUS
<1>1. RSpec => []RInv
  BY RInvHolds
<1>2. RInv => ReturnsTimeOfCall
  BY DEF RInv
<1> QED
  BY <1>1, <1>2, PTL

-----------------------------------------------------------------------------
(***************************************************************************)
(* The calendar: what rtc_get_yday and rtc_get_timestamp count.            *)
(***************************************************************************)

\* The days before each month add up to the month lengths.
LEMMA YdayCounts ==
  ASSUME NEW t, t.year \in 2022 .. 2121, t.mon \in 1 .. 12, t.day \in Nat
  PROVE  /\ rtc_get_yday(t) = DaysBeforeMonth(t.year)[t.mon] + t.day - 1
         /\ rtc_get_yday(t) \in Int
         /\ t.day >= 1 => rtc_get_yday(t) \in Nat
<1> DEFINE y == t.year
           leap == IF IsLeap(y) THEN 1 ELSE 0
           B == <<0, 31, 59, 90, 120, 151, 181, 212, 243, 273, 304, 334>>
           g == [m \in 1 .. 12 |-> B[m] + IF m > 2 THEN leap ELSE 0]
           Def(f) == f = [m \in 1 .. 12 |->
                            IF m = 1 THEN 0 ELSE f[m - 1] + MonthDays(y, m - 1)]
           D == DaysBeforeMonth(y)
<1>1. D = CHOOSE f : Def(f)
  BY DEF DaysBeforeMonth
<1>2. leap \in {0, 1}
  OBVIOUS
<1>3. \A m \in 1 .. 12 : m \in {1, 2, 3, 4, 5, 6, 7, 8, 9, 10, 11, 12}
  OBVIOUS
<1>4. \A m \in 1 .. 12 : B[m] \in Nat
  BY <1>3
<1>5. /\ MonthDays(y, 1) = 31 /\ MonthDays(y, 2) = 28 + leap /\ MonthDays(y, 3) = 31
      /\ MonthDays(y, 4) = 30 /\ MonthDays(y, 5) = 31 /\ MonthDays(y, 6) = 30
      /\ MonthDays(y, 7) = 31 /\ MonthDays(y, 8) = 31 /\ MonthDays(y, 9) = 30
      /\ MonthDays(y, 10) = 31 /\ MonthDays(y, 11) = 30
  BY DEF MonthDays
<1>6. leap = IF y % 4 = 0 /\ (y % 400 = 0 \/ y % 100 # 0) THEN 1 ELSE 0
  BY DEF IsLeap
<1> HIDE DEF leap
<1>7. \A m \in 1 .. 12 :
        g[m] = IF m = 1 THEN 0 ELSE g[m - 1] + MonthDays(y, m - 1)
  BY <1>2, <1>3, <1>5
<1>8. Def(g)
  <2>1. g = [m \in 1 .. 12 |-> g[m]]
    OBVIOUS
  <2> HIDE DEF g
  <2> QED
    BY <1>7, <2>1
<1>9. Def(D)
  <2> HIDE DEF Def, D, g
  <2> QED
    BY <1>1, <1>8
<1> HIDE DEF D
<1>10. \A m \in 1 .. 12 : D[m] = IF m = 1 THEN 0 ELSE D[m - 1] + MonthDays(y, m - 1)
  BY <1>9
<1>11. /\ D[1] = 0 /\ D[2] = D[1] + MonthDays(y, 1) /\ D[3] = D[2] + MonthDays(y, 2)
       /\ D[4] = D[3] + MonthDays(y, 3) /\ D[5] = D[4] + MonthDays(y, 4)
       /\ D[6] = D[5] + MonthDays(y, 5) /\ D[7] = D[6] + MonthDays(y, 6)
       /\ D[8] = D[7] + MonthDays(y, 7) /\ D[9] = D[8] + MonthDays(y, 8)
       /\ D[10] = D[9] + MonthDays(y, 9) /\ D[11] = D[10] + MonthDays(y, 10)
       /\ D[12] = D[11] + MonthDays(y, 11)
  BY <1>10
<1>12. D[t.mon] = B[t.mon] + IF t.mon > 2 THEN leap ELSE 0
  BY <1>2, <1>3, <1>5, <1>11
<1>13. rtc_get_yday(t) = t.day - 1 + B[t.mon] + IF t.mon > 2 THEN leap ELSE 0
  BY <1>2, <1>4, <1>6 DEF rtc_get_yday
<1>14. B[t.mon] \in Nat
  BY <1>4
<1> HIDE DEF B
<1> QED
  BY <1>2, <1>12, <1>13, <1>14 DEF D

\* The days from 1 January 1970 to 1 January of year y.
DaysTo(y) ==
  (y - 1970) * 365 + (y - 1969) \div 4 - (y - 1901) \div 100 + (y - 1601) \div 400

\* The years add up to the sum of rtc_get_timestamp.
LEMMA YearDaysSum ==
  ASSUME NEW y \in 1970 .. 2122
  PROVE  YearDays[y] = DaysTo(y)
<1> DEFINE L(z) == IF IsLeap(z) THEN 366 ELSE 365
           g == [z \in 1970 .. 2122 |-> DaysTo(z)]
           Def(f) == f = [z \in 1970 .. 2122 |->
                            IF z = 1970 THEN 0 ELSE f[z - 1] + L(z - 1)]
           T == {n \in Nat : n <= 152 /\ YearDays[1970 + n] # DaysTo(1970 + n)}
<1>1. YearDays = CHOOSE f : Def(f)
  BY DEF YearDays
<1>2. DaysTo(1970) = 0
  BY DEF DaysTo
<1>3. ASSUME NEW z \in 1971 .. 2122
      PROVE  DaysTo(z) = DaysTo(z - 1) + L(z - 1)
  <2> DEFINE x == z - 1
  <2>1. x \in 1970 .. 2121 /\ z = x + 1
    OBVIOUS
  <2> HIDE DEF x
  <2>2. (x - 1968) \div 4 = (x - 1969) \div 4 + IF x % 4 = 0 THEN 1 ELSE 0
    BY <2>1
  <2>3. (x - 1900) \div 100 = (x - 1901) \div 100 + IF x % 100 = 0 THEN 1 ELSE 0
    BY <2>1
  <2>4. (x - 1600) \div 400 = (x - 1601) \div 400 + IF x % 400 = 0 THEN 1 ELSE 0
    BY <2>1
  <2>5. (x % 400 = 0 => x % 100 = 0) /\ (x % 100 = 0 => x % 4 = 0)
    BY <2>1
  <2>6. DaysTo(x + 1) = (x - 1969) * 365 + (x - 1968) \div 4 - (x - 1900) \div 100
                          + (x - 1600) \div 400
    <3>1. (x + 1) - 1970 = x - 1969 /\ (x + 1) - 1969 = x - 1968
          /\ (x + 1) - 1901 = x - 1900 /\ (x + 1) - 1601 = x - 1600
      BY <2>1
    <3> QED
      BY <3>1 DEF DaysTo
  <2>7. DaysTo(x + 1) = DaysTo(x) + L(x)
    BY <2>1, <2>2, <2>3, <2>4, <2>5, <2>6 DEF DaysTo, IsLeap
  <2> QED
    BY <2>1, <2>7 DEF x
<1> HIDE DEF L
<1>4. Def(g)
  <2>1. \A z \in 1970 .. 2122 :
          DaysTo(z) = IF z = 1970 THEN 0 ELSE g[z - 1] + L(z - 1)
    BY <1>2, <1>3
  <2> QED
    BY <2>1
<1>5. Def(YearDays)
  <2> HIDE DEF Def, g
  <2> QED
    BY <1>1, <1>4
<1>6. \A z \in 1970 .. 2122 :
        YearDays[z] = IF z = 1970 THEN 0 ELSE YearDays[z - 1] + L(z - 1)
  BY <1>5
<1>7. T = {}
  <2> SUFFICES ASSUME T # {}
               PROVE  FALSE
    OBVIOUS
  <2>1. PICK n \in T : \A o \in T : n <= o
    <3> HIDE DEF T
    <3>1. T \in SUBSET Nat
      BY DEF T
    <3> QED
      BY <3>1, LeastNat
  <2>2. n # 0
    BY <1>2, <1>6
  <2>3. n - 1 \in Nat /\ n - 1 <= 152 /\ n - 1 \notin T
    BY <2>1, <2>2
  <2>4. YearDays[1970 + (n - 1)] = DaysTo(1970 + (n - 1))
    BY <2>3
  <2>5. 1970 + n \in 1971 .. 2122 /\ 1970 + (n - 1) = (1970 + n) - 1
    BY <2>2
  <2>6. YearDays[1970 + n] = DaysTo(1970 + n)
    BY <1>3, <1>6, <2>4, <2>5
  <2> QED
    BY <2>6
<1>8. \A n \in Nat : n <= 152 => YearDays[1970 + n] = DaysTo(1970 + n)
  <2> SUFFICES ASSUME NEW n \in Nat, n <= 152, YearDays[1970 + n] # DaysTo(1970 + n)
               PROVE  FALSE
    OBVIOUS
  <2>1. n \in T
    OBVIOUS
  <2> HIDE DEF T
  <2> QED
    BY <1>7, <2>1
<1>9. PICK n \in Nat : n <= 152 /\ y = 1970 + n
  <2>1. y - 1970 \in Nat /\ y - 1970 <= 152 /\ y = 1970 + (y - 1970)
    OBVIOUS
  <2> QED
    BY <2>1
<1> QED
  BY <1>8, <1>9

\* The two halves of u are those of n modulo 2^32.
WORD == HALF * HALF
Halves(u, n) ==
  \E a, b \in Nat, q \in Int :
    u = <<a, b>> /\ a < HALF /\ b < HALF /\ n = a * HALF + b + q * WORD

\* Halves with the carry of one into the other.
LEMMA HalvesCarry ==
  ASSUME NEW x \in Nat, NEW y \in Nat, NEW q \in Int
  PROVE  Halves(<<(x + y \div HALF) % HALF, y % HALF>>, x * HALF + y + q * WORD)
<1> DEFINE c == y \div HALF
           b == y % HALF
           d == (x + c) \div HALF
           a == (x + c) % HALF
<1>1. c \in Nat /\ b \in Nat /\ b < HALF /\ y = c * HALF + b
  BY SMT DEF HALF
<1> HIDE DEF c, b
<1>2. d \in Nat /\ a \in Nat /\ a < HALF /\ x + c = d * HALF + a
  BY <1>1, SMT DEF HALF
<1> HIDE DEF d, a
<1>3. x * HALF + y + q * WORD = a * HALF + b + (q + d) * WORD
  BY <1>1, <1>2, SMT DEF HALF, WORD
<1>4. q + d \in Int
  BY <1>2, SMT
<1>5. Halves(<<a, b>>, x * HALF + y + q * WORD)
  BY <1>1, <1>2, <1>3, <1>4, Zenon DEF Halves
<1> QED
  BY <1>5, Zenon DEF a, b, c

\* A number that fits 32 bits is its two halves.
LEMMA HalvesOf ==
  ASSUME NEW n \in Nat, n < WORD
  PROVE  Halves(U32(n), n)
<1>1. 0 * HALF + n + 0 * WORD = n
  BY SMT DEF HALF, WORD
<1>2. n \div HALF \in Nat /\ n \div HALF < HALF
  BY SMT DEF HALF, WORD
<1>3. (0 + n \div HALF) % HALF = n \div HALF
  BY <1>2, SMT DEF HALF
<1>4. Halves(<<(0 + n \div HALF) % HALF, n % HALF>>, 0 * HALF + n + 0 * WORD)
  BY HalvesCarry
<1> QED
  BY <1>1, <1>3, <1>4, Zenon DEF U32

\* Plus adds modulo 2^32.
LEMMA HalvesPlus ==
  ASSUME NEW u, NEW v, NEW m \in Int, NEW n \in Int, Halves(u, m), Halves(v, n)
  PROVE  Halves(Plus(u, v), m + n)
<1>1. PICK a, b \in Nat, q \in Int :
        u = <<a, b>> /\ a < HALF /\ b < HALF /\ m = a * HALF + b + q * WORD
  BY Zenon DEF Halves
<1>2. PICK c, d \in Nat, r \in Int :
        v = <<c, d>> /\ c < HALF /\ d < HALF /\ n = c * HALF + d + r * WORD
  BY Zenon DEF Halves
<1>3. a + c \in Nat /\ b + d \in Nat /\ q + r \in Int
  BY SMT
<1>4. m + n = (a + c) * HALF + (b + d) + (q + r) * WORD
  BY <1>1, <1>2, SMT DEF HALF, WORD
<1>5. Plus(u, v) = <<((a + c) + (b + d) \div HALF) % HALF, (b + d) % HALF>>
  BY <1>1, <1>2, SMT DEF Plus
<1> QED
  BY <1>3, <1>4, <1>5, HalvesCarry, Zenon

\* Minus negates modulo 2^32.
LEMMA HalvesMinus ==
  ASSUME NEW u, NEW m \in Int, Halves(u, m)
  PROVE  Halves(Minus(u), -m)
<1>1. PICK a, b \in Nat, q \in Int :
        u = <<a, b>> /\ a < HALF /\ b < HALF /\ m = a * HALF + b + q * WORD
  BY Zenon DEF Halves
<1>2. Halves(<<HALF - 1 - a, HALF - 1 - b>>, -m - 1)
  <2>1. -m - 1 = (HALF - 1 - a) * HALF + (HALF - 1 - b) + (-1 - q) * WORD
    BY <1>1, SMT DEF HALF, WORD
  <2>2. /\ HALF - 1 - a \in Nat /\ HALF - 1 - b \in Nat /\ -1 - q \in Int
        /\ HALF - 1 - a < HALF /\ HALF - 1 - b < HALF
    BY <1>1, SMT DEF HALF
  <2> QED
    BY <2>1, <2>2, Zenon DEF Halves
<1>3. Minus(u) = Plus(<<HALF - 1 - a, HALF - 1 - b>>, U32(1))
  BY <1>1, SMT DEF Minus
<1>4. Halves(U32(1), 1)
  <2>1. 1 \in Nat /\ 1 < WORD
    BY SMT DEF HALF, WORD
  <2> QED
    BY <2>1, HalvesOf, Zenon
<1>5. -m - 1 \in Int /\ (-m - 1) + 1 = -m /\ 1 \in Int
  BY SMT
<1>6. Halves(Plus(<<HALF - 1 - a, HALF - 1 - b>>, U32(1)), (-m - 1) + 1)
  BY <1>2, <1>4, <1>5, HalvesPlus, Zenon
<1> QED
  BY <1>3, <1>5, <1>6, Zenon

\* The multiples of a day and of a year.
LEMMA HalvesTimes ==
  ASSUME NEW n \in Nat
  PROVE  /\ Halves(Times(n, U32(86400)), n * 86400)
         /\ Halves(Times(n, U32(31536000)), n * 31536000)
<1>1. U32(86400) = <<1, 20864>> /\ U32(31536000) = <<481, 13184>>
  BY SMT DEF U32, HALF
<1>2. /\ Times(n, <<1, 20864>>) =
           <<(n + (n * 20864) \div HALF) % HALF, (n * 20864) % HALF>>
      /\ n * 20864 \in Nat
  BY SMT DEF Times
<1>3. /\ Times(n, <<481, 13184>>) =
           <<(n * 481 + (n * 13184) \div HALF) % HALF, (n * 13184) % HALF>>
      /\ n * 481 \in Nat /\ n * 13184 \in Nat
  BY SMT DEF Times
<1>4. /\ n * 86400 = n * HALF + n * 20864 + 0 * WORD
      /\ n * 31536000 = (n * 481) * HALF + n * 13184 + 0 * WORD
  BY SMT DEF HALF, WORD
<1>5. Halves(Times(n, <<1, 20864>>), n * HALF + n * 20864 + 0 * WORD)
  BY <1>2, HalvesCarry, SMT
<1>6. Halves(Times(n, <<481, 13184>>), (n * 481) * HALF + n * 13184 + 0 * WORD)
  BY <1>3, HalvesCarry, SMT
<1> QED
  BY <1>1, <1>4, <1>5, <1>6, SMT

\* The halves of a number are unique.
LEMMA HalvesUnique ==
  ASSUME NEW u, NEW v, NEW n \in Int, Halves(u, n), Halves(v, n)
  PROVE  u = v
<1>1. PICK a, b \in Nat, q \in Int :
        u = <<a, b>> /\ a < HALF /\ b < HALF /\ n = a * HALF + b + q * WORD
  BY Zenon DEF Halves
<1>2. PICK c, d \in Nat, r \in Int :
        v = <<c, d>> /\ c < HALF /\ d < HALF /\ n = c * HALF + d + r * WORD
  BY Zenon DEF Halves
<1>3. a = c /\ b = d
  BY <1>1, <1>2, SMT DEF HALF, WORD
<1> QED
  BY <1>1, <1>2, <1>3, Zenon

\* The seconds since midnight.
LEMMA SecondsOfDay ==
  ASSUME NEW t, t.sec \in 0 .. 59, t.min \in 0 .. 59, t.hour \in 0 .. 23
  PROVE  /\ t.sec + t.min * 60 + t.hour * 3600 \in Nat
         /\ t.sec + t.min * 60 + t.hour * 3600 < WORD
         /\ t.sec + t.min * 60 + t.hour * 3600 = (t.hour * 60 + t.min) * 60 + t.sec
<1> DEFINE i == t.sec
           j == t.min
           l == t.hour
<1>1. i \in 0 .. 59 /\ j \in 0 .. 59 /\ l \in 0 .. 23
  OBVIOUS
<1> HIDE DEF i, j, l
<1>2. WORD = 4294967296
  BY SMT DEF WORD, HALF
<1>3. /\ i + j * 60 + l * 3600 \in Nat /\ i + j * 60 + l * 3600 < WORD
      /\ i + j * 60 + l * 3600 = (l * 60 + j) * 60 + i
  BY <1>1, <1>2, SMT
<1> QED
  BY <1>3 DEF i, j, l

\* The leap days and the years since 1970 are not negative.
LEMMA YearsNotNegative ==
  ASSUME NEW y \in 2022 .. 2121
  PROVE  /\ (y - 1900 - 69) \div 4 \in Nat /\ (y - 1900 - 1) \div 100 \in Nat
         /\ (y - 1900 + 299) \div 400 \in Nat /\ y - 1900 - 70 \in Nat
         /\ (y - 1900 - 1) \div 100 <= 2
  BY SMT

\* The sum of rtc_get_timestamp is the number of seconds modulo 2^32.
LEMMA TimestampSum ==
  ASSUME NEW t, t.sec \in 0 .. 59, t.min \in 0 .. 59, t.hour \in 0 .. 23,
         t.yday \in Nat, t.year \in 2022 .. 2121
  PROVE  rtc_get_timestamp(t) =
           Plus(Times(YearDays[t.year] + t.yday, U32(86400)),
                U32((t.hour * 60 + t.min) * 60 + t.sec))
<1> DEFINE y == t.year
           s == t.sec + t.min * 60 + t.hour * 3600
           a == (y - 1900 - 69) \div 4
           b == (y - 1900 - 1) \div 100
           c == (y - 1900 + 299) \div 400
           days(n) == Times(n, U32(86400))
           D == YearDays[y]
           left == Plus(Plus(U32(s), days(t.yday)),
                        Plus(Times(y - 1900 - 70, U32(31536000)),
                             Plus(Plus(days(a), Minus(days(b))), days(c))))
<1>1. rtc_get_timestamp(t) = left
  BY SMT DEF rtc_get_timestamp
<1>2. a \in Nat /\ b \in Nat /\ c \in Nat /\ y - 1900 - 70 \in Nat /\ s \in Nat
      /\ s < WORD /\ s = (t.hour * 60 + t.min) * 60 + t.sec
  BY SecondsOfDay, YearsNotNegative, SMT
<1>3. D = (y - 1900 - 70) * 365 + a - b + c /\ D \in Nat
  <2>1. y \in 1970 .. 2122
    BY SMT
  <2>2. D = DaysTo(y)
    BY <2>1, YearDaysSum
  <2>3. /\ y - 1970 = y - 1900 - 70 /\ y - 1969 = y - 1900 - 69
        /\ y - 1901 = y - 1900 - 1 /\ y - 1601 = y - 1900 + 299
    BY SMT
  <2>4. D = (y - 1900 - 70) * 365 + a - b + c
    BY <2>2, <2>3 DEF DaysTo
  <2>5. b <= 2
    BY SMT
  <2> HIDE DEF D, a, b, c
  <2> QED
    BY <1>2, <2>4, <2>5, SMT
<1> HIDE DEF D, a, b, c, s
<1>4. Halves(Plus(U32(s), days(t.yday)), s + t.yday * 86400)
  <2>1. Halves(U32(s), s) /\ Halves(days(t.yday), t.yday * 86400)
    BY <1>2, HalvesOf, HalvesTimes
  <2>2. s \in Int /\ t.yday * 86400 \in Int
    BY <1>2
  <2> QED
    BY <2>1, <2>2, HalvesPlus
<1>5. Halves(Plus(days(a), Minus(days(b))), a * 86400 + (-(b * 86400)))
  <2>1. Halves(days(a), a * 86400) /\ Halves(days(b), b * 86400)
    BY <1>2, HalvesTimes
  <2>2. a * 86400 \in Int /\ b * 86400 \in Int /\ -(b * 86400) \in Int
    BY <1>2
  <2>3. Halves(Minus(days(b)), -(b * 86400))
    BY <2>1, <2>2, HalvesMinus
  <2> QED
    BY <2>1, <2>2, <2>3, HalvesPlus
<1>6. Halves(Plus(Plus(days(a), Minus(days(b))), days(c)),
             (a * 86400 + (-(b * 86400))) + c * 86400)
  <2>1. Halves(days(c), c * 86400)
    BY <1>2, HalvesTimes
  <2>2. a * 86400 + (-(b * 86400)) \in Int /\ c * 86400 \in Int
    BY <1>2
  <2> QED
    BY <1>5, <2>1, <2>2, HalvesPlus
<1>7. Halves(Plus(Times(y - 1900 - 70, U32(31536000)),
                  Plus(Plus(days(a), Minus(days(b))), days(c))),
             (y - 1900 - 70) * 31536000 + ((a * 86400 + (-(b * 86400))) + c * 86400))
  <2>1. Halves(Times(y - 1900 - 70, U32(31536000)), (y - 1900 - 70) * 31536000)
    BY <1>2, HalvesTimes
  <2>2. (a * 86400 + (-(b * 86400))) + c * 86400 \in Int
        /\ (y - 1900 - 70) * 31536000 \in Int
    BY <1>2
  <2> QED
    BY <1>6, <2>1, <2>2, HalvesPlus
<1>8. Halves(left, (s + t.yday * 86400)
                     + ((y - 1900 - 70) * 31536000
                          + ((a * 86400 + (-(b * 86400))) + c * 86400)))
  <2>1. s + t.yday * 86400 \in Int
        /\ (y - 1900 - 70) * 31536000 + ((a * 86400 + (-(b * 86400))) + c * 86400) \in Int
    BY <1>2
  <2> QED
    BY <1>4, <1>7, <2>1, HalvesPlus
<1>9. Halves(Plus(Times(D + t.yday, U32(86400)), U32(s)), (D + t.yday) * 86400 + s)
  <2>1. D + t.yday \in Nat /\ (D + t.yday) * 86400 \in Int /\ s \in Int
    BY <1>2, <1>3
  <2>2. Halves(Times(D + t.yday, U32(86400)), (D + t.yday) * 86400)
    BY <2>1, HalvesTimes
  <2>3. Halves(U32(s), s)
    BY <1>2, HalvesOf
  <2> QED
    BY <2>1, <2>2, <2>3, HalvesPlus
<1>10. /\ (D + t.yday) * 86400 + s =
            (s + t.yday * 86400) + ((y - 1900 - 70) * 31536000
               + ((a * 86400 + (-(b * 86400))) + c * 86400))
       /\ (D + t.yday) * 86400 + s \in Int
  <2> DEFINE z == y - 1900 - 70
  <2>1. z \in Nat /\ D = z * 365 + a - b + c
    BY <1>2, <1>3
  <2> HIDE DEF z
  <2>2. (D + t.yday) * 86400 + s =
            (s + t.yday * 86400) + (z * 31536000
               + ((a * 86400 + (-(b * 86400))) + c * 86400))
    <3>1. \A h, i, j, l, m, o \in Nat :
            ((m * 365 + h - i + j) + l) * 86400 + o =
              (o + l * 86400) + (m * 31536000 + ((h * 86400 + (-(i * 86400))) + j * 86400))
      BY SMT
    <3> QED
      BY <1>2, <2>1, <3>1, SMT
  <2> QED
    BY <1>2, <1>3, <2>2, SMT DEF z
<1> HIDE DEF left
<1>11. left = Plus(Times(D + t.yday, U32(86400)), U32(s))
  BY <1>8, <1>9, <1>10, HalvesUnique
<1> QED
  BY <1>1, <1>2, <1>11 DEF D

\* What Convert adds to the fields: the day of the year they are.
LEMMA ConvertYday ==
  ASSUME NEW fm, NEW pass
  PROVE  Convert(fm, pass).yday = rtc_get_yday(Convert(fm, pass))
<1> DEFINE C == Convert(fm, pass)
           bin == IF fm.binary THEN pass ELSE rtc_convert_BCDtobinary(pass)
           cal == [bin EXCEPT !.hour = to24(fm, @), !.year = century(@)]
           yday == rtc_get_yday(cal)
<1>1. C = [sec |-> cal.sec, min |-> cal.min, hour |-> cal.hour, day |-> cal.day,
           mon |-> cal.mon, year |-> cal.year, yday |-> yday]
  BY DEF Convert
<1> HIDE DEF C, cal
<1>2. C.day = cal.day /\ C.mon = cal.mon /\ C.year = cal.year
  <2> HIDE DEF yday
  <2> QED
    BY <1>1
<1>3. C.yday = yday
  <2> HIDE DEF yday
  <2> QED
    BY <1>1
<1>4. rtc_get_yday(C) = rtc_get_yday(cal)
  BY <1>2, SMT DEF rtc_get_yday
<1> QED
  BY <1>3, <1>4 DEF C

\* What was returned carries the day of the year of its own date.
YdayOfDate == Returned => result.yday = rtc_get_yday(result)

\* rtc_get_timestamp is the number of seconds since 1970 modulo 2^32, and
\* rtc_get_yday the number of days since 1 January, for every time that
\* rtc_read_time returns: though the products leave their types from 2039 on,
\* in leap years, and in 2100, which is none.
THEOREM TimestampIsSeconds ==
  HoursReadable => (RSpec => []TimestampCounts)
<1> SUFFICES ASSUME HoursReadable
             PROVE  RSpec => []TimestampCounts
  OBVIOUS
<1>1. RInit => YdayOfDate
  BY DEF RInit, YdayOfDate, Returned
<1>2. YdayOfDate /\ [RNext]_rtcvars => YdayOfDate'
  <2> SUFFICES ASSUME YdayOfDate, [RNext]_rtcvars
               PROVE  YdayOfDate'
    OBVIOUS
  <2>1. CASE Return
    <3>1. result' = Convert(fmt, tm)
      BY <2>1 DEF Return
    <3> QED
      BY <3>1, ConvertYday DEF YdayOfDate
  <2>2. CASE chip \/ UNCHANGED rtcvars
    <3>1. UNCHANGED <<pc, result>>
      BY <2>2 DEF chip, UpdateBegins, RegisterChanges, UpdateEnds, rtcvars
    <3> QED
      BY <3>1 DEF YdayOfDate, Returned
  <2>3. CASE ReadTime \/ WaitUpdate \/ ReadRegister \/ NextPass
    <3>1. pc' # "idle"
      BY <2>3 DEF ReadTime, WaitUpdate, ReadRegister, NextPass
    <3> QED
      BY <3>1 DEF YdayOfDate, Returned
  <2> QED
    BY <2>1, <2>2, <2>3 DEF RNext, driver
<1>3. RInv /\ YdayOfDate => TimestampCounts
  <2> SUFFICES ASSUME RInv, YdayOfDate, Returned
               PROVE  /\ result.yday = DaysBeforeMonth(result.year)[result.mon]
                                         + result.day - 1
                      /\ rtc_get_timestamp(result) =
                           Plus(Times(YearDays[result.year] + result.yday, U32(86400)),
                                U32((result.hour * 60 + result.min) * 60 + result.sec))
    BY DEF TimestampCounts
  <2>1. PICK t \in called .. now : \A f \in Fields : result[f] = window[t][f]
    BY DEF RInv, ReturnsTimeOfCall
  <2>2. t \in 1 .. Len(window)
    <3>1. called \in 1 .. now /\ now \in 1 .. Len(window) /\ Len(window) \in Nat
      BY WindowFacts DEF RInv, DriverInv, ChipInv
    <3> QED
      BY <3>1
  <2>3. window[t] \in Moments
    BY <2>2, WindowFacts DEF RInv
  <2>4. /\ result.sec \in 0 .. 59 /\ result.min \in 0 .. 59 /\ result.hour \in 0 .. 23
        /\ result.day \in 1 .. 31 /\ result.mon \in 1 .. 12
        /\ result.year \in 2022 .. 2121
    BY <2>1, <2>3, FieldNames DEF Moments
  <2>5. result.day \in Nat /\ result.day >= 1
    BY <2>4
  <2>6. /\ result.yday = DaysBeforeMonth(result.year)[result.mon] + result.day - 1
        /\ result.yday \in Nat
    BY <2>4, <2>5, YdayCounts DEF YdayOfDate
  <2> QED
    BY <2>4, <2>6, TimestampSum
<1>4. RSpec => []RInv
  BY RInvHolds
<1> QED
  BY <1>1, <1>2, <1>3, <1>4, PTL DEF RSpec
=============================================================================
