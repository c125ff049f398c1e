------------------------------- MODULE Clock -------------------------------
(***************************************************************************)
(* Time at start-up: the drivers that read a real-time clock chip while it *)
(* keeps running, the conversion of the date to seconds and back, and the  *)
(* conversion of the timer's frequency to a period and of its ticks to     *)
(* nanoseconds in words of limited width.                                  *)
(***************************************************************************)
EXTENDS Integers, Sequences, FiniteSets, FiniteSetsExt

CONSTANTS
  Chips,      \* clock chips
  Starts,     \* dates the clock may show when it is read
  MaxTicks,   \* bound on the seconds that pass during a behaviour
  Freqs, Ticks,  \* timer frequencies and tick counts
  UMax,       \* UINT_MAX
  ULMax,      \* the largest unsigned long
  NsScale     \* 9: nanoseconds are 10 to the power of minus this

None == -1
Wrapped == <<None, None>>   \* no time that anybody has seen

VARIABLES
  chip,     \* the chip, or "timer" for the timer's conversions
  dm, h24, cent_reg, dv,   \* its mode: binary, 24 hours, century, divider
  now,      \* the time in the chip
  uip,      \* mc146818: update in progress
  frozen, held,  \* ds1743: the R bit, and the time it shows while it is set
  pc, tm,   \* the driver: the fields read
  read,     \* how many of them this pass
  time,     \* the result
  shown,    \* history: the times shown since the driver started
  ticks, pace,  \* bounds: seconds passed, changes since the last pass began
  hz,       \* the timer's frequency
  freq, quot, period, scale, n, per, ns, power  \* and its conversions

rtcMode   == <<chip, dm, h24, cent_reg, dv>>
chipVars  == <<now, uip, frozen, held>>
timerVars == <<hz, freq, quot, period, scale, n, per, ns, power>>
vars == <<rtcMode, chipVars, pc, tm, read, time, shown, ticks, pace, timerVars>>

Fields == <<"sec", "min", "hour", "mday", "mon", "year", "cent">>
NoTm == [f \in {Fields[k] : k \in 1 .. 7} |-> 0]

Init ==
  /\ chip \in Chips \cup {"timer"}
  /\ dm \in BOOLEAN /\ h24 \in BOOLEAN /\ cent_reg \in {None, 50}
  /\ dv \in {"run", "stopped", "ixp200"}
  /\ chip # "mc146818" => ~ dm /\ h24 /\ dv = "run"
  /\ chip \in {"timer", "ds1743", "ds15x1", "rtc72423", "m48t5x"} => cent_reg = None
  /\ now \in Starts /\ uip = FALSE /\ frozen = FALSE /\ held = now
  /\ chip = "timer" => now = CHOOSE t \in Starts : TRUE
  /\ pc = "start" /\ tm = NoTm /\ read = 0 /\ time = Wrapped /\ shown = {}
  /\ ticks = 0 /\ pace = 0
  /\ hz \in IF chip = "timer" THEN Freqs ELSE {1}
  /\ freq = hz
  /\ n \in IF chip = "timer" THEN Ticks ELSE {1}
  /\ quot = 1 /\ period = 0 /\ scale = 0 /\ per = 0 /\ ns = 0 /\ power = 0

-----------------------------------------------------------------------------
(* The calendar, as a reference                                            *)

Leap(y) == y % 4 = 0 /\ (y % 100 # 0 \/ y % 400 = 0)
Days(y, mo) == CASE mo \in {4, 6, 9, 11} -> 30
                 [] mo = 2 -> IF Leap(y) THEN 29 ELSE 28
                 [] OTHER -> 31
Epoch(t) ==
  LET days == 365 * (t.y - 1970) + Cardinality({y \in 1970 .. t.y - 1 : Leap(y)})
              + MapThenSumSet(LAMBDA mo : Days(t.y, mo), 1 .. t.mo - 1) + t.d - 1
  IN  <<days, (t.h * 60 + t.mi) * 60 + t.s>>
After(t) ==
  IF t.s < 59 THEN [t EXCEPT !.s = @ + 1]
  ELSE IF t.mi < 59 THEN [t EXCEPT !.s = 0, !.mi = @ + 1]
  ELSE IF t.h < 23 THEN [t EXCEPT !.s = 0, !.mi = 0, !.h = @ + 1]
  ELSE IF t.d < Days(t.y, t.mo) THEN [t EXCEPT !.s = 0, !.mi = 0, !.h = 0, !.d = @ + 1]
  ELSE IF t.mo < 12 THEN [t EXCEPT !.s = 0, !.mi = 0, !.h = 0, !.d = 1, !.mo = @ + 1]
  ELSE [y |-> t.y + 1, mo |-> 1, d |-> 1, h |-> 0, mi |-> 0, s |-> 0]

-----------------------------------------------------------------------------
(* The chips                                                               *)

Bcd(v) == 16 * (v \div 10) + (v % 10)
Coded(v) == IF dm THEN v ELSE Bcd(v)

\* The registers; in the 12 hour mode, bit 7 of the hours is PM.
Reg(f) ==
  LET t == IF frozen THEN held ELSE now IN
  CASE f = "sec" -> Coded(t.s) [] f = "min" -> Coded(t.mi)
    [] f = "hour" -> IF h24 THEN Coded(t.h)
                     ELSE Coded(IF t.h % 12 = 0 THEN 12 ELSE t.h % 12)
                          + (IF t.h >= 12 THEN 128 ELSE 0)
    [] f = "mday" -> Coded(t.d) [] f = "mon" -> Coded(t.mo)
    [] f = "year" -> Coded(t.y % 100) [] f = "cent" -> Coded(t.y \div 100)

\* A second passes. The mc146818 announces it with UIP, long enough before
\* and for long enough that a pass over the registers sees at most one of
\* the three changes. The others change at once.
Running == pc \notin {"start", "done", "crash"} /\ chip # "timer" /\ ticks < MaxTicks
Second ==
  /\ Running /\ chip # "mc146818"
  /\ now' = After(now) /\ ticks' = ticks + 1
  /\ shown' = shown \cup {After(now)}
  /\ UNCHANGED <<rtcMode, uip, frozen, held, pc, tm, read, time, pace, timerVars>>
UipStart ==
  /\ Running /\ chip = "mc146818" /\ ~ uip /\ now \in shown /\ pace = 0
  /\ uip' = TRUE /\ pace' = pace + 1
  /\ UNCHANGED <<rtcMode, now, frozen, held, pc, tm, read, time, shown, ticks, timerVars>>
UipEnd ==
  /\ Running /\ uip /\ pace = 0
  /\ now' = After(now) /\ uip' = FALSE
  /\ ticks' = ticks + 1 /\ pace' = pace + 1
  /\ shown' = shown \cup {After(now)}
  /\ UNCHANGED <<rtcMode, frozen, held, pc, tm, read, time, timerVars>>

-----------------------------------------------------------------------------
(* The drivers                                                             *)

\* The device is added to the hardware tree and its registers mapped. The
\* mc146818 gives up when its divider is stopped, unless the bits are
\* reserved; the ds1743's oscillator is started and what it shows held.
Start ==
  /\ chip # "timer" /\ pc = "start"
  /\ shown' = {now}
  /\ IF dv = "stopped" THEN pc' = "done" /\ time' = <<0, 0>>
     ELSE pc' = (IF chip = "mc146818" THEN "uip" ELSE "read") /\ UNCHANGED time
  /\ frozen' = (chip = "ds1743") /\ held' = now
  /\ UNCHANGED <<rtcMode, now, uip, tm, read, ticks, pace, timerVars>>

\* Fields a chip's driver reads in a pass, from the seconds on.
InPass == CASE chip \in {"ds1743", "ds15x1"} -> 7
            [] chip = "m48t37" /\ cent_reg # None -> 7
            [] OTHER -> 6

\* The mc146818 starts a pass only if no update is in progress.
CheckUip ==
  /\ pc = "uip" /\ pace' = 0
  /\ pc' = IF uip THEN "uip" ELSE "read"
  /\ UNCHANGED <<rtcMode, chipVars, tm, read, time, shown, ticks, timerVars>>

\* One pass over the registers, a register at a time.
ReadFirst ==
  /\ pc = "read"
  /\ tm' = [tm EXCEPT !.sec = Reg("sec")] /\ read' = 1
  /\ pc' = "next"
  /\ UNCHANGED <<rtcMode, chipVars, time, shown, ticks, pace, timerVars>>
ReadNext ==
  /\ pc = "next" /\ read' = read + 1
  /\ tm' = [tm EXCEPT ![Fields[read + 1]] = Reg(Fields[read + 1])]
  /\ pc' = IF read + 1 = InPass THEN "again" ELSE "next"
  /\ UNCHANGED <<rtcMode, chipVars, time, shown, ticks, pace, timerVars>>

\* Mutant: the seconds are not compared.
Consistent_Once == CASE chip = "mc146818" -> ~ uip [] OTHER -> TRUE

\* Whether the pass is accepted: the mc146818 looks at UIP again, the
\* ds1743 has been held, the rtc72423 compares the units of the seconds and
\* the others the seconds.
Consistent ==
  CASE chip = "mc146818" -> ~ uip
    [] chip = "ds1743"   -> TRUE
    [] chip = "rtc72423" -> tm.sec % 16 = Reg("sec") % 16
    [] OTHER             -> tm.sec = Reg("sec")

ReadAgain ==
  /\ pc = "again" /\ pace' = 0
  /\ pc' = IF ~ Consistent THEN (IF chip = "mc146818" THEN "uip" ELSE "read")
           ELSE IF chip \in {"mc146818", "ds1386"} /\ cent_reg # None THEN "cent"
           ELSE "convert"
  /\ frozen' = FALSE
  /\ UNCHANGED <<rtcMode, now, uip, held, tm, read, time, shown, ticks, timerVars>>

\* Two drivers read the century after the pass.
ReadCentury ==
  /\ pc = "cent" /\ pc' = "convert"
  /\ tm' = [tm EXCEPT !.cent = Reg("cent")]
  /\ UNCHANGED <<rtcMode, chipVars, read, time, shown, ticks, pace, timerVars>>

bcd2bin(b) == 10 * (b \div 16) + (b % 16)

\* Fields common to the drivers: months count from 0.
Binary(hour, year) ==
  [sec |-> bcd2bin(tm.sec % 128), min |-> bcd2bin(tm.min), hour |-> hour,
   mday |-> bcd2bin(tm.mday), mon |-> bcd2bin(tm.mon) - 1, year |-> year]

\* A year below 70 is one of the next century.
Windowed(yy) == IF yy < 70 THEN yy + 100 ELSE yy
By20(yy, is20) == IF is20 THEN yy + 100 ELSE yy

\* rtc_time_mc146818: in BCD, the century is taken from the number of its
\* register.
tm_mc146818 ==
  LET Bin(v) == IF dm THEN v ELSE bcd2bin(v)
      hour == Bin(tm.hour % 128) + (IF ~ h24 /\ tm.hour >= 128 THEN 12 ELSE 0)
      year == Bin(tm.year)
      cent == IF dm THEN tm.cent ELSE bcd2bin(cent_reg)
  IN  [sec |-> Bin(tm.sec), min |-> Bin(tm.min), hour |-> hour, mday |-> Bin(tm.mday),
       mon |-> Bin(tm.mon) - 1,
       year |-> IF cent_reg # None THEN By20(year, cent = 20) ELSE Windowed(year)]
tm_ds1743 ==
  Binary(bcd2bin(tm.hour % 64), bcd2bin(tm.year) + (bcd2bin(tm.cent % 64) - 19) * 100)
\* Its months count from 1.
tm_rtc72423 ==
  [Binary(bcd2bin(tm.hour % 64), Windowed(bcd2bin(tm.year))) EXCEPT !.mon = bcd2bin(tm.mon)]
tm_ds15x1 == Binary(bcd2bin(tm.hour), By20(bcd2bin(tm.year), tm.cent = 32))
tm_ds1386 ==
  Binary(bcd2bin(tm.hour % 64),
         IF cent_reg # None THEN By20(bcd2bin(tm.year), bcd2bin(tm.cent) = 20)
         ELSE Windowed(bcd2bin(tm.year)))
tm_m48t37 ==
  Binary(bcd2bin(tm.hour),
         IF cent_reg = None THEN Windowed(bcd2bin(tm.year))
         ELSE bcd2bin(tm.year) + (IF tm.cent > 19 THEN (bcd2bin(tm.cent) - 19) * 100 ELSE 0))
tm_m48t5x == Binary(bcd2bin(tm.hour), Windowed(bcd2bin(tm.year)))
Tm ==
  CASE chip = "mc146818" -> tm_mc146818 [] chip = "ds1743" -> tm_ds1743
    [] chip = "rtc72423" -> tm_rtc72423 [] chip = "ds15x1" -> tm_ds15x1
    [] chip = "ds1386" -> tm_ds1386     [] chip = "m48t37" -> tm_m48t37
    [] chip = "m48t5x" -> tm_m48t5x

-----------------------------------------------------------------------------
(* calc_time_t and _gmtime                                                 *)

\* Seconds are shown as days and the seconds of a day: month_sec in days.
month_sec == <<0, 31, 59, 90, 120, 151, 181, 212, 243, 273, 304, 334>>

\* Leap days in the years since 1970.
LeapDays(year) == (year + 1) \div 4

\* A year before 1970 wraps around.
calc_time_t(t) ==
  LET year == t.year - 70
      y    == t.year + 1900
      leap == t.mon >= 2 /\ y % 4 = 0 /\ (y % 100 # 0 \/ y % 400 = 0)
      sec  == t.hour * 3600 + t.min * 60 + t.sec
  IN  IF year < 0 THEN Wrapped
      ELSE << year * 365 + LeapDays(year) + month_sec[t.mon + 1] + (IF leap THEN 1 ELSE 0)
              + t.mday - 1 + sec \div 86400, sec % 86400 >>

\* The year and the month are those in which the days run out.
_gmtime(s) ==
  LET days == s[1]
      secs == s[2]
      Len4(y) == IF (y + 2) % 4 = 0 THEN 366 ELSE 365
      Until(y) == MapThenSumSet(Len4, 0 .. y - 1)
      year == Min({y \in 0 .. 131 : Until(y + 1) > days})
      yday == days - Until(year)
      mdays == <<31, IF Len4(year) = 366 THEN 29 ELSE 28, 31, 30, 31, 30, 31, 31, 30, 31, 30, 31>>
      Upto(m) == MapThenSumSet(LAMBDA k : mdays[k], 1 .. m)
      mon == Min({m \in 0 .. 11 : Upto(m + 1) > yday})
  IN  [sec |-> secs % 60, min |-> (secs \div 60) % 60, hour |-> secs \div 3600,
       mday |-> yday - Upto(mon) + 1, mon |-> mon, year |-> year + 70]

\* A month that the chip cannot have stops the system.
Convert ==
  /\ pc = "convert"
  /\ IF Tm.mon \in 0 .. 11 THEN pc' = "done" /\ time' = calc_time_t(Tm)
     ELSE pc' = "crash" /\ UNCHANGED time
  /\ UNCHANGED <<rtcMode, chipVars, tm, read, shown, ticks, pace, timerVars>>

-----------------------------------------------------------------------------
(* invert_timer_freq and timer_tick2ns                                     *)

\* A frequency so large that ten times a remainder might overflow is
\* divided first.
Invert ==
  /\ chip = "timer" /\ pc = "start" /\ pc' = "invert"
  /\ IF freq > UMax \div 10 THEN freq' = freq \div 10 /\ scale' = -1
     ELSE UNCHANGED <<freq, scale>>
  /\ UNCHANGED <<rtcMode, chipVars, tm, read, time, shown, ticks, pace, hz, quot, period, n,
                 per, ns, power>>

\* No further digit is sure to fit in the period.
Full(p) == p >= (UMax \div 10) - 10

\* A digit of the quotient.
InvertDigit ==
  LET p   == (period * 10 + quot \div freq) % (UMax + 1)
      rem == quot % freq
  IN
  /\ pc = "invert" /\ period' = p
  /\ IF Full(p) \/ rem = 0
     THEN /\ pc' = "tick" /\ power' = -NsScale - scale /\ per' = p
          /\ UNCHANGED <<scale, quot>>
     ELSE /\ scale' = scale - 1 /\ quot' = rem * 10
          /\ UNCHANGED <<pc, power, per>>
  /\ UNCHANGED <<rtcMode, chipVars, tm, read, time, shown, ticks, pace, hz, freq, n, ns>>

\* The product of period and ticks, 0 if it overflows; a zero divisor gives
\* zero.
Product ==
  LET x == (per * n) % (ULMax + 1) IN
  IF per # 0 /\ x \div per = n THEN x ELSE 0

\* The period loses digits until the product fits; what is left of the
\* power is taken from the product.
TickDown ==
  LET x == IF ns = 0 THEN Product ELSE ns IN
  /\ pc = "tick"
  /\ IF power <= 0 THEN pc' = "up" /\ ns' = x /\ UNCHANGED <<per, power>>
     ELSE ns' = x \div 10 /\ per' = per \div 10 /\ power' = power - 1 /\ UNCHANGED pc
  /\ UNCHANGED <<rtcMode, chipVars, tm, read, time, shown, ticks, pace, hz, freq, quot,
                 period, scale, n>>
TickUp ==
  /\ pc = "up"
  /\ IF power < 0 THEN ns' = (ns * 10) % (ULMax + 1) /\ power' = power + 1 /\ UNCHANGED pc
     ELSE pc' = "done" /\ UNCHANGED <<ns, power>>
  /\ UNCHANGED <<rtcMode, chipVars, tm, read, time, shown, ticks, pace, hz, freq, quot,
                 period, scale, n, per>>

-----------------------------------------------------------------------------
Next == \/ Second \/ UipStart \/ UipEnd
        \/ Start \/ CheckUip \/ ReadFirst \/ ReadNext \/ ReadAgain \/ ReadCentury \/ Convert
        \/ Invert \/ InvertDigit \/ TickDown \/ TickUp
Spec == Init /\ [][Next]_vars

-----------------------------------------------------------------------------
(* Properties                                                              *)

\* What the drivers do not convert: the mc146818's hour of noon and
\* midnight in 12 hour mode and its century register in BCD, and a century
\* that ends between the pass and the later read of its register.
Unconverted ==
  \/ chip = "mc146818" /\ ~ h24 /\ tm.hour % 128 = Coded(12)
  \/ chip = "mc146818" /\ ~ dm /\ cent_reg # None
  \/ /\ chip \in {"mc146818", "ds1386"} /\ cent_reg # None
     /\ \E t, u \in shown : t.y \div 100 # u.y \div 100

\* The time a driver returns is one that the chip showed while it was read,
\* whatever the second in which the read fell, and the date that _gmtime
\* makes of it is the date read. The rtc72423's driver is a month ahead,
\* for it does not count its months from 0; its other fields are right.
TimeRight ==
  LET date == IF chip = "rtc72423" THEN [Tm EXCEPT !.mon = @ - 1] ELSE Tm IN
  pc = "done" /\ chip # "timer" /\ dv # "stopped" /\ ~ Unconverted =>
    /\ time = calc_time_t(Tm)
    /\ \E t \in shown : calc_time_t(date) = Epoch(t)
    /\ _gmtime(calc_time_t(date)) = date

\* The period is the quotient to all the digits that fit, and no more, but
\* for the digit a large frequency has lost; a time in ticks that fits in a
\* word of nanoseconds is converted with an error of less than the digits
\* the period had to lose.
TimerRight ==
  /\ pc \in {"tick", "up", "done"} /\ chip = "timer" =>
       LET rest == (10 ^ (-scale)) - period * hz IN
       /\ period \in 0 .. UMax
       /\ rest < hz /\ rest >= IF freq = hz THEN 0 ELSE -10 * period
       /\ period < (UMax \div 10) - 10 => rest = 0 \/ freq # hz
  /\ pc = "done" /\ chip = "timer" /\ NsScale + scale <= 0 =>
       LET digits == 10 ^ (-NsScale - scale)
           exact  == (period \div digits) * n + ((period % digits) * n) \div digits
       IN  exact <= ULMax => ns \in exact - n - 1 .. exact
=============================================================================
