---------------------------- MODULE ClockProofs ----------------------------
(***************************************************************************)
(* Proofs about the clock, for every length of the tick, the correction    *)
(* and the second, and every number of registers read at the start.        *)
(***************************************************************************)
EXTENDS Clock, TLAPS

(***************************************************************************)
(* Arithmetic of the division by a positive number.                        *)
(***************************************************************************)

(* A multiple is the product of the divisor and the quotient. *)
LEMMA Multiple ==
    ASSUME NEW a \in Nat \ {0}, NEW b \in Nat \ {0}, a % b = 0
    PROVE  a \div b \in Nat \ {0} /\ a = b * (a \div b)
OBVIOUS

(* The quotient, by its bounds. *)
LEMMA Quotient ==
    ASSUME NEW a \in Nat, NEW b \in Nat \ {0}, NEW q \in Nat
    PROVE  q = a \div b <=> q * b <= a /\ a < q * b + b
OBVIOUS

(* The product of two positive numbers, and of a larger one. *)
LEMMA TimesMono ==
    ASSUME NEW a \in Int, NEW b \in Int, NEW c \in Nat, a <= b
    PROVE  a * c <= b * c
OBVIOUS

LEMMA TimesNat == \A a, b \in Nat : a * b \in Nat
OBVIOUS

-----------------------------------------------------------------------------
(* The constants are positive numbers. *)
LEMMA Sizes ==
    /\ TICK \in Nat \ {0} /\ CORRECTION \in Nat \ {0} /\ EVERY \in Nat \ {0}
    /\ MILLI \in Nat \ {0} /\ SECOND \in Nat \ {0} /\ UNIX \in Nat \ {0}
BY ClockAssumption

USE Sizes

(***************************************************************************)
(* One tick.                                                               *)
(***************************************************************************)

Part  == TICK * EVERY + CORRECTION    \* of a second, between two corrections
Parts == SECOND \div Part
Thousand == SECOND \div MILLI

Exact(t) ==
    /\ \E k \in 0 .. Parts - 1 : t.microseconds = k * Part + TICK * t.irqCount
    /\ t.irqCount \in 0 .. EVERY - 1
    /\ t.milliseconds = t.microseconds \div MILLI
    /\ t.microseconds < SECOND

(* A second is a whole number of parts, and of milliseconds. *)
LEMMA WholeParts ==
    /\ Part \in Nat \ {0} /\ Parts \in Nat \ {0} /\ SECOND = Part * Parts
    /\ Thousand \in Nat \ {0} /\ SECOND = MILLI * Thousand
<1>1. Part \in Nat \ {0}
  <2>1. TICK * EVERY \in Nat  BY TimesNat
  <2> QED  BY <2>1 DEF Part
<1>2. Parts \in Nat \ {0} /\ SECOND = Part * Parts
  <2>1. SECOND % Part = 0  BY ClockAssumption DEF Part
  <2> QED  BY <1>1, <2>1, Multiple DEF Parts
<1>3. Thousand \in Nat \ {0} /\ SECOND = MILLI * Thousand
  BY ClockAssumption, Multiple DEF Thousand
<1> QED  BY <1>1, <1>2, <1>3

(* The millisecond counter follows, though a tick adds at most one to it,   *)
(* as no tick is longer than a millisecond (cmos.c:122-123).               *)
LEMMA MillisFollow ==
    ASSUME NEW u \in Nat, NEW v \in Nat, u <= v, v <= u + MILLI
    PROVE  (u \div MILLI) + (IF v - (u \div MILLI) * MILLI >= MILLI THEN 1 ELSE 0)
              = v \div MILLI
<1> DEFINE q == u \div MILLI
<1>1. q \in Nat /\ q * MILLI <= u /\ u < q * MILLI + MILLI
  <2>1. q \in Nat  OBVIOUS
  <2> QED  BY <2>1, Quotient
<1>2. (q + 1) * MILLI = q * MILLI + MILLI /\ q * MILLI \in Nat
  BY <1>1, TimesNat
<1> HIDE DEF q
<1>3. CASE v - q * MILLI >= MILLI
  <2>1. (q + 1) * MILLI <= v /\ v < (q + 1) * MILLI + MILLI
    BY <1>1, <1>2, <1>3
  <2>2. q + 1 = v \div MILLI  BY <1>1, <2>1, Quotient
  <2> QED  BY <1>3, <2>2 DEF q
<1>4. CASE ~ (v - q * MILLI >= MILLI)
  <2>1. q * MILLI <= v /\ v < q * MILLI + MILLI  BY <1>1, <1>2, <1>4
  <2>2. q = v \div MILLI  BY <1>1, <2>1, Quotient
  <2> QED  BY <1>1, <1>4, <2>2 DEF q
<1> QED  BY <1>3, <1>4

(* The carry comes with the microsecond that ends the second. *)
LEMMA CarryInTime ==
    ASSUME NEW v \in Nat
    PROVE  v \div MILLI >= Thousand <=> v >= SECOND
<1> DEFINE q == v \div MILLI
<1>1. q \in Nat /\ q * MILLI <= v /\ v < q * MILLI + MILLI
  <2>1. q \in Nat  OBVIOUS
  <2> QED  BY <2>1, Quotient
<1>2. SECOND = Thousand * MILLI /\ Thousand \in Nat  BY WholeParts
<1> HIDE DEF q
<1>3. CASE q >= Thousand
  <2>1. Thousand * MILLI <= q * MILLI  BY <1>1, <1>2, <1>3, TimesMono
  <2>2. q * MILLI \in Nat  BY <1>1, TimesNat
  <2> QED  BY <1>1, <1>2, <1>3, <2>1, <2>2 DEF q
<1>4. CASE ~ (q >= Thousand)
  <2>1. (q + 1) * MILLI <= Thousand * MILLI  BY <1>1, <1>2, <1>4, TimesMono
  <2>2. (q + 1) * MILLI = q * MILLI + MILLI /\ q * MILLI \in Nat  BY <1>1, TimesNat
  <2> QED  BY <1>1, <1>2, <1>4, <2>1, <2>2 DEF q
<1> QED  BY <1>3, <1>4

(* The counts of a clock. *)
Counts(t) ==
    /\ t = Time(t.irqCount, t.microseconds, t.milliseconds, t.unix_t)
    /\ t.irqCount \in Nat /\ t.microseconds \in Nat /\ t.milliseconds \in Nat
    /\ t.unix_t \in Nat

(* From s seconds and us microseconds to the time of t it is d microseconds. *)
Advance(s, us, t, d) ==
    \/ t.unix_t = s /\ t.microseconds = us + d
    \/ t.unix_t = (s + 1) % UNIX /\ t.microseconds = us + d - SECOND

OneTick(s, us, t) == \E d \in {TICK, TICK + CORRECTION} : Advance(s, us, t, d)

(* What ms_update makes of the counts when one tick more has come: the      *)
(* time that was, and a tick and perhaps the correction.                   *)
LEMMA TickExact ==
    \A n, us, ms, s \in Nat : \A r :
       Exact(Time(n, us, ms, s)) /\ r = ms_update(Time(n + 1, us, ms, s))
       => Exact(r) /\ Counts(r) /\ OneTick(s, us, r)
<1> TAKE n, us, ms, s \in Nat
<1> TAKE r
<1> HAVE Exact(Time(n, us, ms, s)) /\ r = ms_update(Time(n + 1, us, ms, s))
<1> DEFINE full == n + 1 >= EVERY
           d    == IF full THEN TICK + CORRECTION ELSE TICK
           v    == us + d
           m    == v \div MILLI
           n1   == IF full THEN 0 ELSE n + 1
<1>1. /\ n \in 0 .. EVERY - 1 /\ ms = us \div MILLI /\ us < SECOND
      /\ \E k \in 0 .. Parts - 1 : us = k * Part + TICK * n
  BY DEF Exact, Time
<1>2. PICK k \in 0 .. Parts - 1 : us = k * Part + TICK * n  BY <1>1
<1>3. d \in Nat /\ d <= MILLI /\ v \in Nat /\ us <= v /\ v <= us + MILLI
  BY ClockAssumption
<1>4. ms + (IF v - ms * MILLI >= MILLI THEN 1 ELSE 0) = m
  BY <1>1, <1>3, MillisFollow
<1>5. r = IF m >= Thousand
          THEN Time(n1, v - SECOND, m - Thousand, (s + 1) % UNIX)
          ELSE Time(n1, v, m, s)
  <2> DEFINE t == Time(n + 1, us, ms, s)
             w == t.microseconds + (IF full THEN CORRECTION ELSE 0) + TICK
             p == t.milliseconds + (IF w - t.milliseconds * MILLI >= MILLI THEN 1 ELSE 0)
  <2>1. /\ t.irqCount = n + 1 /\ t.microseconds = us /\ t.milliseconds = ms
        /\ t.unix_t = s
    BY DEF Time
  <2>2. w = v  BY <2>1
  <2>3. p = m  BY <2>1, <2>2, <1>4
  <2>4. r = Time(IF full THEN 0 ELSE n + 1,
                 IF p >= Thousand THEN w - SECOND ELSE w,
                 IF p >= Thousand THEN p - Thousand ELSE p,
                 IF p >= Thousand THEN (s + 1) % UNIX ELSE s)
    BY <2>1, Zenon DEF ms_update, Thousand
  <2> HIDE DEF w, p, v, m
  <2> QED  BY <2>2, <2>3, <2>4
<1>6. m >= Thousand <=> v >= SECOND  BY <1>3, CarryInTime
<1>7. Part \in Nat /\ Parts \in Nat \ {0} /\ SECOND = Parts * Part
  BY WholeParts
<1>8. (k + 1) * Part = k * Part + Part /\ k * Part \in Nat
  BY <1>7, TimesNat
<1>9. (k + 1) * Part <= SECOND
  BY <1>7, TimesMono
<1>10. CASE full
  <2>1. n + 1 = EVERY  BY <1>1, <1>10
  <2>2. TICK * n + TICK = TICK * EVERY  BY <2>1
  <2>3. v = (k + 1) * Part
    <3>1. TICK * n \in Nat /\ TICK * EVERY \in Nat  BY TimesNat
    <3> QED  BY <1>2, <1>8, <1>10, <2>2, <3>1 DEF Part
  <2> HIDE DEF v
  <2>4. CASE v >= SECOND
    <3>1. v = SECOND  BY <1>3, <1>9, <2>3, <2>4
    <3>2. m = Thousand
      <4>1. SECOND = MILLI * Thousand /\ Thousand \in Nat  BY WholeParts
      <4>2. Thousand * MILLI <= v /\ v < Thousand * MILLI + MILLI  BY <3>1, <4>1
      <4> QED  BY <1>3, <4>1, <4>2, Quotient
    <3>3. r = Time(0, 0, 0, (s + 1) % UNIX)
      <4>1. m >= Thousand /\ m - Thousand = 0 /\ v - SECOND = 0
        BY <3>1, <3>2, WholeParts
      <4>2. n1 = 0  BY <1>10
      <4> HIDE DEF n1, m
      <4> QED  BY <1>5, <4>1, <4>2
    <3>4. /\ 0 \in 0 .. Parts - 1 /\ 0 = 0 * Part + TICK * 0
          /\ 0 \in 0 .. EVERY - 1 /\ 0 = 0 \div MILLI /\ 0 < SECOND
      BY <1>7
    <3>5. (s + 1) % UNIX \in Nat  OBVIOUS
    <3>6. 0 = us + d - SECOND /\ d = TICK + CORRECTION
      BY <1>3, <1>10, <3>1 DEF v
    <3> HIDE DEF d
    <3> QED  BY <3>3, <3>4, <3>5, <3>6 DEF Exact, Time, Counts, OneTick, Advance
  <2>5. CASE ~ (v >= SECOND)
    <3>1. k + 1 \in 0 .. Parts - 1
      <4>1. CASE k + 1 >= Parts
        <5>1. Parts * Part <= (k + 1) * Part  BY <1>7, <4>1, TimesMono
        <5> QED  BY <1>3, <1>7, <1>8, <2>3, <2>5, <5>1
      <4> QED  BY <1>7, <4>1
    <3>2. r = Time(0, v, m, s)
      <4>1. n1 = 0  BY <1>10
      <4> HIDE DEF n1, m
      <4> QED  BY <1>5, <1>6, <2>5, <4>1
    <3>3. v = (k + 1) * Part + TICK * 0  BY <1>3, <2>3
    <3>4. m \in Nat /\ 0 \in 0 .. EVERY - 1 /\ v < SECOND /\ v \in Nat
      BY <1>3, <2>5
    <3>5. v = us + d /\ d = TICK + CORRECTION  BY <1>10 DEF v
    <3>6. m = v \div MILLI  OBVIOUS
    <3> HIDE DEF d, m
    <3> QED  BY <3>1, <3>2, <3>3, <3>4, <3>5, <3>6 DEF Exact, Time, Counts, OneTick, Advance
  <2> QED  BY <2>4, <2>5
<1>11. CASE ~ full
  <2>1. n + 1 \in 0 .. EVERY - 1  BY <1>1, <1>11
  <2>2. TICK * (n + 1) = TICK * n + TICK /\ TICK * n \in Nat  BY TimesNat
  <2>3. (n + 1) * TICK <= EVERY * TICK  BY <1>11, TimesMono
  <2>4. v = k * Part + TICK * (n + 1)  BY <1>2, <1>8, <1>11, <2>2
  <2>5. v < SECOND
    <3>1. TICK * (n + 1) < Part
      <4>1. TICK * (n + 1) \in Nat /\ TICK * EVERY \in Nat  BY TimesNat
      <4>2. TICK * (n + 1) = (n + 1) * TICK /\ TICK * EVERY = EVERY * TICK
        OBVIOUS
      <4> QED  BY <2>3, <4>1, <4>2 DEF Part
    <3>2. TICK * (n + 1) \in Nat  BY TimesNat
    <3> QED  BY <1>7, <1>8, <1>9, <2>4, <3>1, <3>2
  <2>6. r = Time(n + 1, v, m, s)
    <3>1. n1 = n + 1  BY <1>11
    <3> HIDE DEF n1, m, v
    <3> QED  BY <1>3, <1>5, <1>6, <2>5, <3>1
  <2>7. v = us + d /\ d = TICK /\ m \in Nat /\ m = v \div MILLI
    BY <1>3, <1>11
  <2> HIDE DEF d, v, m
  <2> QED  BY <1>3, <2>1, <2>4, <2>5, <2>6, <2>7, SMTT(60) DEF Exact, Time, Counts, OneTick, Advance
<1> QED  BY <1>10, <1>11

-----------------------------------------------------------------------------
(***************************************************************************)
(* The inductive invariant.  It follows the main line through three parts: *)
(* before rtc_irq_init nothing ticks; between its disabling and enabling   *)
(* of interrupts nothing is delivered; and behind that its one access left *)
(* is to the register that the handler selects, too.                       *)
(***************************************************************************)

Critical(m) == m.step = "enable" \/ (m.at \in Guarded /\ m.step # "disable")
Counting(m) == m.at = Last /\ m.step # "enable"

(* The main line's steps, each where it belongs. *)
Places ==
    /\ main.step = "start"   => main.at = 1
    /\ main.step = "disable" => main.at = First
    /\ main.step = "enable"  => main.at = Last

Quiet ==
    /\ Critical(main) => Running /\ ~ interrupts
    /\ Critical(main) \/ Counting(main) \/ (~ periodic /\ 8 \notin requests)
    /\ ~ Counting(main) => handler \in {"none", "eoi0"}

Selected ==
    /\ main.step = "data" => index = AccessAt(main.at).reg
    /\ handler = "data" => index = "C"

(* What a handler still has to acknowledge. *)
Serviced ==
    /\ handler = "none" => in_service = {}
    /\ handler = "eoi0" => in_service = {0}
    /\ handler \in {"tick", "index", "data", "eoi8"} => in_service = {2, 8}
    /\ handler = "spurious" => in_service = {2}

Timed ==
    /\ Counts(time) /\ time.unix_t < UNIX
    /\ Exact(time)
    /\ ~ Counting(main) => time = Time(0, 0, 0, 0)

ClockInv == TypeOK /\ Places /\ Quiet /\ Selected /\ Serviced /\ Timed

(***************************************************************************)
(* The accesses.                                                           *)
(***************************************************************************)

(* rtc_irq_init comes behind the reading of the time. *)
LEMMA Order == First \in Nat /\ First >= 2 /\ Last = First + 4 /\ Last \in Nat
<1>1. Len(TimeRegs) \in Nat  BY ClockAssumption
<1> QED  BY <1>1 DEF First, Last

(* The last access is the reading of register C (cmos.c:67-68). *)
LEMMA LastAccess == AccessAt(Last) = Access("C", "read")
BY Order DEF AccessAt, Setup, Access

(* Only rtc_irq_init writes, with interrupts disabled. *)
LEMMA GuardedWrites ==
    ASSUME NEW i \in 1 .. Last, AccessAt(i).does = "write"
    PROVE  i \in Guarded
<1>1. CASE i = 1  BY <1>1 DEF AccessAt, Access
<1>2. CASE i # 1 /\ i < First  BY <1>2 DEF AccessAt, Access
<1>3. CASE i = Last  BY <1>3, LastAccess DEF Access
<1>4. CASE i >= First /\ i # Last  BY <1>4, Order DEF Guarded
<1> QED  BY <1>1, <1>2, <1>3, <1>4, Order

(* The poll is the first access, and interrupts are enabled before. *)
LEMMA PollFirst ==
    ASSUME NEW i \in 1 .. Last, AccessAt(i).does = "poll"
    PROVE  i = 1
<1>1. CASE i # 1 /\ i < First  BY <1>1 DEF AccessAt, Access
<1>2. CASE i >= First /\ i # 1
  <2>1. AccessAt(i) = Setup[i - First + 1]  BY <1>2, Order DEF AccessAt
  <2>2. i - First + 1 \in 1 .. 5  BY <1>2, Order
  <2>3. i - First + 1 \in {1, 2, 3, 4, 5}  BY <2>2
  <2> QED  BY <2>1, <2>3 DEF Setup, Access
<1> QED  BY <1>1, <1>2, Order

(* Where the main line goes behind an access. *)
LEMMA Behind ==
    ASSUME NEW i \in 1 .. Last
    PROVE  /\ After(i).at \in 1 .. Last
           /\ After(i).step \in {"run", "disable", "enable", "index"}
           /\ After(i) = At(After(i).at, After(i).step)
           /\ After(i).step = "disable" => After(i).at = First
           /\ After(i).step = "enable" => After(i).at = Last
           /\ i \in Guarded => Critical(After(i))
           /\ i = Last => Counting(After(i))
           /\ i < First => ~ Critical(After(i)) /\ ~ Counting(After(i))
<1>1. CASE i = Last
  BY <1>1, Order DEF After, At, Guarded, Critical, Counting
<1>2. CASE i # Last /\ i + 1 = First
  BY <1>2, Order DEF After, At, Guarded, Critical, Counting
<1>3. CASE i # Last /\ i + 1 # First /\ i + 1 = Last
  BY <1>3, Order DEF After, At, Guarded, Critical, Counting
<1>4. CASE i # Last /\ i + 1 # First /\ i + 1 # Last
  BY <1>4, Order DEF After, At, Guarded, Critical, Counting
<1> QED  BY <1>1, <1>2, <1>3, <1>4

(* Telling a controller with one interrupt in service that it is over. *)
LEMMA EndOne == EndHighest({}) = {} /\ \A n \in Int : EndHighest({n}) = {}
<1>1. EndHighest({}) = {}  BY DEF EndHighest
<1>2. ASSUME NEW n \in Int PROVE EndHighest({n}) = {}
  <2>1. Min({n}) = n  BY DEF Min
  <2> QED  BY <2>1 DEF EndHighest
<1> QED  BY <1>1, <1>2

-----------------------------------------------------------------------------
(***************************************************************************)
(* The invariant is kept.                                                  *)
(***************************************************************************)

(* Ticks are counted from a whole second on. *)
LEMMA InitInv == Init => ClockInv
<1> SUFFICES ASSUME Init PROVE ClockInv  OBVIOUS
<1>1. Exact(Time(0, 0, 0, 0))
  <2>1. 0 \in 0 .. Parts - 1 /\ 0 = 0 * Part + TICK * 0  BY WholeParts
  <2>2. 0 \in 0 .. EVERY - 1 /\ 0 = 0 \div MILLI /\ 0 < SECOND  OBVIOUS
  <2> QED  BY <2>1, <2>2 DEF Exact, Time
<1>2. TypeOK
  <2>1. 1 \in 1 .. Last  BY Order
  <2>2. main \in [at : 1 .. Last,
                  step : {"start", "disable", "enable", "index", "data", "run"}]
    BY <2>1 DEF Init, At
  <2>3. requests \subseteq {0, 8} /\ in_service \subseteq {0, 2, 8}  BY DEF Init
  <2>4. /\ interrupts \in BOOLEAN /\ inEn \in BOOLEAN
        /\ periodic \in BOOLEAN /\ flag \in BOOLEAN
    BY Zenon DEF Init
  <2> QED  BY <2>2, <2>3, <2>4 DEF Init, TypeOK
<1>3. Places /\ Selected /\ Serviced  BY DEF Init, Places, Selected, Serviced, At
<1>4. Quiet  BY Order DEF Init, Quiet, Critical, Counting, Guarded, Running, At
<1>5. Timed  BY <1>1 DEF Init, Timed, Counts, Time
<1> QED  BY <1>2, <1>3, <1>4, <1>5 DEF ClockInv

(* What the main line does not touch while it selects and uses registers. *)
LEMMA MainInv == ClockInv /\ Main => ClockInv'
<1> SUFFICES ASSUME ClockInv, Main PROVE ClockInv'  OBVIOUS
<1> USE DEF ClockInv
<1>1. CASE Start
  <2>1. main.at = 1 /\ ~ Counting(main) /\ ~ Critical(main)
    BY <1>1, Order DEF Start, Places, Counting, Critical, Guarded
  <2>2. main' = At(1, "index") /\ ~ Counting(main)' /\ ~ Critical(main)'
    BY <1>1, Order DEF Start, At, Counting, Critical, Guarded
  <2>3. TypeOK'  BY <1>1, Order DEF Start, TypeOK, At, chip, pics
  <2>4. Places' /\ Selected'  BY <1>1 DEF Start, Places, Selected, At
  <2>5. Quiet'  BY <1>1, <2>1, <2>2 DEF Start, Quiet, Running, chip, pics
  <2>6. Serviced'  BY <1>1 DEF Start, Serviced, pics
  <2>7. Timed'  BY <1>1, <2>1 DEF Start, Timed, Exact
  <2> QED  BY <2>3, <2>4, <2>5, <2>6, <2>7
<1>2. CASE Select
  <2>1. main' = At(main.at, "data") /\ main.at \in 1 .. Last
    BY <1>2 DEF Select, TypeOK
  <2>2. Counting(main)' <=> Counting(main)
    BY <1>2 DEF Select, Counting, At
  <2>3. Critical(main)' <=> Critical(main)
    BY <1>2 DEF Select, Critical, At
  <2>4. TypeOK'  BY <1>2, <2>1 DEF Select, TypeOK, At, chip, pics
  <2>5. Places' /\ Selected'  BY <1>2 DEF Select, Running, Places, Selected, At
  <2>6. Quiet'  BY <1>2, <2>2, <2>3 DEF Select, Quiet, Running, chip, pics
  <2>7. Serviced'  BY <1>2 DEF Select, Serviced, pics
  <2>8. Timed'  BY <1>2, <2>2 DEF Select, Timed, Exact
  <2> QED  BY <2>4, <2>5, <2>6, <2>7, <2>8
<1>3. CASE Use
  <2> DEFINE i == main.at
  <2>1. i \in 1 .. Last /\ main.step = "data" /\ handler = "none" /\ handler' = "none"
    BY <1>3 DEF Use, TypeOK, Running
  <2>2. i \in Guarded <=> Critical(main)  BY <2>1 DEF Critical
  <2>3. i = Last <=> Counting(main)  BY <2>1 DEF Counting
  <2>4. i \in Guarded \/ i = Last \/ i < First  BY <2>1, Order DEF Guarded
  <2>5. \/ main' = After(i)
        \/ i = 1 /\ main' = At(i, "index")
    BY <1>3, <2>1, PollFirst DEF Use
  <2>6. /\ main' \in [at : 1 .. Last, step : {"run", "disable", "enable", "index"}]
        /\ main'.step = "disable" => main'.at = First
        /\ main'.step = "enable" => main'.at = Last
    BY <2>1, <2>5, Behind DEF At
  <2>7. /\ i \in Guarded => Critical(main)'
        /\ i = Last => Counting(main)'
        /\ i < First => ~ Critical(main)' /\ ~ Counting(main)'
    BY <2>1, <2>5, Behind, Order DEF At, Guarded, Critical, Counting
  <2>8. /\ flag' \in BOOLEAN /\ periodic' \in BOOLEAN
        /\ requests' \subseteq requests \cup {8} /\ in_service' = in_service
    BY <1>3 DEF Use, Read, Write, TypeOK
  <2>9. i < First => periodic' = periodic /\ requests' \subseteq requests
    <3>1. i < First => i \notin Guarded  BY <2>1, Order DEF Guarded
    <3> QED  BY <1>3, <2>1, <3>1, GuardedWrites DEF Use, Read
  <2>10. Critical(main)' => Critical(main)
    <3>1. CASE i = Last
      <4>1. main' = After(i)  BY <2>5, <3>1, Order
      <4> QED  BY <3>1, <4>1, Order DEF After, At, Critical, Guarded
    <3> QED  BY <2>2, <2>4, <2>7, <3>1
  <2>11. ~ Counting(main)' => ~ Counting(main)  BY <2>3, <2>7
  <2>12. UNCHANGED <<interrupts, inEn, handler, index, time>>  BY <1>3 DEF Use
  <2>13. TypeOK'  BY <2>6, <2>8, <2>12 DEF TypeOK
  <2>14. Places' /\ Selected'  BY <2>1, <2>6 DEF Places, Selected
  <2>15. Quiet'
    <3>1. Critical(main)' => Running' /\ ~ interrupts'
      BY <2>10, <2>12 DEF Quiet, Running
    <3>2. Critical(main)' \/ Counting(main)' \/ (~ periodic' /\ 8 \notin requests')
      <4>1. CASE i < First
        <5>1. ~ Critical(main) /\ ~ Counting(main)  BY <2>2, <2>3, <4>1, Order DEF Guarded
        <5> QED  BY <2>9, <4>1, <5>1 DEF Quiet
      <4> QED  BY <2>4, <2>7, <4>1
    <3>3. handler' \in {"none", "eoi0"}  BY <2>1
    <3> QED  BY <3>1, <3>2, <3>3 DEF Quiet
  <2>16. Serviced'  BY <2>8, <2>12 DEF Serviced
  <2>17. Timed'  BY <2>11, <2>12 DEF Timed, Exact
  <2> QED  BY <2>13, <2>14, <2>15, <2>16, <2>17
<1>4. CASE Disable
  <2>1. main.at = First /\ ~ Counting(main)
    BY <1>4, Order DEF Disable, Places, Counting
  <2>2. main' = At(First, "index") /\ Critical(main)' /\ ~ Counting(main)'
    BY <1>4, <2>1, Order DEF Disable, At, Critical, Counting, Guarded
  <2>3. TypeOK'
    <3>1. First \in 1 .. Last  BY Order
    <3>2. main' \in [at : 1 .. Last,
                     step : {"start", "disable", "enable", "index", "data", "run"}]
      BY <2>2, <3>1 DEF At
    <3>3. interrupts' \in BOOLEAN /\ inEn' \in BOOLEAN
      BY <1>4, Zenon DEF Disable, TypeOK
    <3> QED  BY <1>4, <3>2, <3>3 DEF Disable, TypeOK, chip, pics
  <2>4. Places' /\ Selected'
    BY <1>4, <2>2 DEF Disable, Running, Places, Selected, At
  <2>5. Quiet'  BY <1>4, <2>2 DEF Disable, Running, Quiet
  <2>6. Serviced'  BY <1>4 DEF Disable, Serviced, pics
  <2>7. Timed'  BY <1>4, <2>1 DEF Disable, Timed, Exact
  <2> QED  BY <2>3, <2>4, <2>5, <2>6, <2>7
<1>5. CASE Enable
  <2>1. main.at = Last /\ ~ Counting(main) /\ main' = At(Last, "index")
    BY <1>5 DEF Enable, Places, Counting
  <2>2. ~ Critical(main)' /\ Counting(main)'
    BY <2>1, Order DEF At, Critical, Counting, Guarded
  <2>3. time = Time(0, 0, 0, 0)  BY <2>1 DEF Timed
  <2>4. time' = time  BY <1>5, <2>3 DEF Enable, Time
  <2>5. TypeOK'  BY <1>5, <2>1, Order DEF Enable, TypeOK, At, chip, pics
  <2>6. Places' /\ Selected'
    BY <1>5, <2>1 DEF Enable, Running, Places, Selected, At
  <2>7. Quiet'  BY <2>2 DEF Quiet
  <2>8. Serviced'  BY <1>5 DEF Enable, Serviced, pics
  <2>9. Timed'  BY <2>2, <2>4 DEF Timed, Exact
  <2> QED  BY <2>5, <2>6, <2>7, <2>8, <2>9
<1> QED  BY <1>1, <1>2, <1>3, <1>4, <1>5 DEF Main

(* Nothing is delivered before interrupts are enabled again. *)
LEMMA DevicesInv ==
    ClockInv /\ (Period \/ Interval \/ DeliverInterval \/ DeliverTick) => ClockInv'
<1> SUFFICES ASSUME ClockInv, Period \/ Interval \/ DeliverInterval \/ DeliverTick
             PROVE  ClockInv'
  OBVIOUS
<1> USE DEF ClockInv
<1>1. CASE Period
  <2>1. TypeOK'  BY <1>1 DEF Period, TypeOK
  <2>2. Places' /\ Selected'  BY <1>1 DEF Period, Places, Selected
  <2>3. Quiet'  BY <1>1 DEF Period, Quiet, Running, Critical, Counting
  <2>4. Serviced'  BY <1>1 DEF Period, Serviced
  <2>5. Timed'  BY <1>1 DEF Period, Timed, Exact, Counting
  <2> QED  BY <2>1, <2>2, <2>3, <2>4, <2>5
<1>2. CASE Interval
  <2>1. TypeOK'  BY <1>2 DEF Interval, TypeOK, chip
  <2>2. Places' /\ Selected'  BY <1>2 DEF Interval, Places, Selected
  <2>3. Quiet'  BY <1>2 DEF Interval, chip, Quiet, Running, Critical, Counting
  <2>4. Serviced'  BY <1>2 DEF Interval, Serviced
  <2>5. Timed'  BY <1>2 DEF Interval, Timed, Exact, Counting
  <2> QED  BY <2>1, <2>2, <2>3, <2>4, <2>5
<1>3. ASSUME NEW n \in {0, 8}, NEW step \in {"eoi0", "tick", "spurious"}, NEW S \in SUBSET {0, 2, 8},
             Deliverable(n), Interrupt(n, step, S),
             step = "eoi0" => n = 0 /\ S = {0},
             step = "tick" => n = 8 /\ S = {2, 8},
             step = "spurious" => n = 8 /\ S = {2}
      PROVE  ClockInv'
  <2>1. interrupts /\ handler = "none" /\ n \in requests
    BY <1>3 DEF Deliverable, Running
  <2>2. ~ Critical(main) /\ in_service = {}  BY <2>1 DEF Quiet, Serviced
  <2>3. n = 8 => Counting(main)  BY <2>1, <2>2 DEF Quiet
  <2>4. in_service' = S /\ handler' = step /\ interrupts' = FALSE
    BY <1>3, <2>2 DEF Interrupt
  <2>5. UNCHANGED <<main, inEn, index, periodic, flag, time>> /\ requests' \subseteq requests
    BY <1>3 DEF Interrupt, chip
  <2>6. TypeOK'  BY <2>4, <2>5 DEF TypeOK
  <2>7. Places'  BY <2>5 DEF Places
  <2>8. Selected'  BY <2>4, <2>5 DEF Selected
  <2>9. Quiet'
    BY <1>3, <2>2, <2>3, <2>4, <2>5 DEF Quiet, Running, Critical, Counting
  <2>10. Serviced'  BY <1>3, <2>4 DEF Serviced
  <2>11. Timed'  BY <2>5 DEF Timed, Exact, Counting
  <2> QED  BY <2>6, <2>7, <2>8, <2>9, <2>10, <2>11
<1>4. CASE DeliverInterval
  BY <1>3, <1>4 DEF DeliverInterval
<1>5. CASE DeliverTick
  <2>1. Deliverable(8) /\ (Interrupt(8, "tick", {2, 8}) \/ Interrupt(8, "spurious", {2}))
    BY <1>5 DEF DeliverTick
  <2> QED  BY <1>3, <2>1
<1> QED  BY <1>1, <1>2, <1>4, <1>5

(* The same of the clock that the invariant describes. *)
LEMMA TickOfTime ==
    ASSUME ClockInv
    PROVE  LET r == ms_update(Time(time.irqCount + 1, time.microseconds,
                                   time.milliseconds, time.unix_t))
           IN  Exact(r) /\ Counts(r) /\ OneTick(time.unix_t, time.microseconds, r)
<1>1. PICK n, us, ms, s \in Nat :
         n = time.irqCount /\ us = time.microseconds /\ ms = time.milliseconds
         /\ s = time.unix_t
  BY DEF ClockInv, Timed, Counts
<1>2. Exact(Time(n, us, ms, s))
  BY <1>1, Zenon DEF ClockInv, Timed, Counts
<1>3. n \in Nat /\ us \in Nat /\ ms \in Nat /\ s \in Nat  BY <1>1
<1>4. \A r : r = ms_update(Time(n + 1, us, ms, s))
        => Exact(r) /\ Counts(r) /\ OneTick(s, us, r)
  BY <1>2, <1>3, TickExact, Zenon
<1> QED  BY <1>1, <1>4

(* A handler runs to its end with the main line where it was. *)
LEMMA HandlerInv == ClockInv /\ Handler => ClockInv'
<1> SUFFICES ASSUME ClockInv, Handler PROVE ClockInv'  OBVIOUS
<1> USE DEF ClockInv
<1>1. handler \in {"tick", "index", "data", "eoi8", "spurious"}
         => Counting(main) /\ ~ Critical(main)
  <2>1. Counting(main) => ~ Critical(main)
    BY Order DEF Counting, Critical, Guarded
  <2> QED  BY <2>1 DEF Quiet
<1>2. main.step = "data" /\ Counting(main) => AccessAt(main.at).reg = "C"
  BY LastAccess DEF Counting, Access
<1>3. CASE Tick
  <2> DEFINE r == ms_update(Time(time.irqCount + 1, time.microseconds,
                                 time.milliseconds, time.unix_t))
  <2>1. handler = "tick" /\ handler' = "index" /\ time' = r
        /\ UNCHANGED <<interrupts, main, inEn, index, periodic, flag, requests, in_service>>
    BY <1>3 DEF Tick, chip, pics
  <2>2. Exact(r) /\ Counts(r) /\ OneTick(time.unix_t, time.microseconds, r)
    BY TickOfTime
  <2>3. r.unix_t < UNIX
    <3>1. time.unix_t < UNIX /\ time.unix_t \in Nat  BY DEF Timed, Counts
    <3> HIDE DEF r
    <3>2. r.unix_t = time.unix_t \/ r.unix_t = (time.unix_t + 1) % UNIX
      BY <2>2 DEF OneTick, Advance
    <3> QED  BY <3>1, <3>2
  <2> HIDE DEF r
  <2>5. Timed'
    <3>1. Counting(main)'  BY <1>1, <2>1 DEF Counting
    <3> QED  BY <2>1, <2>2, <2>3, <3>1 DEF Timed, Exact, Counts
  <2>6. TypeOK'  BY <2>1 DEF TypeOK
  <2>7. Places' /\ Selected'  BY <2>1 DEF Places, Selected
  <2>8. Quiet'  BY <1>1, <2>1 DEF Quiet, Critical, Counting
  <2>9. Serviced'  BY <2>1 DEF Serviced
  <2> QED  BY <2>5, <2>6, <2>7, <2>8, <2>9
<1>4. CASE TickNoMemory
  <2>1. Timed'  BY <1>4 DEF TickNoMemory, Timed, Exact, Counting
  <2>2. TypeOK'  BY <1>4 DEF TickNoMemory, TypeOK, chip, pics
  <2>3. Places' /\ Selected'  BY <1>4 DEF TickNoMemory, Places, Selected
  <2>4. Quiet'  BY <1>1, <1>4 DEF TickNoMemory, Quiet, Critical, Counting
  <2>5. Serviced'  BY <1>4 DEF TickNoMemory, Serviced
  <2> QED  BY <2>1, <2>2, <2>3, <2>4, <2>5
<1>5. CASE SelectC
  <2>1. Timed'  BY <1>5 DEF SelectC, Timed, Exact, Counting
  <2>2. TypeOK'  BY <1>5 DEF SelectC, TypeOK, chip, pics
  <2>3. Places'  BY <1>5 DEF SelectC, Places
  <2>4. Selected'  BY <1>1, <1>2, <1>5 DEF SelectC, Selected
  <2>5. Quiet'  BY <1>1, <1>5 DEF SelectC, Quiet, Critical, Counting
  <2>6. Serviced'  BY <1>5 DEF SelectC, Serviced, pics
  <2> QED  BY <2>1, <2>2, <2>3, <2>4, <2>5, <2>6
<1>6. CASE ReadC
  <2>1. Timed'  BY <1>6 DEF ReadC, Timed, Exact, Counting
  <2>2. TypeOK'
    <3>1. flag' \in BOOLEAN /\ periodic' \in BOOLEAN  BY <1>6 DEF ReadC, Read, TypeOK
    <3> QED  BY <1>6, <3>1 DEF ReadC, Read, TypeOK
  <2>3. Places' /\ Selected'  BY <1>6 DEF ReadC, Places, Selected
  <2>4. Quiet'  BY <1>1, <1>6 DEF ReadC, Quiet, Critical, Counting
  <2>5. Serviced'  BY <1>6 DEF ReadC, Read, Serviced
  <2> QED  BY <2>1, <2>2, <2>3, <2>4, <2>5
<1>7. CASE EndInterval \/ EndTick
  <2>1. in_service' = {}
    <3>1. CASE EndInterval
      <4>1. in_service = {0}  BY <3>1 DEF EndInterval, End, Serviced
      <4>2. Controller(1) = {0} /\ Controller(2) = {}  BY <4>1 DEF Controller
      <4> QED  BY <3>1, <4>2, EndOne DEF EndInterval, End, PIC_EOI
    <3>2. CASE EndTick
      <4>1. in_service = {2, 8}  BY <3>2 DEF EndTick, End, Serviced
      <4>2. Controller(1) = {2} /\ Controller(2) = {8}  BY <4>1 DEF Controller
      <4> QED  BY <3>2, <4>2, EndOne DEF EndTick, End, PIC_EOI
    <3> QED  BY <1>7, <3>1, <3>2
  <2>2. /\ interrupts' = TRUE /\ handler' = "none" /\ handler \in {"eoi0", "eoi8"}
        /\ UNCHANGED <<main, inEn, index, periodic, flag, requests, time>>
    BY <1>7 DEF EndInterval, EndTick, End, chip
  <2>3. ~ Critical(main)  BY <2>2 DEF Quiet, Running
  <2>4. Timed'  BY <2>2 DEF Timed, Exact, Counting
  <2>5. TypeOK'  BY <2>1, <2>2 DEF TypeOK
  <2>6. Places' /\ Selected'  BY <2>2 DEF Places, Selected
  <2>7. Quiet'  BY <2>2, <2>3 DEF Quiet, Running, Critical, Counting
  <2>8. Serviced'  BY <2>1, <2>2 DEF Serviced
  <2> QED  BY <2>4, <2>5, <2>6, <2>7, <2>8
<1>8. CASE Spurious
  <2>1. Timed'  BY <1>8 DEF Spurious, Timed, Exact, Counting
  <2>2. TypeOK'
    <3>1. in_service' \subseteq in_service
      BY <1>8 DEF Spurious, EndHighest, Controller
    <3> QED  BY <1>8, <3>1 DEF Spurious, TypeOK, chip
  <2>3. Places' /\ Selected'  BY <1>8 DEF Spurious, Places, Selected
  <2>4. Quiet'  BY <1>1, <1>8 DEF Spurious, chip, Quiet, Critical, Counting
  <2>5. Serviced'  BY <1>8 DEF Spurious, Serviced
  <2> QED  BY <2>1, <2>2, <2>3, <2>4, <2>5
<1> QED  BY <1>3, <1>4, <1>5, <1>6, <1>7, <1>8 DEF Handler

(* The whole state unchanged. *)
LEMMA StutterInv == ClockInv /\ UNCHANGED vars => ClockInv'
BY DEF ClockInv, vars, chip, pics, TypeOK, Places, Quiet, Running, Selected, Serviced,
       Timed, Exact, Critical, Counting

-----------------------------------------------------------------------------
(***************************************************************************)
(* What follows.                                                           *)
(***************************************************************************)

(* The invariant holds always: the main line of rtc_irq_init and the        *)
(* handler of interrupt 8 keep it together (cmos.c:41-69, 113-132).        *)
THEOREM ClockInvAlways == Spec => []ClockInv
<1>1. ClockInv /\ [Next]_vars => ClockInv'
  BY MainInv, DevicesInv, HandlerInv, StutterInv DEF Next
<1> QED  BY <1>1, InitInv, PTL DEF Spec

(* Whoever uses the clock's second port has selected the register it means  *)
(* (cmos.c:42-66), though two contexts write to the first.                 *)
THEOREM RightRegisterAlways == Spec => []RightRegister
<1>1. ClockInv => RightRegister
  BY DEF ClockInv, Selected, RightRegister
<1> QED  BY <1>1, ClockInvAlways, PTL

(* No interrupt is left unacknowledged behind its handler (pic.c:104-109).  *)
THEOREM AcknowledgedAlways == Spec => []Acknowledged
<1>1. ClockInv => Acknowledged
  BY DEF ClockInv, Serviced, Acknowledged, Running
<1> QED  BY <1>1, ClockInvAlways, PTL

(* The clock does not drift and its carries are exact (cmos.c:116-128), for *)
(* every rate of the chip and every correction that makes whole seconds.   *)
THEOREM ClockExactAlways == Spec => []ClockExact
<1>1. ClockInv => ClockExact
  BY DEF ClockInv, Timed, Exact, Parts, Part, ClockExact
<1> QED  BY <1>1, ClockInvAlways, PTL

(* A remainder no larger than the divisor. *)
LEMMA SmallRemainder ==
    ASSUME NEW d \in Nat, NEW a \in Nat \ {0}, d <= a
    PROVE  d % a \in {0, d} /\ (d - a) % a \in {0, d}
<1>1. CASE d = a  BY <1>1
<1>2. CASE d < a
  <2>1. d % a = d  BY <1>2
  <2>2. (d - a) % a = d  BY <1>2
  <2> QED  BY <2>1, <2>2
<1> QED  BY <1>1, <1>2

(* A tick moves the time of the clock, on the circle of unix_t's width, by  *)
(* itself or by itself and the correction.                                 *)
LEMMA TickMoves ==
    ASSUME ClockInv, Tick
    PROVE  (Elapsed' - Elapsed) % (UNIX * SECOND) \in {0, TICK, TICK + CORRECTION}
<1>1. OneTick(time.unix_t, time.microseconds, time')
  BY TickOfTime DEF Tick
<1>2. PICK d \in {TICK, TICK + CORRECTION} :
         Advance(time.unix_t, time.microseconds, time', d)
  BY <1>1 DEF OneTick
<1>3. PICK s, us \in Nat : s = time.unix_t /\ us = time.microseconds /\ s < UNIX
  BY DEF ClockInv, Timed, Counts
<1>4. s \in Nat /\ us \in Nat /\ d \in Nat /\ d <= MILLI
  BY <1>2, <1>3, ClockAssumption
<1>5. d \in {TICK, TICK + CORRECTION}  BY <1>2
<1>6. Elapsed = s * SECOND + us  BY <1>3 DEF Elapsed
<1>7. UNIX * SECOND \in Nat \ {0} /\ d <= UNIX * SECOND
  <2>1. MILLI <= SECOND
    <3>1. SECOND = Thousand * MILLI /\ Thousand \in Nat /\ 1 <= Thousand  BY WholeParts
    <3>2. 1 * MILLI <= Thousand * MILLI  BY <3>1, TimesMono
    <3> QED  BY <3>1, <3>2
  <2>2. 1 * SECOND <= UNIX * SECOND  BY TimesMono
  <2>3. UNIX * SECOND \in Nat  BY TimesNat
  <2> QED  BY <1>4, <2>1, <2>2, <2>3
<1>8. s * SECOND \in Nat /\ (s + 1) * SECOND = s * SECOND + SECOND
  BY <1>4, TimesNat
<1>9. Elapsed' - Elapsed \in {d, d - UNIX * SECOND}
  <2>1. CASE time'.unix_t = s /\ time'.microseconds = us + d
    <3>1. Elapsed' = s * SECOND + (us + d)  BY <2>1 DEF Elapsed
    <3> QED  BY <1>4, <1>6, <1>8, <3>1
  <2>2. CASE time'.unix_t = (s + 1) % UNIX /\ time'.microseconds = us + d - SECOND
    <3>1. CASE s + 1 < UNIX
      <4>1. time'.unix_t = s + 1  BY <1>4, <2>2, <3>1
      <4>2. Elapsed' = (s + 1) * SECOND + (us + d - SECOND)
        BY <2>2, <4>1 DEF Elapsed
      <4> QED  BY <1>4, <1>6, <1>8, <4>2
    <3>2. CASE s + 1 = UNIX
      <4>1. time'.unix_t = 0  BY <1>4, <2>2, <3>2
      <4>2. Elapsed' = 0 * SECOND + (us + d - SECOND)
        BY <2>2, <4>1 DEF Elapsed
      <4>3. UNIX * SECOND = s * SECOND + SECOND  BY <1>8, <3>2
      <4>4. 0 * SECOND = 0  OBVIOUS
      <4> QED  BY <1>4, <1>6, <1>8, <4>2, <4>3, <4>4
    <3> QED  BY <1>3, <1>4, <3>1, <3>2
  <2> QED  BY <1>2, <1>3, <2>1, <2>2 DEF Advance
<1>10. PICK a \in Nat \ {0} : a = UNIX * SECOND  BY <1>7
<1>11. d % a \in {0, d} /\ (d - a) % a \in {0, d}
  BY <1>4, <1>7, <1>10, SmallRemainder
<1> HIDE DEF Elapsed
<1>12. (Elapsed' - Elapsed) % a \in {0, d}  BY <1>9, <1>10, <1>11
<1> QED  BY <1>5, <1>10, <1>12

(* The time never goes back and never jumps (cmos.c:113-130).               *)
THEOREM NeverBackAlways == Spec => NeverBack
<1>1. ClockInv /\ [Next]_vars
        => [(Elapsed' - Elapsed) % (UNIX * SECOND) \in {0, TICK, TICK + CORRECTION}]_vars
  <2> SUFFICES ASSUME ClockInv, Next, ~ Tick
               PROVE  (Elapsed' - Elapsed) % (UNIX * SECOND) \in {0, TICK, TICK + CORRECTION}
    BY TickMoves
  <2>1. Elapsed' = Elapsed
    <3>1. CASE Enable
      <4>1. ~ Counting(main)  BY <3>1 DEF ClockInv, Places, Enable, Counting
      <4>2. time = Time(0, 0, 0, 0)  BY <4>1 DEF ClockInv, Timed
      <4> QED  BY <3>1, <4>2 DEF Enable, Time, Elapsed
    <3>2. CASE ~ Enable
      <4>1. UNCHANGED time
        BY <3>2 DEF Next, Main, Start, Select, Use, Disable, Handler, TickNoMemory,
                    SelectC, ReadC, EndInterval, EndTick, End, Spurious, Period, Interval,
                    DeliverInterval, DeliverTick, Interrupt
      <4> QED  BY <4>1 DEF Elapsed
    <3> QED  BY <3>1, <3>2
  <2>2. Elapsed \in Nat /\ UNIX * SECOND \in Nat \ {0}
    <3>1. time.unix_t \in Nat /\ time.microseconds \in Nat
      BY DEF ClockInv, Timed, Counts
    <3>2. time.unix_t * SECOND \in Nat /\ UNIX * SECOND \in Nat  BY <3>1, TimesNat
    <3> QED  BY <3>1, <3>2 DEF Elapsed
  <2> HIDE DEF Elapsed
  <2> QED  BY <2>1, <2>2
<1> QED  BY <1>1, ClockInvAlways, PTL DEF Spec, NeverBack
=============================================================================
