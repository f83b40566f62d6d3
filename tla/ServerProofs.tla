------------------------------ MODULE ServerProofs ------------------------------
(***************************************************************************)
(* What the tasks and drivers of 25-osfs11 keep for all sizes: the time    *)
(* task SYS tells, the disk log, the look-ups of NET, the transfers of HD  *)
(* and the rings of the network card.                                      *)
(***************************************************************************)
EXTENDS SysTask, DiskLog, NetServer, Hd, NicRing, Recursion, FiniteSetTheorems, SequenceTheorems

(***************************************************************************)
(* Task SYS: division, and what is read of a time that goes on.            *)
(***************************************************************************)
SysSpec == SysInit /\ [][SysNext]_sysVars

Hours == RtcSizes[1]
Minutes == RtcSizes[2]
SecondsOf == RtcSizes[3]
Decoded(i) == IF is_bcd THEN BCD_TO_DEC(sys_t[i]) ELSE sys_t[i]
SysTypes ==
  /\ elapsed \in 0 .. DayLength - 1 /\ is_bcd \in BOOLEAN /\ sysPc \in -1 .. 4
  /\ sys_t \in [1 .. 3 -> Nat] /\ rtc_answer \in [1 .. 3 -> Nat]
  /\ asked_at \in Nat /\ asked_at <= elapsed
\* how far the time read so far can be from the clock, register by register
ReadSoFar ==
  /\ sysPc \in 2 .. 4 =>
       /\ Minutes * SecondsOf * Decoded(1) <= elapsed
       /\ asked_at \div (Minutes * SecondsOf) <= Decoded(1)
  /\ sysPc \in 3 .. 4 => SecondsOf * (Decoded(1) * Minutes + Decoded(2)) <= elapsed
  /\ sysPc = 4 => SecondsOf * (Decoded(1) * Minutes + Decoded(2)) + Decoded(3) <= elapsed
SysInv == SysTypes /\ ReadSoFar /\ RtcNotAhead /\ Seconds(rtc_answer) <= elapsed

LEMMA RtcNumbers ==
  /\ Hours \in 1 .. 100 /\ Minutes \in 1 .. 100 /\ SecondsOf \in 1 .. 100
  /\ Minutes * SecondsOf \in Nat /\ Minutes * SecondsOf > 0
  /\ DayLength = Hours * (Minutes * SecondsOf) /\ DayLength \in Nat /\ DayLength > 0
<1>1. Hours \in 1 .. 100 /\ Minutes \in 1 .. 100 /\ SecondsOf \in 1 .. 100
  <2> DEFINE S == 1 .. 100
  <2>1. RtcSizes \in Seq(S) /\ Len(RtcSizes) = 3
    BY SysTaskAssumption DEF SysTaskAssumption
  <2> HIDE DEF S
  <2>2. RtcSizes[1] \in S /\ RtcSizes[2] \in S /\ RtcSizes[3] \in S
    BY <2>1, ElementOfSeq
  <2> QED
    BY <2>2 DEF S, Hours, Minutes, SecondsOf
<1>2. Minutes * SecondsOf \in Nat /\ Minutes * SecondsOf > 0
  BY <1>1
<1>3. DayLength = Hours * (Minutes * SecondsOf)
  <2> DEFINE a == RtcSizes[1]
             b == RtcSizes[2]
             c == RtcSizes[3]
  <2>1. a \in Nat /\ b \in Nat /\ c \in Nat
    BY <1>1 DEF Hours, Minutes, SecondsOf
  <2>2. DayLength = a * b * c /\ Hours = a /\ Minutes = b /\ SecondsOf = c
    BY DEF DayLength, Hours, Minutes, SecondsOf
  <2> HIDE DEF a, b, c
  <2>3. a * b * c = a * (b * c)
    BY <2>1
  <2> QED
    BY <2>2, <2>3
<1>4. Hours * (Minutes * SecondsOf) \in Nat /\ Hours * (Minutes * SecondsOf) > 0
  BY <1>1, <1>2
<1> QED
  BY <1>1, <1>2, <1>3, <1>4

LEMMA DivFacts ==
  ASSUME NEW a \in Nat, NEW n \in Nat, n > 0
  PROVE  /\ a \div n \in Nat /\ a % n \in 0 .. n - 1 /\ n * (a \div n) \in Nat
         /\ a = n * (a \div n) + (a % n)
         /\ \A k \in Nat : n * k <= a => k <= a \div n
<1> DEFINE q == a \div n
           r == a % n
<1>1. a = n * q + r
  OBVIOUS
<1>2. r \in 0 .. n - 1
  OBVIOUS
<1>3. q \in Int
  OBVIOUS
<1> HIDE DEF q, r
<1>4. q \in Nat
  <2> SUFFICES ASSUME q < 0 PROVE FALSE
    BY <1>3
  <2>1. PICK e \in Nat : q = -1 - e
    <3> DEFINE g == -1 - q
    <3>1. g \in Nat /\ q = -1 - g
      BY <1>3
    <3> QED
      BY <3>1
  <2>2. n * (-1 - e) = -n - n * e /\ n * e >= 0
    BY <2>1
  <2> QED
    BY <2>1, <2>2, <1>1, <1>2
<1>5. n * q \in Nat
  BY <1>4
<1>6. ASSUME NEW k \in Nat, n * k <= a, ~ (k <= q) PROVE FALSE
  <2>1. PICK e \in Nat : k = q + 1 + e
    <3> DEFINE g == k - q - 1
    <3>1. g \in Nat /\ k = q + 1 + g
      BY <1>4, <1>6
    <3> QED
      BY <3>1
  <2>2. n * k = n * q + n + n * e /\ n * e >= 0
    BY <2>1, <1>4
  <2> QED
    BY <2>2, <1>1, <1>2, <1>5, <1>6
<1>7. \A k \in Nat : n * k <= a => k <= q
  BY <1>6
<1>8. a \div n = q /\ a % n = r
  BY DEF q, r
<1>9. n * (a \div n) = n * q
  BY <1>8
<1> QED
  BY <1>1, <1>2, <1>4, <1>5, <1>7, <1>8, <1>9

\* The quotient before and after a factor: what is behind stays behind.
LEMMA BehindStays ==
  ASSUME NEW a \in Nat, NEW n \in Nat, NEW q \in Nat, NEW r \in Nat, a = n * q + r,
         NEW k \in Nat, k <= q
  PROVE  n * k + r <= a /\ n * k \in Nat
<1>1. PICK g \in Nat : q = k + g
  <2> DEFINE e == q - k
  <2>1. e \in Nat /\ q = k + e
    OBVIOUS
  <2> QED
    BY <2>1
<1>2. n * q = n * k + n * g
  BY <1>1
<1>3. n * k \in Nat /\ n * g \in Nat
  OBVIOUS
<1> QED
  BY <1>2, <1>3

LEMMA BcdBack == \A v \in 0 .. 99 : BCD_TO_DEC(Bcd(v)) = v /\ Bcd(v) \in Nat
<1> SUFFICES ASSUME NEW v \in 0 .. 99 PROVE BCD_TO_DEC(Bcd(v)) = v /\ Bcd(v) \in Nat
  OBVIOUS
<1> DEFINE t == v \div 10
           u == v % 10
<1>1. t \in 0 .. 9 /\ u \in 0 .. 9 /\ v = 10 * t + u
  OBVIOUS
<1>2. Bcd(v) = t * 16 + u
  BY DEF Bcd
<1> HIDE DEF t, u
<1>3. (t * 16 + u) \div 16 = t /\ (t * 16 + u) % 16 = u
  BY <1>1
<1> QED
  BY <1>1, <1>2, <1>3 DEF BCD_TO_DEC

\* What a register says, and by how much it may be behind.
LEMMA FieldFacts ==
  ASSUME SysTypes
  PROVE  /\ \A i \in 1 .. 3 : Field(i) \in 0 .. 99
         /\ Minutes * SecondsOf * Field(1) <= elapsed
         /\ asked_at \div (Minutes * SecondsOf) <= Field(1)
         /\ \A h \in Nat : Minutes * SecondsOf * h <= elapsed
              => SecondsOf * (h * Minutes + Field(2)) <= elapsed
         /\ \A k \in Nat : SecondsOf * k <= elapsed => SecondsOf * k + Field(3) <= elapsed
<1> DEFINE b == Minutes
           c == SecondsOf
           bc == b * c
           q == elapsed \div c
           s == elapsed % c
           h0 == elapsed \div bc
           a0 == asked_at \div bc
           m == q % b
           h1 == q \div b
<1>1. /\ b \in 1 .. 100 /\ c \in 1 .. 100 /\ bc \in Nat /\ bc > 0 /\ elapsed \in Nat
      /\ Hours \in 1 .. 100 /\ asked_at \in Nat /\ asked_at <= elapsed /\ elapsed < Hours * bc
  BY RtcNumbers DEF SysTypes
<1>2. Field(1) = h0 /\ Field(2) = m /\ Field(3) = s
  BY DEF Field, Minutes, SecondsOf
<1> HIDE DEF b, c, bc, q
<1>3. /\ h0 \in Nat /\ bc * h0 \in Nat /\ bc * h0 <= elapsed
      /\ \A k \in Nat : bc * k <= elapsed => k <= h0
  <2> DEFINE r == elapsed % bc
  <2>1. /\ h0 \in Nat /\ bc * h0 \in Nat /\ elapsed = bc * h0 + r /\ r \in 0 .. bc - 1
        /\ \A k \in Nat : bc * k <= elapsed => k <= h0
    BY <1>1, DivFacts
  <2> HIDE DEF r, h0
  <2> QED
    BY <2>1, <1>1
<1>4. a0 \in Nat /\ bc * a0 \in Nat /\ bc * a0 <= asked_at
  <2> DEFINE r == asked_at % bc
  <2>1. a0 \in Nat /\ bc * a0 \in Nat /\ asked_at = bc * a0 + r /\ r \in 0 .. bc - 1
    BY <1>1, DivFacts
  <2> HIDE DEF r, a0
  <2> QED
    BY <2>1, <1>1
<1>5. /\ q \in Nat /\ elapsed = c * q + s /\ s \in 0 .. c - 1
      /\ \A k \in Nat : c * k <= elapsed => k <= q
  BY <1>1, DivFacts DEF q
<1>6. /\ h1 \in Nat /\ q = b * h1 + m /\ m \in 0 .. b - 1
      /\ \A k \in Nat : b * k <= q => k <= h1
  BY <1>1, <1>5, DivFacts
<1> HIDE DEF s, h0, a0, m, h1
<1>7. h0 \in 0 .. 99
  <2> SUFFICES ASSUME Hours <= h0 PROVE FALSE
    BY <1>1, <1>3
  <2>1. PICK e \in Nat : h0 = Hours + e
    <3> DEFINE g == h0 - Hours
    <3>1. g \in Nat /\ h0 = Hours + g
      BY <1>1, <1>3
    <3> QED
      BY <3>1
  <2>2. bc * h0 = Hours * bc + bc * e /\ bc * e \in Nat /\ Hours * bc \in Nat
    BY <2>1, <1>1
  <2> QED
    BY <2>2, <1>1, <1>3
<1>8. m \in 0 .. 99 /\ s \in 0 .. 99
  BY <1>1, <1>5, <1>6
<1>9. a0 <= h0
  BY <1>1, <1>3, <1>4
<1>10. ASSUME NEW h \in Nat, bc * h <= elapsed
       PROVE  c * (h * b + m) <= elapsed
  <2>1. bc * h = c * (b * h) /\ b * h \in Nat /\ b * h = h * b
    BY <1>1 DEF bc
  <2>2. b * h <= q
    BY <2>1, <1>10, <1>5
  <2>3. h <= h1
    BY <2>2, <1>6
  <2>4. b * h + m <= q
    BY <2>3, <1>1, <1>5, <1>6, BehindStays
  <2>5. h * b + m \in Nat /\ h * b + m <= q
    BY <2>1, <2>4, <1>6
  <2> DEFINE k == h * b + m
  <2> HIDE DEF k
  <2>6. k \in Nat /\ k <= q
    BY <2>5 DEF k
  <2>7. c * k + s <= elapsed /\ c * k \in Nat
    BY <2>6, <1>1, <1>5, BehindStays
  <2>8. c * k <= elapsed
    BY <2>7, <1>1, <1>5
  <2> QED
    BY <2>8 DEF k
<1>11. ASSUME NEW k \in Nat, c * k <= elapsed PROVE c * k + s <= elapsed
  <2>1. k <= q
    BY <1>11, <1>5
  <2> QED
    BY <2>1, <1>1, <1>5, BehindStays
<1>12. \A i \in 1 .. 3 : Field(i) \in 0 .. 99
  <2>1. \A i \in 1 .. 3 : i = 1 \/ i = 2 \/ i = 3
    OBVIOUS
  <2> QED
    BY <2>1, <1>2, <1>7, <1>8
<1>13. bc = Minutes * SecondsOf /\ a0 = asked_at \div (Minutes * SecondsOf)
  BY DEF bc, b, c, a0
<1>14. Minutes * SecondsOf * Field(1) <= elapsed /\ asked_at \div (Minutes * SecondsOf) <= Field(1)
  BY <1>2, <1>3, <1>9, <1>13
<1>15. \A h \in Nat : Minutes * SecondsOf * h <= elapsed
         => SecondsOf * (h * Minutes + Field(2)) <= elapsed
  BY <1>2, <1>10 DEF bc, b, c
<1>16. \A k \in Nat : SecondsOf * k <= elapsed => SecondsOf * k + Field(3) <= elapsed
  BY <1>2, <1>11 DEF c
<1> QED
  BY <1>12, <1>14, <1>15, <1>16
LEMMA SysInitOK == SysInit => SysInv
<1> SUFFICES ASSUME SysInit PROVE SysInv
  OBVIOUS
<1>1. SysTypes
  BY RtcNumbers DEF SysInit, SysTypes
<1>2. Seconds(rtc_answer) = 0
  <2>1. rtc_answer[1] = 0 /\ rtc_answer[2] = 0 /\ rtc_answer[3] = 0
    BY DEF SysInit
  <2>2. Seconds(rtc_answer) = (0 * Minutes + 0) * SecondsOf + 0
    BY <2>1 DEF Seconds, Minutes, SecondsOf
  <2> QED
    BY <2>2, RtcNumbers
<1>3. asked_at \div (RtcSizes[2] * RtcSizes[3]) = 0
  <2> DEFINE n == RtcSizes[2] * RtcSizes[3]
  <2>1. n \in Nat /\ n > 0 /\ asked_at = 0
    BY RtcNumbers DEF SysInit, Minutes, SecondsOf
  <2> HIDE DEF n
  <2>2. 0 \div n = 0
    BY <2>1
  <2> QED
    BY <2>1, <2>2 DEF n
<1>4. ReadSoFar
  BY DEF SysInit, ReadSoFar
<1>5. elapsed \in Nat /\ rtc_answer[1] = 0
  BY RtcNumbers DEF SysInit
<1> QED
  BY <1>1, <1>2, <1>3, <1>4, <1>5 DEF SysInv, RtcNotAhead

LEMMA ReadKeeps == SysInv /\ read_register => SysInv'
<1> SUFFICES ASSUME SysInv, read_register PROVE SysInv'
  OBVIOUS
<1>1. SysTypes /\ ReadSoFar
  BY DEF SysInv
<1> PICK i \in 1 .. 3 : sysPc = i
  BY DEF read_register
<1>2. sysPc = i /\ sysPc' = i + 1 /\ sys_t' = [sys_t EXCEPT ![i] = Register(i)]
      /\ UNCHANGED <<elapsed, is_bcd, rtc_answer, asked_at>>
  BY DEF read_register, RegisterOf
<1>3. Field(i) \in 0 .. 99 /\ Register(i) \in Nat
      /\ (IF is_bcd THEN BCD_TO_DEC(Register(i)) ELSE Register(i)) = Field(i)
  BY <1>1, <1>2, FieldFacts, BcdBack DEF Register
<1>4. SysTypes'
  BY <1>1, <1>2, <1>3 DEF SysTypes
<1>5. Decoded(i)' = Field(i) /\ \A k \in 1 .. 3 : k # i => Decoded(k)' = Decoded(k)
  <2>1. sys_t'[i] = Register(i) /\ \A k \in 1 .. 3 : k # i => sys_t'[k] = sys_t[k]
    BY <1>1, <1>2 DEF SysTypes
  <2> QED
    BY <2>1, <1>2, <1>3 DEF Decoded, BCD_TO_DEC
<1>6. \A k \in 1 .. 3 : Decoded(k) \in Nat
  <2> SUFFICES ASSUME NEW k \in 1 .. 3 PROVE Decoded(k) \in Nat
    OBVIOUS
  <2>1. sys_t[k] \in Nat
    BY <1>1 DEF SysTypes
  <2> QED
    BY <2>1 DEF Decoded, BCD_TO_DEC
<1>7. ReadSoFar'
  <2>1. CASE i = 1
    <3>1. sysPc' = 2 /\ Decoded(1)' = Field(1)
      BY <2>1, <1>2, <1>5
    <3>2. Minutes * SecondsOf * Field(1) <= elapsed
          /\ asked_at \div (Minutes * SecondsOf) <= Field(1)
      BY <1>1, FieldFacts
    <3> QED
      BY <3>1, <3>2, <1>2 DEF ReadSoFar
  <2>2. CASE i = 2
    <3>1. sysPc' = 3 /\ Decoded(1)' = Decoded(1) /\ Decoded(2)' = Field(2) /\ Decoded(1) \in Nat
      BY <2>2, <1>2, <1>5, <1>6
    <3>2. Minutes * SecondsOf * Decoded(1) <= elapsed
          /\ asked_at \div (Minutes * SecondsOf) <= Decoded(1)
      BY <2>2, <1>1 DEF ReadSoFar
    <3>3. SecondsOf * (Decoded(1) * Minutes + Field(2)) <= elapsed
      BY <3>1, <3>2, <1>1, FieldFacts
    <3> QED
      BY <3>1, <3>2, <3>3, <1>2 DEF ReadSoFar
  <2>3. CASE i = 3
    <3>1. sysPc' = 4 /\ Decoded(1)' = Decoded(1) /\ Decoded(2)' = Decoded(2)
          /\ Decoded(3)' = Field(3) /\ Decoded(1) \in Nat /\ Decoded(2) \in Nat
      BY <2>3, <1>2, <1>5, <1>6
    <3>2. Minutes * SecondsOf * Decoded(1) <= elapsed
          /\ asked_at \div (Minutes * SecondsOf) <= Decoded(1)
          /\ SecondsOf * (Decoded(1) * Minutes + Decoded(2)) <= elapsed
      BY <2>3, <1>1 DEF ReadSoFar
    <3>3. Decoded(1) * Minutes + Decoded(2) \in Nat
      <4>1. Decoded(1) * Minutes \in Nat
        BY <3>1, RtcNumbers
      <4> QED
        BY <4>1, <3>1
    <3>4. SecondsOf * (Decoded(1) * Minutes + Decoded(2)) + Field(3) <= elapsed
      BY <3>2, <3>3, <1>1, FieldFacts
    <3> QED
      BY <3>1, <3>2, <3>4, <1>2 DEF ReadSoFar
  <2> QED
    BY <2>1, <2>2, <2>3, <1>2
<1>8. sysPc' # 0 /\ Seconds(rtc_answer)' = Seconds(rtc_answer)
  BY <1>2 DEF Seconds
<1> QED
  BY <1>2, <1>4, <1>7, <1>8 DEF SysInv, RtcNotAhead

LEMMA SysStep == SysInv /\ [SysNext]_sysVars => SysInv'
<1> SUFFICES ASSUME SysInv, [SysNext]_sysVars PROVE SysInv'
  OBVIOUS
<1>1. SysTypes /\ ReadSoFar /\ RtcNotAhead /\ Seconds(rtc_answer) <= elapsed
  BY DEF SysInv
<1>2. /\ DayLength \in Nat /\ DayLength > 0 /\ elapsed \in Nat /\ Minutes \in 1 .. 100
      /\ SecondsOf \in 1 .. 100 /\ Minutes * SecondsOf \in Nat /\ Minutes * SecondsOf > 0
  BY <1>1, RtcNumbers DEF SysTypes
<1>3. \A k \in 1 .. 3 : Decoded(k) \in Nat
  <2> SUFFICES ASSUME NEW k \in 1 .. 3 PROVE Decoded(k) \in Nat
    OBVIOUS
  <2>1. sys_t[k] \in Nat
    BY <1>1 DEF SysTypes
  <2> QED
    BY <2>1 DEF Decoded, BCD_TO_DEC
<1>4. CASE RtcTicks
  <2>1. elapsed' = elapsed + 1 /\ elapsed < DayLength - 1
        /\ UNCHANGED <<is_bcd, sysPc, sys_t, rtc_answer, asked_at>>
    BY <1>4 DEF RtcTicks
  <2>2. SysTypes'
    BY <2>1, <1>1, <1>2 DEF SysTypes
  <2>3. \A k \in 1 .. 3 : Decoded(k)' = Decoded(k)
    BY <2>1 DEF Decoded
  <2>4. Seconds(rtc_answer)' = Seconds(rtc_answer) /\ Seconds(rtc_answer) \in Nat
    <3> DEFINE x == rtc_answer[1]
               y == rtc_answer[2]
               z == rtc_answer[3]
    <3>1. x \in Nat /\ y \in Nat /\ z \in Nat
      BY <1>1 DEF SysTypes
    <3>2. Seconds(rtc_answer) = (x * Minutes + y) * SecondsOf + z
      BY DEF Seconds, Minutes, SecondsOf
    <3> HIDE DEF x, y, z
    <3>3. x * Minutes \in Nat
      BY <3>1, <1>2
    <3>4. (x * Minutes + y) * SecondsOf \in Nat
      BY <3>1, <3>3, <1>2
    <3>5. Seconds(rtc_answer)' = Seconds(rtc_answer)
      BY <2>1 DEF Seconds
    <3> QED
      BY <3>1, <3>2, <3>4, <3>5
  <2>5. Seconds(rtc_answer)' <= elapsed' /\ RtcNotAhead'
    BY <2>1, <2>4, <1>1, <1>2 DEF RtcNotAhead
  <2>6. ReadSoFar'
    <3> DEFINE d1 == Minutes * SecondsOf * Decoded(1)
               k == Decoded(1) * Minutes + Decoded(2)
               d2 == SecondsOf * k
    <3>1. d1 \in Nat /\ d2 \in Nat /\ Decoded(3) \in Nat
      <4>1. d1 \in Nat
        BY <1>2, <1>3
      <4>2. Decoded(1) * Minutes \in Nat
        BY <1>2, <1>3
      <4>3. k \in Nat
        BY <4>2, <1>3
      <4> HIDE DEF k
      <4>4. d2 \in Nat
        BY <4>3, <1>2
      <4> QED
        BY <4>1, <4>4, <1>3
    <3>2. /\ sysPc \in 2 .. 4 => d1 <= elapsed /\ asked_at \div (Minutes * SecondsOf) <= Decoded(1)
          /\ sysPc \in 3 .. 4 => d2 <= elapsed
          /\ sysPc = 4 => d2 + Decoded(3) <= elapsed
      BY <1>1 DEF ReadSoFar
    <3>3. d1' = d1 /\ d2' = d2
      BY <2>3
    <3> HIDE DEF d1, d2
    <3>4. /\ sysPc \in 2 .. 4 => d1 <= elapsed'
          /\ sysPc \in 3 .. 4 => d2 <= elapsed'
          /\ sysPc = 4 => d2 + Decoded(3) <= elapsed'
      BY <2>1, <3>1, <3>2, <1>2
    <3> QED
      BY <2>1, <2>3, <3>2, <3>3, <3>4 DEF ReadSoFar, d1, d2
  <2> QED
    BY <2>2, <2>5, <2>6 DEF SysInv
<1>5. CASE task_sys
  <2>1. sysPc = 0 /\ UNCHANGED <<elapsed, is_bcd, sys_t, rtc_answer>>
        /\ \/ sysPc' = 1 /\ asked_at' = elapsed
           \/ UNCHANGED <<sysPc, asked_at>>
    BY <1>5 DEF task_sys
  <2>2. SysTypes' /\ ReadSoFar'
    BY <2>1, <1>1, <1>2 DEF SysTypes, ReadSoFar
  <2>3. Seconds(rtc_answer)' = Seconds(rtc_answer) /\ RtcNotAhead'
    BY <2>1, <1>1 DEF Seconds, RtcNotAhead
  <2> QED
    BY <2>1, <2>2, <2>3, <1>1 DEF SysInv
<1>6. CASE power_off
  <2>1. sysPc' = -1 /\ UNCHANGED <<elapsed, is_bcd, sys_t, rtc_answer, asked_at>>
    BY <1>6 DEF power_off
  <2>2. SysTypes' /\ ReadSoFar' /\ RtcNotAhead'
    BY <2>1, <1>1 DEF SysTypes, ReadSoFar, RtcNotAhead
  <2>3. Seconds(rtc_answer)' = Seconds(rtc_answer)
    BY <2>1 DEF Seconds
  <2> QED
    BY <2>1, <2>2, <2>3, <1>1 DEF SysInv
<1>7. CASE read_register
  BY <1>7, ReadKeeps
<1>8. CASE rtc_converts
  <2>1. /\ sysPc = 4 /\ sysPc' = 0 /\ UNCHANGED <<elapsed, is_bcd, asked_at>>
        /\ rtc_answer' = [i \in 1 .. 3 |-> Decoded(i)] /\ sys_t' = <<0, 0, 0>>
    BY <1>8 DEF rtc_converts, Decoded
  <2>2. rtc_answer' \in [1 .. 3 -> Nat]
    BY <2>1, <1>3
  <2>3. SysTypes' /\ ReadSoFar'
    BY <2>1, <2>2, <1>1 DEF SysTypes, ReadSoFar
  <2>4. Seconds(rtc_answer)' = (Decoded(1) * Minutes + Decoded(2)) * SecondsOf + Decoded(3)
    BY <2>1 DEF Seconds, Minutes, SecondsOf
  <2> DEFINE k == Decoded(1) * Minutes + Decoded(2)
  <2>5. k \in Nat
    <3>1. Decoded(1) * Minutes \in Nat
      BY <1>2, <1>3
    <3> QED
      BY <3>1, <1>3
  <2>6. SecondsOf * k + Decoded(3) <= elapsed /\ asked_at \div (Minutes * SecondsOf) <= Decoded(1)
    BY <2>1, <1>1 DEF ReadSoFar
  <2>7. Seconds(rtc_answer)' = k * SecondsOf + Decoded(3)
    BY <2>4
  <2> HIDE DEF k
  <2>8. k * SecondsOf = SecondsOf * k
    BY <2>5, <1>2
  <2>9. Seconds(rtc_answer)' <= elapsed'
    BY <2>1, <2>6, <2>7, <2>8
  <2>10. rtc_answer'[1] = Decoded(1) /\ asked_at \div (RtcSizes[2] * RtcSizes[3]) <= Decoded(1)
    BY <2>1, <2>6 DEF Minutes, SecondsOf
  <2>11. asked_at \div (RtcSizes[2] * RtcSizes[3]) \in Nat /\ Decoded(1) \in Nat
    <3>1. asked_at \div (Minutes * SecondsOf) \in Nat
      BY <1>1, <1>2, DivFacts DEF SysTypes
    <3> QED
      BY <3>1, <1>3 DEF Minutes, SecondsOf
  <2>12. RtcNotAhead'
    BY <2>1, <2>9, <2>10, <2>11 DEF RtcNotAhead
  <2> QED
    BY <2>3, <2>9, <2>12 DEF SysInv
<1>9. CASE UNCHANGED sysVars
  <2>1. SysTypes' /\ RtcNotAhead' /\ Seconds(rtc_answer)' = Seconds(rtc_answer)
    BY <1>9, <1>1 DEF sysVars, SysTypes, RtcNotAhead, Seconds
  <2>2. ReadSoFar'
    BY <1>9, <1>1 DEF sysVars, ReadSoFar, Decoded
  <2> QED
    BY <1>9, <2>1, <2>2, <1>1 DEF SysInv, sysVars
<1> QED
  BY <1>4, <1>5, <1>6, <1>7, <1>8, <1>9 DEF SysNext

\* However the clock goes on between two registers, BCD or not: the time that
\* SYS tells is never ahead of the clock, and its hour never older than the
\* request (kernel/systask.c:83-117).
THEOREM TimeNotAhead == SysSpec => []RtcNotAhead
<1>1. SysInit => SysInv
  BY SysInitOK
<1>2. SysInv /\ [SysNext]_sysVars => SysInv'
  BY SysStep
<1>3. SysInv => RtcNotAhead
  BY DEF SysInv
<1> QED
  BY <1>1, <1>2, <1>3, PTL DEF SysSpec


(***************************************************************************)
(* The log of task FS: the inductive invariant.  From dump_freeze to the   *)
(* end of dump_thaw the others are stopped; the text grows where log_pos   *)
(* says, never beyond what the dumps so far make.                          *)
(***************************************************************************)
DiskLogSpec == DiskLogInit /\ [][DiskLogNext]_diskLogVars

Before == {"unlink", "freeze"}
Drawing == {"procs", "tables", "maps", "array", "arrows"}
Writing == {"pieces", "smap", "pad", "text", "head", "last"}
LogTypes ==
  /\ p_flags \in [LogProc -> {"runs", "waits", "free"}]
  /\ priority \in [LogProc -> {0, 1, Junk}] /\ prio \in [LogProc -> {0, 1, Junk}]
  /\ newborn \subseteq {SPARE} /\ \A p \in LogProc \ {SPARE} : p_flags[p] # "free"
  /\ fsPc \in {"idle", "thaw", "asserted"} \cup Before \cup Drawing \cup Writing
  /\ thawing \in LogProc /\ dumps \in 0 .. MaxDumps /\ boots \in Nat \ {0}
  /\ bytes_left \in Nat /\ chunk \in Nat /\ log_pos \in Nat /\ sect_nr \in Nat /\ said \in Nat
  /\ header \in Nat /\ smapBits \in BOOLEAN /\ logged \in [Area -> Nat]
Stopped == \A p \in Held \ newborn : priority[p] = 0 /\ prio[p] = 1
GraphOK ==
  /\ graph = {} \/ \E t \in graph : graph = {t}
  /\ fsPc \in Before => graph = {}
  /\ fsPc \in Drawing \cup Writing => graph \subseteq {tables} /\ Stopped
PrioOK ==
  /\ fsPc \in {"idle"} \cup Before => \A p \in LogProc \ newborn : p_flags[p] # "free" => priority[p] = 1
  /\ fsPc \in Drawing \cup Writing \cup {"thaw"} => \A p \in Exempt : priority[p] = 1
  /\ fsPc = "thaw" => \A p \in Held \ newborn : prio[p] = 1 /\ priority[p] = IF p < thawing THEN 1 ELSE 0
TextOK ==
  /\ IF log_pos = 0 THEN said = 0 ELSE log_pos = LOG_HEADER + said
  /\ \A k \in 1 .. said : logged[LOG_HEADER + k - 1] = k
  /\ said > 0 /\ fsPc \notin {"text", "head"} => header = LOG_HEADER + said
  /\ fsPc = "text" => log_pos # 0 /\ sect_nr = log_pos \div LOG_SECTOR_SIZE
  /\ fsPc \in {"smap", "pad"} => log_pos = 0
\* the bytes still to come of the dump that is on
Coming == IF fsPc \in Before \cup Drawing THEN DumpBytes
          ELSE IF fsPc \in Writing THEN chunk + bytes_left ELSE 0
RoomOK ==
  /\ said + Coming <= dumps * DumpBytes
  /\ fsPc \notin {"smap", "pad", "text", "asserted"} => chunk = 0
OnceOK ==
  /\ smapBits /\ boots = 1 => log_pos # 0 \/ fsPc = "pad"
  /\ AssertedAfterReboot
LogInv == LogTypes /\ GraphOK /\ PrioOK /\ TextOK /\ RoomOK /\ OnceOK

LEMMA LogSizes ==
  /\ LOG_SECTOR_SIZE \in Nat /\ LOG_SECTOR_SIZE > 0 /\ NR_SECTS_FOR_LOG \in Nat
  /\ NR_SECTS_FOR_LOG > 0 /\ LOG_HEADER \in Nat /\ LOG_HEADER > 0
  /\ DumpBytes \in Nat /\ DumpBytes > 0 /\ TMP_BYTES \in Nat /\ TMP_BYTES > 0
  /\ MaxDumps \in Nat /\ HD \in LogProc /\ SPARE \in LogProc /\ FS \in LogProc
  /\ MM \in LogProc \ Exempt /\ USER \in LogProc \ Exempt /\ HD # SPARE /\ FS # SPARE
  /\ MM # SPARE /\ USER # SPARE /\ Exempt \subseteq LogProc
BY DiskLogAssumption DEF DiskLogAssumption, HD, FS, MM, USER, SPARE, LogProc, Exempt

LEMMA BootFlags ==
  /\ FlagsAtBoot \in [LogProc -> {"runs", "waits", "free"}]
  /\ \A p \in LogProc \ {SPARE} : FlagsAtBoot[p] # "free"
<1>1. \A p \in LogProc : FlagsAtBoot[p] = IF p = SPARE THEN "free"
                                          ELSE IF p \in {HD, USER} THEN "waits" ELSE "runs"
  BY LogSizes DEF FlagsAtBoot
<1>2. FlagsAtBoot = [p \in LogProc |-> FlagsAtBoot[p]]
  BY DEF FlagsAtBoot
<1> QED
  BY <1>1, <1>2

LEMMA MinFacts ==
  ASSUME NEW a \in Nat, NEW b \in Nat
  PROVE  Min({a, b}) \in Nat /\ Min({a, b}) <= a /\ Min({a, b}) <= b
         /\ (Min({a, b}) = a \/ Min({a, b}) = b)
<1>1. \E x \in {a, b} : \A y \in {a, b} : x <= y
  <2>1. a <= b \/ b <= a
    OBVIOUS
  <2> QED
    BY <2>1
<1>2. Min({a, b}) \in {a, b} /\ \A y \in {a, b} : Min({a, b}) <= y
  BY <1>1 DEF Min
<1> QED
  BY <1>2

LEMMA MulDiv ==
  ASSUME NEW n \in Nat, n > 0, NEW k \in Nat
  PROVE  (n * k) \div n = k
<1> DEFINE a == n * k
           q == a \div n
<1>1. a \in Nat
  OBVIOUS
<1>2. q \in Nat /\ n * q \in Nat /\ n * q <= a /\ k <= q
  <2> DEFINE r == a % n
  <2> HIDE DEF a
  <2>1. q \in Nat /\ n * q \in Nat /\ a = n * q + r /\ r \in 0 .. n - 1
        /\ \A j \in Nat : n * j <= a => j <= q
    BY <1>1, DivFacts
  <2> HIDE DEF q, r
  <2>2. n * q <= a
    BY <2>1, <1>1
  <2>3. n * k <= a
    BY <1>1 DEF a
  <2> QED
    BY <2>1, <2>2, <2>3
<1> HIDE DEF q
<1>3. ~ (k < q)
  <2> SUFFICES ASSUME k < q PROVE FALSE
    OBVIOUS
  <2>1. PICK e \in Nat : q = k + 1 + e
    <3> DEFINE g == q - k - 1
    <3>1. g \in Nat /\ q = k + 1 + g
      BY <1>2
    <3> QED
      BY <3>1
  <2>2. n * q = n * k + n + n * e /\ n * e \in Nat
    BY <2>1
  <2> QED
    BY <2>2, <1>1, <1>2
<1> QED
  BY <1>2, <1>3 DEF q

LEMMA LogInitOK == DiskLogInit => LogInv
<1> SUFFICES ASSUME DiskLogInit PROVE LogInv
  OBVIOUS
<1> USE LogSizes DEF DiskLogInit
<1>1. LogTypes
  <2>1. /\ p_flags \in [LogProc -> {"runs", "waits", "free"}]
        /\ \A p \in LogProc \ {SPARE} : p_flags[p] # "free"
    BY BootFlags
  <2>2. priority \in [LogProc -> {0, 1, Junk}] /\ prio \in [LogProc -> {0, 1, Junk}]
    OBVIOUS
  <2>3. logged \in [Area -> Nat] /\ dumps \in 0 .. MaxDumps
    OBVIOUS
  <2>4. fsPc \in {"idle", "thaw", "asserted"} \cup Before \cup Drawing \cup Writing
    OBVIOUS
  <2>5. boots \in Nat \ {0}
    OBVIOUS
  <2>6. smapBits \in BOOLEAN
    OBVIOUS
  <2> QED
    BY <2>1, <2>2, <2>3, <2>4, <2>5, <2>6 DEF LogTypes
<1>2. GraphOK /\ PrioOK
  BY DEF GraphOK, PrioOK, Before, Drawing, Writing
<1>3. TextOK /\ OnceOK
  BY DEF TextOK, OnceOK, AssertedAfterReboot
<1>4. RoomOK
  BY DEF RoomOK, Coming, Before, Drawing, Writing
<1> QED
  BY <1>1, <1>2, <1>3, <1>4 DEF LogInv

\* There is room for what is still to come, short of the last sector.
LEMMA RoomFacts ==
  ASSUME LogInv
  PROVE  /\ Coming \in Nat
         /\ LOG_HEADER + said + Coming <= (NR_SECTS_FOR_LOG - 1) * LOG_SECTOR_SIZE
         /\ (NR_SECTS_FOR_LOG - 1) * LOG_SECTOR_SIZE \in Nat
         /\ \A i \in Nat : i < (NR_SECTS_FOR_LOG - 1) * LOG_SECTOR_SIZE => i \in Area
         /\ Area = 0 .. (NR_SECTS_FOR_LOG - 1) * LOG_SECTOR_SIZE + LOG_SECTOR_SIZE - 1
<1> USE LogSizes
<1>1. dumps \in 0 .. MaxDumps /\ said \in Nat /\ said + Coming <= dumps * DumpBytes /\ Coming \in Nat
  BY DEF LogInv, LogTypes, RoomOK, Coming
<1>2. PICK e \in Nat : MaxDumps = dumps + e
  <2> DEFINE g == MaxDumps - dumps
  <2>1. g \in Nat /\ MaxDumps = dumps + g
    BY <1>1
  <2> QED
    BY <2>1
<1>3. MaxDumps * DumpBytes = dumps * DumpBytes + e * DumpBytes /\ e * DumpBytes \in Nat
      /\ dumps * DumpBytes \in Nat
  BY <1>1, <1>2
<1>4. PICK n \in Nat : NR_SECTS_FOR_LOG = n + 1
  <2> DEFINE g == NR_SECTS_FOR_LOG - 1
  <2>1. g \in Nat /\ NR_SECTS_FOR_LOG = g + 1
    OBVIOUS
  <2> QED
    BY <2>1
<1>5. (n + 1) * LOG_SECTOR_SIZE = n * LOG_SECTOR_SIZE + LOG_SECTOR_SIZE
      /\ n * LOG_SECTOR_SIZE \in Nat /\ (n + 1) - 1 = n
  OBVIOUS
<1>6. LOG_HEADER + MaxDumps * DumpBytes <= n * LOG_SECTOR_SIZE
  BY <1>4, <1>5, DiskLogAssumption DEF DiskLogAssumption
<1>7. LOG_HEADER + said + Coming <= n * LOG_SECTOR_SIZE
  BY <1>1, <1>3, <1>5, <1>6
<1>8. (NR_SECTS_FOR_LOG - 1) * LOG_SECTOR_SIZE = n * LOG_SECTOR_SIZE
      /\ NR_SECTS_FOR_LOG * LOG_SECTOR_SIZE = n * LOG_SECTOR_SIZE + LOG_SECTOR_SIZE
  BY <1>4, <1>5
<1>9. Area = 0 .. (NR_SECTS_FOR_LOG - 1) * LOG_SECTOR_SIZE + LOG_SECTOR_SIZE - 1
  BY <1>8 DEF Area
<1>10. ASSUME NEW i \in Nat, i < n * LOG_SECTOR_SIZE PROVE i \in 0 .. n * LOG_SECTOR_SIZE + LOG_SECTOR_SIZE - 1
  BY <1>5, <1>10
<1> QED
  BY <1>1, <1>5, <1>7, <1>8, <1>9, <1>10

\* A turn of disklog()'s loop writes the next bytes of the text, and no others.
LEMMA TextWritten ==
  ASSUME LogInv, log_text
  PROVE  \E bytes \in 0 .. chunk :
           /\ log_pos # 0 /\ log_pos = LOG_HEADER + said
           /\ \A i \in Area : logged'[i] = IF i \in log_pos .. log_pos + bytes - 1
                                           THEN said + i - log_pos + 1 ELSE logged[i]
           /\ \A i \in log_pos .. log_pos + bytes - 1 : i \in Area
           /\ logged' \in [Area -> Nat]
           /\ log_pos' = log_pos + bytes /\ said' = said + bytes /\ chunk' = chunk - bytes
           /\ sect_nr' \in Nat
           /\ IF chunk' = 0 THEN fsPc' = "head"
              ELSE fsPc' = "text" /\ sect_nr' = log_pos' \div LOG_SECTOR_SIZE
           /\ fsPc = "text" /\ priority[FS] > 0
           /\ UNCHANGED <<p_flags, priority, prio, tables, newborn, boots, dumps, graph, thawing,
                          bytes_left, smapBits, header>>
<1> USE LogSizes
<1> DEFINE s == LOG_SECTOR_SIZE
           off == log_pos % s
           bytes == Min({chunk, Room(off)})
           at == sect_nr * s + off
<1>1. /\ log_pos \in Nat /\ chunk \in Nat /\ said \in Nat /\ sect_nr \in Nat /\ bytes_left \in Nat
      /\ logged \in [Area -> Nat] /\ fsPc = "text"
      /\ log_pos # 0 /\ log_pos = LOG_HEADER + said /\ sect_nr = log_pos \div s
      /\ priority[FS] > 0
  BY DEF LogInv, LogTypes, TextOK, log_text, Served, AtFs, Choosable
<1>2. /\ logged' = [i \in Area |-> IF i \in at .. (at + bytes - 1) /\ i < (sect_nr + 1) * s
                                   THEN said + i - at + 1 ELSE logged[i]]
      /\ log_pos' = log_pos + bytes /\ said' = said + bytes
      /\ chunk' = chunk - bytes /\ sect_nr' = sect_nr + 1
      /\ fsPc' = IF chunk' = 0 THEN "head" ELSE "text"
      /\ UNCHANGED <<p_flags, priority, prio, tables, newborn, boots, dumps, graph, thawing,
                     bytes_left, smapBits, header>>
  BY DEF log_text, Goto, procVars, world
<1>3. off \in 0 .. s - 1 /\ s * sect_nr \in Nat /\ log_pos = s * sect_nr + off
  <2> DEFINE q == log_pos \div s
  <2>1. off \in 0 .. s - 1 /\ s * q \in Nat /\ log_pos = s * q + off
    BY <1>1, DivFacts
  <2>2. q = sect_nr
    BY <1>1
  <2> HIDE DEF q, off
  <2> QED
    BY <2>1, <2>2
<1> HIDE DEF off
<1>4. at = log_pos
  <2>1. sect_nr * s = s * sect_nr
    BY <1>1
  <2> QED
    BY <2>1, <1>1, <1>3
<1>5. bytes \in Nat /\ bytes <= chunk /\ bytes <= s - off /\ (bytes = chunk \/ bytes = s - off)
  <2>1. Room(off) = s - off /\ s - off \in Nat
    BY <1>3 DEF Room
  <2> DEFINE r == s - off
  <2>2. bytes = Min({chunk, r})
    BY <2>1
  <2> HIDE DEF r, bytes
  <2>3. r \in Nat
    BY <2>1 DEF r
  <2> QED
    BY <2>2, <2>3, <1>1, MinFacts DEF r
<1> HIDE DEF bytes, at
<1>6. (sect_nr + 1) * s = s * sect_nr + s /\ (sect_nr + 1) * s = s * (sect_nr + 1)
  BY <1>1
<1>7. \A i \in log_pos .. log_pos + bytes - 1 : i < (sect_nr + 1) * s
  BY <1>1, <1>3, <1>5, <1>6
<1>8. \A i \in Area : logged'[i] = IF i \in log_pos .. log_pos + bytes - 1
                                   THEN said + i - log_pos + 1 ELSE logged[i]
  BY <1>2, <1>4, <1>7
<1>9. \A i \in log_pos .. log_pos + bytes - 1 : i \in Area
  <2>1. Coming = chunk + bytes_left
    BY <1>1 DEF Coming, Before, Drawing, Writing
  <2>2. log_pos + bytes <= (NR_SECTS_FOR_LOG - 1) * LOG_SECTOR_SIZE
    BY <2>1, <1>1, <1>5, RoomFacts
  <2>3. \A i \in log_pos .. log_pos + bytes - 1 :
          i \in Nat /\ i < (NR_SECTS_FOR_LOG - 1) * LOG_SECTOR_SIZE
    <3> DEFINE n == (NR_SECTS_FOR_LOG - 1) * LOG_SECTOR_SIZE
    <3>1. n \in Nat /\ log_pos + bytes <= n
      BY <2>2, RoomFacts
    <3> HIDE DEF n
    <3>2. \A i \in log_pos .. log_pos + bytes - 1 : i \in Nat /\ i < n
      BY <3>1, <1>1, <1>5
    <3> QED
      BY <3>2 DEF n
  <2> QED
    BY <2>3, RoomFacts
<1>10. logged' \in [Area -> Nat]
  <2>1. \A i \in Area : i \in Int
    BY RoomFacts
  <2>2. ASSUME NEW i \in Area PROVE logged'[i] \in Nat
    <3>1. CASE i \in log_pos .. log_pos + bytes - 1
      BY <3>1, <2>1, <1>1, <1>8
    <3>2. CASE ~ (i \in log_pos .. log_pos + bytes - 1)
      BY <3>2, <1>1, <1>8
    <3> QED
      BY <3>1, <3>2
  <2>3. logged' = [i \in Area |-> logged'[i]]
    BY <1>2
  <2> QED
    BY <2>2, <2>3
<1>11. chunk' # 0 => sect_nr' = log_pos' \div LOG_SECTOR_SIZE
  <2> SUFFICES ASSUME chunk' # 0 PROVE sect_nr' = log_pos' \div LOG_SECTOR_SIZE
    OBVIOUS
  <2>1. bytes = s - off
    BY <1>1, <1>2, <1>5
  <2>2. log_pos' = s * (sect_nr + 1)
    BY <2>1, <1>2, <1>3, <1>6, <1>1
  <2>3. (s * (sect_nr + 1)) \div s = sect_nr + 1
    BY <1>1, MulDiv
  <2> QED
    BY <2>2, <2>3, <1>2
<1> QED
  BY <1>1, <1>2, <1>5, <1>8, <1>9, <1>10, <1>11

\* One step, conjunct by conjunct.
LEMMA LogTypesKeep ==
  ASSUME LogInv, [DiskLogNext]_diskLogVars
  PROVE  LogTypes'
<1> USE LogSizes DEF LogInv, LogTypes, Before, Drawing, Writing, Junk, AtFs, Goto, Served, Part
<1>1. CASE unlink_received
  BY <1>1 DEF unlink_received, procVars, world, textVars, diskVars
<1>2. CASE unlink_returns
  BY <1>2 DEF unlink_returns, procVars, world, textVars, diskVars
<1>3. CASE dump_freeze
  <2>1. prio' = [p \in LogProc |-> IF p \in Held THEN priority[p] ELSE prio[p]]
        /\ priority' = [p \in LogProc |-> IF p \in Held THEN 0 ELSE priority[p]]
    BY <1>3 DEF dump_freeze, Frozen
  <2>2. prio' \in [LogProc -> {0, 1, Junk}] /\ priority' \in [LogProc -> {0, 1, Junk}]
    BY <2>1
  <2> QED
    BY <2>2, <1>3 DEF dump_freeze, world, textVars, diskVars
<1>4. CASE dump_procs
  BY <1>4 DEF dump_procs, procVars, world, textVars, diskVars
<1>5. CASE dump_fds_inodes
  BY <1>5 DEF dump_fds_inodes, procVars, world, textVars, diskVars
<1>6. CASE dump_maps
  BY <1>6 DEF dump_maps, procVars, world, textVars, diskVars
<1>7. CASE dump_array_dir
  BY <1>7 DEF dump_array_dir, procVars, world, textVars, diskVars
<1>8. CASE dump_arrows
  BY <1>8 DEF dump_arrows, procVars, world, textVars, diskVars
<1>9. CASE dump_pieces
  <2>1. CASE bytes_left = 0
    BY <1>9, <2>1 DEF dump_pieces, procVars, world, textVars, diskVars
  <2>2. CASE bytes_left # 0
    <3>1. Min({bytes_left, TMP_BYTES}) \in Nat /\ Min({bytes_left, TMP_BYTES}) <= bytes_left
      BY MinFacts
    <3>2. log_pos \div LOG_SECTOR_SIZE \in Nat
      BY DivFacts
    <3> QED
      BY <1>9, <2>2, <3>1, <3>2 DEF dump_pieces, procVars, world, diskVars
  <2> QED
    BY <2>1, <2>2
<1>10. CASE log_smap
  BY <1>10 DEF log_smap, procVars, world, textVars, diskVars
<1>11. CASE log_pad
  <2>1. LOG_HEADER \div LOG_SECTOR_SIZE \in Nat
    BY DivFacts
  <2> QED
    BY <2>1, <1>11 DEF log_pad, procVars, world
<1>12. CASE log_text
  BY <1>12, TextWritten
<1>13. CASE log_header
  BY <1>13 DEF log_header, procVars, world, textVars, diskVars
<1>14. CASE log_last
  <2>1. logged' \in [Area -> Nat]
    BY <1>14 DEF log_last
  <2> QED
    BY <2>1, <1>14 DEF log_last, procVars, world, textVars
<1>15. CASE dump_thaw
  <2>1. priority' \in [LogProc -> {0, 1, Junk}]
    BY <1>15 DEF dump_thaw
  <2>2. thawing' \in LogProc
    BY <1>15 DEF dump_thaw, LogProc, HD, SPARE
  <2>3. fsPc' \in {"thaw", "idle"}
    BY <1>15 DEF dump_thaw
  <2> QED
    BY <2>1, <2>2, <2>3, <1>15 DEF dump_thaw, world, textVars, diskVars
<1>16. CASE HdAsked
  BY <1>16 DEF HdAsked, procVars, world, textVars, diskVars
<1>17. CASE HdWaits
  BY <1>17 DEF HdWaits, procVars, world, textVars, diskVars
<1>18. CASE DiskInterrupts
  BY <1>18 DEF DiskInterrupts, procVars, world, textVars, diskVars
<1>19. CASE MmWorks
  BY <1>19 DEF MmWorks, procVars, world, textVars, diskVars, Choosable
<1>20. CASE MmForks
  BY <1>20 DEF MmForks, procVars, world, textVars, diskVars, Choosable
<1>21. CASE reboot
  BY <1>21, BootFlags DEF reboot, procVars, world, textVars, diskVars
<1>22. CASE UNCHANGED diskLogVars
  BY <1>22 DEF procVars, world, textVars, diskVars, diskLogVars
<1> QED
  BY <1>1, <1>2, <1>3, <1>4, <1>5, <1>6, <1>7, <1>8, <1>9, <1>10, <1>11, <1>12, <1>13, <1>14, <1>15, <1>16, <1>17, <1>18, <1>19, <1>20, <1>21, <1>22 DEF DiskLogNext, FsLogs

LEMMA GraphKeeps ==
  ASSUME LogInv, [DiskLogNext]_diskLogVars
  PROVE  GraphOK'
<1> USE LogSizes DEF LogInv, LogTypes, GraphOK, PrioOK, Stopped, Held, Exempt, Before, Drawing, Writing, AtFs, Goto, Served, Part
<1>1. CASE unlink_received
  BY <1>1 DEF unlink_received, procVars, world, textVars, diskVars
<1>2. CASE unlink_returns
  BY <1>2 DEF unlink_returns, procVars, world, textVars, diskVars
<1>3. CASE dump_freeze
  BY <1>3 DEF dump_freeze, procVars, world, textVars, diskVars, Frozen
<1>4. CASE dump_procs
  BY <1>4 DEF dump_procs, procVars, world, textVars, diskVars
<1>5. CASE dump_fds_inodes
  BY <1>5 DEF dump_fds_inodes, procVars, world, textVars, diskVars
<1>6. CASE dump_maps
  BY <1>6 DEF dump_maps, procVars, world, textVars, diskVars
<1>7. CASE dump_array_dir
  BY <1>7 DEF dump_array_dir, procVars, world, textVars, diskVars
<1>8. CASE dump_arrows
  BY <1>8 DEF dump_arrows, procVars, world, textVars, diskVars
<1>9. CASE dump_pieces
  BY <1>9 DEF dump_pieces, procVars, world, textVars, diskVars, FirstTime
<1>10. CASE log_smap
  BY <1>10 DEF log_smap, procVars, world, textVars, diskVars
<1>11. CASE log_pad
  BY <1>11 DEF log_pad, procVars, world, textVars, diskVars
<1>12. CASE log_text
  BY <1>12, TextWritten
<1>13. CASE log_header
  BY <1>13 DEF log_header, procVars, world, textVars, diskVars
<1>14. CASE log_last
  BY <1>14 DEF log_last, procVars, world, textVars, diskVars
<1>15. CASE dump_thaw
  BY <1>15 DEF dump_thaw, procVars, world, textVars, diskVars, Thaws
<1>16. CASE HdAsked
  BY <1>16 DEF HdAsked, procVars, world, textVars, diskVars
<1>17. CASE HdWaits
  BY <1>17 DEF HdWaits, procVars, world, textVars, diskVars
<1>18. CASE DiskInterrupts
  BY <1>18 DEF DiskInterrupts, procVars, world, textVars, diskVars
<1>19. CASE MmWorks
  BY <1>19 DEF MmWorks, procVars, world, textVars, diskVars, Choosable
<1>20. CASE MmForks
  BY <1>20 DEF MmForks, procVars, world, textVars, diskVars, Choosable
<1>21. CASE reboot
  BY <1>21, BootFlags DEF reboot, procVars, world, textVars, diskVars
<1>22. CASE UNCHANGED diskLogVars
  BY <1>22 DEF procVars, world, textVars, diskVars, diskLogVars
<1> QED
  BY <1>1, <1>2, <1>3, <1>4, <1>5, <1>6, <1>7, <1>8, <1>9, <1>10, <1>11, <1>12, <1>13, <1>14, <1>15, <1>16, <1>17, <1>18, <1>19, <1>20, <1>21, <1>22 DEF DiskLogNext, FsLogs

LEMMA PrioKeeps ==
  ASSUME LogInv, [DiskLogNext]_diskLogVars
  PROVE  PrioOK'
<1> USE LogSizes DEF LogInv, LogTypes, GraphOK, PrioOK, Stopped, Held, Exempt, Before, Drawing, Writing, AtFs, Goto, Served, Part
<1>1. CASE unlink_received
  BY <1>1 DEF unlink_received, procVars, world, textVars, diskVars
<1>2. CASE unlink_returns
  BY <1>2 DEF unlink_returns, procVars, world, textVars, diskVars
<1>3. CASE dump_freeze
  BY <1>3 DEF dump_freeze, procVars, world, textVars, diskVars, Frozen
<1>4. CASE dump_procs
  BY <1>4 DEF dump_procs, procVars, world, textVars, diskVars
<1>5. CASE dump_fds_inodes
  BY <1>5 DEF dump_fds_inodes, procVars, world, textVars, diskVars
<1>6. CASE dump_maps
  BY <1>6 DEF dump_maps, procVars, world, textVars, diskVars
<1>7. CASE dump_array_dir
  BY <1>7 DEF dump_array_dir, procVars, world, textVars, diskVars
<1>8. CASE dump_arrows
  BY <1>8 DEF dump_arrows, procVars, world, textVars, diskVars
<1>9. CASE dump_pieces
  <2>1. CASE bytes_left = 0
    <3>1. \A p \in LogProc : ~ (p < HD)
      BY DEF LogProc, HD
    <3> QED
      BY <1>9, <2>1, <3>1 DEF dump_pieces, procVars, world, textVars, diskVars
  <2>2. CASE bytes_left # 0
    BY <1>9, <2>2 DEF dump_pieces, procVars, world, diskVars
  <2> QED
    BY <2>1, <2>2
<1>10. CASE log_smap
  BY <1>10 DEF log_smap, procVars, world, textVars, diskVars
<1>11. CASE log_pad
  BY <1>11 DEF log_pad, procVars, world, textVars, diskVars
<1>12. CASE log_text
  BY <1>12, TextWritten
<1>13. CASE log_header
  BY <1>13 DEF log_header, procVars, world, textVars, diskVars
<1>14. CASE log_last
  BY <1>14 DEF log_last, procVars, world, textVars, diskVars
<1>15. CASE dump_thaw
  <2>1. \A p \in (Held \ newborn)' : prio'[p] = 1
    BY <1>15 DEF dump_thaw, world
  <2>2. fsPc = "thaw" /\ \A p \in Exempt : priority'[p] = 1
    BY <1>15 DEF dump_thaw, Thaws
  <2>3. \A p \in Held \ newborn : priority'[p] = IF p < thawing \/ p = thawing THEN 1 ELSE 0
    BY <1>15 DEF dump_thaw, Thaws
  <2>4. LogProc \subseteq Int /\ \A p \in LogProc : p <= SPARE
    BY DEF LogProc, HD, SPARE
  <2>5. CASE thawing = SPARE
    <3>1. \A p \in Held \ newborn : priority'[p] = 1
      BY <2>3, <2>4, <2>5
    <3>2. \A p \in LogProc \ newborn : p_flags'[p] # "free" => priority'[p] = 1
      BY <3>1, <2>2, <1>15 DEF dump_thaw, world
    <3> QED
      BY <3>2, <2>5, <1>15 DEF dump_thaw, world
  <2>6. CASE thawing # SPARE
    <3>1. thawing' = thawing + 1 /\ fsPc' = "thaw" /\ Held' = Held /\ newborn' = newborn
      BY <2>6, <1>15 DEF dump_thaw, world
    <3>2. \A p \in Held \ newborn : priority'[p] = IF p < thawing' THEN 1 ELSE 0
      BY <2>3, <2>4, <3>1
    <3> QED
      BY <2>1, <2>2, <3>1, <3>2
  <2> QED
    BY <2>5, <2>6
<1>16. CASE HdAsked
  BY <1>16 DEF HdAsked, procVars, world, textVars, diskVars
<1>17. CASE HdWaits
  BY <1>17 DEF HdWaits, procVars, world, textVars, diskVars
<1>18. CASE DiskInterrupts
  BY <1>18 DEF DiskInterrupts, procVars, world, textVars, diskVars
<1>19. CASE MmWorks
  BY <1>19 DEF MmWorks, procVars, world, textVars, diskVars, Choosable
<1>20. CASE MmForks
  BY <1>20 DEF MmForks, procVars, world, textVars, diskVars, Choosable
<1>21. CASE reboot
  BY <1>21, BootFlags DEF reboot, procVars, world, textVars, diskVars
<1>22. CASE UNCHANGED diskLogVars
  BY <1>22 DEF procVars, world, textVars, diskVars, diskLogVars
<1> QED
  BY <1>1, <1>2, <1>3, <1>4, <1>5, <1>6, <1>7, <1>8, <1>9, <1>10, <1>11, <1>12, <1>13, <1>14, <1>15, <1>16, <1>17, <1>18, <1>19, <1>20, <1>21, <1>22 DEF DiskLogNext, FsLogs

LEMMA TextKeeps ==
  ASSUME LogInv, [DiskLogNext]_diskLogVars
  PROVE  TextOK'
<1> USE LogSizes DEF LogInv, LogTypes, TextOK, AtFs, Goto, Served, Part
<1>1. CASE unlink_received
  BY <1>1 DEF unlink_received, procVars, world, textVars, diskVars
<1>2. CASE unlink_returns
  BY <1>2 DEF unlink_returns, procVars, world, textVars, diskVars
<1>3. CASE dump_freeze
  BY <1>3 DEF dump_freeze, procVars, world, textVars, diskVars, Frozen
<1>4. CASE dump_procs
  BY <1>4 DEF dump_procs, procVars, world, textVars, diskVars
<1>5. CASE dump_fds_inodes
  BY <1>5 DEF dump_fds_inodes, procVars, world, textVars, diskVars
<1>6. CASE dump_maps
  BY <1>6 DEF dump_maps, procVars, world, textVars, diskVars
<1>7. CASE dump_array_dir
  BY <1>7 DEF dump_array_dir, procVars, world, textVars, diskVars
<1>8. CASE dump_arrows
  BY <1>8 DEF dump_arrows, procVars, world, textVars, diskVars
<1>9. CASE dump_pieces
  BY <1>9 DEF dump_pieces, procVars, world, textVars, diskVars, FirstTime
<1>10. CASE log_smap
  BY <1>10 DEF log_smap, procVars, world, textVars, diskVars
<1>11. CASE log_pad
  BY <1>11 DEF log_pad, procVars, world, textVars, diskVars
<1>12. CASE log_text
  <2>1. PICK bytes \in 0 .. chunk :
           /\ log_pos # 0 /\ log_pos = LOG_HEADER + said
           /\ \A i \in Area : logged'[i] = IF i \in log_pos .. log_pos + bytes - 1
                                           THEN said + i - log_pos + 1 ELSE logged[i]
           /\ \A i \in log_pos .. log_pos + bytes - 1 : i \in Area
           /\ log_pos' = log_pos + bytes /\ said' = said + bytes
           /\ IF chunk' = 0 THEN fsPc' = "head"
              ELSE fsPc' = "text" /\ sect_nr' = log_pos' \div LOG_SECTOR_SIZE
    BY <1>12, TextWritten
  <2>2. ASSUME NEW k \in 1 .. said' PROVE logged'[LOG_HEADER + k - 1] = k
    <3> DEFINE i == LOG_HEADER + k - 1
    <3>1. CASE k <= said
      <4> DEFINE n == (NR_SECTS_FOR_LOG - 1) * LOG_SECTOR_SIZE
      <4>1. logged[i] = k /\ i \in Nat /\ i < LOG_HEADER + said
        BY <3>1, <2>1
      <4>2. n \in Nat /\ LOG_HEADER + said + Coming <= n /\ Coming \in Nat
        BY RoomFacts
      <4> HIDE DEF n, i
      <4>3. i < n
        BY <4>1, <4>2
      <4>4. i \in Area /\ i < log_pos
        BY <4>1, <4>3, <2>1, RoomFacts DEF n
      <4>5. logged'[i] = logged[i]
        BY <4>4, <2>1
      <4> QED
        BY <4>1, <4>5 DEF i
    <3>2. CASE ~ (k <= said)
      <4>1. i \in log_pos .. log_pos + bytes - 1 /\ said + i - log_pos + 1 = k
        BY <3>2, <2>1
      <4> HIDE DEF i
      <4> QED
        BY <4>1, <2>1 DEF i
    <3> QED
      BY <3>1, <3>2
  <2> QED
    BY <2>1, <2>2
<1>13. CASE log_header
  BY <1>13 DEF log_header, procVars, world, textVars, diskVars
<1>14. CASE log_last
  <2>1. /\ UNCHANGED <<said, log_pos, header, sect_nr>> /\ fsPc = "last" /\ fsPc' = "pieces"
        /\ \A i \in Area : i \div LOG_SECTOR_SIZE # NR_SECTS_FOR_LOG - 1 => logged'[i] = logged[i]
    BY <1>14 DEF log_last, textVars
  <2>2. ASSUME NEW k \in 1 .. said PROVE logged'[LOG_HEADER + k - 1] = logged[LOG_HEADER + k - 1]
    <3> DEFINE i == LOG_HEADER + k - 1
               n == NR_SECTS_FOR_LOG - 1
    <3>1. i \in Nat /\ i \in Area /\ i < n * LOG_SECTOR_SIZE
      BY RoomFacts
    <3>2. i \div LOG_SECTOR_SIZE # n
      <4> SUFFICES ASSUME i \div LOG_SECTOR_SIZE = n PROVE FALSE
        OBVIOUS
      <4> HIDE DEF i
      <4> DEFINE q == i \div LOG_SECTOR_SIZE
                 r == i % LOG_SECTOR_SIZE
      <4>1. LOG_SECTOR_SIZE * q \in Nat /\ i = LOG_SECTOR_SIZE * q + r /\ r \in Nat
        BY <3>1, DivFacts
      <4>2. LOG_SECTOR_SIZE * q = n * LOG_SECTOR_SIZE
        OBVIOUS
      <4> HIDE DEF q, r, n
      <4> QED
        BY <3>1, <4>1, <4>2
    <3> QED
      BY <2>1, <3>1, <3>2
  <2> QED
    BY <2>1, <2>2
<1>15. CASE dump_thaw
  BY <1>15 DEF dump_thaw, procVars, world, textVars, diskVars, Thaws
<1>16. CASE HdAsked
  BY <1>16 DEF HdAsked, procVars, world, textVars, diskVars
<1>17. CASE HdWaits
  BY <1>17 DEF HdWaits, procVars, world, textVars, diskVars
<1>18. CASE DiskInterrupts
  BY <1>18 DEF DiskInterrupts, procVars, world, textVars, diskVars
<1>19. CASE MmWorks
  BY <1>19 DEF MmWorks, procVars, world, textVars, diskVars, Choosable
<1>20. CASE MmForks
  BY <1>20 DEF MmForks, procVars, world, textVars, diskVars, Choosable
<1>21. CASE reboot
  BY <1>21, BootFlags DEF reboot, procVars, world, textVars, diskVars
<1>22. CASE UNCHANGED diskLogVars
  BY <1>22 DEF procVars, world, textVars, diskVars, diskLogVars
<1> QED
  BY <1>1, <1>2, <1>3, <1>4, <1>5, <1>6, <1>7, <1>8, <1>9, <1>10, <1>11, <1>12, <1>13, <1>14, <1>15, <1>16, <1>17, <1>18, <1>19, <1>20, <1>21, <1>22 DEF DiskLogNext, FsLogs

LEMMA RoomKeeps ==
  ASSUME LogInv, [DiskLogNext]_diskLogVars
  PROVE  RoomOK'
<1> USE LogSizes DEF LogInv, LogTypes, RoomOK, Coming, Before, Drawing, Writing, AtFs, Goto, Served, Part
<1>1. CASE unlink_received
  <2>1. dumps' = dumps + 1 /\ fsPc = "idle" /\ fsPc' = "unlink" /\ said' = said /\ chunk' = chunk
    BY <1>1 DEF unlink_received, textVars
  <2>2. (dumps + 1) * DumpBytes = dumps * DumpBytes + DumpBytes /\ dumps * DumpBytes \in Nat
    OBVIOUS
  <2> QED
    BY <2>1, <2>2
<1>2. CASE unlink_returns
  BY <1>2 DEF unlink_returns, procVars, world, textVars, diskVars
<1>3. CASE dump_freeze
  BY <1>3 DEF dump_freeze, procVars, world, textVars, diskVars, Frozen
<1>4. CASE dump_procs
  BY <1>4 DEF dump_procs, procVars, world, textVars, diskVars
<1>5. CASE dump_fds_inodes
  BY <1>5 DEF dump_fds_inodes, procVars, world, textVars, diskVars
<1>6. CASE dump_maps
  BY <1>6 DEF dump_maps, procVars, world, textVars, diskVars
<1>7. CASE dump_array_dir
  <2>1. fsPc = "array" /\ fsPc' = "arrows" /\ UNCHANGED <<said, dumps, chunk>>
    BY <1>7 DEF dump_array_dir, world, textVars
  <2> QED
    BY <2>1
<1>8. CASE dump_arrows
  BY <1>8 DEF dump_arrows, procVars, world, textVars, diskVars
<1>9. CASE dump_pieces
  <2>1. CASE bytes_left = 0
    BY <1>9, <2>1 DEF dump_pieces, procVars, world, textVars, diskVars
  <2>2. CASE bytes_left # 0
    <3>1. Min({bytes_left, TMP_BYTES}) \in Nat /\ Min({bytes_left, TMP_BYTES}) <= bytes_left
      BY MinFacts
    <3>2. /\ chunk' = Min({bytes_left, TMP_BYTES}) /\ bytes_left' = bytes_left - chunk'
          /\ fsPc' \in {"smap", "text"} /\ UNCHANGED <<said, dumps>> /\ fsPc = "pieces"
      BY <1>9, <2>2 DEF dump_pieces, world
    <3> HIDE DEF dump_pieces
    <3> QED
      BY <3>1, <3>2
  <2> QED
    BY <2>1, <2>2
<1>10. CASE log_smap
  BY <1>10 DEF log_smap, procVars, world, textVars, diskVars
<1>11. CASE log_pad
  BY <1>11 DEF log_pad, procVars, world, textVars, diskVars
<1>12. CASE log_text
  BY <1>12, TextWritten
<1>13. CASE log_header
  BY <1>13 DEF log_header, procVars, world, textVars, diskVars
<1>14. CASE log_last
  <2>1. fsPc = "last" /\ fsPc' = "pieces" /\ UNCHANGED <<said, dumps, chunk, bytes_left>>
    BY <1>14 DEF log_last, world, textVars
  <2> QED
    BY <2>1
<1>15. CASE dump_thaw
  BY <1>15 DEF dump_thaw, procVars, world, textVars, diskVars, Thaws
<1>16. CASE HdAsked
  BY <1>16 DEF HdAsked, procVars, world, textVars, diskVars
<1>17. CASE HdWaits
  BY <1>17 DEF HdWaits, procVars, world, textVars, diskVars
<1>18. CASE DiskInterrupts
  BY <1>18 DEF DiskInterrupts, procVars, world, textVars, diskVars
<1>19. CASE MmWorks
  BY <1>19 DEF MmWorks, procVars, world, textVars, diskVars, Choosable
<1>20. CASE MmForks
  BY <1>20 DEF MmForks, procVars, world, textVars, diskVars, Choosable
<1>21. CASE reboot
  BY <1>21, BootFlags DEF reboot, procVars, world, textVars, diskVars
<1>22. CASE UNCHANGED diskLogVars
  BY <1>22 DEF procVars, world, textVars, diskVars, diskLogVars
<1> QED
  BY <1>1, <1>2, <1>3, <1>4, <1>5, <1>6, <1>7, <1>8, <1>9, <1>10, <1>11, <1>12, <1>13, <1>14, <1>15, <1>16, <1>17, <1>18, <1>19, <1>20, <1>21, <1>22 DEF DiskLogNext, FsLogs

LEMMA OnceKeeps ==
  ASSUME LogInv, [DiskLogNext]_diskLogVars
  PROVE  OnceOK'
<1> USE LogSizes DEF LogInv, LogTypes, TextOK, OnceOK, AssertedAfterReboot, AtFs, Goto, Served, Part
<1>1. CASE unlink_received
  BY <1>1 DEF unlink_received, procVars, world, textVars, diskVars
<1>2. CASE unlink_returns
  BY <1>2 DEF unlink_returns, procVars, world, textVars, diskVars
<1>3. CASE dump_freeze
  BY <1>3 DEF dump_freeze, procVars, world, textVars, diskVars, Frozen
<1>4. CASE dump_procs
  BY <1>4 DEF dump_procs, procVars, world, textVars, diskVars
<1>5. CASE dump_fds_inodes
  BY <1>5 DEF dump_fds_inodes, procVars, world, textVars, diskVars
<1>6. CASE dump_maps
  BY <1>6 DEF dump_maps, procVars, world, textVars, diskVars
<1>7. CASE dump_array_dir
  BY <1>7 DEF dump_array_dir, procVars, world, textVars, diskVars
<1>8. CASE dump_arrows
  BY <1>8 DEF dump_arrows, procVars, world, textVars, diskVars
<1>9. CASE dump_pieces
  BY <1>9 DEF dump_pieces, procVars, world, textVars, diskVars, FirstTime
<1>10. CASE log_smap
  BY <1>10 DEF log_smap, procVars, world, textVars, diskVars
<1>11. CASE log_pad
  BY <1>11 DEF log_pad, procVars, world, textVars, diskVars
<1>12. CASE log_text
  BY <1>12, TextWritten
<1>13. CASE log_header
  BY <1>13 DEF log_header, procVars, world, textVars, diskVars
<1>14. CASE log_last
  BY <1>14 DEF log_last, procVars, world, textVars, diskVars
<1>15. CASE dump_thaw
  BY <1>15 DEF dump_thaw, procVars, world, textVars, diskVars, Thaws
<1>16. CASE HdAsked
  BY <1>16 DEF HdAsked, procVars, world, textVars, diskVars
<1>17. CASE HdWaits
  BY <1>17 DEF HdWaits, procVars, world, textVars, diskVars
<1>18. CASE DiskInterrupts
  BY <1>18 DEF DiskInterrupts, procVars, world, textVars, diskVars
<1>19. CASE MmWorks
  BY <1>19 DEF MmWorks, procVars, world, textVars, diskVars, Choosable
<1>20. CASE MmForks
  BY <1>20 DEF MmForks, procVars, world, textVars, diskVars, Choosable
<1>21. CASE reboot
  BY <1>21, BootFlags DEF reboot, procVars, world, textVars, diskVars
<1>22. CASE UNCHANGED diskLogVars
  BY <1>22 DEF procVars, world, textVars, diskVars, diskLogVars
<1> QED
  BY <1>1, <1>2, <1>3, <1>4, <1>5, <1>6, <1>7, <1>8, <1>9, <1>10, <1>11, <1>12, <1>13, <1>14, <1>15, <1>16, <1>17, <1>18, <1>19, <1>20, <1>21, <1>22 DEF DiskLogNext, FsLogs

LEMMA LogStep == LogInv /\ [DiskLogNext]_diskLogVars => LogInv'
<1> SUFFICES ASSUME LogInv, [DiskLogNext]_diskLogVars PROVE LogInv'
  OBVIOUS
<1> QED
  BY LogTypesKeep, GraphKeeps, PrioKeeps, TextKeeps, RoomKeeps, OnceKeeps DEF LogInv

LEMMA LogKept == LogInv => LogFaithful
<1> SUFFICES ASSUME LogInv PROVE LogFaithful
  OBVIOUS
<1>1. DumpOfOneMoment
  <2>1. CASE graph = {}
    BY <2>1, FS_EmptySet DEF DumpOfOneMoment
  <2>2. CASE \E t \in graph : graph = {t}
    <3>1. PICK t \in graph : graph = {t}
      BY <2>2
    <3>2. Cardinality({t}) = 1
      BY FS_Singleton
    <3> QED
      BY <3>1, <3>2 DEF DumpOfOneMoment
  <2> QED
    BY <2>1, <2>2 DEF LogInv, GraphOK
<1>2. PrioritiesRestored
  BY DEF LogInv, PrioOK, PrioritiesRestored
<1>3. LogIsText
  BY DEF LogInv, TextOK, LogIsText
<1>4. AssertedAfterReboot
  BY DEF LogInv, OnceOK
<1> QED
  BY <1>1, <1>2, <1>3, <1>4 DEF LogFaithful

\* Whoever runs while FS waits for the disk, however long that takes, wherever
\* the power fails, and however the graph falls on calls and sectors: what a
\* removal leaves in the log is one moment's graph, whole and in order,
\* everybody who lived before the thaw gets his priority back, and the
\* assertion fails only after a reboot (fs/disklog.c:101, 301-330, 826).
THEOREM LogAlwaysFaithful == DiskLogSpec => []LogFaithful
<1>1. DiskLogInit => LogInv
  BY LogInitOK
<1>2. LogInv /\ [DiskLogNext]_diskLogVars => LogInv'
  BY LogStep
<1>3. LogInv => LogFaithful
  BY LogKept
<1> QED
  BY <1>1, <1>2, <1>3, PTL DEF DiskLogSpec

(***************************************************************************)
(* NET: a look-up asks twice before it gives up.  While fewer than two     *)
(* requests left, the pending one is about as old as the wait.             *)
(***************************************************************************)
NetFrames == [kind : {"arp", "echo", "dns"}, from : Host \cup {Outside}, seq : Nat]
PingPcs == {"arp_lookup", "cond_arp", "icmp_ping", "cond_ping"}
DnsPcs == {"dns_resolve", "cond_dns"}
NetTypes ==
  /\ arp_table \in [1 .. ARP_TABLE_MAX -> Host \cup {Outside, NoIp}] /\ wire \subseteq NetFrames
  /\ pending \in BOOLEAN /\ age \in 0 .. ARP_RETRY_TICKS + 1
  /\ left \in Int /\ seq \in Nat /\ received \in Nat /\ sends \in Nat
NetPlace ==
  /\ srvPc \in {"receive", "poll", "reply"} \cup PingPcs \cup DnsPcs
  /\ srvPc # "receive" => netReq \in NetRequests
  /\ srvPc \in PingPcs => netReq.type = "PING"
  /\ srvPc \in DnsPcs => netReq.type = "RESOLVE"
  /\ srvPc \in {"arp_lookup", "cond_arp"} => seq = 0
  /\ srvPc = "cond_ping" => seq > 0
  /\ srvPc \in {"arp_lookup", "dns_resolve"} => sends = 0
LooksUp == srvPc = "cond_arp" \/ (srvPc = "poll" /\ netReq.type = "PING" /\ seq = 0)
AskedInTime ==
  /\ LooksUp /\ sends = 0 => age + left >= ARP_TIMEOUT
  /\ LooksUp /\ sends = 1 => age + left >= ARP_TIMEOUT - (ARP_RETRY_TICKS + 1)
  /\ LooksUp /\ srvPc = "poll" /\ sends <= 1 => age <= ARP_RETRY_TICKS
  /\ netReq.type = "RESOLVE" /\ srvPc \in {"poll", "cond_dns"} /\ left < 0 => resent
NetInv == NetTypes /\ NetPlace /\ AskedInTime /\ OneEntryPerHost /\ GivesUpAfterRetry

LEMMA NetSizes ==
  /\ ARP_RETRY_TICKS \in Nat /\ ARP_TIMEOUT \in Nat /\ PING_TIMEOUT \in Nat /\ DNS_TIMEOUT \in Nat
  /\ ARP_TIMEOUT > 2 * ARP_RETRY_TICKS /\ PING_MAX \in Nat /\ PING_MAX > 0
  /\ NET_GW \in Host /\ NET_DNS \in Host /\ PingTo \subseteq Host \cup {Outside}
  /\ NoIp \notin Host /\ Outside \notin Host
<1> QED
  BY NetAssumption DEF NetAssumption

LEMMA RequestKinds ==
  ASSUME netReq \in NetRequests
  PROVE  \/ netReq.type = "PING" /\ netReq.to \in Host \cup {Outside} /\ netReq.count \in Nat
         \/ netReq.type = "RESOLVE" /\ netReq.to \in Host /\ netReq.count \in Nat
<1> QED
  BY NetSizes DEF NetRequests

LEMMA HopIsHost == \A dst : ip_next_hop(dst) \in Host
<1> QED
  BY NetSizes DEF ip_next_hop

\* An address is entered once, in whichever entry.
LEMMA Learned ==
  ASSUME NetTypes, OneEntryPerHost, NEW ip \in Host \cup {Outside}, arp_table' = arp_learn(ip)
  PROVE  arp_table' \in [1 .. ARP_TABLE_MAX -> Host \cup {Outside, NoIp}] /\ OneEntryPerHost'
<1>1. CASE Known(ip)
  BY <1>1 DEF arp_learn, NetTypes, OneEntryPerHost
<1>2. CASE ~ Known(ip)
  <2>1. PICK v : arp_table' = [arp_table EXCEPT ![v] = ip]
    BY <1>2 DEF arp_learn
  <2>2. \A i \in 1 .. ARP_TABLE_MAX : arp_table[i] # ip
    BY <1>2 DEF Known
  <2>3. arp_table' \in [1 .. ARP_TABLE_MAX -> Host \cup {Outside, NoIp}]
    BY <2>1 DEF NetTypes
  <2>4. \A i \in 1 .. ARP_TABLE_MAX : arp_table'[i] = IF i = v THEN ip ELSE arp_table[i]
    BY <2>1 DEF NetTypes
  <2> QED
    BY <2>2, <2>3, <2>4 DEF OneEntryPerHost
<1> QED
  BY <1>1, <1>2

LEMMA MissFacts ==
  ASSUME NetTypes, NEW ip \in Host, ArpMiss(ip)
  PROVE  /\ pending' \in BOOLEAN /\ wire' \subseteq NetFrames /\ age' \in 0 .. ARP_RETRY_TICKS + 1
         /\ \/ Asked(ip) = 1 /\ age' = 0
            \/ Asked(ip) = 0 /\ age' = age /\ age <= ARP_RETRY_TICKS
<1>1. ArpReply(ip) \in NetFrames
  BY DEF ArpReply, NetFrames
<1>2. FromUp(ArpReply(ip)) \subseteq NetFrames
  BY <1>1 DEF FromUp
<1>3. CASE MayAsk
  BY <1>2, <1>3, NetSizes DEF ArpMiss, NetTypes, Asked
<1>4. CASE ~ MayAsk
  BY <1>4, NetSizes DEF ArpMiss, NetTypes, Asked, MayAsk
<1> QED
  BY <1>3, <1>4

LEMMA SendFacts ==
  ASSUME NetTypes, NEW dst, NEW reply \in NetFrames, ip_send(dst, reply)
  PROVE  pending' \in BOOLEAN /\ wire' \subseteq NetFrames /\ age' \in 0 .. ARP_RETRY_TICKS + 1
<1>1. CASE Known(ip_next_hop(dst))
  BY <1>1 DEF ip_send, NetTypes, FromUp
<1>2. CASE ~ Known(ip_next_hop(dst))
  <2>1. ArpMiss(ip_next_hop(dst))
    BY <1>2 DEF ip_send
  <2> QED
    BY <2>1, HopIsHost, MissFacts
<1> QED
  BY <1>1, <1>2

LEMMA NetInitOK == NetInit => NetInv
<1> SUFFICES ASSUME NetInit PROVE NetInv
  OBVIOUS
<1> USE NetSizes DEF NetInit
<1>1. NetTypes
  <2>1. arp_table \in [1 .. ARP_TABLE_MAX -> Host \cup {Outside, NoIp}]
    OBVIOUS
  <2>2. left \in Int /\ age \in 0 .. ARP_RETRY_TICKS + 1
    OBVIOUS
  <2> QED
    BY <2>1, <2>2 DEF NetTypes
<1>2. NetPlace
  BY DEF NetPlace, PingPcs, DnsPcs
<1>3. AskedInTime
  BY DEF AskedInTime, LooksUp, NoNetReq
<1>4. OneEntryPerHost
  BY DEF OneEntryPerHost
<1>5. GivesUpAfterRetry
  BY DEF GivesUpAfterRetry
<1> QED
  BY <1>1, <1>2, <1>3, <1>4, <1>5 DEF NetInv

LEMMA NetReceives == ASSUME NetInv, NEW r \in NetRequests, ReceiveNet(r) PROVE NetInv'
<1> USE DEF NetInv, ReceiveNet
<1>0. r.type \in {"PING", "RESOLVE"}
  BY DEF NetRequests
<1>1. NetTypes'
  BY DEF NetTypes
<1>2. NetPlace'
  BY <1>0 DEF NetPlace, PingPcs, DnsPcs
<1>3. AskedInTime'
  BY <1>0 DEF AskedInTime, LooksUp
<1>4. OneEntryPerHost'
  BY DEF OneEntryPerHost
<1>5. GivesUpAfterRetry'
  BY <1>0 DEF GivesUpAfterRetry
<1> QED
  BY <1>1, <1>2, <1>3, <1>4, <1>5

LEMMA SumFacts ==
  \A a, l, r \in Nat : a + l >= l /\ a + l >= l - (r + 1)
<1> QED
  OBVIOUS

LEMMA LookUpKeeps == ASSUME NetInv, arp_lookup \/ cond_arp PROVE NetInv'
<1> USE DEF NetInv
<1>0. /\ netReq \in NetRequests /\ netReq.type = "PING" /\ seq = 0 /\ Hop \in Host
      /\ OneEntryPerHost'
  BY HopIsHost DEF NetPlace, PingPcs, arp_lookup, cond_arp, Hop, OneEntryPerHost
<1>1. CASE Known(Hop)
  <2>1. srvPc' = "icmp_ping" /\ UNCHANGED <<arp_table, pending, age, netReq, left, seq, received, resent, wire, answer, sends>>
    BY <1>1 DEF arp_lookup, cond_arp
  <2>2. NetTypes'
    BY <2>1 DEF NetTypes
  <2>3. NetPlace'
    BY <2>1, <1>0 DEF NetPlace, PingPcs, DnsPcs
  <2>4. AskedInTime'
    BY <2>1, <1>0 DEF AskedInTime, LooksUp
  <2> QED
    BY <1>0, <2>1, <2>2, <2>3, <2>4 DEF GivesUpAfterRetry
<1>2. CASE arp_lookup /\ ~ Known(Hop)
  <2>1. ArpMiss(Hop) /\ sends = 0 /\ sends' = sends + Asked(Hop) /\ left' = ARP_TIMEOUT /\ srvPc' = "cond_arp"
    BY <1>2 DEF arp_lookup, NetPlace
  <2>2. UNCHANGED <<arp_table, netReq, seq, received, resent, answer>>
    BY <1>2 DEF arp_lookup
  <2>3. /\ pending' \in BOOLEAN /\ wire' \subseteq NetFrames /\ age' \in 0 .. ARP_RETRY_TICKS + 1
        /\ \/ Asked(Hop) = 1 /\ age' = 0
           \/ Asked(Hop) = 0 /\ age' = age /\ age <= ARP_RETRY_TICKS
    BY <1>0, <2>1, MissFacts
  <2>4. NetTypes'
    BY <2>1, <2>2, <2>3, NetSizes DEF NetTypes
  <2>5. NetPlace'
    BY <2>1, <2>2, <1>0 DEF NetPlace, PingPcs, DnsPcs
  <2>6. AskedInTime'
    <3>0. age' \in Nat /\ left' = ARP_TIMEOUT
      BY <2>1, <2>3, NetSizes
    <3>1. /\ sends' = 0 => age' + left' >= ARP_TIMEOUT
          /\ age' + left' >= ARP_TIMEOUT - (ARP_RETRY_TICKS + 1)
      BY <3>0, NetSizes, SumFacts
    <3>2. srvPc' = "cond_arp" /\ netReq'.type = "PING"
      BY <2>1, <2>2, <1>0
    <3> QED
      BY <3>1, <3>2 DEF AskedInTime
  <2> QED
    BY <1>0, <2>1, <2>4, <2>5, <2>6 DEF GivesUpAfterRetry
<1>3. CASE cond_arp /\ ~ Known(Hop)
  <2>1. srvPc = "cond_arp" /\ ArpMiss(Hop) /\ sends' = sends + Asked(Hop) /\ srvPc' = "poll"
    BY <1>3 DEF cond_arp
  <2>2. UNCHANGED <<arp_table, netReq, left, seq, received, resent, answer>>
    BY <1>3 DEF cond_arp
  <2>3. /\ pending' \in BOOLEAN /\ wire' \subseteq NetFrames /\ age' \in 0 .. ARP_RETRY_TICKS + 1
        /\ \/ Asked(Hop) = 1 /\ age' = 0
           \/ Asked(Hop) = 0 /\ age' = age /\ age <= ARP_RETRY_TICKS
    BY <1>0, <2>1, MissFacts
  <2>4. NetTypes'
    BY <2>1, <2>2, <2>3, NetSizes DEF NetTypes
  <2>5. NetPlace'
    BY <2>1, <2>2, <1>0 DEF NetPlace, PingPcs, DnsPcs
  <2>6. AskedInTime'
    <3>1. /\ sends = 0 => age + left >= ARP_TIMEOUT
          /\ sends = 1 => age + left >= ARP_TIMEOUT - (ARP_RETRY_TICKS + 1)
      BY <2>1 DEF AskedInTime, LooksUp
    <3>2. /\ sends' = 0 => age' + left' >= ARP_TIMEOUT
          /\ sends' = 1 => age' + left' >= ARP_TIMEOUT - (ARP_RETRY_TICKS + 1)
          /\ age' <= ARP_RETRY_TICKS
      <4>1. sends \in Nat /\ left \in Int /\ left' = left /\ age \in Nat /\ age <= ARP_RETRY_TICKS + 1
        BY <2>2, NetSizes DEF NetTypes
      <4>2. CASE Asked(Hop) = 1 /\ age' = 0
        BY <4>1, <4>2, <3>1, <2>1, NetSizes
      <4>3. CASE Asked(Hop) = 0 /\ age' = age /\ age <= ARP_RETRY_TICKS
        BY <4>1, <4>3, <3>1, <2>1, NetSizes
      <4> QED
        BY <4>2, <4>3, <2>3
    <3>3. srvPc' = "poll" /\ netReq'.type = "PING"
      BY <2>1, <2>2, <1>0
    <3> QED
      BY <3>2, <3>3 DEF AskedInTime
  <2> QED
    BY <1>0, <2>1, <2>4, <2>5, <2>6 DEF GivesUpAfterRetry
<1> QED
  BY <1>1, <1>2, <1>3

LEMMA PingKeeps == ASSUME NetInv, icmp_ping \/ cond_ping PROVE NetInv'
<1> USE DEF NetInv
<1>0. /\ netReq \in NetRequests /\ netReq.type = "PING" /\ netReq.to \in Host \cup {Outside}
      /\ UNCHANGED <<arp_table, netReq, resent, sends>>
  <2>1. netReq \in NetRequests /\ netReq.type = "PING"
    BY DEF NetPlace, PingPcs, icmp_ping, cond_ping
  <2> QED
    BY <2>1, RequestKinds DEF icmp_ping, cond_ping
<1>1. OneEntryPerHost'
  BY <1>0 DEF OneEntryPerHost
<1>2. CASE icmp_ping /\ seq = netReq.count
  <2>1. /\ srvPc' = "reply" /\ answer' = [to |-> NoIp, value |-> received]
        /\ UNCHANGED <<pending, age, left, seq, received, wire>>
    BY <1>2 DEF icmp_ping, Finish
  <2>2. NetTypes'
    BY <2>1, <1>0 DEF NetTypes
  <2>3. NetPlace'
    BY <2>1, <1>0 DEF NetPlace, PingPcs, DnsPcs
  <2>4. AskedInTime'
    BY <2>1, <1>0 DEF AskedInTime, LooksUp
  <2>5. answer'.value # -1
    BY <2>1 DEF NetTypes
  <2> QED
    BY <1>1, <2>2, <2>3, <2>4, <2>5 DEF GivesUpAfterRetry
<1>3. CASE icmp_ping /\ seq # netReq.count
  <2>1. /\ srvPc' = "cond_ping" /\ seq' = seq + 1 /\ left' = PING_TIMEOUT /\ received' = received
        /\ ip_send(netReq.to, Echo(netReq.to, seq + 1))
    BY <1>3 DEF icmp_ping
  <2>2. Echo(netReq.to, seq + 1) \in NetFrames
    BY <1>0 DEF Echo, NetFrames, NetTypes
  <2>3. pending' \in BOOLEAN /\ wire' \subseteq NetFrames /\ age' \in 0 .. ARP_RETRY_TICKS + 1
    BY <2>1, <2>2, SendFacts
  <2>4. NetTypes'
    BY <1>0, <2>1, <2>3, NetSizes DEF NetTypes
  <2>5. NetPlace'
    <3>1. seq' > 0
      BY <2>1 DEF NetTypes
    <3> QED
      BY <3>1, <2>1, <1>0 DEF NetPlace, PingPcs, DnsPcs
  <2>6. AskedInTime'
    BY <2>1, <1>0 DEF AskedInTime, LooksUp
  <2> QED
    BY <1>1, <2>1, <2>4, <2>5, <2>6 DEF GivesUpAfterRetry
<1>4. CASE cond_ping
  <2>1. /\ srvPc = "cond_ping" /\ srvPc' \in {"icmp_ping", "poll"} /\ received' \in Nat
        /\ UNCHANGED <<pending, age, left, seq, wire>>
    BY <1>4 DEF cond_ping, NetTypes
  <2>2. NetTypes'
    BY <2>1, <1>0 DEF NetTypes
  <2>3. NetPlace'
    BY <2>1, <1>0 DEF NetPlace, PingPcs, DnsPcs
  <2>4. AskedInTime'
    BY <2>1, <1>0 DEF AskedInTime, LooksUp, NetPlace
  <2> QED
    BY <1>1, <2>1, <2>2, <2>3, <2>4 DEF GivesUpAfterRetry
<1> QED
  BY <1>2, <1>3, <1>4

LEMMA DnsKeeps == ASSUME NetInv, dns_resolve \/ cond_dns PROVE NetInv'
<1> USE DEF NetInv
<1>0. /\ netReq \in NetRequests /\ netReq.type = "RESOLVE" /\ DnsAnswer \in NetFrames
      /\ UNCHANGED <<arp_table, netReq, seq, received>>
  BY NetSizes DEF NetPlace, DnsPcs, dns_resolve, cond_dns, DnsAnswer, NetFrames
<1>1. OneEntryPerHost'
  BY <1>0 DEF OneEntryPerHost
<1>2. CASE dns_resolve
  <2>1. /\ ip_send(NET_DNS, DnsAnswer) /\ left' = DNS_TIMEOUT /\ sends = 0
        /\ \/ srvPc' = "cond_dns" /\ sends' = 1
           \/ srvPc' = "reply" /\ sends' = 0
    BY <1>2 DEF dns_resolve, Finish, NetPlace
  <2>2. pending' \in BOOLEAN /\ wire' \subseteq NetFrames /\ age' \in 0 .. ARP_RETRY_TICKS + 1
    BY <1>0, <2>1, SendFacts
  <2>3. NetTypes'
    BY <2>1, <2>2, <1>0, NetSizes DEF NetTypes
  <2>4. NetPlace'
    BY <2>1, <1>0 DEF NetPlace, PingPcs, DnsPcs
  <2>5. AskedInTime'
    BY <2>1, <1>0, NetSizes DEF AskedInTime, LooksUp
  <2> QED
    BY <1>0, <1>1, <2>1, <2>3, <2>4, <2>5 DEF GivesUpAfterRetry
<1>3. CASE cond_dns
  <2>1. /\ srvPc = "cond_dns" /\ UNCHANGED <<pending, age, left, wire, sends, resent, dns>>
        /\ \/ srvPc' = "poll"
           \/ srvPc' = "reply" /\ dns.done
    BY <1>3 DEF cond_dns, Finish
  <2>2. NetTypes'
    BY <2>1, <1>0 DEF NetTypes
  <2>3. NetPlace'
    BY <2>1, <1>0 DEF NetPlace, PingPcs, DnsPcs
  <2>4. AskedInTime'
    BY <2>1, <1>0 DEF AskedInTime, LooksUp
  <2> QED
    BY <1>0, <1>1, <2>1, <2>2, <2>3, <2>4 DEF GivesUpAfterRetry
<1> QED
  BY <1>2, <1>3

\* What comes in a turn changes the table, the flags and the pending request.
LEMMA InputKeeps ==
  ASSUME NetInv, srvPc = "poll", pending' \in BOOLEAN, wire' \subseteq wire, OneEntryPerHost',
         arp_table' \in [1 .. ARP_TABLE_MAX -> Host \cup {Outside, NoIp}],
         UNCHANGED <<age, srvPc, netReq, left, seq, received, resent, sends>>
  PROVE  NetInv'
<1> USE DEF NetInv
<1>1. NetTypes'
  BY DEF NetTypes
<1>2. NetPlace'
  BY DEF NetPlace, PingPcs, DnsPcs
<1>3. AskedInTime'
  BY DEF AskedInTime, LooksUp
<1> QED
  BY <1>1, <1>2, <1>3 DEF GivesUpAfterRetry

LEMMA ComesKeeps ==
  ASSUME NetInv,
         \/ \E f \in wire : ArpInput(f)
         \/ \E f \in wire, ok \in BOOLEAN : IpInput(f, ok)
         \/ \E ip \in Host : ArpRequest(ip)
  PROVE  NetInv'
<1>0. NetTypes /\ OneEntryPerHost
  BY DEF NetInv
<1>1. CASE \E f \in wire : ArpInput(f)
  <2>1. PICK f \in wire : ArpInput(f)
    BY <1>1
  <2>2. f.from \in Host \cup {Outside}
    BY <1>0 DEF NetTypes, NetFrames
  <2>3. /\ arp_table' \in [1 .. ARP_TABLE_MAX -> Host \cup {Outside, NoIp}]
        /\ OneEntryPerHost'
    BY <1>0, <2>1, <2>2, Learned DEF ArpInput
  <2> QED
    BY <2>1, <2>3, InputKeeps DEF ArpInput
<1>2. CASE \E f \in wire, ok \in BOOLEAN : IpInput(f, ok)
  <2>1. PICK f \in wire, ok \in BOOLEAN : IpInput(f, ok)
    BY <1>2
  <2>2. UNCHANGED <<arp_table, pending, age, srvPc, netReq, left, seq, received, resent, sends>>
        /\ srvPc = "poll" /\ wire' \subseteq wire
    BY <2>1 DEF IpInput
  <2>3. OneEntryPerHost'
    BY <1>0, <2>2 DEF OneEntryPerHost
  <2> QED
    BY <1>0, <2>2, <2>3, InputKeeps DEF NetTypes
<1>3. CASE \E ip \in Host : ArpRequest(ip)
  <2>1. PICK ip \in Host : ArpRequest(ip)
    BY <1>3
  <2>2. /\ arp_table' \in [1 .. ARP_TABLE_MAX -> Host \cup {Outside, NoIp}]
        /\ OneEntryPerHost'
    BY <1>0, <2>1, Learned DEF ArpRequest
  <2>3. pending' \in BOOLEAN
    BY <1>0, <2>1 DEF ArpRequest, NetTypes
  <2> QED
    BY <2>1, <2>2, <2>3, InputKeeps DEF ArpRequest
<1> QED
  BY <1>1, <1>2, <1>3

LEMMA LaterFacts ==
  ASSUME age \in 0 .. ARP_RETRY_TICKS + 1
  PROVE  Later \in 0 .. ARP_RETRY_TICKS + 1 /\ (age <= ARP_RETRY_TICKS => Later = age + 1)
<1> QED
  BY NetSizes DEF Later

LEMMA TurnKeeps == ASSUME NetInv, NetTurn PROVE NetInv'
<1> USE DEF NetInv
<1>0. /\ srvPc = "poll" /\ netReq \in NetRequests /\ netReq.type \in {"PING", "RESOLVE"}
      /\ UNCHANGED <<arp_table, netReq, seq, received, dns>>
  BY RequestKinds DEF NetPlace, NetTurn
<1>1. OneEntryPerHost'
  BY <1>0 DEF OneEntryPerHost
<1>2. CASE Expired
  <2>1. left < 0 /\ UNCHANGED <<pending, age, wire, left, resent, sends>>
    BY <1>2 DEF Expired, NetTurn
  <2>2. \/ Waiting = "cond_ping" /\ srvPc' = "icmp_ping"
        \/ Waiting # "cond_ping" /\ srvPc' = "reply"
    BY <1>2 DEF NetTurn, Finish
  <2>3. NetTypes'
    BY <1>0, <2>1 DEF NetTypes
  <2>4. NetPlace'
    BY <1>0, <2>2 DEF NetPlace, PingPcs, DnsPcs, Waiting
  <2>5. AskedInTime'
    BY <1>0, <2>1, <2>2 DEF AskedInTime, LooksUp
  <2>6. GivesUpAfterRetry'
    <3>1. CASE netReq.type = "RESOLVE"
      BY <3>1, <1>0, <2>1 DEF AskedInTime, GivesUpAfterRetry
    <3>2. CASE netReq.type = "PING" /\ seq # 0
      BY <3>2, <2>2 DEF Waiting, GivesUpAfterRetry
    <3>3. CASE netReq.type = "PING" /\ seq = 0
      <4>1. sends # 0 /\ sends # 1
        BY <3>3, <1>0, <2>1, NetSizes DEF AskedInTime, LooksUp, NetTypes
      <4> QED
        BY <4>1, <3>3, <1>0, <2>1 DEF NetTypes, GivesUpAfterRetry
    <3> QED
      BY <3>1, <3>2, <3>3, <1>0
  <2> QED
    BY <1>1, <2>3, <2>4, <2>5, <2>6
<1>3. CASE ~ Expired
  <2>1. left >= 0 /\ srvPc' = Waiting /\ left' = left - 1
    BY <1>3 DEF Expired, NetTurn, NetTypes
  <2>2. Waiting \in {"cond_dns", "cond_arp", "cond_ping"}
    BY DEF Waiting
  <2>3. /\ pending' \in BOOLEAN /\ wire' \subseteq NetFrames /\ age' \in 0 .. ARP_RETRY_TICKS + 1
        /\ sends' \in Nat
        /\ Waiting # "cond_dns" => age' = Later /\ sends' = sends
        /\ Waiting = "cond_dns" /\ left <= DNS_TIMEOUT \div 2 => resent'
    <3>1. CASE Waiting = "cond_dns" /\ ~ resent /\ left <= DNS_TIMEOUT \div 2
      <4>1. /\ ip_send(NET_DNS, DnsAnswer) /\ resent' = TRUE
            /\ sends' = sends + IF Known(NET_DNS) THEN 1 ELSE 0
        BY <1>3, <3>1 DEF NetTurn
      <4>2. DnsAnswer \in NetFrames
        BY NetSizes DEF DnsAnswer, NetFrames
      <4>3. pending' \in BOOLEAN /\ wire' \subseteq NetFrames /\ age' \in 0 .. ARP_RETRY_TICKS + 1
        BY <4>1, <4>2, SendFacts
      <4>4. sends' \in Nat
        BY <4>1 DEF NetTypes
      <4> QED
        BY <3>1, <4>1, <4>3, <4>4
    <3>2. CASE ~ (Waiting = "cond_dns" /\ ~ resent /\ left <= DNS_TIMEOUT \div 2)
      <4>1. age' = Later /\ UNCHANGED <<pending, wire, resent, sends>>
        BY <1>3, <3>2 DEF NetTurn
      <4>2. age \in 0 .. ARP_RETRY_TICKS + 1
        BY DEF NetTypes
      <4> QED
        BY <3>2, <4>1, <4>2, LaterFacts DEF NetTypes
    <3> QED
      BY <3>1, <3>2
  <2>4. NetTypes'
    BY <1>0, <2>1, <2>3 DEF NetTypes
  <2>5. NetPlace'
    BY <1>0, <2>1, <2>4 DEF NetPlace, PingPcs, DnsPcs, Waiting, NetTypes
  <2>6. AskedInTime'
    <3>1. CASE netReq.type = "RESOLVE"
      <4>1. left' < 0 => left <= DNS_TIMEOUT \div 2
        BY <2>1, NetSizes DEF NetTypes
      <4>2. Waiting = "cond_dns" /\ ~ LooksUp'
        BY <3>1, <1>0, <2>1 DEF Waiting, LooksUp
      <4> QED
        BY <4>1, <4>2, <2>3 DEF AskedInTime
    <3>2. CASE netReq.type = "PING" /\ seq # 0
      BY <3>2, <1>0, <2>1 DEF Waiting, AskedInTime, LooksUp
    <3>3. CASE netReq.type = "PING" /\ seq = 0
      <4>1. srvPc' = "cond_arp" /\ LooksUp /\ age' = Later /\ sends' = sends /\ netReq'.type = "PING"
        BY <3>3, <1>0, <2>1, <2>3 DEF Waiting, LooksUp
      <4>2. sends \in {0, 1} => age' = age + 1
        BY <4>1, <1>0, LaterFacts DEF AskedInTime, NetTypes
      <4> QED
        BY <4>1, <4>2, <1>0, <2>1, NetSizes DEF AskedInTime, NetTypes
    <3> QED
      BY <3>1, <3>2, <3>3, <1>0
  <2>7. GivesUpAfterRetry'
    BY <2>1, <2>2 DEF GivesUpAfterRetry
  <2> QED
    BY <1>1, <2>4, <2>5, <2>6, <2>7
<1> QED
  BY <1>2, <1>3

LEMMA NetReplies == ASSUME NetInv, ReplyNet \/ UNCHANGED netSrvVars PROVE NetInv'
<1> USE DEF NetInv
<1>1. CASE ReplyNet
  <2> USE DEF ReplyNet
  <2>1. NetTypes'
    BY <1>1 DEF NetTypes
  <2>2. NetPlace'
    BY <1>1 DEF NetPlace, PingPcs, DnsPcs
  <2>3. AskedInTime'
    BY <1>1 DEF AskedInTime, LooksUp
  <2>4. OneEntryPerHost'
    BY <1>1 DEF OneEntryPerHost
  <2>5. GivesUpAfterRetry'
    BY <1>1 DEF GivesUpAfterRetry
  <2> QED
    BY <2>1, <2>2, <2>3, <2>4, <2>5
<1>2. CASE UNCHANGED netSrvVars
  <2> USE DEF netSrvVars
  <2>1. NetTypes'
    BY <1>2 DEF NetTypes
  <2>2. NetPlace'
    BY <1>2 DEF NetPlace, PingPcs, DnsPcs
  <2>3. AskedInTime'
    BY <1>2 DEF AskedInTime, LooksUp
  <2>4. OneEntryPerHost'
    BY <1>2 DEF OneEntryPerHost
  <2>5. GivesUpAfterRetry'
    BY <1>2 DEF GivesUpAfterRetry
  <2> QED
    BY <2>1, <2>2, <2>3, <2>4, <2>5
<1> QED
  BY <1>1, <1>2

\* Whatever answers, asks, comes late or is lost while NET waits: its table
\* holds an address once, a look-up has asked for its address twice before
\* it gives up, although there is one pending request for all addresses, and
\* a query is repeated before it times out; for all timeouts of which the one
\* of ARP is longer than two retry times (arp.c:100-140, dns.c:243-248).
THEOREM LookUpsRetried == NetSpec => []RequestsServed
<1>1. NetInit => NetInv
  BY NetInitOK
<1>2. NetInv /\ [NetNext]_netSrvVars => NetInv'
  BY NetReceives, LookUpKeeps, PingKeeps, DnsKeeps, ComesKeeps, TurnKeeps, NetReplies DEF NetNext, NetTask
<1>3. NetInv => OneEntryPerHost /\ GivesUpAfterRetry
  BY DEF NetInv
<1> QED
  BY <1>1, <1>2, <1>3, PTL DEF NetSpec, RequestsServed

(***************************************************************************)
(* HD: what the status register, the interrupt and the sectors moved say   *)
(* of each other at every place of the driver, while the controller works. *)
(***************************************************************************)
Moving == {"waitfor_drq", "port_write", "interrupt_wait", "receive", "port_read"}
Busy == Moving \cup {"hd_cmd_out"}
Ops == {"none", "READ", "WRITE", "IDENTIFY"}
\* the sectors the controller takes a count for
CtlCount(n) == IF n % COUNT_MOD = 0 THEN COUNT_MOD ELSE n % COUNT_MOD
HdTypes ==
  /\ hdPc \in {"idle", "reply", "identified", "table", "panic"} \cup Busy
  /\ hdLeft \in Nat /\ hdInt \in BOOLEAN /\ faulty \in BOOLEAN
  /\ open_cnt \in 0 .. MaxOpen /\ moved \in Seq(Int)
  /\ hdCmd \in [op : Ops, lba : Nat, sects : Nat]
  /\ ctl \in [busy : BOOLEAN, drq : BOOLEAN, irq : BOOLEAN, left : 0 .. COUNT_MOD, op : Ops, lba : Int]
  /\ ctl.drq => ctl.left > 0
BaseOK ==
  /\ base \in [DOMAIN base -> Nat] /\ DOMAIN base \subseteq HdDevices
  /\ walk \in [j : Nat, i : 0 .. NR_SUB_PER_PART - 1, s : Nat]
  /\ walk.j # 0 => /\ walk.j \in Extended /\ walk.s \in DOMAIN Ebr
                   /\ \A k \in Extended : k \in DOMAIN base /\ base[k] = Mbr[k].start
HdPlace ==
  /\ hdPc \in Busy => hdLeft > 0 /\ hdCmd.sects > 0
  /\ hdPc \in {"waitfor_drq", "port_write"} => hdCmd.op = "WRITE"
  /\ hdPc = "port_read" => hdCmd.op # "WRITE"
  /\ hdPc \in Busy \cup {"identified", "table"} => hdReq.type \in {"READ", "WRITE", "DEV_OPEN"}
  /\ hdPc \in Busy /\ hdReq.type = "DEV_OPEN" => hdCmd.op # "WRITE"
  /\ hdPc = "identified" \/ (hdPc \in Busy /\ hdCmd.op = "IDENTIFY") => open_cnt < MaxOpen
  /\ hdReq.type \in {"READ", "WRITE"} =>
       /\ hdPc \notin {"idle", "identified", "table"}
       /\ hdReq.dev \in DOMAIN base /\ hdReq.first \in Nat
       /\ hdCmd = [op |-> hdReq.type, lba |-> base[hdReq.dev] + hdReq.first, sects |-> hdReq.sects]
InStep ==
  ~ faulty =>
    /\ hdPc # "panic"
    /\ hdPc \in {"idle", "hd_cmd_out", "reply", "identified", "table"} =>
         ~ ctl.busy /\ ~ ctl.drq /\ ~ ctl.irq /\ ~ hdInt
    /\ hdPc \in {"port_read", "port_write"} => ~ ctl.busy /\ ctl.drq /\ ~ ctl.irq /\ ~ hdInt
    /\ hdPc = "waitfor_drq" =>
         ~ ctl.irq /\ ~ hdInt /\ (ctl.busy => ~ ctl.drq /\ ctl.left > 0 /\ moved = <<>>)
    /\ hdPc \in {"interrupt_wait", "receive"} =>
         /\ hdCmd.op = "WRITE" => moved # <<>>
         /\ ~ (ctl.irq /\ hdInt)
         /\ ctl.busy => ~ ctl.drq /\ ~ ctl.irq /\ ~ hdInt /\ (hdCmd.op # "WRITE" => ctl.left > 0)
         /\ ctl.irq \/ hdInt => ctl.drq \/ hdCmd.op = "WRITE"
Done == Len(moved)
Given == CtlCount(hdCmd.sects)
Extra == IF hdCmd.op = "WRITE" /\ hdPc \in {"interrupt_wait", "receive"} THEN 1 ELSE 0
InOrder == moved = [k \in 1 .. Done |-> hdCmd.lba + k - 1]
Counted ==
  ~ faulty =>
    /\ hdPc = "hd_cmd_out" => hdLeft = hdCmd.sects /\ moved = <<>>
    /\ hdPc \in Moving =>
         /\ Done + hdLeft = hdCmd.sects + Extra
         /\ ctl.left + Done = Given /\ InOrder
         /\ ctl.left > 0 => ctl.op = hdCmd.op /\ ctl.lba = hdCmd.lba + Done
    /\ hdPc = "reply" /\ hdReq.type \in {"READ", "WRITE"} => Done = hdCmd.sects /\ InOrder
HdInv == HdTypes /\ BaseOK /\ HdPlace /\ InStep /\ Counted

\* A set of naturals has a least element.
LEMMA LeastExists ==
  ASSUME NEW S \in SUBSET Nat, S # {}
  PROVE  \E x \in S : \A y \in S : x <= y
<1> DEFINE R == {ss \in Nat \X Nat : ss[1] < ss[2]}
<1>1. IsWellFoundedOn(R, Nat)
  BY NatLessThanWellFounded DEF OpToRel
<1>2. PICK x \in S : \A y \in S : <<y, x>> \notin R
  <2> HIDE DEF R
  <2> QED
    BY <1>1, WFMin
<1>3. \A y \in S : x <= y
  <2> SUFFICES ASSUME NEW y \in S PROVE x <= y
    OBVIOUS
  <2>1. ~ (y < x)
    BY <1>2
  <2> QED
    BY <2>1
<1> QED
  BY <1>2, <1>3

LEMMA HdSizes ==
  /\ COUNT_MOD \in Nat /\ COUNT_MOD > 0 /\ NR_SUB_PER_PART \in Nat /\ NR_SUB_PER_PART > 0 /\ MaxOpen \in Nat
  /\ NR_PART_PER_DRIVE \in Nat /\ \A i \in 1 .. NR_PART_PER_DRIVE : Mbr[i].start \in Nat
  /\ \A s \in DOMAIN Ebr : s \in Nat /\ Ebr[s][1].start \in Nat /\ Ebr[s][2].start \in Nat
  /\ Extended \subseteq 1 .. NR_PART_PER_DRIVE
  /\ \A r \in HdRequests : r.first \in Nat /\ r.sects \in Nat /\ r.sects > 0
<1> QED
  BY HdAssumption DEF HdAssumption, Extended, NR_PART_PER_DRIVE

LEMMA ChainLinked ==
  ASSUME NEW j \in Extended
  PROVE  /\ Mbr[j].start \in DOMAIN Ebr
         /\ \A s \in DOMAIN Ebr : Ebr[s][2].id # NO_PART => Mbr[j].start + Ebr[s][2].start \in DOMAIN Ebr
<1> QED
  BY HdAssumption DEF HdAssumption, Extended, NR_PART_PER_DRIVE

\* The controller is asked for a sector at least and for no more than HD waits for.
LEMMA CountFits ==
  ASSUME NEW n \in Nat, n > 0
  PROVE  CtlCount(n) \in 1 .. COUNT_MOD /\ CtlCount(n) <= n
<1> DEFINE m == COUNT_MOD
           q == n \div m
           r == n % m
<1>1. m \in Nat /\ m > 0
  BY HdSizes
<1> HIDE DEF m
<1>2. q \in Nat /\ r \in 0 .. m - 1 /\ m * q \in Nat /\ n = m * q + r
  BY <1>1, DivFacts
<1> HIDE DEF q, r
<1>3. CASE r = 0
  <2>1. q # 0
    BY <1>1, <1>2, <1>3
  <2>2. PICK e \in Nat : q = 1 + e
    <3> DEFINE g == q - 1
    <3>1. g \in Nat /\ q = 1 + g
      BY <2>1, <1>2
    <3> QED
      BY <3>1
  <2>3. m * q = m + m * e /\ m * e \in Nat
    BY <2>2, <1>1
  <2>4. m <= n
    BY <2>3, <1>1, <1>2, <1>3
  <2>5. CtlCount(n) = m
    BY <1>3 DEF CtlCount, r, m
  <2> QED
    BY <2>4, <2>5, <1>1 DEF m
<1>4. CASE r # 0
  <2>1. CtlCount(n) = r
    BY <1>4 DEF CtlCount, r, m
  <2>2. r <= n
    BY <1>2
  <2> QED
    BY <2>1, <2>2, <1>1, <1>2, <1>4 DEF m
<1> QED
  BY <1>2, <1>3, <1>4

LEMMA AppendInOrder ==
  ASSUME moved \in Seq(Int), InOrder, hdCmd.lba \in Nat, hdCmd' = hdCmd,
         moved' = Append(moved, hdCmd.lba + Done)
  PROVE  InOrder' /\ Done' = Done + 1 /\ Done \in Nat
<1>1. Len(moved) \in Nat /\ Len(moved') = Len(moved) + 1
  OBVIOUS
<1>2. \A k \in 1 .. Len(moved) + 1 : moved'[k] = IF k <= Len(moved) THEN moved[k] ELSE hdCmd.lba + Len(moved)
  BY DEF Done
<1>3. \A k \in 1 .. Len(moved) : moved[k] = hdCmd.lba + k - 1
  BY <1>1 DEF InOrder, Done
<1>4. \A k \in 1 .. Len(moved) + 1 : moved'[k] = hdCmd.lba + k - 1
  BY <1>1, <1>2, <1>3
<1>5. moved' = [k \in 1 .. Len(moved') |-> moved'[k]]
  <2>1. moved' \in Seq(Int)
    BY <1>1 DEF Done
  <2> QED
    BY <2>1
<1>6. moved' = [k \in 1 .. Len(moved') |-> hdCmd'.lba + k - 1]
  BY <1>1, <1>4, <1>5
<1> QED
  BY <1>1, <1>6 DEF InOrder, Done

LEMMA HdInitOK == HdInit => HdInv
<1> SUFFICES ASSUME HdInit PROVE HdInv
  OBVIOUS
<1> USE HdSizes DEF HdInit
<1>1. HdTypes
  <2>1. moved \in Seq(Int) /\ ctl \in [busy : BOOLEAN, drq : BOOLEAN, irq : BOOLEAN, left : 0 .. COUNT_MOD, op : Ops, lba : Int]
    BY DEF CtlIdle, Ops
  <2>2. hdCmd \in [op : Ops, lba : Nat, sects : Nat]
    BY DEF NoCmd, Ops
  <2>3. open_cnt \in 0 .. MaxOpen /\ hdLeft \in Nat /\ ~ ctl.drq
    BY DEF CtlIdle
  <2> QED
    BY <2>1, <2>2, <2>3 DEF HdTypes
<1>2. BaseOK
  BY DEF BaseOK, NoWalk
<1>3. HdPlace
  BY DEF HdPlace, Busy, Moving, NoReq
<1>4. InStep
  BY DEF InStep, CtlIdle
<1>5. Counted
  BY DEF Counted, Moving
<1> QED
  BY <1>1, <1>2, <1>3, <1>4, <1>5 DEF HdInv

\* A command is filled in: HD has nothing under way.
LEMMA GiveKeeps ==
  ASSUME HdInv, NEW op \in {"READ", "WRITE", "IDENTIFY"}, NEW lba \in Nat, NEW n \in Nat, n > 0,
         Give(op, lba, n), hdPc \in {"idle", "identified", "table"},
         open_cnt' \in 0 .. MaxOpen, UNCHANGED <<ctl, hdInt, faulty>>
  PROVE  HdTypes' /\ InStep' /\ Counted'
<1> USE DEF HdInv
<1>1. /\ hdCmd' = [op |-> op, lba |-> lba, sects |-> n]
      /\ hdLeft' = n /\ moved' = <<>> /\ hdPc' = "hd_cmd_out"
  BY DEF Give
<1>2. HdTypes'
  <2>1. hdCmd' \in [op : Ops, lba : Nat, sects : Nat] /\ moved' \in Seq(Int) /\ hdLeft' \in Nat
    BY <1>1 DEF Ops
  <2> QED
    BY <1>1, <2>1 DEF HdTypes, Busy
<1>3. InStep'
  BY <1>1 DEF InStep
<1>4. Counted'
  BY <1>1 DEF Counted, Moving
<1> QED
  BY <1>2, <1>3, <1>4

LEMMA ReceiveKeeps ==
  ASSUME HdInv, NEW r \in HdRequests, Receive(r)
  PROVE  HdInv'
<1> USE DEF HdInv
<1>0. /\ hdPc = "idle" /\ hdReq' = r /\ UNCHANGED <<walk, base, ctl, hdInt, faulty>>
      /\ r.first \in Nat /\ r.sects \in Nat /\ r.sects > 0
  BY HdSizes DEF Receive
<1>1. BaseOK'
  BY <1>0 DEF BaseOK
<1>2. CASE DevOpen(r)
  <2>1. /\ Give("IDENTIFY", 0, 1) /\ UNCHANGED open_cnt /\ open_cnt < MaxOpen /\ r.type = "DEV_OPEN"
    BY <1>2 DEF DevOpen
  <2>2. open_cnt' \in 0 .. MaxOpen
    BY <2>1 DEF HdTypes
  <2>3. HdTypes' /\ InStep' /\ Counted'
    BY <1>0, <2>1, <2>2, GiveKeeps
  <2>4. HdPlace'
    BY <1>0, <2>1 DEF HdPlace, Give, Busy, Moving
  <2> QED
    BY <1>1, <2>3, <2>4
<1>3. CASE hd_rdwt(r)
  <2>1. /\ r.type \in {"READ", "WRITE"} /\ r.dev \in DOMAIN base
        /\ Give(r.type, base[r.dev] + r.first, r.sects) /\ UNCHANGED open_cnt
    BY <1>3 DEF hd_rdwt
  <2>2. base[r.dev] + r.first \in Nat /\ open_cnt' \in 0 .. MaxOpen
    BY <1>0, <2>1, SMTT(40) DEF BaseOK, HdTypes
  <2>3. HdTypes' /\ InStep' /\ Counted'
    BY <1>0, <2>1, <2>2, GiveKeeps
  <2>4. HdPlace'
    BY <1>0, <2>1 DEF HdPlace, Give, Busy, Moving
  <2> QED
    BY <1>1, <2>3, <2>4
<1>4. CASE DevClose(r) \/ hd_ioctl(r)
  <2>1. /\ hdPc' = "reply" /\ UNCHANGED <<hdCmd, hdLeft, moved>> /\ r.type \in {"DEV_CLOSE", "DEV_IOCTL"}
        /\ open_cnt' \in 0 .. MaxOpen
    BY <1>4, HdSizes DEF DevClose, hd_ioctl, HdTypes
  <2>2. HdTypes'
    BY <1>0, <2>1 DEF HdTypes
  <2>3. HdPlace'
    BY <1>0, <2>1 DEF HdPlace, Busy, Moving
  <2>4. InStep'
    BY <1>0, <2>1 DEF InStep
  <2>5. Counted'
    BY <1>0, <2>1 DEF Counted, Moving
  <2> QED
    BY <1>1, <2>2, <2>3, <2>4, <2>5
<1> QED
  BY <1>2, <1>3, <1>4 DEF Receive

LEMMA CommandKeeps == ASSUME HdInv, hd_cmd_out PROVE HdInv'
<1> USE DEF HdInv
<1>0. /\ hdPc = "hd_cmd_out" /\ UNCHANGED <<hdReq, hdCmd, hdLeft, moved, walk, open_cnt, base, hdInt, faulty>>
      /\ hdLeft > 0 /\ hdCmd.sects > 0 /\ hdCmd.sects \in Nat
  BY DEF hd_cmd_out, HdPlace, Busy, HdTypes
<1>1. BaseOK'
  BY <1>0 DEF BaseOK
<1>2. CASE ctl.busy
  <2>1. faulty /\ hdPc' = "panic" /\ UNCHANGED ctl
    BY <1>2 DEF hd_cmd_out, Stuck
  <2>2. HdTypes'
    BY <1>0, <2>1 DEF HdTypes
  <2>3. HdPlace'
    BY <1>0, <2>1 DEF HdPlace, Busy, Moving
  <2> QED
    BY <1>0, <1>1, <2>1, <2>2, <2>3 DEF InStep, Counted
<1>3. CASE ~ ctl.busy
  <2>1. /\ ctl' = [busy |-> TRUE, drq |-> FALSE, irq |-> FALSE, op |-> hdCmd.op, lba |-> hdCmd.lba, left |-> Given]
        /\ hdPc' = IF hdCmd.op = "WRITE" THEN "waitfor_drq" ELSE "interrupt_wait"
    BY <1>3 DEF hd_cmd_out, AfterCommand, Given, CtlCount
  <2>2. Given \in 1 .. COUNT_MOD /\ Given' = Given
    BY <1>0, CountFits DEF Given
  <2>3. HdTypes'
    <3>1. ctl' \in [busy : BOOLEAN, drq : BOOLEAN, irq : BOOLEAN, left : 0 .. COUNT_MOD, op : Ops, lba : Int]
      BY <2>1, <2>2, HdSizes DEF HdTypes
    <3> QED
      BY <1>0, <2>1, <3>1 DEF HdTypes, Busy, Moving
  <2>4. HdPlace'
    BY <1>0, <2>1 DEF HdPlace, Busy, Moving
  <2>5. InStep'
    BY <1>0, <2>1, <2>2 DEF InStep, Counted
  <2>6. Counted'
    <3>1. CASE faulty
      BY <1>0, <3>1 DEF Counted
    <3>2. CASE ~ faulty
      <4>1. moved = <<>> /\ hdLeft = hdCmd.sects /\ Done = 0 /\ Done' = 0 /\ Extra' = 0
        BY <3>2, <1>0, <2>1 DEF Counted, Done, Extra
      <4>2. InOrder'
        BY <4>1, <1>0 DEF InOrder, Done
      <4>3. hdCmd.lba \in Nat /\ hdLeft \in Nat
        BY DEF HdTypes
      <4> QED
        BY <4>1, <4>2, <4>3, <1>0, <2>1, <2>2 DEF Counted, Moving
    <3> QED
      BY <3>1, <3>2
  <2> QED
    BY <1>1, <2>3, <2>4, <2>5, <2>6
<1> QED
  BY <1>2, <1>3

LEMMA WaitforKeeps == ASSUME HdInv, waitfor_drq PROVE HdInv'
<1> USE DEF HdInv
<1>0. /\ hdPc = "waitfor_drq" /\ hdPc' \in {"port_write", "panic"} /\ hdCmd.op = "WRITE"
      /\ UNCHANGED <<hdReq, hdCmd, hdLeft, moved, walk, open_cnt, base, hdInt, faulty>>
      /\ ctl' = [ctl EXCEPT !.irq = FALSE]
      /\ hdPc' = "port_write" => ctl.drq
      /\ hdPc' = "panic" => faulty
  BY DEF waitfor_drq, HdPlace, Stuck
<1>1. /\ ctl'.busy = ctl.busy /\ ctl'.drq = ctl.drq /\ ctl'.irq = FALSE /\ ctl'.left = ctl.left
      /\ ctl'.op = ctl.op /\ ctl'.lba = ctl.lba
      /\ ctl' \in [busy : BOOLEAN, drq : BOOLEAN, irq : BOOLEAN, left : 0 .. COUNT_MOD, op : Ops, lba : Int]
  BY <1>0 DEF HdTypes
<1>2. HdTypes'
  BY <1>0, <1>1 DEF HdTypes, Busy, Moving
<1>3. BaseOK'
  BY <1>0 DEF BaseOK
<1>4. HdPlace'
  BY <1>0 DEF HdPlace, Busy, Moving
<1>5. InStep'
  BY <1>0, <1>1 DEF InStep
<1>6. Counted'
  <2>1. CASE faulty
    BY <1>0, <2>1 DEF Counted
  <2>2. CASE ~ faulty
    BY <1>0, <1>1, <2>2 DEF Counted, Moving, Extra, InOrder, Done, Given
  <2> QED
    BY <2>1, <2>2
<1> QED
  BY <1>2, <1>3, <1>4, <1>5, <1>6

\* A sector goes over the data port.
LEMMA MoveFacts ==
  ASSUME HdInv, MoveSector, hdCmd' = hdCmd, hdPc \in {"port_read", "port_write"}
  PROVE  /\ moved' \in Seq(Int)
         /\ ctl' \in [busy : BOOLEAN, drq : BOOLEAN, irq : BOOLEAN, left : 0 .. COUNT_MOD, op : Ops, lba : Int]
         /\ ctl'.drq => ctl'.left > 0
         /\ ~ faulty =>
              /\ ctl'.drq = FALSE /\ ctl'.irq = FALSE /\ ctl'.left = ctl.left - 1 /\ ctl.left > 0
              /\ ctl'.op = hdCmd.op /\ ctl'.lba = hdCmd.lba + Done' /\ (ctl'.busy <=> hdCmd.op = "WRITE" \/ ctl.left > 1)
              /\ Done' = Done + 1 /\ InOrder' /\ moved' # <<>> /\ Done \in Nat
<1> USE DEF HdInv
<1>0. /\ ctl.left \in 0 .. COUNT_MOD /\ ctl.lba \in Int /\ moved \in Seq(Int)
      /\ ctl \in [busy : BOOLEAN, drq : BOOLEAN, irq : BOOLEAN, left : 0 .. COUNT_MOD, op : Ops, lba : Int]
      /\ ctl.drq => ctl.left > 0
      /\ hdCmd.lba \in Nat
  BY DEF HdTypes
<1>1. moved' \in Seq(Int) /\ moved' # <<>>
  BY <1>0 DEF MoveSector
<1>2. CASE ~ ctl.drq
  <2>1. ctl' = ctl /\ faulty
    BY <1>2 DEF MoveSector, InStep
  <2> QED
    BY <1>0, <1>1, <1>2, <2>1
<1>3. CASE ctl.drq
  <2>1. /\ ctl' = [ctl EXCEPT !.drq = FALSE, !.left = @ - 1, !.lba = @ + 1, !.busy = ctl.op = "WRITE" \/ ctl.left > 1]
        /\ moved' = Append(moved, ctl.lba)
    BY <1>3 DEF MoveSector
  <2>2. /\ ctl'.drq = FALSE /\ ctl'.left = ctl.left - 1 /\ ctl'.lba = ctl.lba + 1 /\ ctl'.op = ctl.op
        /\ ctl'.busy = (ctl.op = "WRITE" \/ ctl.left > 1) /\ ctl'.irq = ctl.irq
    BY <1>0, <2>1
  <2>3. ctl' \in [busy : BOOLEAN, drq : BOOLEAN, irq : BOOLEAN, left : 0 .. COUNT_MOD, op : Ops, lba : Int]
    <3>1. ctl'.left \in 0 .. COUNT_MOD /\ ctl'.lba \in Int
      BY <1>0, <1>3, <2>2, HdSizes
    <3>2. (ctl.op = "WRITE" \/ ctl.left > 1) \in BOOLEAN
      OBVIOUS
    <3> QED
      BY <1>0, <2>1, <2>2, <3>1, <3>2
  <2>4. ASSUME ~ faulty
        PROVE  /\ ctl.op = hdCmd.op /\ ctl.lba = hdCmd.lba + Done /\ InOrder /\ ~ ctl.irq
    <3>1. ~ ctl.irq
      BY <2>4 DEF InStep
    <3>2. hdPc \in Moving
      BY DEF Moving
    <3> QED
      BY <1>0, <1>3, <2>4, <3>1, <3>2 DEF Counted
  <2>5. ASSUME ~ faulty PROVE InOrder' /\ Done' = Done + 1 /\ Done \in Nat
    BY <2>4, <2>5, <2>1, <1>0, AppendInOrder
  <2>6. ASSUME ~ faulty PROVE ctl'.lba = hdCmd.lba + Done'
    BY <2>4, <2>5, <2>6, <2>2, <1>0
  <2> QED
    BY <1>0, <1>1, <1>3, <2>2, <2>3, <2>4, <2>5, <2>6
<1> QED
  BY <1>2, <1>3

LEMMA WriteKeeps == ASSUME HdInv, port_write PROVE HdInv'
<1> USE DEF HdInv
<1>0. /\ hdPc = "port_write" /\ hdPc' = "interrupt_wait" /\ MoveSector /\ hdCmd.op = "WRITE"
      /\ UNCHANGED <<hdReq, hdCmd, hdLeft, walk, open_cnt, base, hdInt, faulty>>
  BY DEF port_write, HdPlace
<1>1. /\ moved' \in Seq(Int)
      /\ ctl' \in [busy : BOOLEAN, drq : BOOLEAN, irq : BOOLEAN, left : 0 .. COUNT_MOD, op : Ops, lba : Int]
      /\ ctl'.drq => ctl'.left > 0
      /\ ~ faulty =>
           /\ ctl'.drq = FALSE /\ ctl'.irq = FALSE /\ ctl'.left = ctl.left - 1 /\ ctl.left > 0
           /\ ctl'.op = hdCmd.op /\ ctl'.lba = hdCmd.lba + Done' /\ (ctl'.busy <=> hdCmd.op = "WRITE" \/ ctl.left > 1)
           /\ Done' = Done + 1 /\ InOrder' /\ moved' # <<>> /\ Done \in Nat
  BY <1>0, MoveFacts
<1>2. HdTypes'
  BY <1>0, <1>1 DEF HdTypes, Busy, Moving
<1>3. BaseOK'
  BY <1>0 DEF BaseOK
<1>4. HdPlace'
  BY <1>0 DEF HdPlace, Busy, Moving
<1>5. InStep'
  BY <1>0, <1>1 DEF InStep
<1>6. Counted'
  <2>1. CASE faulty
    BY <1>0, <2>1 DEF Counted
  <2>2. CASE ~ faulty
    <3>1. /\ Done + hdLeft = hdCmd.sects + Extra /\ ctl.left + Done = Given /\ Extra = 0 /\ Extra' = 1
          /\ Given' = Given
      BY <1>0, <2>2 DEF Counted, Moving, Extra, Given
    <3>2. hdLeft \in Nat /\ hdCmd.sects \in Nat /\ ctl.left \in Nat
      BY DEF HdTypes
    <3>3. (Done + 1) + hdLeft = hdCmd.sects + 1 /\ (ctl.left - 1) + (Done + 1) = Given /\ Done \in Nat
      <4> DEFINE d == Done
                 c == ctl.left
                 l == hdLeft
                 n == hdCmd.sects
                 g == Given
      <4>1. d \in Nat /\ c \in Nat /\ l \in Nat /\ n \in Nat /\ d + l = n + 0 /\ c + d = g
        BY <1>1, <2>2, <3>1, <3>2
      <4> HIDE DEF d, c, l, n, g
      <4>2. (d + 1) + l = n + 1 /\ (c - 1) + (d + 1) = g /\ d \in Nat
        BY <4>1
      <4> QED
        BY <4>2 DEF d, c, l, n, g
    <3>4. Done' + hdLeft' = hdCmd'.sects + Extra' /\ ctl'.left + Done' = Given'
      BY <1>0, <1>1, <2>2, <3>1, <3>3
    <3> QED
      BY <1>0, <1>1, <2>2, <3>4 DEF Counted, Moving
  <2> QED
    BY <2>1, <2>2
<1> QED
  BY <1>2, <1>3, <1>4, <1>5, <1>6

LEMMA ReadKeepsOrder == ASSUME HdInv, port_read PROVE HdInv'
<1> USE DEF HdInv
<1>0. /\ hdPc = "port_read" /\ MoveSector /\ hdCmd.op # "WRITE" /\ hdLeft' = hdLeft - 1 /\ hdLeft > 0 /\ hdLeft \in Nat
      /\ UNCHANGED <<hdReq, hdCmd, walk, open_cnt, base, hdInt, faulty>> /\ hdCmd.sects \in Nat /\ hdCmd.sects > 0
  BY DEF port_read, HdPlace, Busy, Moving, HdTypes
<1>1. /\ moved' \in Seq(Int)
      /\ ctl' \in [busy : BOOLEAN, drq : BOOLEAN, irq : BOOLEAN, left : 0 .. COUNT_MOD, op : Ops, lba : Int]
      /\ ctl'.drq => ctl'.left > 0
      /\ ~ faulty =>
           /\ ctl'.drq = FALSE /\ ctl'.irq = FALSE /\ ctl'.left = ctl.left - 1 /\ ctl.left > 0
           /\ ctl'.op = hdCmd.op /\ ctl'.lba = hdCmd.lba + Done' /\ (ctl'.busy <=> hdCmd.op = "WRITE" \/ ctl.left > 1)
           /\ Done' = Done + 1 /\ InOrder' /\ moved' # <<>> /\ Done \in Nat
  BY <1>0, MoveFacts
<1>2. \/ hdLeft > 1 /\ hdPc' = "interrupt_wait"
      \/ hdLeft = 1 /\ hdPc' = "reply" /\ hdReq.type = "READ"
      \/ hdLeft = 1 /\ hdPc' = "identified" /\ hdReq.type # "READ" /\ hdCmd.op = "IDENTIFY"
      \/ hdLeft = 1 /\ hdPc' = "table" /\ hdReq.type # "READ" /\ hdCmd.op # "IDENTIFY"
  <2>1. hdPc' = CASE hdLeft > 1 -> "interrupt_wait"
                  [] hdLeft = 1 /\ hdReq.type = "READ" -> "reply"
                  [] hdLeft = 1 /\ hdCmd.op = "IDENTIFY" -> "identified"
                  [] OTHER -> "table"
    BY DEF port_read
  <2>2. CASE hdLeft > 1
    BY <2>1, <2>2, <1>0
  <2>3. CASE hdLeft = 1 /\ hdReq.type = "READ"
    <3>1. hdCmd.op # "IDENTIFY"
      BY <2>3 DEF HdPlace
    <3> QED
      BY <2>1, <2>3, <3>1, <1>0
  <2>4. CASE hdLeft = 1 /\ hdReq.type # "READ" /\ hdCmd.op = "IDENTIFY"
    BY <2>1, <2>4, <1>0
  <2>5. CASE hdLeft = 1 /\ hdReq.type # "READ" /\ hdCmd.op # "IDENTIFY"
    BY <2>1, <2>5, <1>0
  <2> QED
    BY <2>2, <2>3, <2>4, <2>5, <1>0
<1>3. HdTypes'
  <2>1. hdPc' \in {"idle", "reply", "identified", "table", "panic"} \cup Busy /\ hdLeft' \in Nat
    BY <1>0, <1>2 DEF Busy, Moving
  <2> QED
    BY <2>1, <1>0, <1>1 DEF HdTypes
<1>4. BaseOK'
  BY <1>0 DEF BaseOK
<1>5. HdPlace'
  <2>1. hdReq.type = "WRITE" => hdCmd.op = "WRITE"
    BY DEF HdPlace
  <2>2. hdReq.type \in {"READ", "DEV_OPEN"} /\ hdReq'.type = hdReq.type
    BY <2>1, <1>0 DEF HdPlace, Busy, Moving
  <2>3. CASE hdLeft > 1 /\ hdPc' = "interrupt_wait"
    BY <2>2, <2>3, <1>0 DEF HdPlace, Busy, Moving
  <2>4. CASE hdPc' = "reply" /\ hdReq.type = "READ"
    BY <2>2, <2>4, <1>0 DEF HdPlace, Busy, Moving
  <2>5. CASE hdPc' \in {"identified", "table"} /\ hdReq.type # "READ" /\ (hdPc' = "identified" => hdCmd.op = "IDENTIFY")
    BY <2>2, <2>5, <1>0 DEF HdPlace, Busy, Moving
  <2> QED
    BY <2>3, <2>4, <2>5, <1>2
<1>6. ASSUME ~ faulty
      PROVE  /\ Done' + hdLeft' = hdCmd.sects /\ ctl'.left + Done' = Given
             /\ hdLeft = 1 => ctl.left = 1
  <2>1. Done + hdLeft = hdCmd.sects + Extra /\ ctl.left + Done = Given /\ Extra = 0
    BY <1>0, <1>6 DEF Counted, Moving, Extra
  <2>2. Given <= hdCmd.sects /\ Given \in Nat /\ ctl.left \in Nat
    BY <1>0, CountFits, HdSizes DEF Given, HdTypes
  <2>3. (Done + 1) + (hdLeft - 1) = hdCmd.sects /\ (ctl.left - 1) + (Done + 1) = Given /\ Done \in Nat
    <3> DEFINE d == Done
               c == ctl.left
               l == hdLeft
               n == hdCmd.sects
               g == Given
    <3>1. d \in Nat /\ c \in Nat /\ l \in Nat /\ n \in Nat /\ d + l = n + 0 /\ c + d = g
      BY <1>0, <1>1, <1>6, <2>1, <2>2
    <3> HIDE DEF d, c, l, n, g
    <3>2. (d + 1) + (l - 1) = n /\ (c - 1) + (d + 1) = g /\ d \in Nat
      BY <3>1
    <3> QED
      BY <3>2 DEF d, c, l, n, g
  <2>4. hdLeft = 1 => ctl.left = 1
    BY <1>0, <1>1, <1>6, <2>1, <2>2, SMTT(40)
  <2> QED
    BY <1>0, <1>1, <1>6, <2>3, <2>4
<1>7. InStep'
  <2>1. CASE faulty
    BY <2>1, <1>0 DEF InStep
  <2>2. CASE ~ faulty
    <3>1. ~ hdInt' /\ ctl'.drq = FALSE /\ ctl'.irq = FALSE
      BY <2>2, <1>0, <1>1 DEF InStep
    <3>2. hdLeft = 1 => ctl'.busy = FALSE
      BY <2>2, <1>0, <1>1, <1>6
    <3>3. ctl'.busy => ctl'.left > 0
      BY <2>2, <1>0, <1>1 DEF HdTypes
    <3> QED
      BY <2>2, <3>1, <3>2, <3>3, <1>0, <1>2 DEF InStep
  <2> QED
    BY <2>1, <2>2
<1>8. Counted'
  <2>1. CASE faulty
    BY <2>1, <1>0 DEF Counted
  <2>2. CASE ~ faulty
    <3>1. Extra' = 0 /\ Given' = Given
      BY <1>0 DEF Extra, Given
    <3>2. CASE hdPc' = "interrupt_wait"
      <4>1. hdCmd'.sects + Extra' = hdCmd.sects
        BY <1>0, <3>1
      <4> QED
        BY <2>2, <3>1, <3>2, <4>1, <1>0, <1>1, <1>6 DEF Counted, Moving
    <3>3. CASE hdPc' = "reply" /\ hdLeft = 1
      <4>1. Done' = hdCmd'.sects
        BY <2>2, <3>3, <1>0, <1>1, <1>6
      <4> QED
        BY <2>2, <3>3, <4>1, <1>0, <1>1 DEF Counted, Moving
    <3>4. CASE hdPc' \in {"identified", "table"}
      BY <3>4 DEF Counted, Moving
    <3> QED
      BY <1>2, <3>2, <3>3, <3>4
  <2> QED
    BY <2>1, <2>2
<1> QED
  BY <1>3, <1>4, <1>5, <1>7, <1>8

LEMMA WaitKeeps == ASSUME HdInv, interrupt_wait PROVE HdInv'
<1> USE DEF HdInv
<1>0. /\ hdPc = "interrupt_wait" /\ hdPc' = "receive"
      /\ UNCHANGED <<hdReq, hdCmd, hdLeft, moved, walk, open_cnt, base, ctl, hdInt, faulty>>
  BY DEF interrupt_wait
<1>1. HdTypes'
  BY <1>0 DEF HdTypes, Busy, Moving
<1>2. BaseOK'
  BY <1>0 DEF BaseOK
<1>3. HdPlace'
  BY <1>0 DEF HdPlace, Busy, Moving
<1>4. InStep'
  BY <1>0 DEF InStep
<1>5. Counted'
  BY <1>0 DEF Counted, Moving, Extra, Given, InOrder, Done
<1> QED
  BY <1>1, <1>2, <1>3, <1>4, <1>5

LEMMA InterruptKeeps == ASSUME HdInv, hard_int PROVE HdInv'
<1> USE DEF HdInv
<1>0. /\ hdPc = "receive" /\ hdInt /\ hdInt' = FALSE /\ hdLeft > 0 /\ hdLeft \in Nat
      /\ UNCHANGED <<hdReq, hdCmd, moved, walk, open_cnt, base, ctl, faulty>>
      /\ hdReq.type \in {"READ", "WRITE", "DEV_OPEN"}
  BY DEF hard_int, HdPlace, Busy, Moving, HdTypes
<1>1. \/ hdCmd.op # "WRITE" /\ hdPc' = "port_read" /\ hdLeft' = hdLeft
      \/ hdCmd.op = "WRITE" /\ hdLeft' = hdLeft - 1 /\ hdLeft = 1 /\ hdPc' = "reply"
      \/ hdCmd.op = "WRITE" /\ hdLeft' = hdLeft - 1 /\ hdLeft > 1 /\ hdPc' = "waitfor_drq"
  BY <1>0 DEF hard_int
<1>2. HdTypes'
  <2>1. hdPc' \in {"idle", "reply", "identified", "table", "panic"} \cup Busy /\ hdLeft' \in Nat
    BY <1>0, <1>1 DEF Busy, Moving
  <2> QED
    BY <2>1, <1>0 DEF HdTypes
<1>3. BaseOK'
  BY <1>0 DEF BaseOK
<1>4. HdPlace'
  BY <1>0, <1>1 DEF HdPlace, Busy, Moving
<1>5. ASSUME ~ faulty
      PROVE  /\ hdPc' = "port_read" => Extra' = Extra
             /\ hdCmd.op = "WRITE" => Done + hdLeft' = hdCmd.sects /\ (hdLeft = 1 => ctl.left = 0)
  <2>1. Done + hdLeft = hdCmd.sects + Extra /\ ctl.left + Done = Given
    BY <1>0, <1>5 DEF Counted, Moving
  <2>2. /\ Given <= hdCmd.sects /\ Given \in Nat /\ ctl.left \in Nat /\ hdCmd.sects \in Nat
        /\ Done \in Nat
    BY <1>0, CountFits, HdSizes DEF Given, HdTypes, HdPlace, Busy, Moving, Done
  <2>3. CASE hdCmd.op # "WRITE"
    BY <2>3, <1>0, <1>1 DEF Extra
  <2>4. CASE hdCmd.op = "WRITE"
    <3>1. Extra = 1
      BY <2>4, <1>0 DEF Extra
    <3>2. Done + (hdLeft - 1) = hdCmd.sects /\ (hdLeft = 1 => ctl.left = 0)
      BY <2>1, <2>2, <3>1, <1>0
    <3> QED
      BY <2>4, <3>2, <1>1
  <2> QED
    BY <2>3, <2>4
<1>6. InStep'
  <2>1. CASE faulty
    BY <2>1, <1>0 DEF InStep
  <2>2. CASE ~ faulty
    <3>1. ~ ctl.irq /\ ~ ctl.busy /\ (hdCmd.op # "WRITE" => ctl.drq)
      BY <2>2, <1>0 DEF InStep
    <3>2. hdPc' = "reply" => ~ ctl.drq
      BY <2>2, <1>1, <1>5 DEF HdTypes
    <3> QED
      BY <2>2, <3>1, <3>2, <1>0, <1>1 DEF InStep
  <2> QED
    BY <2>1, <2>2
<1>7. Counted'
  <2>1. CASE faulty
    BY <2>1, <1>0 DEF Counted
  <2>2. CASE ~ faulty
    <3>1. /\ Done + hdLeft = hdCmd.sects + Extra /\ ctl.left + Done = Given /\ InOrder
          /\ ctl.left > 0 => ctl.op = hdCmd.op /\ ctl.lba = hdCmd.lba + Done
      BY <2>2, <1>0 DEF Counted, Moving
    <3>2. Done' = Done /\ Given' = Given /\ InOrder' /\ hdCmd.sects \in Nat
      BY <3>1, <1>0 DEF Done, Given, InOrder, HdTypes
    <3>3. CASE hdCmd.op # "WRITE"
      <4>1. Extra' = Extra /\ hdPc' = "port_read" /\ hdLeft' = hdLeft
        BY <3>3, <2>2, <1>1, <1>5
      <4> QED
        BY <3>1, <3>2, <4>1, <1>0 DEF Counted, Moving
    <3>4. CASE hdCmd.op = "WRITE" /\ hdPc' = "waitfor_drq"
      <4>1. Done + hdLeft' = hdCmd.sects /\ Extra' = 0
        BY <3>4, <2>2, <1>5 DEF Extra
      <4>2. Done + hdLeft' = hdCmd.sects + Extra'
        BY <4>1, <3>2
      <4> QED
        BY <3>1, <3>2, <3>4, <4>2, <1>0 DEF Counted, Moving
    <3>5. CASE hdCmd.op = "WRITE" /\ hdPc' = "reply"
      <4>1. Done + hdLeft' = hdCmd.sects /\ hdLeft' = 0 /\ Done \in Nat
        BY <3>5, <2>2, <1>0, <1>1, <1>5 DEF Done, HdTypes
      <4>2. Done = hdCmd.sects
        BY <4>1
      <4> QED
        BY <3>2, <3>5, <4>2, <1>0 DEF Counted, Moving
    <3> QED
      BY <3>3, <3>4, <3>5, <1>1
  <2> QED
    BY <2>1, <2>2
<1> QED
  BY <1>2, <1>3, <1>4, <1>6, <1>7

\* What the controller and the handler do leaves the driver where it is.
LEMMA ControllerKeeps == ASSUME HdInv, hd_handler \/ Ctl \/ CtlFails PROVE HdInv'
<1> USE DEF HdInv
<1>0. /\ UNCHANGED <<hdPc, hdReq, hdCmd, hdLeft, moved, walk, open_cnt, base>>
      /\ ctl \in [busy : BOOLEAN, drq : BOOLEAN, irq : BOOLEAN, left : 0 .. COUNT_MOD, op : Ops, lba : Int]
      /\ hdInt' \in BOOLEAN /\ faulty' \in BOOLEAN
  BY DEF hd_handler, Ctl, CtlReady, CtlWritten, CtlFails, CtlUnchanged, HdTypes
<1>1. BaseOK'
  BY <1>0 DEF BaseOK
<1>2. HdPlace'
  BY <1>0 DEF HdPlace, Busy, Moving
<1>3. ASSUME ctl' \in [busy : BOOLEAN, drq : BOOLEAN, irq : BOOLEAN, left : 0 .. COUNT_MOD, op : Ops, lba : Int],
             ctl'.drq => ctl'.left > 0
      PROVE  HdTypes'
  BY <1>0, <1>3 DEF HdTypes
<1>4. ASSUME ~ faulty', ~ faulty, ctl'.left = ctl.left, ctl.left > 0 => ctl'.op = ctl.op /\ ctl'.lba = ctl.lba
      PROVE  Counted'
  BY <1>0, <1>4 DEF Counted, Extra, Given, InOrder, Done
<1>5. CASE hd_handler
  <2>1. /\ ctl' = [ctl EXCEPT !.irq = FALSE] /\ ctl.irq /\ hdInt' = TRUE /\ faulty' = faulty
    BY <1>5 DEF hd_handler
  <2>2. /\ ctl'.busy = ctl.busy /\ ctl'.drq = ctl.drq /\ ctl'.irq = FALSE /\ ctl'.left = ctl.left
        /\ ctl'.op = ctl.op /\ ctl'.lba = ctl.lba
        /\ ctl' \in [busy : BOOLEAN, drq : BOOLEAN, irq : BOOLEAN, left : 0 .. COUNT_MOD, op : Ops, lba : Int]
    BY <1>0, <2>1
  <2>3. HdTypes'
    BY <2>2, <1>3 DEF HdTypes
  <2>4. InStep'
    BY <1>0, <2>1, <2>2 DEF InStep, HdTypes, Busy, Moving
  <2>5. Counted'
    <3>1. CASE faulty
      BY <3>1, <2>1 DEF Counted
    <3> QED
      BY <3>1, <2>1, <2>2, <1>4
  <2> QED
    BY <1>1, <1>2, <2>3, <2>4, <2>5
<1>6. CASE CtlReady
  <2>1. /\ ctl.busy /\ ctl.left > 0 /\ UNCHANGED <<hdInt, faulty>>
        /\ ctl' = [ctl EXCEPT !.busy = FALSE, !.drq = TRUE, !.irq = ~ FirstOfWrite]
    BY <1>6 DEF CtlReady, CtlUnchanged
  <2>2. /\ ctl'.busy = FALSE /\ ctl'.drq = TRUE /\ ctl'.irq = ~ FirstOfWrite /\ ctl'.left = ctl.left
        /\ ctl'.op = ctl.op /\ ctl'.lba = ctl.lba
    BY <1>0, <2>1
  <2>3. ctl' \in [busy : BOOLEAN, drq : BOOLEAN, irq : BOOLEAN, left : 0 .. COUNT_MOD, op : Ops, lba : Int]
    <3>1. (~ FirstOfWrite) \in BOOLEAN
      OBVIOUS
    <3> QED
      BY <1>0, <2>1, <3>1
  <2>4. HdTypes'
    BY <2>1, <2>2, <2>3, <1>3
  <2>5. InStep'
    <3>1. CASE faulty
      BY <3>1, <2>1 DEF InStep
    <3>2. CASE ~ faulty
      <4>1. /\ hdPc \in {"waitfor_drq", "interrupt_wait", "receive"} /\ ~ hdInt
            /\ hdPc = "waitfor_drq" => moved = <<>>
            /\ hdPc # "waitfor_drq" /\ hdCmd.op = "WRITE" => moved # <<>>
        BY <3>2, <2>1 DEF InStep, HdTypes, Busy, Moving
      <4>2. ctl.op = hdCmd.op
        BY <3>2, <2>1, <4>1 DEF Counted, Moving
      <4>3. hdPc = "waitfor_drq" => FirstOfWrite
        BY <4>1, <4>2 DEF FirstOfWrite, HdPlace
      <4>4. hdPc # "waitfor_drq" => ~ FirstOfWrite
        BY <4>1, <4>2 DEF FirstOfWrite
      <4> QED
        BY <1>0, <2>1, <2>2, <4>1, <4>3, <4>4 DEF InStep
    <3> QED
      BY <3>1, <3>2
  <2>6. Counted'
    <3>1. CASE faulty
      BY <3>1, <2>1 DEF Counted
    <3> QED
      BY <3>1, <2>1, <2>2, <1>4
  <2> QED
    BY <1>1, <1>2, <2>4, <2>5, <2>6
<1>7. CASE CtlWritten
  <2>1. /\ ctl.busy /\ ctl.left = 0 /\ ~ faulty /\ ctl' = [CtlIdle EXCEPT !.irq = TRUE] /\ UNCHANGED <<hdInt, faulty>>
    BY <1>7 DEF CtlWritten, CtlUnchanged
  <2>2. /\ ctl'.busy = FALSE /\ ctl'.drq = FALSE /\ ctl'.irq = TRUE /\ ctl'.left = 0
        /\ ctl' \in [busy : BOOLEAN, drq : BOOLEAN, irq : BOOLEAN, left : 0 .. COUNT_MOD, op : Ops, lba : Int]
    <3>1. ctl' = [busy |-> FALSE, drq |-> FALSE, irq |-> TRUE, left |-> 0, op |-> "none", lba |-> 0]
      BY <2>1 DEF CtlIdle
    <3> QED
      BY <3>1, HdSizes DEF Ops
  <2>3. HdTypes'
    BY <2>2, <1>3
  <2>4. InStep'
    <3>1. hdPc \in {"interrupt_wait", "receive"} /\ hdCmd.op = "WRITE" /\ ~ hdInt /\ moved # <<>>
      BY <2>1 DEF InStep, HdTypes, Busy, Moving
    <3> QED
      BY <1>0, <2>1, <2>2, <3>1 DEF InStep
  <2>5. Counted'
    BY <2>1, <2>2, <1>4
  <2> QED
    BY <1>1, <1>2, <2>3, <2>4, <2>5
<1>8. CASE CtlFails
  <2>1. /\ faulty' = TRUE
        /\ ctl' = [CtlIdle EXCEPT !.irq = TRUE] \/ ctl' = [CtlIdle EXCEPT !.busy = TRUE]
    BY <1>8 DEF CtlFails
  <2>2. /\ ctl'.drq = FALSE
        /\ ctl' \in [busy : BOOLEAN, drq : BOOLEAN, irq : BOOLEAN, left : 0 .. COUNT_MOD, op : Ops, lba : Int]
    <3>1. PICK b \in BOOLEAN, i \in BOOLEAN :
            ctl' = [busy |-> b, drq |-> FALSE, irq |-> i, left |-> 0, op |-> "none", lba |-> 0]
      <4>1. CASE ctl' = [CtlIdle EXCEPT !.irq = TRUE]
        <5>1. ctl' = [busy |-> FALSE, drq |-> FALSE, irq |-> TRUE, left |-> 0, op |-> "none", lba |-> 0]
          BY <4>1 DEF CtlIdle
        <5> QED
          BY <5>1
      <4>2. CASE ctl' = [CtlIdle EXCEPT !.busy = TRUE]
        <5>1. ctl' = [busy |-> TRUE, drq |-> FALSE, irq |-> FALSE, left |-> 0, op |-> "none", lba |-> 0]
          BY <4>2 DEF CtlIdle
        <5> QED
          BY <5>1
      <4> QED
        BY <4>1, <4>2, <2>1
    <3> QED
      BY <3>1, HdSizes DEF Ops
  <2>3. HdTypes'
    BY <2>2, <1>3
  <2> QED
    BY <1>1, <1>2, <2>1, <2>3 DEF InStep, Counted
<1> QED
  BY <1>5, <1>6, <1>7, <1>8 DEF Ctl

\* Partition j's place among the devices.
LEMMA DeviceFacts ==
  ASSUME NEW j \in Extended, NEW i \in 0 .. NR_SUB_PER_PART - 1
  PROVE  LogicalNr(j, i) \in HdDevices /\ LogicalNr(j, i) \notin Prim
<1>1. j \in 1 .. NR_PART_PER_DRIVE
  BY HdSizes
<1>2. LogicalNr(j, i) \in HdDevices
  BY <1>1 DEF HdDevices
<1>3. LogicalNr(j, i) \notin Prim
  <2> DEFINE n == (j - 1) * NR_SUB_PER_PART
  <2>1. n \in Nat
    BY <1>1, HdSizes
  <2>2. LogicalNr(j, i) = NR_PART_PER_DRIVE + 1 + n + i
    BY DEF LogicalNr, MINOR_hd1a
  <2> HIDE DEF n
  <2>3. LogicalNr(j, i) > NR_PART_PER_DRIVE
    BY <2>1, <2>2, HdSizes
  <2> QED
    BY <2>3, HdSizes DEF Prim
<1> QED
  BY <1>2, <1>3

\* The next extended partition, if there is one, has its first table read.
LEMMA NextExtended ==
  ASSUME NEW j \in Nat, NextExt(j) # {}
  PROVE  \E k \in Extended :
           /\ k > 0 /\ k \in 1 .. NR_PART_PER_DRIVE /\ Mbr[k].start \in DOMAIN Ebr /\ Mbr[k].start \in Nat
           /\ k = CHOOSE k1 \in NextExt(j) : \A i \in NextExt(j) : k1 <= i
<1> DEFINE k == CHOOSE k \in NextExt(j) : \A i \in NextExt(j) : k <= i
<1>1. NextExt(j) \in SUBSET Nat /\ NextExt(j) \subseteq Extended
  <2>1. NextExt(j) \subseteq Extended
    BY DEF NextExt
  <2>2. 1 .. NR_PART_PER_DRIVE \subseteq Nat
    BY HdSizes
  <2> QED
    BY <2>1, <2>2, HdSizes
<1>2. \E x \in NextExt(j) : \A y \in NextExt(j) : x <= y
  BY <1>1, LeastExists
<1>3. k \in NextExt(j)
  BY <1>2
<1>4. k \in Extended /\ k \in 1 .. NR_PART_PER_DRIVE
  BY <1>1, <1>3, HdSizes
<1> HIDE DEF k
<1>5. Mbr[k].start \in DOMAIN Ebr
  BY <1>4, ChainLinked
<1>6. k > 0 /\ Mbr[k].start \in Nat
  BY <1>4, HdSizes
<1> QED
  BY <1>4, <1>5, <1>6 DEF k

\* The partitions keep their places in the table while the walk goes on.
BaseTypes(b) == b \in [DOMAIN b -> Nat] /\ DOMAIN b \subseteq HdDevices

LEMMA WalksOn ==
  ASSUME HdInv, NEW j \in Nat, GetExtended(j), BaseTypes(base'), hdPc \in {"identified", "table"},
         \A k \in Extended : k \in DOMAIN base' /\ base'[k] = Mbr[k].start,
         hdReq' = hdReq, open_cnt' \in 0 .. MaxOpen, UNCHANGED <<ctl, hdInt, faulty>>
  PROVE  HdInv'
<1> USE DEF HdInv
<1>0. hdReq.type = "DEV_OPEN"
  BY DEF HdPlace
<1>1. CASE NextExt(j) = {}
  <2>1. walk' = NoWalk /\ hdPc' = "reply" /\ UNCHANGED <<hdCmd, hdLeft, moved>>
    BY <1>1 DEF GetExtended
  <2>2. HdTypes'
    BY <2>1 DEF HdTypes
  <2>3. BaseOK'
    BY <2>1, HdSizes DEF BaseOK, BaseTypes, NoWalk
  <2>4. HdPlace'
    BY <1>0, <2>1 DEF HdPlace, Busy, Moving
  <2>5. InStep'
    BY <2>1 DEF InStep
  <2>6. Counted'
    BY <1>0, <2>1 DEF Counted, Moving
  <2> QED
    BY <2>2, <2>3, <2>4, <2>5, <2>6
<1>2. CASE NextExt(j) # {}
  <2>1. PICK k \in Extended :
           /\ k > 0 /\ k \in 1 .. NR_PART_PER_DRIVE /\ Mbr[k].start \in DOMAIN Ebr /\ Mbr[k].start \in Nat
           /\ k = CHOOSE k1 \in NextExt(j) : \A i \in NextExt(j) : k1 <= i
    BY <1>2, NextExtended
  <2>2. GetTable([j |-> k, i |-> 0, s |-> Mbr[k].start])
    BY <1>2, <2>1 DEF GetExtended
  <2>3. walk' = [j |-> k, i |-> 0, s |-> Mbr[k].start] /\ Give("READ", Mbr[k].start, 1)
    BY <2>2 DEF GetTable
  <2>4. HdTypes' /\ InStep' /\ Counted'
    BY <2>1, <2>3, GiveKeeps
  <2>5. BaseOK'
    BY <2>1, <2>3, HdSizes DEF BaseOK, BaseTypes
  <2>6. HdPlace'
    BY <1>0, <2>3 DEF HdPlace, Give, Busy, Moving
  <2> QED
    BY <2>4, <2>5, <2>6
<1> QED
  BY <1>1, <1>2

LEMMA OpenKeeps == ASSUME HdInv, hd_open PROVE HdInv'
<1> USE DEF HdInv
<1>0. /\ hdPc = "identified" /\ open_cnt' = open_cnt + 1 /\ open_cnt' \in 0 .. MaxOpen
      /\ base' = [d \in DOMAIN base \cup {0} |-> IF d = 0 THEN 0 ELSE base[d]]
      /\ UNCHANGED <<hdReq, ctl, hdInt, faulty>> /\ hdReq.type = "DEV_OPEN"
  BY HdSizes DEF hd_open, HdPlace, HdTypes
<1>1. BaseTypes(base') /\ \A k \in Extended \cap DOMAIN base : k \in DOMAIN base' /\ base'[k] = base[k]
  <2>1. 0 \in HdDevices /\ 0 \notin Extended
    BY HdSizes DEF HdDevices, Prim
  <2>2. DOMAIN base' = DOMAIN base \cup {0} /\ \A d \in DOMAIN base' : base'[d] = IF d = 0 THEN 0 ELSE base[d]
    BY <1>0
  <2>3. base' \in [DOMAIN base' -> Nat]
    <3>1. \A d \in DOMAIN base' : (IF d = 0 THEN 0 ELSE base[d]) \in Nat
      BY <2>2 DEF BaseOK
    <3> QED
      BY <1>0, <2>2, <3>1
  <2> QED
    BY <2>1, <2>2, <2>3 DEF BaseTypes, BaseOK
<1>2. CASE open_cnt = 0
  <2>1. walk' = NoWalk /\ Give("READ", 0, 1)
    BY <1>2 DEF hd_open, GetTable, NoWalk
  <2>2. HdTypes' /\ InStep' /\ Counted'
    BY <1>0, <2>1, GiveKeeps
  <2>3. BaseOK'
    BY <1>1, <2>1, HdSizes DEF BaseOK, BaseTypes, NoWalk
  <2>4. HdPlace'
    BY <1>0, <2>1 DEF HdPlace, Give, Busy, Moving
  <2> QED
    BY <2>2, <2>3, <2>4
<1>3. CASE open_cnt # 0
  <2>1. hdPc' = "reply" /\ UNCHANGED <<walk, hdCmd, hdLeft, moved>>
    BY <1>3 DEF hd_open
  <2>2. HdTypes'
    BY <1>0, <2>1 DEF HdTypes
  <2>3. BaseOK'
    BY <1>1, <2>1 DEF BaseOK, BaseTypes
  <2>4. HdPlace'
    BY <1>0, <2>1 DEF HdPlace, Busy, Moving
  <2>5. InStep'
    BY <1>0, <2>1 DEF InStep
  <2>6. Counted'
    BY <1>0, <2>1 DEF Counted, Moving
  <2> QED
    BY <2>2, <2>3, <2>4, <2>5, <2>6
<1> QED
  BY <1>2, <1>3

LEMMA PartitionKeeps == ASSUME HdInv, partition PROVE HdInv'
<1> USE DEF HdInv
<1>0. /\ hdPc = "table" /\ UNCHANGED <<hdReq, open_cnt, ctl, hdInt, faulty>>
      /\ hdReq.type = "DEV_OPEN" /\ open_cnt' \in 0 .. MaxOpen
  BY DEF partition, HdPlace, HdTypes
<1>1. CASE walk.j = 0
  <2> DEFINE found == {i \in 1 .. NR_PART_PER_DRIVE : Mbr[i].id # NO_PART}
  <2>1. /\ base' = [d \in DOMAIN base \cup found |-> IF d \in found THEN Mbr[d].start ELSE base[d]]
        /\ GetExtended(0)
    BY <1>1 DEF partition
  <2>2. Extended \subseteq found /\ found \subseteq Prim
    BY HdSizes DEF Extended, EXT_PART, NO_PART, Prim
  <2>3. \A i \in found : Mbr[i].start \in Nat
    BY HdSizes
  <2> HIDE DEF found
  <2>4. DOMAIN base' = DOMAIN base \cup found
        /\ \A d \in DOMAIN base' : base'[d] = IF d \in found THEN Mbr[d].start ELSE base[d]
    BY <2>1
  <2>5. BaseTypes(base')
    <3>1. \A d \in DOMAIN base' : (IF d \in found THEN Mbr[d].start ELSE base[d]) \in Nat
      BY <2>3, <2>4 DEF BaseOK
    <3>2. base' \in [DOMAIN base' -> Nat]
      BY <2>1, <2>4, <3>1
    <3>3. DOMAIN base' \subseteq HdDevices
      BY <2>2, <2>4 DEF BaseOK, HdDevices
    <3> QED
      BY <3>2, <3>3 DEF BaseTypes
  <2>6. \A k \in Extended : k \in DOMAIN base' /\ base'[k] = Mbr[k].start
    BY <2>2, <2>4
  <2> QED
    BY <1>0, <2>1, <2>5, <2>6, WalksOn
<1>2. CASE walk.j # 0
  <2> DEFINE dev == LogicalNr(walk.j, walk.i)
             t == Ebr[walk.s]
  <2>1. /\ walk.j \in Extended /\ walk.s \in DOMAIN Ebr /\ walk.j \in Nat /\ walk.i \in 0 .. NR_SUB_PER_PART - 1
        /\ walk.s \in Nat /\ \A k \in Extended : k \in DOMAIN base /\ base[k] = Mbr[k].start
    BY <1>2 DEF BaseOK
  <2>2. /\ base' = [d \in DOMAIN base \cup {dev} |-> IF d = dev THEN walk.s + t[1].start ELSE base[d]]
        /\ \/ GetExtended(walk.j)
           \/ /\ GetTable([walk EXCEPT !.i = @ + 1, !.s = NextTable])
              /\ t[2].id # NO_PART /\ walk.i + 1 # NR_SUB_PER_PART
    BY <1>2 DEF partition
  <2>3. dev \in HdDevices /\ dev \notin Extended /\ walk.s + t[1].start \in Nat
    <3>1. dev \in HdDevices /\ dev \notin Prim
      BY <2>1, DeviceFacts
    <3>2. Extended \subseteq Prim
      BY HdSizes DEF Prim
    <3> QED
      BY <2>1, <3>1, <3>2, HdSizes
  <2>4. NextTable = Mbr[walk.j].start + t[2].start
    BY <2>1 DEF NextTable
  <2>5. t[2].id # NO_PART => NextTable \in DOMAIN Ebr /\ NextTable \in Nat
    BY <2>1, <2>4, ChainLinked, HdSizes
  <2> HIDE DEF dev, t
  <2>6. DOMAIN base' = DOMAIN base \cup {dev}
        /\ \A d \in DOMAIN base' : base'[d] = IF d = dev THEN walk.s + t[1].start ELSE base[d]
    BY <2>2
  <2>7. BaseTypes(base')
    <3>1. \A d \in DOMAIN base' : (IF d = dev THEN walk.s + t[1].start ELSE base[d]) \in Nat
      BY <2>3, <2>6 DEF BaseOK
    <3>2. base' \in [DOMAIN base' -> Nat]
      BY <2>2, <2>6, <3>1
    <3>3. DOMAIN base' \subseteq HdDevices
      BY <2>3, <2>6 DEF BaseOK
    <3> QED
      BY <3>2, <3>3 DEF BaseTypes
  <2>8. \A k \in Extended : k \in DOMAIN base' /\ base'[k] = Mbr[k].start
    BY <2>1, <2>3, <2>6
  <2>9. CASE GetExtended(walk.j)
    BY <2>9, <1>0, <2>1, <2>7, <2>8, WalksOn
  <2>10. CASE /\ GetTable([walk EXCEPT !.i = @ + 1, !.s = NextTable])
              /\ t[2].id # NO_PART /\ walk.i + 1 # NR_SUB_PER_PART
    <3>1. walk' = [j |-> walk.j, i |-> walk.i + 1, s |-> NextTable]
      BY <2>10 DEF GetTable, BaseOK
    <3>2. Give("READ", NextTable, 1)
      BY <2>10 DEF GetTable, BaseOK
    <3>3. NextTable \in Nat /\ NextTable \in DOMAIN Ebr /\ walk.i + 1 \in 0 .. NR_SUB_PER_PART - 1
      BY <2>10, <2>5, <2>1, HdSizes
    <3>4. HdTypes' /\ InStep' /\ Counted'
      BY <1>0, <3>2, <3>3, GiveKeeps
    <3>5. BaseOK'
      BY <3>1, <3>3, <2>1, <2>7, <2>8 DEF BaseOK, BaseTypes
    <3>6. HdPlace'
      BY <1>0, <3>2 DEF HdPlace, Give, Busy, Moving
    <3> QED
      BY <3>4, <3>5, <3>6
  <2> QED
    BY <2>2, <2>9, <2>10
<1> QED
  BY <1>1, <1>2

LEMMA HdRepliesKeep == ASSUME HdInv, HdReply \/ UNCHANGED hdVars PROVE HdInv'
<1> USE DEF HdInv
<1>1. UNCHANGED <<hdCmd, hdLeft, moved, walk, open_cnt, base, ctl, hdInt, faulty>>
      /\ \/ hdPc = "reply" /\ hdPc' = "idle" /\ hdReq' = NoReq
         \/ UNCHANGED <<hdPc, hdReq>>
  BY DEF HdReply, hdVars
<1>2. HdTypes'
  BY <1>1 DEF HdTypes
<1>3. BaseOK'
  BY <1>1 DEF BaseOK
<1>4. HdPlace'
  BY <1>1 DEF HdPlace, Busy, Moving, NoReq
<1>5. InStep'
  BY <1>1 DEF InStep
<1>6. Counted'
  BY <1>1 DEF Counted, Moving, NoReq, Extra, Given, InOrder, Done
<1> QED
  BY <1>2, <1>3, <1>4, <1>5, <1>6

(***************************************************************************)
(* partition(): the tables of a chain one after another.                   *)
(***************************************************************************)
LEMMA TablesFollow ==
  ASSUME NEW j \in Extended
  PROVE  LET at == TablesOf(j) IN
         /\ at \in [Nat -> DOMAIN Ebr] /\ at[0] = Mbr[j].start
         /\ \A i \in Nat : at[i + 1] = IF Ebr[at[i]][2].id = NO_PART THEN at[i] ELSE Mbr[j].start + Ebr[at[i]][2].start
<1> DEFINE S == DOMAIN Ebr
           Next(s) == IF Ebr[s][2].id = NO_PART THEN s ELSE Mbr[j].start + Ebr[s][2].start
           G == [p \in Nat \X S |-> Next(p[2])]
           Rec(f) == [i \in Nat |-> IF i = 0 THEN Mbr[j].start
                                    ELSE IF Ebr[f[i - 1]][2].id = NO_PART THEN f[i - 1]
                                    ELSE Mbr[j].start + Ebr[f[i - 1]][2].start]
<1>1. ASSUME NEW s \in S PROVE Next(s) \in S
  BY ChainLinked
<1> HIDE DEF Next, S
<1>2. G \in [Nat \X S -> S] /\ Mbr[j].start \in S
  BY <1>1, ChainLinked DEF S
<1>3. \A i \in Nat, s \in S : G[<<i, s>>] = Next(s)
  OBVIOUS
<1> HIDE DEF G
<1>4. PICK f \in [Nat -> S] : f[0] = Mbr[j].start /\ \A i \in Nat : f[i + 1] = G[<<i, f[i]>>]
  <2>1. \E f : Recursive(f, S, Mbr[j].start, G)
    BY <1>2, RecursionExists
  <2> QED
    BY <2>1 DEF Recursive
<1>5. \A i \in Nat : f[i + 1] = Next(f[i])
  BY <1>3, <1>4
<1>6. f = Rec(f)
  <2>1. ASSUME NEW i \in Nat PROVE f[i] = Rec(f)[i]
    <3>1. CASE i = 0
      BY <1>4, <3>1
    <3>2. CASE i # 0
      <4>1. i - 1 \in Nat /\ i = (i - 1) + 1
        BY <3>2
      <4>2. f[i] = Next(f[i - 1])
        BY <1>5, <4>1
      <4> QED
        BY <3>2, <4>2 DEF Next
    <3> QED
      BY <3>1, <3>2
  <2> QED
    BY <1>4, <2>1
<1> DEFINE b == CHOOSE g : g = Rec(g)
<1>7. TablesOf(j) = b
  BY DEF TablesOf
<1>8. b = Rec(b)
  <2> HIDE DEF Rec
  <2> QED
    BY <1>6, Zenon
<1> HIDE DEF b
<1>9. b[0] = Mbr[j].start /\ \A i \in Nat : b[i + 1] = Next(b[i])
  <2>1. \A i \in Nat : b[i] = Rec(b)[i]
    BY <1>8
  <2> QED
    BY <2>1 DEF Next
<1>10. b = f
  <2> DEFINE T == {i \in Nat : b[i] = f[i]}
  <2>1. 0 \in T /\ \A i \in Nat : i \in T => i + 1 \in T
    BY <1>4, <1>5, <1>9
  <2> HIDE DEF T
  <2>2. Nat \subseteq T
    BY <2>1, AllNumbers
  <2>3. \A i \in Nat : b[i] = f[i]
    BY <2>2 DEF T
  <2>4. b = [i \in Nat |-> b[i]]
    BY <1>8
  <2> QED
    BY <1>4, <2>3, <2>4
<1> QED
  BY <1>4, <1>5, <1>7, <1>10 DEF Next, S

\* Each logical partition has a number of its own.
LEMMA NumbersApart ==
  ASSUME NEW j \in Extended, NEW k \in Extended,
         NEW i \in 0 .. NR_SUB_PER_PART - 1, NEW m \in 0 .. NR_SUB_PER_PART - 1,
         LogicalNr(j, i) = LogicalNr(k, m)
  PROVE  j = k /\ i = m
<1> DEFINE N == NR_SUB_PER_PART
<1>1. j \in Nat /\ k \in Nat /\ N \in Nat /\ N > 0 /\ NR_PART_PER_DRIVE \in Nat
  BY HdSizes
<1>2. PICK x \in Int, y \in Int : x = (j - 1) * N /\ y = (k - 1) * N
  BY <1>1
<1>3. x + i = y + m
  <2>1. LogicalNr(j, i) = NR_PART_PER_DRIVE + 1 + x + i /\ LogicalNr(k, m) = NR_PART_PER_DRIVE + 1 + y + m
    BY <1>2 DEF LogicalNr, MINOR_hd1a
  <2>2. i \in Int /\ m \in Int
    OBVIOUS
  <2>3. NR_PART_PER_DRIVE + 1 + x + i = NR_PART_PER_DRIVE + 1 + y + m
    BY <2>1
  <2> HIDE DEF N
  <2> QED
    BY <1>1, <2>2, <2>3
<1> HIDE DEF N
<1>4. (j - k) * N = m - i
  <2>1. x = y + (j - k) * N /\ (j - k) * N \in Int
    BY <1>1, <1>2
  <2>2. i \in Int /\ m \in Int
    OBVIOUS
  <2> QED
    BY <1>3, <2>1, <2>2
<1>5. i \in 0 .. N - 1 /\ m \in 0 .. N - 1
  BY DEF N
<1>6. CASE j > k
  <2>1. PICK d \in Nat : j - k = d + 1
    <3>1. j - k - 1 \in Nat /\ j - k = (j - k - 1) + 1
      BY <1>1, <1>6
    <3> QED
      BY <3>1
  <2>2. (d + 1) * N = d * N + N /\ d * N \in Nat
    BY <1>1
  <2> QED
    BY <1>1, <1>4, <1>5, <2>1, <2>2
<1>7. CASE k > j
  <2>1. PICK d \in Nat : k - j = d + 1
    <3>1. k - j - 1 \in Nat /\ k - j = (k - j - 1) + 1
      BY <1>1, <1>7
    <3> QED
      BY <3>1
  <2>2. (d + 1) * N = d * N + N /\ d * N \in Nat
    BY <1>1
  <2>3. (j - k) * N = - ((d + 1) * N)
    BY <1>1, <2>1
  <2> QED
    BY <1>1, <1>4, <1>5, <2>2, <2>3
<1>8. CASE j = k
  <2>1. (j - k) * N = 0
    BY <1>1, <1>8
  <2> QED
    BY <1>4, <1>5, <1>8, <2>1
<1> QED
  BY <1>1, <1>6, <1>7, <1>8

Sub == 0 .. NR_SUB_PER_PART - 1
Present(b, j, i) == LogicalNr(j, i) \in DOMAIN b
FromTable(b, j, i) ==
  i \in Chain(j) /\ b[LogicalNr(j, i)] = TablesOf(j)[i] + Ebr[TablesOf(j)[i]][1].start
AllPresent(b, j) == \A i \in Chain(j) : Present(b, j, i)
Walking == hdReq.type = "DEV_OPEN" /\ hdCmd.op = "READ" /\ hdPc # "reply"
PartInv ==
  /\ hdPc = "idle" => hdReq.type # "DEV_OPEN"
  /\ hdPc = "identified" => hdCmd.op = "IDENTIFY"
  /\ hdPc = "table" => hdCmd.op = "READ"
  /\ hdPc \in Busy => hdCmd.op # "none"
  /\ \A j \in Extended, i \in Sub : Present(base, j, i) => FromTable(base, j, i)
  /\ Walking /\ walk.j # 0 =>
       /\ walk.i \in Chain(walk.j) /\ walk.s = TablesOf(walk.j)[walk.i]
       /\ \A i \in 0 .. walk.i - 1 : Present(base, walk.j, i)
       /\ \A j \in Extended : j < walk.j => AllPresent(base, j)
  /\ open_cnt > 0 /\ ~ Walking => \A j \in Extended : AllPresent(base, j)

LEMMA PartInitially == HdInit => PartInv
BY DEF HdInit, PartInv, NoReq, NoCmd, Walking, Present, Busy, Moving

\* A step that leaves the devices alone.
LEMMA PartSame ==
  ASSUME PartInv, UNCHANGED <<walk, base, open_cnt>>, Walking' <=> Walking,
         hdPc' = "idle" => hdReq'.type # "DEV_OPEN",
         hdPc' = "identified" => hdCmd'.op = "IDENTIFY",
         hdPc' = "table" => hdCmd'.op = "READ",
         hdPc' \in Busy => hdCmd'.op # "none"
  PROVE  PartInv'
<1>1. base' = base /\ walk' = walk /\ open_cnt' = open_cnt
  OBVIOUS
<1>2. \A j \in Extended, i \in Sub : Present(base', j, i) => FromTable(base', j, i)
  BY <1>1 DEF PartInv
<1>3. Walking' /\ walk'.j # 0 =>
        /\ walk'.i \in Chain(walk'.j) /\ walk'.s = TablesOf(walk'.j)[walk'.i]
        /\ \A i \in 0 .. walk'.i - 1 : Present(base', walk'.j, i)
        /\ \A j \in Extended : j < walk'.j => AllPresent(base', j)
  BY <1>1 DEF PartInv
<1>4. open_cnt' > 0 /\ ~ Walking' => \A j \in Extended : AllPresent(base', j)
  BY <1>1 DEF PartInv
<1> QED
  BY <1>2, <1>3, <1>4 DEF PartInv, FromTable, Chain, TablesOf

\* The steps of a command.
LEMMA PartMoves ==
  ASSUME HdInv, PartInv,
         \/ hd_cmd_out \/ waitfor_drq \/ port_write \/ interrupt_wait \/ hard_int \/ port_read
         \/ hd_handler \/ Ctl \/ CtlFails \/ HdReply \/ UNCHANGED hdVars
  PROVE  PartInv'
<1>1. UNCHANGED <<walk, base, open_cnt, hdCmd>>
  BY DEF hd_cmd_out, waitfor_drq, port_write, interrupt_wait, hard_int, port_read, hd_handler, Ctl, CtlReady, CtlWritten,
         CtlFails, CtlUnchanged, HdReply, hdVars
<1>2. CASE hd_cmd_out \/ waitfor_drq \/ port_write \/ interrupt_wait
  BY <1>1, <1>2, PartSame DEF hd_cmd_out, waitfor_drq, port_write, interrupt_wait, AfterCommand, PartInv, Walking, Busy, Moving
<1>3. CASE hard_int
  <2>1. hdPc = "receive" /\ hdReq' = hdReq /\ hdPc' \in {"reply", "waitfor_drq", "port_read"}
        /\ (hdPc' = "reply" => hdCmd.op = "WRITE")
    BY <1>3 DEF hard_int
  <2> QED
    BY <1>1, <2>1, PartSame DEF PartInv, Walking, Busy, Moving
<1>4. CASE port_read
  <2>1. /\ hdPc = "port_read" /\ hdReq' = hdReq /\ hdPc' \in {"interrupt_wait", "reply", "identified", "table"}
        /\ hdPc' = "reply" => hdReq.type = "READ"
        /\ hdPc' = "identified" => hdCmd.op = "IDENTIFY"
        /\ hdPc' = "table" => hdCmd.op # "IDENTIFY"
    <3>1. hdLeft \in Nat /\ hdLeft > 0
      BY <1>4 DEF port_read, HdInv, HdPlace, HdTypes, Busy, Moving
    <3>2. /\ hdPc = "port_read" /\ hdReq' = hdReq
          /\ hdPc' = CASE hdLeft > 1 -> "interrupt_wait"
                       [] hdLeft = 1 /\ hdReq.type = "READ" -> "reply"
                       [] hdLeft = 1 /\ hdCmd.op = "IDENTIFY" -> "identified"
                       [] OTHER -> "table"
      BY <1>4 DEF port_read
    <3>3. CASE hdLeft > 1
      BY <3>2, <3>3
    <3>4. CASE hdLeft = 1
      BY <3>2, <3>4
    <3> QED
      BY <3>1, <3>3, <3>4
  <2>2. hdCmd.op \in {"READ", "IDENTIFY"}
    <3>1. hdCmd.op \in Ops
      BY DEF HdInv, HdTypes
    <3> QED
      BY <2>1, <3>1 DEF HdInv, HdPlace, PartInv, Busy, Moving, Ops
  <2> QED
    BY <1>1, <2>1, <2>2, PartSame DEF PartInv, Walking, Busy, Moving
<1>5. CASE hd_handler \/ Ctl \/ CtlFails \/ UNCHANGED hdVars
  <2>1. UNCHANGED <<hdPc, hdReq>>
    BY <1>5 DEF hd_handler, Ctl, CtlReady, CtlWritten, CtlFails, CtlUnchanged, hdVars
  <2> QED
    BY <1>1, <2>1, PartSame DEF PartInv, Walking
<1>6. CASE HdReply
  BY <1>1, <1>6, PartSame DEF HdReply, PartInv, Walking, NoReq, Busy, Moving
<1> QED
  BY <1>2, <1>3, <1>4, <1>5, <1>6

\* A request comes: a walk starts with hd_open() only.
LEMMA PartReceives ==
  ASSUME HdInv, PartInv, NEW r \in HdRequests, Receive(r)
  PROVE  PartInv'
<1>1. hdPc = "idle" /\ hdReq' = r /\ UNCHANGED <<walk, base>> /\ ~ Walking /\ open_cnt \in Nat
  BY HdSizes DEF Receive, PartInv, Walking, HdInv, HdTypes
<1>2. /\ ~ Walking' /\ open_cnt' <= open_cnt /\ open_cnt' \in Nat /\ hdPc' \in {"hd_cmd_out", "reply"}
      /\ hdPc' = "hd_cmd_out" => hdCmd'.op # "none"
  <2>1. CASE DevOpen(r)
    BY <1>1, <2>1 DEF DevOpen, Give, Walking
  <2>2. CASE DevClose(r)
    BY <1>1, <2>2 DEF DevClose, Walking
  <2>3. CASE hd_rdwt(r)
    BY <1>1, <2>3 DEF hd_rdwt, Give, Walking
  <2>4. CASE hd_ioctl(r)
    BY <1>1, <2>4 DEF hd_ioctl, Walking
  <2> QED
    BY <2>1, <2>2, <2>3, <2>4 DEF Receive
<1>3. \A j \in Extended, i \in Sub : Present(base', j, i) => FromTable(base', j, i)
  BY <1>1 DEF PartInv
<1>4. open_cnt' > 0 => \A j \in Extended : AllPresent(base', j)
  BY <1>1, <1>2 DEF PartInv
<1> QED
  BY <1>2, <1>3, <1>4 DEF PartInv, FromTable, Chain, TablesOf, Busy, Moving

\* A walk that is at a table.
LEMMA PartWalking ==
  ASSUME hdPc' = "hd_cmd_out", hdCmd'.op = "READ", Walking',
         \A j \in Extended, i \in Sub : Present(base', j, i) => FromTable(base', j, i),
         walk'.i \in Chain(walk'.j), walk'.s = TablesOf(walk'.j)[walk'.i],
         \A i \in 0 .. walk'.i - 1 : Present(base', walk'.j, i),
         \A j \in Extended : j < walk'.j => AllPresent(base', j)
  PROVE  PartInv'
BY DEF PartInv, FromTable, Chain, TablesOf

\* The walk comes to the next extended partition, or ends.
LEMMA PartGoesOn ==
  ASSUME NEW j \in Nat, GetExtended(j), hdReq.type = "DEV_OPEN", hdReq' = hdReq,
         \A k \in Extended, i \in Sub : Present(base', k, i) => FromTable(base', k, i),
         \A k \in Extended : k <= j => AllPresent(base', k)
  PROVE  PartInv'
<1>1. Extended \subseteq Nat
  BY HdSizes
<1>2. CASE NextExt(j) = {}
  <2>1. walk' = NoWalk /\ hdPc' = "reply"
    BY <1>2 DEF GetExtended
  <2>2. \A k \in Extended : k <= j
    BY <1>1, <1>2 DEF NextExt
  <2> QED
    BY <2>1, <2>2 DEF PartInv, Walking, Busy, Moving, FromTable, Chain, TablesOf
<1>3. CASE NextExt(j) # {}
  <2>1. PICK k \in Extended :
           /\ k > 0 /\ k \in 1 .. NR_PART_PER_DRIVE /\ Mbr[k].start \in DOMAIN Ebr /\ Mbr[k].start \in Nat
           /\ k = CHOOSE k1 \in NextExt(j) : \A i \in NextExt(j) : k1 <= i
    BY <1>3, NextExtended
  <2>2. walk' = [j |-> k, i |-> 0, s |-> Mbr[k].start] /\ hdPc' = "hd_cmd_out" /\ hdCmd'.op = "READ"
    BY <1>3, <2>1 DEF GetExtended, GetTable, Give
  <2>3. Walking'
    BY <2>2 DEF Walking
  <2>4. 0 \in Chain(k) /\ TablesOf(k)[0] = Mbr[k].start
    <3>1. 0 \in 0 .. NR_SUB_PER_PART - 1 /\ 0 .. 0 - 1 = {}
      BY HdSizes
    <3> QED
      BY <3>1, TablesFollow DEF Chain
  <2>5. ASSUME NEW m \in Extended, m < k PROVE AllPresent(base', m)
    <3>1. NextExt(j) \in SUBSET Nat
      BY <1>1 DEF NextExt
    <3>2. \E x \in NextExt(j) : \A y \in NextExt(j) : x <= y
      BY <1>3, <3>1, LeastExists
    <3>3. \A i \in NextExt(j) : k <= i
      BY <2>1, <3>2
    <3>4. ~ (m > j)
      BY <1>1, <2>5, <3>3 DEF NextExt
    <3> QED
      BY <1>1, <3>4
  <2>6. walk'.j = k /\ walk'.i = 0 /\ walk'.s = Mbr[k].start
    BY <2>2
  <2>7. \A i \in 0 .. walk'.i - 1 : Present(base', walk'.j, i)
    BY <2>6
  <2>8. /\ walk'.i \in Chain(walk'.j) /\ walk'.s = TablesOf(walk'.j)[walk'.i]
        /\ \A m \in Extended : m < walk'.j => AllPresent(base', m)
    BY <2>4, <2>5, <2>6
  <2> QED
    BY <2>2, <2>3, <2>7, <2>8, PartWalking
<1> QED
  BY <1>2, <1>3

LEMMA PartOpens == ASSUME HdInv, PartInv, hd_open PROVE PartInv'
<1>1. /\ hdPc = "identified" /\ open_cnt' = open_cnt + 1 /\ open_cnt \in Nat
      /\ base' = [d \in DOMAIN base \cup {0} |-> IF d = 0 THEN 0 ELSE base[d]]
      /\ hdReq' = hdReq /\ hdReq.type = "DEV_OPEN" /\ hdCmd.op = "IDENTIFY"
  BY HdSizes DEF hd_open, HdInv, HdPlace, HdTypes, PartInv
<1>2. ASSUME NEW j \in Extended, NEW i \in Sub
      PROVE  (Present(base', j, i) <=> Present(base, j, i))
             /\ (Present(base, j, i) => base'[LogicalNr(j, i)] = base[LogicalNr(j, i)])
  <2>1. LogicalNr(j, i) \notin Prim /\ 0 \in Prim
    BY DeviceFacts, HdSizes DEF Sub, Prim
  <2> QED
    BY <1>1, <2>1 DEF Present
<1>3. \A j \in Extended, i \in Sub : Present(base', j, i) => FromTable(base', j, i)
  BY <1>2 DEF PartInv, FromTable
<1>4. CASE open_cnt = 0
  <2>1. walk' = NoWalk /\ hdPc' = "hd_cmd_out" /\ hdCmd'.op = "READ"
    BY <1>4 DEF hd_open, GetTable, Give
  <2>2. Walking' /\ walk'.j = 0
    BY <1>1, <2>1 DEF Walking, NoWalk
  <2> QED
    BY <1>3, <2>1, <2>2 DEF PartInv, FromTable, Chain, TablesOf
<1>5. CASE open_cnt # 0
  <2>1. hdPc' = "reply"
    BY <1>5 DEF hd_open
  <2>2. \A j \in Extended : AllPresent(base, j)
    BY <1>1, <1>5 DEF PartInv, Walking
  <2>3. \A j \in Extended : AllPresent(base', j)
    BY <1>2, <2>2 DEF AllPresent, Chain, Sub
  <2> QED
    BY <1>3, <2>1, <2>3 DEF PartInv, Walking, FromTable, Chain, TablesOf, Busy, Moving
<1> QED
  BY <1>4, <1>5

LEMMA PartWalks == ASSUME HdInv, PartInv, partition PROVE PartInv'
<1>1. hdPc = "table" /\ UNCHANGED <<hdReq, open_cnt>> /\ hdReq.type = "DEV_OPEN" /\ Walking
  BY DEF partition, HdInv, HdPlace, HdTypes, PartInv, Walking
<1>2. CASE walk.j = 0
  <2> DEFINE found == {i \in 1 .. NR_PART_PER_DRIVE : Mbr[i].id # NO_PART}
  <2>1. /\ base' = [d \in DOMAIN base \cup found |-> IF d \in found THEN Mbr[d].start ELSE base[d]]
        /\ GetExtended(0)
    BY <1>2 DEF partition
  <2>2. found \subseteq Prim
    BY HdSizes DEF Prim
  <2> HIDE DEF found
  <2>3. ASSUME NEW j \in Extended, NEW i \in Sub, Present(base', j, i) PROVE FromTable(base', j, i)
    <3>1. LogicalNr(j, i) \notin found
      BY <2>2, DeviceFacts DEF Sub
    <3>2. LogicalNr(j, i) \in DOMAIN base /\ base'[LogicalNr(j, i)] = base[LogicalNr(j, i)]
      BY <2>1, <2>3, <3>1 DEF Present
    <3> QED
      BY <3>2 DEF PartInv, FromTable, Present
  <2>4. \A k \in Extended : ~ (k <= 0)
    BY HdSizes
  <2> QED
    BY <1>1, <2>1, <2>3, <2>4, PartGoesOn
<1>3. CASE walk.j # 0
  <2> DEFINE dev == LogicalNr(walk.j, walk.i)
  <2>1. PICK j \in Extended : j = walk.j
    BY <1>3 DEF HdInv, BaseOK
  <2>2. PICK i \in Sub : i = walk.i
    BY DEF HdInv, BaseOK, Sub
  <2>3. /\ j \in Nat /\ i \in Nat /\ i \in Chain(j) /\ walk.s = TablesOf(j)[i] /\ base[j] = Mbr[j].start
        /\ \A m \in 0 .. i - 1 : Present(base, j, m)
        /\ \A k \in Extended : k < j => AllPresent(base, k)
    BY <1>1, <1>3, <2>1, <2>2, HdSizes DEF HdInv, BaseOK, PartInv, Sub
  <2> DEFINE t == Ebr[walk.s]
  <2>4. /\ base' = [d \in DOMAIN base \cup {dev} |-> IF d = dev THEN walk.s + t[1].start ELSE base[d]]
        /\ \/ GetExtended(walk.j) /\ (t[2].id = NO_PART \/ walk.i + 1 = NR_SUB_PER_PART)
           \/ /\ GetTable([walk EXCEPT !.i = @ + 1, !.s = NextTable])
              /\ t[2].id # NO_PART /\ walk.i + 1 # NR_SUB_PER_PART
    BY <1>3 DEF partition
  <2>5. dev = LogicalNr(j, i)
    BY <2>1, <2>2
  <2> HIDE DEF dev
  <2>6. DOMAIN base' = DOMAIN base \cup {dev} /\ base'[dev] = walk.s + t[1].start
        /\ \A d \in DOMAIN base : d # dev => base'[d] = base[d]
    BY <2>4
  <2>7. FromTable(base', j, i) /\ Present(base', j, i)
    BY <2>3, <2>5, <2>6 DEF FromTable, Present
  <2>8. ASSUME NEW k \in Extended, NEW m \in Sub, Present(base', k, m) PROVE FromTable(base', k, m)
    <3>1. CASE LogicalNr(k, m) = dev
      <4>1. k = j /\ m = i
        BY <2>5, <3>1, NumbersApart DEF Sub
      <4> QED
        BY <2>7, <4>1
    <3>2. CASE LogicalNr(k, m) # dev
      <4>1. Present(base, k, m) /\ base'[LogicalNr(k, m)] = base[LogicalNr(k, m)]
        BY <2>6, <2>8, <3>2 DEF Present
      <4> QED
        BY <4>1 DEF PartInv, FromTable
    <3> QED
      BY <3>1, <3>2
  <2>9. \A k \in Extended, m \in Sub : Present(base, k, m) => Present(base', k, m)
    BY <2>6 DEF Present
  <2>10. \A k \in Extended : k < j => AllPresent(base', k)
    BY <2>3, <2>9 DEF AllPresent, Chain, Sub
  <2>11. \A m \in 0 .. i : Present(base', j, m)
    <3> SUFFICES ASSUME NEW m \in 0 .. i PROVE Present(base', j, m)
      OBVIOUS
    <3>1. m \in Sub
      BY <2>3, HdSizes DEF Sub
    <3>2. CASE m = i
      BY <2>7, <3>2
    <3>3. CASE m # i
      BY <2>3, <2>9, <3>1, <3>3
    <3> QED
      BY <3>2, <3>3
  <2>12. CASE GetExtended(walk.j) /\ (t[2].id = NO_PART \/ walk.i + 1 = NR_SUB_PER_PART)
    <3>1. AllPresent(base', j)
      <4> SUFFICES ASSUME NEW m \in Chain(j) PROVE m \in 0 .. i
        BY <2>11 DEF AllPresent
      <4>1. m \in 0 .. NR_SUB_PER_PART - 1 /\ \A k \in 0 .. m - 1 : Ebr[TablesOf(j)[k]][2].id # NO_PART
        BY DEF Chain
      <4>2. i \in 0 .. m - 1 => Ebr[TablesOf(j)[i]][2].id # NO_PART
        BY <4>1
      <4> QED
        BY <2>2, <2>3, <2>12, <4>1, <4>2, HdSizes
    <3>2. \A k \in Extended : k <= j => AllPresent(base', k)
      <4>1. Extended \subseteq Nat
        BY HdSizes
      <4> QED
        BY <2>3, <2>10, <3>1, <4>1
    <3>3. GetExtended(j)
      BY <2>1, <2>12
    <3> QED
      BY <1>1, <2>3, <2>8, <3>2, <3>3, PartGoesOn
  <2>13. CASE /\ GetTable([walk EXCEPT !.i = @ + 1, !.s = NextTable])
              /\ t[2].id # NO_PART /\ walk.i + 1 # NR_SUB_PER_PART
    <3>1. walk' = [j |-> j, i |-> i + 1, s |-> NextTable]
      <4>1. walk \in [j : Nat, i : 0 .. NR_SUB_PER_PART - 1, s : Nat]
        BY DEF HdInv, BaseOK
      <4>2. walk' = [walk EXCEPT !.i = @ + 1, !.s = NextTable]
        BY <2>13 DEF GetTable
      <4> QED
        BY <2>1, <2>2, <4>1, <4>2
    <3>2. hdPc' = "hd_cmd_out" /\ hdCmd'.op = "READ"
      BY <2>13 DEF GetTable, Give
    <3>3. NextTable = Mbr[j].start + Ebr[walk.s][2].start
      BY <2>1, <2>3 DEF NextTable
    <3>4. TablesOf(j)[i + 1] = NextTable
      <4>1. TablesOf(j)[i + 1] = IF Ebr[TablesOf(j)[i]][2].id = NO_PART THEN TablesOf(j)[i]
                                 ELSE Mbr[j].start + Ebr[TablesOf(j)[i]][2].start
        BY <2>3, TablesFollow
      <4> QED
        BY <2>3, <2>13, <3>3, <4>1
    <3>5. i + 1 \in Chain(j)
      <4>1. i + 1 \in 0 .. NR_SUB_PER_PART - 1
        BY <2>2, <2>13, HdSizes DEF Sub
      <4>2. ASSUME NEW k \in 0 .. i + 1 - 1 PROVE Ebr[TablesOf(j)[k]][2].id # NO_PART
        <5>1. CASE k = i
          BY <2>3, <2>13, <5>1
        <5>2. CASE k # i
          <6>1. k \in 0 .. i - 1
            BY <2>3, <5>2
          <6> QED
            BY <2>3, <6>1 DEF Chain
        <5> QED
          BY <5>1, <5>2
      <4>3. PICK n \in Nat : n = i + 1
        BY <2>3
      <4>4. n \in 0 .. NR_SUB_PER_PART - 1
        BY <4>1, <4>3
      <4>5. ASSUME NEW k \in 0 .. n - 1 PROVE Ebr[TablesOf(j)[k]][2].id # NO_PART
        <5>1. k \in 0 .. i + 1 - 1
          BY <2>3, <4>3
        <5> QED
          BY <4>2, <5>1
      <4>6. n \in Chain(j)
        BY <4>4, <4>5 DEF Chain
      <4> QED
        BY <4>3, <4>6
    <3>6. Walking'
      BY <1>1, <3>2 DEF Walking
    <3>7. walk'.j = j /\ walk'.i = i + 1 /\ walk'.s = NextTable
      BY <3>1
    <3>8. \A m \in 0 .. walk'.i - 1 : Present(base', walk'.j, m)
      <4> SUFFICES ASSUME NEW m \in 0 .. walk'.i - 1 PROVE Present(base', walk'.j, m)
        OBVIOUS
      <4>1. m \in 0 .. i
        BY <2>3, <3>7
      <4> QED
        BY <2>11, <3>7, <4>1
    <3> HIDE DEF t
    <3>9. /\ walk'.i \in Chain(walk'.j) /\ walk'.s = TablesOf(walk'.j)[walk'.i]
          /\ \A m \in Extended : m < walk'.j => AllPresent(base', m)
      BY <2>10, <3>4, <3>5, <3>7
    <3> QED
      BY <2>8, <3>2, <3>6, <3>8, <3>9, PartWalking
  <2> QED
    BY <2>4, <2>12, <2>13
<1> QED
  BY <1>2, <1>3

LEMMA PartTells == HdInv /\ PartInv => PartitionsFound
<1> SUFFICES ASSUME HdInv, PartInv, hdPc = "idle", open_cnt > 0, NEW j \in Extended
             PROVE  /\ {i \in 0 .. NR_SUB_PER_PART - 1 : LogicalNr(j, i) \in DOMAIN base} = Chain(j)
                    /\ \A i \in Chain(j) : base[LogicalNr(j, i)] = TablesOf(j)[i] + Ebr[TablesOf(j)[i]][1].start
  BY DEF PartitionsFound
<1>1. AllPresent(base, j)
  BY DEF PartInv, Walking
<1>2. \A i \in Sub : Present(base, j, i) => FromTable(base, j, i)
  BY DEF PartInv
<1>3. Chain(j) \subseteq Sub
  BY DEF Chain, Sub
<1> QED
  BY <1>1, <1>2, <1>3 DEF AllPresent, Present, FromTable, Sub

\* Wherever the interrupt comes, early, late or not at all, and whatever the
\* partition tables say: while the controller works HD touches the data port
\* only when it is asked to, no interrupt is left over between requests, a
\* request that is answered has moved its sectors, in order and each once, and
\* every partition of a chain is known at its place, however the chain goes;
\* for any partition table whose chains lie on the disk, and every count of
\* sectors, those of more than one byte too (hd.c:130-209, 314-335).
THEOREM DiskAlwaysInStep == HdSpec => []DiskServed
<1>1. HdInit => HdInv /\ PartInv
  BY HdInitOK, PartInitially
<1>2. HdInv /\ PartInv /\ [HdNext]_hdVars => PartInv'
  BY PartReceives, PartMoves, PartOpens, PartWalks DEF HdNext, HdTask
<1>3. HdInv /\ [HdNext]_hdVars => HdInv'
  BY ReceiveKeeps, CommandKeeps, WaitforKeeps, WriteKeeps, WaitKeeps, InterruptKeeps, ReadKeepsOrder,
     OpenKeeps, PartitionKeeps, HdRepliesKeep, ControllerKeeps DEF HdNext, HdTask
<1>4. HdInv => HdTypeOK /\ DataWhenAsked /\ NoStaleInterrupt /\ SectorsInOrder
  <2> SUFFICES ASSUME HdInv PROVE HdTypeOK /\ DataWhenAsked /\ NoStaleInterrupt /\ SectorsInOrder
    OBVIOUS
  <2> USE DEF HdInv
  <2>1. HdTypeOK
    BY DEF HdTypeOK, HdTypes, BaseOK
  <2>2. DataWhenAsked /\ NoStaleInterrupt
    BY DEF InStep, DataWhenAsked, NoStaleInterrupt
  <2>3. SectorsInOrder
    <3> SUFFICES ASSUME ~ faulty, hdPc = "reply", hdReq.type \in {"READ", "WRITE"}
                 PROVE  moved = [k \in 1 .. hdReq.sects |-> base[hdReq.dev] + hdReq.first + k - 1]
      BY DEF SectorsInOrder
    <3>1. Done = hdCmd.sects /\ InOrder
      BY DEF Counted
    <3>2. hdCmd.sects = hdReq.sects /\ hdCmd.lba = base[hdReq.dev] + hdReq.first
      BY DEF HdPlace
    <3> QED
      BY <3>1, <3>2 DEF InOrder
  <2> QED
    BY <2>1, <2>2, <2>3
<1> QED
  BY <1>1, <1>2, <1>3, <1>4, PartTells, PTL DEF HdSpec, DiskServed

(***************************************************************************)
(* The network card: until the handler comes inside the task's own poll,   *)
(* one of them at a time empties the card's ring into the one in memory;   *)
(* afterwards only the places in the code and the indexes are known.       *)
(***************************************************************************)
Wrap(a, n) == IF a < n THEN a ELSE a - n
CardN == IF curr > bnry THEN curr - bnry - 1 ELSE curr - bnry - 1 + RX_PAGES
MemN == IF sw_head >= sw_tail THEN sw_head - sw_tail ELSE sw_head - sw_tail + SW_RING
CardAt(k) == ring[Wrap(bnry + k, RX_PAGES)]
MemAt(i) == sw_ring[Wrap(sw_tail + i, SW_RING)]
\* the frames that a poll has moved out of the card, the last one perhaps not yet given up there
Moved == arrived - CardN + IF \E c \in Context : poll[c].at = "advance" THEN 1 ELSE 0
NicPoll == [at : {"off", "curr", "push", "advance"}, bnry : 0 .. RX_PAGES - 1, n : Nat]
NicPlaces ==
  /\ poll \in [Context -> NicPoll]
  /\ netPc \in {"idle", "poll", "recv", "write", "transmit"} /\ inIrq \in {"no", "poll", "ack"}
  /\ poll["task"].at # "off" <=> netPc = "poll"
  /\ poll["irq"].at # "off" <=> inIrq = "poll"
  /\ inIrq # "no" => netPc \notin {"write", "transmit"}
  /\ unmasked = (netPc \notin {"write", "transmit"})
  /\ netPc = "write" => dma = "send"
  /\ txbuf # "garbage" /\ sent # "garbage"
  /\ curr \in 0 .. RX_PAGES - 1 /\ bnry \in 0 .. RX_PAGES - 1
  /\ sw_head \in 0 .. SW_RING - 1 /\ sw_tail \in 0 .. SW_RING - 1
OneAtATime ==
  /\ inIrq # "no" => netPc # "poll"
  /\ \A c \in Context : poll[c].at = "push" => dma = c
CardOK ==
  /\ curr \in 0 .. RX_PAGES - 1 /\ bnry \in 0 .. RX_PAGES - 1 /\ curr # bnry
  /\ ring \in [0 .. RX_PAGES - 1 -> Nat] /\ arrived \in Nat /\ CardN <= arrived
  /\ \A k \in 1 .. CardN : CardAt(k) = arrived - CardN + k
  /\ \A c \in Context : /\ poll[c].at # "off" => poll[c].bnry = bnry
                        /\ poll[c].at \in {"push", "advance"} => CardN > 0
MemOK ==
  /\ sw_head \in 0 .. SW_RING - 1 /\ sw_tail \in 0 .. SW_RING - 1
  /\ sw_ring \in [0 .. SW_RING - 1 -> Nat] /\ taken \in Seq(Nat)
  /\ \A i \in 0 .. MemN - 1 : MemAt(i) \in 1 .. Moved
  /\ \A i, j \in 0 .. MemN - 1 : i < j => MemAt(i) < MemAt(j)
  /\ \A t \in DOMAIN taken : taken[t] \in 1 .. Moved /\ \A i \in 0 .. MemN - 1 : taken[t] < MemAt(i)
  /\ FramesOnceInOrder
AllMoved ==
  /\ dropped \subseteq 1 .. Moved
  /\ \A f \in 1 .. Moved : f \in dropped \/ (\E i \in 0 .. MemN - 1 : MemAt(i) = f) \/ (\E t \in DOMAIN taken : taken[t] = f)
NicServes == NicPlaces /\ OneAtATime /\ CardOK /\ MemOK /\ AllMoved
NicInv == NicPlaces /\ (~ nested => NicServes)

LEMMA NicSizes ==
  /\ RX_PAGES \in Nat /\ RX_PAGES > 1 /\ SW_RING \in Nat /\ SW_RING > 1 /\ POLL_MAX \in Nat /\ POLL_MAX > 0
<1> QED
  BY NicAssumption DEF NicAssumption

\* A remainder of less than two rounds.
LEMMA WrapFacts ==
  ASSUME NEW n \in Nat, n > 0, NEW a \in Nat, a < 2 * n
  PROVE  a % n = Wrap(a, n) /\ Wrap(a, n) \in 0 .. n - 1
<1> DEFINE q == a \div n
           r == a % n
<1>1. q \in Nat /\ r \in 0 .. n - 1 /\ n * q \in Nat /\ a = n * q + r
  BY DivFacts
<1> HIDE DEF q, r
<1>2. q = 0 \/ q = 1
  <2> SUFFICES ASSUME q # 0, q # 1 PROVE FALSE
    OBVIOUS
  <2>1. PICK e \in Nat : q = 2 + e
    <3> DEFINE g == q - 2
    <3>1. g \in Nat /\ q = 2 + g
      BY <1>1
    <3> QED
      BY <3>1
  <2>2. n * q = n + n + n * e /\ n * e \in Nat
    BY <2>1
  <2> QED
    BY <1>1, <2>2
<1>3. n * q = IF q = 0 THEN 0 ELSE n
  BY <1>2
<1>4. r = Wrap(a, n)
  BY <1>1, <1>2, <1>3 DEF Wrap
<1> QED
  BY <1>1, <1>4 DEF r

LEMMA CardPages ==
  ASSUME CardOK
  PROVE  /\ NextPage(bnry) = Wrap(bnry + 1, RX_PAGES) /\ NextPage(curr) = Wrap(curr + 1, RX_PAGES)
         /\ CardN \in 0 .. RX_PAGES - 2
         /\ (CardN = 0 <=> NextPage(bnry) = curr)
         /\ InCard = {CardAt(k) : k \in 1 .. CardN}
<1> USE NicSizes DEF CardOK
<1>1. NextPage(bnry) = Wrap(bnry + 1, RX_PAGES) /\ NextPage(curr) = Wrap(curr + 1, RX_PAGES)
  <2>1. \A p \in 0 .. RX_PAGES - 1 : NextPage(p) = Wrap(p + 1, RX_PAGES)
    <3> SUFFICES ASSUME NEW p \in 0 .. RX_PAGES - 1 PROVE (p + 1) % RX_PAGES = Wrap(p + 1, RX_PAGES)
      BY DEF NextPage
    <3>1. p + 1 \in Nat /\ p + 1 < 2 * RX_PAGES
      OBVIOUS
    <3> QED
      BY <3>1, WrapFacts
  <2> QED
    BY <2>1
<1>2. CardN \in 0 .. RX_PAGES - 2
  BY DEF CardN
<1>3. CardN = 0 <=> NextPage(bnry) = curr
  BY <1>1 DEF CardN, Wrap
<1>4. ((curr - bnry) + RX_PAGES - 1) % RX_PAGES = CardN
  <2> DEFINE a == (curr - bnry) + RX_PAGES - 1
  <2>1. a \in Nat /\ a < 2 * RX_PAGES
    OBVIOUS
  <2>2. Wrap(a, RX_PAGES) = CardN
    BY DEF Wrap, CardN
  <2> HIDE DEF a
  <2>3. a % RX_PAGES = CardN
    BY <2>1, <2>2, WrapFacts
  <2> QED
    BY <2>3 DEF a
<1>5. \A k \in 1 .. CardN : ring[(bnry + k) % RX_PAGES] = CardAt(k)
  <2> SUFFICES ASSUME NEW k \in 1 .. CardN PROVE ring[(bnry + k) % RX_PAGES] = CardAt(k)
    OBVIOUS
  <2>1. bnry + k \in Nat /\ bnry + k < 2 * RX_PAGES
    BY <1>2
  <2>2. (bnry + k) % RX_PAGES = Wrap(bnry + k, RX_PAGES)
    BY <2>1, WrapFacts
  <2> QED
    BY <2>2 DEF CardAt
<1>6. InCard = {CardAt(k) : k \in 1 .. CardN}
  BY <1>4, <1>5 DEF InCard
<1> QED
  BY <1>1, <1>2, <1>3, <1>6

LEMMA MemSlots ==
  ASSUME MemOK
  PROVE  /\ (sw_head + 1) % SW_RING = Wrap(sw_head + 1, SW_RING) /\ (sw_tail + 1) % SW_RING = Wrap(sw_tail + 1, SW_RING)
         /\ MemN \in 0 .. SW_RING - 1 /\ (MemN = 0 <=> sw_tail = sw_head)
         /\ InMemory = {MemAt(i) : i \in 0 .. MemN - 1}
<1> USE NicSizes DEF MemOK
<1>1. (sw_head + 1) % SW_RING = Wrap(sw_head + 1, SW_RING) /\ (sw_tail + 1) % SW_RING = Wrap(sw_tail + 1, SW_RING)
  <2>1. \A p \in 0 .. SW_RING - 1 : (p + 1) % SW_RING = Wrap(p + 1, SW_RING)
    <3> SUFFICES ASSUME NEW p \in 0 .. SW_RING - 1 PROVE (p + 1) % SW_RING = Wrap(p + 1, SW_RING)
      OBVIOUS
    <3>1. p + 1 \in Nat /\ p + 1 < 2 * SW_RING
      OBVIOUS
    <3> QED
      BY <3>1, WrapFacts
  <2> QED
    BY <2>1
<1>2. MemN \in 0 .. SW_RING - 1 /\ (MemN = 0 <=> sw_tail = sw_head)
  BY DEF MemN
<1>3. ((sw_head - sw_tail) + SW_RING) % SW_RING = MemN
  <2> DEFINE a == (sw_head - sw_tail) + SW_RING
  <2>1. a \in Nat /\ a < 2 * SW_RING
    OBVIOUS
  <2>2. Wrap(a, SW_RING) = MemN
    BY DEF Wrap, MemN
  <2> HIDE DEF a
  <2>3. a % SW_RING = MemN
    BY <2>1, <2>2, WrapFacts
  <2> QED
    BY <2>3 DEF a
<1>4. \A i \in 0 .. MemN - 1 : sw_ring[(sw_tail + i) % SW_RING] = MemAt(i)
  <2> SUFFICES ASSUME NEW i \in 0 .. MemN - 1 PROVE sw_ring[(sw_tail + i) % SW_RING] = MemAt(i)
    OBVIOUS
  <2>1. sw_tail + i \in Nat /\ sw_tail + i < 2 * SW_RING
    BY <1>2
  <2>2. (sw_tail + i) % SW_RING = Wrap(sw_tail + i, SW_RING)
    BY <2>1, WrapFacts
  <2> QED
    BY <2>2 DEF MemAt
<1>5. InMemory = {MemAt(i) : i \in 0 .. MemN - 1}
  BY <1>3, <1>4 DEF InMemory
<1> QED
  BY <1>1, <1>2, <1>5

LEMMA NicInitOK == NicInit => NicServes
<1> SUFFICES ASSUME NicInit PROVE NicServes
  OBVIOUS
<1> USE NicSizes DEF NicInit
<1>1. CardN = 0 /\ MemN = 0 /\ Moved = 0
  BY DEF CardN, MemN, Moved, NoPoll, Context
<1>2. NicPlaces
  <2>1. poll \in [Context -> NicPoll]
    BY DEF NoPoll, NicPoll
  <2>2. poll["task"].at = "off" /\ poll["irq"].at = "off"
    BY DEF NoPoll, Context
  <2>3. curr \in 0 .. RX_PAGES - 1 /\ bnry \in 0 .. RX_PAGES - 1
        /\ sw_head \in 0 .. SW_RING - 1 /\ sw_tail \in 0 .. SW_RING - 1
    OBVIOUS
  <2> QED
    BY <2>1, <2>2, <2>3 DEF NicPlaces
<1>6. OneAtATime
  BY DEF OneAtATime, NoPoll
<1>3. CardOK
  BY <1>1 DEF CardOK, NoPoll
<1>4. MemOK
  BY <1>1 DEF MemOK, FramesOnceInOrder
<1>5. AllMoved
  BY <1>1 DEF AllMoved
<1> QED
  BY <1>2, <1>3, <1>4, <1>5, <1>6 DEF NicServes

\* Whatever runs where, no index leaves its ring and the send is alone.
LEMMA PlacesKeep ==
  ASSUME NicPlaces, [NicNext]_nicVars
  PROVE  NicPlaces'
<1> USE NicSizes
<1>0. /\ \A p \in Nat : NextPage(p) \in 0 .. RX_PAGES - 1 /\ (p + 1) % SW_RING \in 0 .. SW_RING - 1
      /\ NoPoll \in NicPoll /\ NoPoll.at = "off"
  BY DEF NextPage, NoPoll, NicPoll
<1>1. /\ poll \in [Context -> NicPoll] /\ Context = {"task", "irq"}
      /\ poll["task"].at # "off" <=> netPc = "poll"
      /\ poll["irq"].at # "off" <=> inIrq = "poll"
      /\ inIrq # "no" => netPc \notin {"write", "transmit"}
      /\ curr \in 0 .. RX_PAGES - 1 /\ bnry \in 0 .. RX_PAGES - 1
      /\ sw_head \in 0 .. SW_RING - 1 /\ sw_tail \in 0 .. SW_RING - 1
  BY DEF NicPlaces, Context
<1>2. ASSUME UNCHANGED <<unmasked, txbuf, sent>>, NEW c \in Context, poll[c].at # "off", Runs(c),
             poll' \in [Context -> NicPoll], poll'[c].at # "off", UNCHANGED <<netPc, inIrq>>,
             \A d \in Context \ {c} : poll'[d] = poll[d], dma' = dma \/ dma' = c,
             curr' \in 0 .. RX_PAGES - 1, bnry' \in 0 .. RX_PAGES - 1,
             sw_head' \in 0 .. SW_RING - 1, sw_tail' \in 0 .. SW_RING - 1
      PROVE  NicPlaces'
  <2>1. /\ poll'["task"].at # "off" <=> poll["task"].at # "off"
        /\ poll'["irq"].at # "off" <=> poll["irq"].at # "off"
    BY <1>1, <1>2
  <2>2. netPc # "write"
    BY <1>1, <1>2
  <2> QED
    BY <1>2, <2>1, <2>2 DEF NicPlaces
<1>3. ASSUME UNCHANGED <<unmasked, txbuf, sent>>, NEW c \in Context, poll[c].at # "off", Runs(c),
             poll' = [poll EXCEPT ![c] = NoPoll], Returns(c), dma' = dma,
             UNCHANGED <<curr, bnry, sw_head, sw_tail>>
      PROVE  NicPlaces'
  <2>1. /\ poll' \in [Context -> NicPoll] /\ poll'[c].at = "off"
        /\ \A d \in Context \ {c} : poll'[d] = poll[d]
    BY <1>0, <1>1, <1>3
  <2>2. CASE c = "task"
    <3>1. netPc = "poll" /\ netPc' = "recv" /\ inIrq' = inIrq /\ poll'["irq"] = poll["irq"]
      BY <1>1, <1>3, <2>1, <2>2 DEF Returns
    <3> QED
      BY <1>1, <1>3, <2>1, <2>2, <3>1 DEF NicPlaces
  <2>3. CASE c = "irq"
    <3>1. inIrq = "poll" /\ inIrq' = "ack" /\ netPc' = netPc /\ poll'["task"] = poll["task"]
      BY <1>1, <1>3, <2>1, <2>3 DEF Returns
    <3> QED
      BY <1>1, <1>3, <2>1, <2>3, <3>1 DEF NicPlaces
  <2> QED
    BY <1>1, <2>2, <2>3
<1>4. ASSUME NEW c \in Context, ReadCurr(c) PROVE NicPlaces'
  <2>1. poll[c].at = "curr" /\ Runs(c)
        /\ UNCHANGED <<unmasked, txbuf, sent, curr, bnry, sw_head, sw_tail>>
    BY <1>4 DEF ReadCurr, cardVars, txVars, swVars
  <2>2. CASE poll' = [poll EXCEPT ![c] = NoPoll] /\ Returns(c) /\ UNCHANGED dma
    BY <1>3, <2>1, <2>2
  <2>3. CASE poll' = [poll EXCEPT ![c].at = "push"] /\ dma' = c /\ UNCHANGED <<netPc, inIrq>>
    <3>1. poll' \in [Context -> NicPoll] /\ poll'[c].at = "push" /\ \A d \in Context \ {c} : poll'[d] = poll[d]
      BY <1>1, <2>3 DEF NicPoll
    <3> QED
      BY <1>1, <1>2, <2>1, <2>3, <3>1
  <2> QED
    BY <1>4, <2>2, <2>3 DEF ReadCurr
<1>5. ASSUME NEW c \in Context, Push(c) PROVE NicPlaces'
  <2>1. /\ poll[c].at = "push" /\ Runs(c)
        /\ UNCHANGED <<unmasked, txbuf, sent, curr, bnry, sw_tail, netPc, inIrq, dma>>
        /\ sw_head' \in {sw_head, (sw_head + 1) % SW_RING}
    BY <1>5 DEF Push, cardVars, txVars
  <2>2. PICK b \in 0 .. RX_PAGES - 1 : poll' = [poll EXCEPT ![c].at = "advance", ![c].bnry = b]
    <3>1. poll[c].bnry \in 0 .. RX_PAGES - 1
      BY <1>1 DEF NicPoll
    <3> QED
      BY <1>5, <3>1 DEF Push
  <2>3. poll' \in [Context -> NicPoll] /\ poll'[c].at = "advance" /\ \A d \in Context \ {c} : poll'[d] = poll[d]
    BY <1>1, <2>2 DEF NicPoll
  <2>4. sw_head' \in 0 .. SW_RING - 1
    BY <1>0, <1>1, <2>1
  <2> QED
    BY <1>1, <1>2, <2>1, <2>3, <2>4
<1>6. ASSUME NEW c \in Context, Corrupted(c) PROVE NicPlaces'
  <2>1. /\ poll[c].at = "push" /\ Runs(c) /\ poll' = [poll EXCEPT ![c] = NoPoll] /\ Returns(c)
        /\ UNCHANGED <<unmasked, txbuf, sent, curr, bnry, sw_head, sw_tail, dma>>
    BY <1>6 DEF Corrupted, cardVars, txVars, swVars
  <2> QED
    BY <1>3, <2>1
<1>7. ASSUME NEW c \in Context, Advance(c) PROVE NicPlaces'
  <2> DEFINE pkt == NextPage(poll[c].bnry)
  <2>1. /\ poll[c].at = "advance" /\ Runs(c) /\ bnry' = pkt
        /\ poll' = [poll EXCEPT ![c] = [at |-> "curr", bnry |-> pkt, n |-> @.n + 1]]
        /\ UNCHANGED <<unmasked, txbuf, sent, curr, sw_head, sw_tail, netPc, inIrq, dma>>
    BY <1>7 DEF Advance, txVars, swVars
  <2>2. pkt \in 0 .. RX_PAGES - 1
    BY <1>0, <1>1 DEF NicPoll
  <2>3. poll' \in [Context -> NicPoll] /\ poll'[c].at = "curr" /\ \A d \in Context \ {c} : poll'[d] = poll[d]
    BY <1>1, <2>1, <2>2 DEF NicPoll
  <2> QED
    BY <1>1, <1>2, <2>1, <2>2, <2>3
<1>8. ASSUME NEW c \in Context, poll' = [poll EXCEPT ![c] = ReadBnry(c)]
      PROVE  /\ poll' \in [Context -> NicPoll] /\ poll'[c].at = "curr"
             /\ \A d \in Context \ {c} : poll'[d] = poll[d]
  <2>1. ReadBnry(c) \in NicPoll /\ ReadBnry(c).at = "curr"
    BY <1>1 DEF ReadBnry, NicPoll
  <2> QED
    BY <1>1, <1>8, <2>1
<1>9. CASE ne2000_irq
  <2>1. /\ unmasked /\ inIrq = "no" /\ inIrq' = "poll" /\ poll' = [poll EXCEPT !["irq"] = ReadBnry("irq")]
        /\ UNCHANGED <<txVars, dma, netPc, curr, bnry, sw_head, sw_tail>>
    BY <1>9 DEF ne2000_irq, swVars
  <2>2. poll' \in [Context -> NicPoll] /\ poll'["irq"].at = "curr" /\ poll'["task"] = poll["task"]
    BY <1>1, <1>8, <2>1
  <2> QED
    BY <2>1, <2>2 DEF NicPlaces, txVars
<1>10. CASE net_poll
  <2>1. /\ inIrq = "no" /\ netPc = "idle" /\ netPc' = "poll" /\ poll' = [poll EXCEPT !["task"] = ReadBnry("task")]
        /\ UNCHANGED <<txVars, dma, inIrq, curr, bnry, sw_head, sw_tail>>
    BY <1>10 DEF net_poll, Task, cardVars, swVars
  <2>2. poll' \in [Context -> NicPoll] /\ poll'["task"].at = "curr" /\ poll'["irq"] = poll["irq"]
    BY <1>1, <1>8, <2>1
  <2> QED
    BY <2>1, <2>2 DEF NicPlaces, txVars
<1>11. CASE CardReceives
  <2>1. curr' \in 0 .. RX_PAGES - 1 /\ UNCHANGED <<bnry, txVars, dma, swVars, netPc, inIrq, poll>>
    BY <1>0, <1>1, <1>11 DEF CardReceives
  <2> QED
    BY <2>1 DEF NicPlaces, txVars, swVars
<1>12. CASE ne2000_recv
  <2>1. /\ netPc = "recv" /\ netPc' \in {"recv", "idle"} /\ sw_tail' \in 0 .. SW_RING - 1
        /\ UNCHANGED <<cardVars, txVars, dma, sw_head, inIrq, poll>>
    <3>1. sw_tail \in Nat /\ sw_tail' \in {sw_tail, (sw_tail + 1) % SW_RING}
      BY <1>1, <1>12 DEF ne2000_recv
    <3>2. sw_tail' \in 0 .. SW_RING - 1
      BY <1>0, <1>1, <3>1
    <3> QED
      BY <1>12, <3>2 DEF ne2000_recv, Task
  <2> QED
    BY <2>1 DEF NicPlaces, txVars, cardVars
<1>13. CASE Acknowledge \/ UNCHANGED nicVars
  <2>1. /\ UNCHANGED <<curr, bnry, txVars, dma, swVars, netPc, poll>>
        /\ inIrq' = inIrq \/ (inIrq = "ack" /\ inIrq' = "no")
    BY <1>13 DEF Acknowledge, nicVars, cardVars
  <2> QED
    BY <2>1 DEF NicPlaces, txVars, swVars
<1>14. CASE ne2000_send \/ remote_write \/ Transmit
  <2>1. inIrq = "no" /\ UNCHANGED <<curr, bnry, swVars, inIrq, poll>>
    BY <1>14 DEF ne2000_send, remote_write, Transmit, Task, cardVars
  <2>2. CASE ne2000_send
    BY <2>1, <2>2 DEF ne2000_send, Task, NicPlaces, swVars
  <2>3. CASE remote_write
    BY <2>1, <2>3 DEF remote_write, Task, NicPlaces, swVars
  <2>4. CASE Transmit
    BY <2>1, <2>4 DEF Transmit, Task, NicPlaces, swVars
  <2> QED
    BY <1>14, <2>2, <2>3, <2>4
<1> QED
  BY <1>4, <1>5, <1>6, <1>7, <1>9, <1>10, <1>11, <1>12, <1>13, <1>14 DEF NicNext, PollStep, NicTask

\* What does not move a frame.
LEMMA FramesStay ==
  ASSUME NicServes, UNCHANGED <<ring, curr, bnry, swVars, arrived, taken, dropped>>,
         NicPlaces', OneAtATime',
         \A c \in Context : /\ poll'[c].at # "off" => poll'[c].bnry = bnry
                            /\ poll'[c].at = "push" => CardN > 0
                            /\ poll'[c].at = "advance" <=> poll[c].at = "advance"
  PROVE  NicServes'
<1> USE DEF NicServes
<1>1. CardN' = CardN /\ MemN' = MemN /\ Moved' = Moved
      /\ (\A k : CardAt(k)' = CardAt(k)) /\ (\A i : MemAt(i)' = MemAt(i))
  BY DEF CardN, MemN, Moved, CardAt, MemAt, swVars
<1>2. CardOK'
  BY <1>1 DEF CardOK
<1>3. MemOK'
  BY <1>1 DEF MemOK, FramesOnceInOrder, swVars
<1>4. AllMoved'
  BY <1>1 DEF AllMoved
<1> QED
  BY <1>2, <1>3, <1>4

LEMMA CardKeeps == ASSUME NicServes, CardReceives, NicPlaces' PROVE NicServes'
<1> USE DEF NicServes
<1>0. /\ NextPage(curr) # bnry /\ arrived' = arrived + 1 /\ ring' = [ring EXCEPT ![curr] = arrived + 1]
      /\ curr' = Wrap(curr + 1, RX_PAGES) /\ bnry' = bnry
      /\ UNCHANGED <<txVars, dma, swVars, netPc, inIrq, poll, taken, dropped>>
      /\ CardN \in 0 .. RX_PAGES - 2 /\ Wrap(curr + 1, RX_PAGES) # bnry
  BY CardPages DEF CardReceives
<1> USE NicSizes
<1>1. CardN' = CardN + 1
  BY <1>0 DEF CardOK, CardN, Wrap
<1>2. arrived' - CardN' = arrived - CardN /\ arrived \in Nat /\ CardN \in Nat
  BY <1>0, <1>1 DEF CardOK
<1>3. Moved' = Moved
  BY <1>0, <1>2 DEF Moved
<1>4. OneAtATime'
  BY <1>0 DEF OneAtATime
<1>5. CardOK'
  <2>1. curr' \in 0 .. RX_PAGES - 1 /\ curr' # bnry' /\ ring' \in [0 .. RX_PAGES - 1 -> Nat]
        /\ bnry' \in 0 .. RX_PAGES - 1 /\ arrived' \in Nat /\ CardN' <= arrived'
    <3>1. arrived + 1 \in Nat /\ curr \in 0 .. RX_PAGES - 1 /\ bnry \in 0 .. RX_PAGES - 1 /\ CardN <= arrived
      BY DEF CardOK
    <3>2. curr' \in 0 .. RX_PAGES - 1
      BY <1>0, <3>1 DEF Wrap
    <3>3. ring' \in [0 .. RX_PAGES - 1 -> Nat]
      BY <1>0, <3>1 DEF CardOK
    <3>4. CardN' <= arrived'
      BY <1>0, <1>1, <1>2, <3>1
    <3> QED
      BY <1>0, <3>1, <3>2, <3>3, <3>4
  <2>2. ASSUME NEW k \in 1 .. CardN' PROVE CardAt(k)' = arrived' - CardN' + k
    <3>0. bnry \in 0 .. RX_PAGES - 1 /\ curr \in 0 .. RX_PAGES - 1 /\ ring \in [0 .. RX_PAGES - 1 -> Nat]
          /\ k \in 1 .. CardN + 1 /\ curr # bnry
      BY <1>1 DEF CardOK
    <3>1. CASE k = CardN + 1
      <4>1. Wrap(bnry + k, RX_PAGES) = curr
        BY <1>0, <3>0, <3>1 DEF CardN, Wrap
      <4>2. CardAt(k)' = arrived + 1
        BY <1>0, <3>0, <4>1 DEF CardAt
      <4> QED
        BY <1>2, <3>0, <3>1, <4>2
    <3>2. CASE k \in 1 .. CardN
      <4>1. Wrap(bnry + k, RX_PAGES) # curr /\ Wrap(bnry + k, RX_PAGES) \in 0 .. RX_PAGES - 1
        BY <1>0, <3>0, <3>2 DEF CardN, Wrap
      <4>2. CardAt(k)' = CardAt(k)
        BY <1>0, <3>0, <4>1 DEF CardAt
      <4>3. CardAt(k) = arrived - CardN + k
        BY <3>2 DEF CardOK
      <4> QED
        BY <1>2, <4>2, <4>3
    <3> QED
      BY <1>0, <3>0, <3>1, <3>2
  <2>3. \A c \in Context : /\ poll'[c].at # "off" => poll'[c].bnry = bnry'
                           /\ poll'[c].at \in {"push", "advance"} => CardN' > 0
    BY <1>0, <1>1 DEF CardOK
  <2> QED
    BY <2>1, <2>2, <2>3 DEF CardOK
<1>6. MemN' = MemN /\ \A i : MemAt(i)' = MemAt(i)
  BY <1>0 DEF MemN, MemAt, swVars
<1>7. MemOK'
  BY <1>0, <1>3, <1>6 DEF MemOK, FramesOnceInOrder, swVars
<1>8. AllMoved'
  BY <1>0, <1>3, <1>6 DEF AllMoved
<1> QED
  BY <1>4, <1>5, <1>7, <1>8

\* One at a time polls the card.
LEMMA OnePolls ==
  ASSUME NicPlaces, OneAtATime, NEW c \in Context, poll[c].at # "off"
  PROVE  /\ \A d \in Context \ {c} : poll[d].at = "off"
         /\ netPc \notin {"write", "transmit"}
         /\ c = "task" <=> netPc = "poll"
         /\ c = "task" => inIrq = "no"
         /\ c = "irq" => inIrq = "poll"
<1> QED
  BY DEF NicPlaces, OneAtATime, Context

LEMMA CurrKeeps == ASSUME NicServes, NEW c \in Context, ReadCurr(c), NicPlaces' PROVE NicServes'
<1> USE DEF NicServes
<1>0. /\ poll[c].at = "curr" /\ UNCHANGED <<ring, curr, bnry, txVars, swVars, arrived, taken, dropped>>
      /\ \A d \in Context \ {c} : poll[d].at = "off"
      /\ netPc \notin {"write", "transmit"} /\ (c = "task" <=> netPc = "poll")
      /\ (c = "task" => inIrq = "no") /\ (c = "irq" => inIrq = "poll") /\ poll[c].bnry = bnry
      /\ poll \in [Context -> NicPoll]
  BY OnePolls DEF ReadCurr, CardOK, NicPlaces, cardVars
<1>1. CASE /\ poll' = [poll EXCEPT ![c] = NoPoll] /\ Returns(c) /\ UNCHANGED dma
  <2>1. \A d \in Context : poll'[d].at = "off"
    <3>1. NoPoll.at = "off"
      BY DEF NoPoll
    <3> QED
      BY <1>0, <1>1, <3>1
  <2>2. OneAtATime'
    <3>1. CASE c = "task"
      BY <3>1, <2>1, <1>0, <1>1 DEF OneAtATime, Returns
    <3>2. CASE c = "irq"
      BY <3>2, <2>1, <1>0, <1>1 DEF OneAtATime, Returns
    <3> QED
      BY <3>1, <3>2 DEF Context
  <2> QED
    BY <1>0, <2>1, <2>2, FramesStay
<1>2. CASE /\ NextPage(poll[c].bnry) # curr /\ poll' = [poll EXCEPT ![c].at = "push"]
           /\ dma' = c /\ UNCHANGED <<netPc, inIrq>>
  <2>1. CardN > 0
    BY <1>0, <1>2, CardPages
  <2>2. poll' \in [Context -> NicPoll]
        /\ poll'[c].at = "push" /\ poll'[c].bnry = bnry /\ \A d \in Context \ {c} : poll'[d] = poll[d]
    BY <1>0, <1>2 DEF NicPoll
  <2>3. OneAtATime'
    BY <1>0, <1>2, <2>2 DEF OneAtATime
  <2> QED
    BY <1>0, <2>1, <2>2, <2>3, FramesStay
<1> QED
  BY <1>1, <1>2 DEF ReadCurr

LEMMA PushKeeps == ASSUME NicServes, NEW c \in Context, Push(c), NicPlaces' PROVE NicServes'
<1> USE DEF NicServes
<1> DEFINE f == ring[NextPage(poll[c].bnry)]
<1>0. /\ poll[c].at = "push" /\ UNCHANGED <<cardVars, txVars, dma, sw_tail, netPc, inIrq, arrived, taken>>
      /\ poll' = [poll EXCEPT ![c].at = "advance"]
      /\ poll \in [Context -> NicPoll]
      /\ poll[c].bnry = bnry /\ CardN > 0
      /\ \A d \in Context \ {c} : poll[d].at = "off"
      /\ dma = c /\ (inIrq # "no" => netPc # "poll")
  <2>1. poll[c].at = "push" /\ dma = c /\ poll[c].bnry = bnry /\ CardN > 0
    BY DEF Push, OneAtATime, CardOK
  <2>2. poll' = [poll EXCEPT ![c].at = "advance", ![c].bnry = poll[c].bnry]
    BY <2>1 DEF Push
  <2>3. [poll EXCEPT ![c].at = "advance", ![c].bnry = poll[c].bnry] = [poll EXCEPT ![c].at = "advance"]
    BY DEF NicPlaces, NicPoll
  <2> QED
    BY <2>1, <2>2, <2>3, OnePolls DEF Push, NicPlaces, OneAtATime
<1>1. poll' \in [Context -> NicPoll]
      /\ poll'[c].at = "advance" /\ poll'[c].bnry = bnry /\ \A d \in Context \ {c} : poll'[d] = poll[d]
  BY <1>0 DEF NicPoll
<1>2. CardN' = CardN /\ \A k : CardAt(k)' = CardAt(k)
  BY <1>0 DEF CardN, CardAt, cardVars
<1>3. Moved = arrived - CardN /\ Moved' = Moved + 1 /\ Moved \in Nat
  <2>1. arrived - CardN \in Nat /\ CardN \in Nat
    BY <1>0, CardPages, NicSizes, SMTT(40) DEF CardOK
  <2>2. Moved = arrived - CardN
    BY <1>0, <2>1 DEF Moved
  <2>3. Moved' = arrived - CardN + 1
    BY <1>0, <1>1, <1>2 DEF Moved
  <2> QED
    BY <2>1, <2>2, <2>3
<1>4. f = Moved + 1
  <2>1. 1 \in 1 .. CardN
    BY <1>0, CardPages, NicSizes
  <2>2. CardAt(1) = arrived - CardN + 1
    BY <2>1 DEF CardOK
  <2>3. f = CardAt(1)
    BY <1>0, CardPages DEF CardAt
  <2> QED
    BY <1>3, <2>2, <2>3
<1>5. OneAtATime'
  BY <1>0, <1>1 DEF OneAtATime
<1>6. CardOK'
  BY <1>0, <1>1, <1>2 DEF CardOK, cardVars
<1>7. CASE (sw_head + 1) % SW_RING # sw_tail
  <2>1. /\ sw_ring' = [sw_ring EXCEPT ![sw_head] = f] /\ sw_head' = Wrap(sw_head + 1, SW_RING) /\ dropped' = dropped
        /\ Wrap(sw_head + 1, SW_RING) # sw_tail
    BY <1>0, <1>7, MemSlots DEF Push
  <2> HIDE DEF f
  <2> USE NicSizes
  <2>2. sw_ring \in [0 .. SW_RING - 1 -> Nat] /\ sw_head \in 0 .. SW_RING - 1 /\ sw_tail \in 0 .. SW_RING - 1
        /\ MemN \in 0 .. SW_RING - 1 /\ sw_tail' = sw_tail
    BY <1>0, MemSlots DEF MemOK
  <2>3. MemN' = MemN + 1
    <3>1. MemN = IF sw_head >= sw_tail THEN sw_head - sw_tail ELSE sw_head - sw_tail + SW_RING
      BY DEF MemN
    <3>2. MemN' = IF sw_head' >= sw_tail THEN sw_head' - sw_tail ELSE sw_head' - sw_tail + SW_RING
      BY <2>2 DEF MemN
    <3>3. CASE sw_head + 1 < SW_RING
      <4>1. sw_head' = sw_head + 1 /\ sw_head + 1 # sw_tail
        BY <2>1, <3>3 DEF Wrap
      <4> QED
        BY <2>2, <3>1, <3>2, <4>1
    <3>4. CASE sw_head + 1 = SW_RING
      <4>1. sw_head' = 0 /\ sw_tail # 0
        BY <2>1, <2>2, <3>4 DEF Wrap
      <4> QED
        BY <2>2, <3>1, <3>2, <3>4, <4>1
    <3> QED
      BY <2>2, <3>3, <3>4
  <2>4. \A i \in 0 .. MemN : MemAt(i)' = IF i = MemN THEN f ELSE MemAt(i)
    <3> SUFFICES ASSUME NEW i \in 0 .. MemN PROVE MemAt(i)' = IF i = MemN THEN f ELSE MemAt(i)
      OBVIOUS
    <3>1. MemAt(i)' = sw_ring'[Wrap(sw_tail + i, SW_RING)]
      BY <2>2 DEF MemAt
    <3>2. i = MemN => Wrap(sw_tail + i, SW_RING) = sw_head
      BY <2>2 DEF MemN, Wrap
    <3>3. i # MemN => Wrap(sw_tail + i, SW_RING) # sw_head
      BY <2>2 DEF MemN, Wrap
    <3>4. Wrap(sw_tail + i, SW_RING) \in 0 .. SW_RING - 1
      BY <2>2 DEF Wrap
    <3> QED
      BY <2>1, <2>2, <3>1, <3>2, <3>3, <3>4 DEF MemAt
  <2>5. 0 .. MemN' - 1 = 0 .. MemN
    BY <2>2, <2>3
  <2>6. sw_ring' \in [0 .. SW_RING - 1 -> Nat] /\ sw_head' \in 0 .. SW_RING - 1
    BY <1>3, <1>4, <2>1, <2>2 DEF Wrap
  <2>7. MemOK'
    <3>1. \A i \in 0 .. MemN : MemAt(i)' \in 1 .. Moved' /\ (i # MemN => MemAt(i) \in 1 .. Moved)
      BY <1>3, <1>4, <2>2, <2>4 DEF MemOK
    <3>2. \A i, j \in 0 .. MemN : i < j => MemAt(i)' < MemAt(j)'
      <4> SUFFICES ASSUME NEW i \in 0 .. MemN, NEW j \in 0 .. MemN, i < j PROVE MemAt(i)' < MemAt(j)'
        OBVIOUS
      <4>1. MemAt(i)' = MemAt(i) /\ MemAt(i) \in 1 .. Moved
        BY <2>2, <2>4, <3>1
      <4>2. CASE j = MemN
        BY <4>1, <4>2, <1>3, <1>4, <2>4
      <4>3. CASE j # MemN
        <5>1. i \in 0 .. MemN - 1 /\ j \in 0 .. MemN - 1
          BY <4>3, <2>2
        <5>2. MemAt(i) < MemAt(j)
          BY <5>1 DEF MemOK
        <5> QED
          BY <4>1, <4>3, <5>2, <2>4
      <4> QED
        BY <4>2, <4>3
    <3>3. \A t \in DOMAIN taken : taken[t] \in 1 .. Moved' /\ \A i \in 0 .. MemN : taken[t] < MemAt(i)'
      <4> SUFFICES ASSUME NEW t \in DOMAIN taken, NEW i \in 0 .. MemN
                   PROVE  taken[t] \in 1 .. Moved' /\ taken[t] < MemAt(i)'
        BY <2>2
      <4>1. taken[t] \in 1 .. Moved
        BY DEF MemOK
      <4>2. CASE i = MemN
        BY <4>1, <4>2, <1>3, <1>4, <2>4
      <4>3. CASE i # MemN
        BY <4>1, <4>3, <1>3, <2>2, <2>4 DEF MemOK
      <4> QED
        BY <4>2, <4>3
    <3>4. taken' = taken /\ FramesOnceInOrder' /\ taken' \in Seq(Nat)
      BY <1>0 DEF MemOK, FramesOnceInOrder
    <3> QED
      BY <2>2, <2>5, <2>6, <3>1, <3>2, <3>3, <3>4 DEF MemOK
  <2>8. AllMoved'
    <3>1. dropped' \subseteq 1 .. Moved'
      BY <1>3, <2>1 DEF AllMoved
    <3>2. ASSUME NEW g \in 1 .. Moved'
          PROVE  g \in dropped' \/ (\E i \in 0 .. MemN : MemAt(i)' = g) \/ (\E t \in DOMAIN taken' : taken'[t] = g)
      <4>1. CASE g = Moved + 1
        BY <4>1, <1>4, <2>2, <2>4
      <4>2. CASE g \in 1 .. Moved
        <5>1. CASE g \in dropped \/ \E t \in DOMAIN taken : taken[t] = g
          BY <5>1, <1>0, <2>1
        <5>2. CASE \E i \in 0 .. MemN - 1 : MemAt(i) = g
          BY <5>2, <2>2, <2>4
        <5> QED
          BY <4>2, <5>1, <5>2 DEF AllMoved
      <4> QED
        BY <1>3, <4>1, <4>2
    <3> QED
      BY <2>5, <3>1, <3>2 DEF AllMoved
  <2> QED
    BY <1>5, <1>6, <2>7, <2>8
<1>8. CASE (sw_head + 1) % SW_RING = sw_tail
  <2>1. dropped' = dropped \cup {f} /\ UNCHANGED <<sw_ring, sw_head, sw_tail, taken>>
    BY <1>0, <1>8 DEF Push
  <2> HIDE DEF f
  <2>2. MemN' = MemN /\ \A i : MemAt(i)' = MemAt(i)
    BY <2>1 DEF MemN, MemAt
  <2>3. 1 .. Moved' = 1 .. Moved \cup {f}
    BY <1>3, <1>4
  <2>4. MemOK'
    BY <2>1, <2>2, <2>3 DEF MemOK, FramesOnceInOrder
  <2>5. AllMoved'
    BY <2>1, <2>2, <2>3 DEF AllMoved
  <2> QED
    BY <1>5, <1>6, <2>4, <2>5
<1> QED
  BY <1>7, <1>8

LEMMA AdvanceKeeps == ASSUME NicServes, NEW c \in Context, Advance(c), NicPlaces' PROVE NicServes'
<1> USE NicSizes DEF NicServes
<1>0. /\ poll[c].at = "advance" /\ UNCHANGED <<ring, curr, txVars, dma, swVars, netPc, inIrq, arrived, taken, dropped>>
      /\ poll \in [Context -> NicPoll]
      /\ poll[c].bnry = bnry /\ CardN > 0 /\ bnry' = Wrap(bnry + 1, RX_PAGES) /\ bnry' # curr
      /\ poll' = [poll EXCEPT ![c] = [at |-> "curr", bnry |-> bnry', n |-> @.n + 1]]
      /\ CardN \in 0 .. RX_PAGES - 2
      /\ \A d \in Context \ {c} : poll[d].at = "off"
  <2>1. /\ poll[c].at = "advance" /\ UNCHANGED <<ring, curr, txVars, dma, swVars, netPc, inIrq, arrived, taken, dropped>>
        /\ bnry' = NextPage(poll[c].bnry)
        /\ poll' = [poll EXCEPT ![c] = [at |-> "curr", bnry |-> bnry', n |-> @.n + 1]]
    BY DEF Advance
  <2>2. poll[c].bnry = bnry /\ CardN > 0
    BY <2>1 DEF CardOK
  <2>3. poll \in [Context -> NicPoll]
    BY DEF NicPlaces
  <2>4. \A d \in Context \ {c} : poll[d].at = "off"
    BY <2>1, OnePolls
  <2>5. bnry' = Wrap(bnry + 1, RX_PAGES) /\ bnry' # curr /\ CardN \in 0 .. RX_PAGES - 2
    BY <2>1, <2>2, CardPages
  <2> QED
    BY <2>1, <2>2, <2>3, <2>4, <2>5
<1>1. bnry' \in 0 .. RX_PAGES - 1 /\ bnry \in 0 .. RX_PAGES - 1 /\ curr \in 0 .. RX_PAGES - 1
  BY <1>0 DEF CardOK, Wrap
<1>2. poll' \in [Context -> NicPoll]
      /\ poll'[c].at = "curr" /\ poll'[c].bnry = bnry' /\ \A d \in Context \ {c} : poll'[d] = poll[d]
  BY <1>0, <1>1 DEF NicPoll
<1>3. CardN' = CardN - 1
  <2>1. CardN' = IF curr > bnry' THEN curr - bnry' - 1 ELSE curr - bnry' - 1 + RX_PAGES
    BY <1>0 DEF CardN
  <2>2. CASE bnry + 1 < RX_PAGES
    <3>1. bnry' = bnry + 1
      BY <1>0, <2>2 DEF Wrap
    <3> QED
      BY <1>0, <1>1, <2>1, <3>1 DEF CardN
  <2>3. CASE bnry + 1 = RX_PAGES
    <3>1. bnry' = 0 /\ bnry = RX_PAGES - 1
      BY <1>1, <2>3, <1>0 DEF Wrap
    <3> QED
      BY <1>0, <1>1, <2>1, <3>1 DEF CardN, CardOK
  <2> QED
    BY <1>1, <2>2, <2>3
<1>4. \A k \in 1 .. CardN' : CardAt(k)' = CardAt(k + 1)
  <2> SUFFICES ASSUME NEW k \in 1 .. CardN' PROVE CardAt(k)' = CardAt(k + 1)
    OBVIOUS
  <2>1. k \in 1 .. RX_PAGES - 3
    BY <1>0, <1>3
  <2>2. Wrap(bnry' + k, RX_PAGES) = Wrap(bnry + (k + 1), RX_PAGES)
    <3>1. CASE bnry + 1 < RX_PAGES
      <4>1. bnry' = bnry + 1
        BY <1>0, <3>1 DEF Wrap
      <4>2. bnry' + k = bnry + (k + 1)
        BY <4>1, <2>1, <1>1
      <4> QED
        BY <4>2
    <3>2. CASE bnry + 1 = RX_PAGES
      <4>1. bnry' = 0 /\ bnry = RX_PAGES - 1
        BY <1>1, <3>2, <1>0 DEF Wrap
      <4> QED
        BY <4>1, <2>1 DEF Wrap
    <3> QED
      BY <1>1, <3>1, <3>2
  <2> QED
    BY <1>0, <2>2 DEF CardAt
<1>5. OneAtATime'
  BY <1>0, <1>2 DEF OneAtATime
<1>6. CardOK'
  <2>1. \A k \in 1 .. CardN' : CardAt(k)' = arrived' - CardN' + k
    <3> SUFFICES ASSUME NEW k \in 1 .. CardN' PROVE CardAt(k)' = arrived' - CardN' + k
      OBVIOUS
    <3>1. k + 1 \in 1 .. CardN /\ CardN' = CardN - 1 /\ arrived' = arrived /\ arrived \in Nat
      BY <1>0, <1>3 DEF CardOK
    <3>2. CardAt(k + 1) = arrived - CardN + (k + 1)
      BY <3>1 DEF CardOK
    <3>3. arrived' - CardN' + k = arrived - CardN + (k + 1)
      BY <3>1, <1>0
    <3> QED
      BY <1>4, <3>2, <3>3
  <2>2. CardN' <= arrived' /\ arrived' \in Nat /\ ring' \in [0 .. RX_PAGES - 1 -> Nat]
    BY <1>0, <1>3 DEF CardOK
  <2>3. \A d \in Context : /\ poll'[d].at # "off" => poll'[d].bnry = bnry'
                           /\ poll'[d].at \notin {"push", "advance"}
    BY <1>0, <1>2
  <2> QED
    BY <1>0, <1>1, <2>1, <2>2, <2>3 DEF CardOK
<1>7. Moved' = Moved
  <2>1. Moved = arrived - CardN + 1
    BY <1>0 DEF Moved
  <2>2. ~ \E d \in Context : poll'[d].at = "advance"
    BY <1>0, <1>2
  <2>3. Moved' = arrived - CardN' + 0
    BY <1>0, <2>2 DEF Moved
  <2>4. arrived \in Nat
    BY DEF CardOK
  <2> QED
    BY <1>0, <1>3, <2>1, <2>3, <2>4
<1>8. MemN' = MemN /\ \A i : MemAt(i)' = MemAt(i)
  BY <1>0 DEF MemN, MemAt, swVars
<1>9. MemOK' /\ AllMoved'
  BY <1>0, <1>7, <1>8 DEF MemOK, FramesOnceInOrder, AllMoved, swVars
<1> QED
  BY <1>5, <1>6, <1>9

LEMMA RecvKeeps == ASSUME NicServes, ne2000_recv, NicPlaces' PROVE NicServes'
<1> USE NicSizes DEF NicServes
<1>0. /\ inIrq = "no" /\ netPc = "recv" /\ netPc' \in {"recv", "idle"}
      /\ UNCHANGED <<cardVars, txVars, dma, sw_ring, sw_head, inIrq, poll, arrived, dropped>>
  BY DEF ne2000_recv, Task
<1>1. OneAtATime'
  BY <1>0 DEF OneAtATime
<1>2. CardN' = CardN /\ Moved' = Moved /\ \A k : CardAt(k)' = CardAt(k)
  BY <1>0 DEF CardN, Moved, CardAt, cardVars
<1>3. CardOK'
  BY <1>0, <1>2 DEF CardOK, cardVars
<1>4. CASE sw_tail = sw_head
  <2>1. UNCHANGED <<taken, sw_tail>>
    BY <1>4 DEF ne2000_recv
  <2>2. MemN' = MemN /\ \A i : MemAt(i)' = MemAt(i)
    BY <1>0, <2>1 DEF MemN, MemAt
  <2>3. MemOK' /\ AllMoved'
    BY <1>0, <1>2, <2>1, <2>2 DEF MemOK, FramesOnceInOrder, AllMoved
  <2> QED
    BY <1>1, <1>3, <2>3
<1>5. CASE sw_tail # sw_head
  <2> DEFINE f == MemAt(0)
  <2>1. /\ taken' = Append(taken, sw_ring[sw_tail]) /\ sw_tail' = Wrap(sw_tail + 1, SW_RING)
    BY <1>5, MemSlots DEF ne2000_recv
  <2>2. sw_ring \in [0 .. SW_RING - 1 -> Nat] /\ sw_head \in 0 .. SW_RING - 1 /\ sw_tail \in 0 .. SW_RING - 1
        /\ MemN \in 1 .. SW_RING - 1 /\ sw_head' = sw_head /\ sw_ring' = sw_ring /\ taken \in Seq(Nat)
    BY <1>0, <1>5, MemSlots, SMTT(40) DEF MemOK
  <2>3. f = sw_ring[sw_tail] /\ f \in 1 .. Moved /\ f \in Nat /\ 0 \in 0 .. MemN - 1
    <3>1. Wrap(sw_tail + 0, SW_RING) = sw_tail
      BY <2>2 DEF Wrap
    <3>2. 0 \in 0 .. MemN - 1
      BY <2>2
    <3>3. f = sw_ring[sw_tail]
      BY <3>1 DEF MemAt
    <3>4. f \in 1 .. Moved
      BY <3>2 DEF MemOK
    <3> QED
      BY <3>2, <3>3, <3>4
  <2> HIDE DEF f
  <2>4. MemN' = MemN - 1
    <3>1. MemN = IF sw_head >= sw_tail THEN sw_head - sw_tail ELSE sw_head - sw_tail + SW_RING
      BY DEF MemN
    <3>2. MemN' = IF sw_head >= sw_tail' THEN sw_head - sw_tail' ELSE sw_head - sw_tail' + SW_RING
      BY <2>2 DEF MemN
    <3>3. CASE sw_tail + 1 < SW_RING
      <4>1. sw_tail' = sw_tail + 1
        BY <2>1, <3>3 DEF Wrap
      <4> QED
        BY <1>5, <2>2, <3>1, <3>2, <4>1
    <3>4. CASE sw_tail + 1 = SW_RING
      <4>1. sw_tail' = 0
        BY <2>1, <2>2, <3>4 DEF Wrap
      <4> QED
        BY <1>5, <2>2, <3>1, <3>2, <3>4, <4>1
    <3> QED
      BY <2>2, <3>3, <3>4
  <2>5. \A i \in 0 .. MemN' - 1 : MemAt(i)' = MemAt(i + 1) /\ i + 1 \in 0 .. MemN - 1
    <3> SUFFICES ASSUME NEW i \in 0 .. MemN' - 1 PROVE MemAt(i)' = MemAt(i + 1) /\ i + 1 \in 0 .. MemN - 1
      OBVIOUS
    <3>1. i \in 0 .. SW_RING - 3 /\ i + 1 \in 0 .. MemN - 1
      BY <2>2, <2>4
    <3>2. Wrap(sw_tail' + i, SW_RING) = Wrap(sw_tail + (i + 1), SW_RING)
      <4>1. CASE sw_tail + 1 < SW_RING
        <5>1. sw_tail' = sw_tail + 1
          BY <2>1, <4>1 DEF Wrap
        <5>2. sw_tail' + i = sw_tail + (i + 1)
          BY <5>1, <3>1, <2>2
        <5> QED
          BY <5>2
      <4>2. CASE sw_tail + 1 = SW_RING
        <5>1. sw_tail' = 0 /\ sw_tail = SW_RING - 1
          BY <2>1, <2>2, <4>2 DEF Wrap
        <5> QED
          BY <5>1, <3>1 DEF Wrap
      <4> QED
        BY <2>2, <4>1, <4>2
    <3> QED
      BY <2>2, <3>1, <3>2 DEF MemAt
  <2>6. /\ taken' \in Seq(Nat) /\ Len(taken) \in Nat /\ DOMAIN taken = 1 .. Len(taken)
        /\ DOMAIN taken' = 1 .. Len(taken) + 1
        /\ \A t \in 1 .. Len(taken) + 1 : taken'[t] = IF t <= Len(taken) THEN taken[t] ELSE f
    BY <2>1, <2>2, <2>3
  <2>7. \A t \in DOMAIN taken : taken[t] \in 1 .. Moved /\ taken[t] < f
    BY <2>3 DEF MemOK, f
  <2>8. FramesOnceInOrder'
    <3> SUFFICES ASSUME NEW s \in DOMAIN taken', NEW t \in DOMAIN taken', s < t PROVE taken'[s] < taken'[t]
      BY DEF FramesOnceInOrder
    <3>1. s \in DOMAIN taken /\ taken'[s] = taken[s]
      BY <2>6
    <3>2. CASE t <= Len(taken)
      <4>1. t \in DOMAIN taken /\ taken'[t] = taken[t]
        BY <3>2, <2>6
      <4> QED
        BY <3>1, <4>1 DEF MemOK, FramesOnceInOrder
    <3>3. CASE t > Len(taken)
      BY <3>1, <3>3, <2>6, <2>7
    <3> QED
      BY <2>6, <3>2, <3>3
  <2>9. \A i \in 0 .. MemN' - 1 : f < MemAt(i)'
    <3> SUFFICES ASSUME NEW i \in 0 .. MemN' - 1 PROVE f < MemAt(i)'
      OBVIOUS
    <3>1. i + 1 \in 0 .. MemN - 1 /\ MemAt(i)' = MemAt(i + 1) /\ 0 < i + 1
      BY <2>5, <2>2, <2>4
    <3>2. MemAt(0) < MemAt(i + 1)
      BY <2>3, <3>1 DEF MemOK
    <3> QED
      BY <3>1, <3>2 DEF f
  <2>10. MemOK'
    <3>1. \A i \in 0 .. MemN' - 1 : MemAt(i)' \in 1 .. Moved'
      BY <1>2, <2>5 DEF MemOK
    <3>2. \A i, j \in 0 .. MemN' - 1 : i < j => MemAt(i)' < MemAt(j)'
      <4> SUFFICES ASSUME NEW i \in 0 .. MemN' - 1, NEW j \in 0 .. MemN' - 1, i < j PROVE MemAt(i)' < MemAt(j)'
        OBVIOUS
      <4>1. i + 1 \in 0 .. MemN - 1 /\ j + 1 \in 0 .. MemN - 1 /\ MemAt(i)' = MemAt(i + 1) /\ MemAt(j)' = MemAt(j + 1)
        BY <2>5
      <4>2. i + 1 < j + 1
        BY <2>2, <2>4
      <4> QED
        BY <4>1, <4>2 DEF MemOK
    <3>3. ASSUME NEW t \in DOMAIN taken'
          PROVE  taken'[t] \in 1 .. Moved' /\ \A i \in 0 .. MemN' - 1 : taken'[t] < MemAt(i)'
      <4>1. CASE t <= Len(taken)
        <5>1. t \in DOMAIN taken /\ taken'[t] = taken[t]
          BY <4>1, <2>6
        <5> QED
          BY <5>1, <1>2, <2>5 DEF MemOK
      <4>2. CASE t > Len(taken)
        BY <4>2, <1>2, <2>3, <2>6, <2>9
      <4> QED
        BY <2>6, <4>1, <4>2
    <3>4. sw_head' \in 0 .. SW_RING - 1 /\ sw_tail' \in 0 .. SW_RING - 1 /\ sw_ring' \in [0 .. SW_RING - 1 -> Nat]
      BY <2>1, <2>2 DEF Wrap
    <3> QED
      BY <2>6, <2>8, <3>1, <3>2, <3>3, <3>4 DEF MemOK
  <2>11. AllMoved'
    <3>1. ASSUME NEW g \in 1 .. Moved
          PROVE  g \in dropped \/ (\E i \in 0 .. MemN' - 1 : MemAt(i)' = g) \/ (\E t \in DOMAIN taken' : taken'[t] = g)
      <4>1. CASE g \in dropped
        BY <4>1
      <4>2. CASE \E t \in DOMAIN taken : taken[t] = g
        BY <4>2, <2>6
      <4>3. CASE \E i \in 0 .. MemN - 1 : MemAt(i) = g
        <5>1. PICK i \in 0 .. MemN - 1 : MemAt(i) = g
          BY <4>3
        <5>2. CASE i = 0
          <6>1. taken'[Len(taken) + 1] = g /\ Len(taken) + 1 \in DOMAIN taken'
            BY <5>1, <5>2, <2>6 DEF f
          <6> QED
            BY <6>1
        <5>3. CASE i # 0
          <6> DEFINE h == i - 1
          <6>1. h \in 0 .. MemN' - 1 /\ h + 1 = i
            BY <5>3, <2>2, <2>4
          <6> HIDE DEF h
          <6>2. MemAt(h)' = g
            BY <6>1, <2>5, <5>1
          <6> QED
            BY <6>1, <6>2
        <5> QED
          BY <5>2, <5>3
      <4> QED
        BY <4>1, <4>2, <4>3 DEF AllMoved
    <3> QED
      BY <3>1, <1>0, <1>2 DEF AllMoved
  <2> QED
    BY <1>1, <1>3, <2>10, <2>11
<1> QED
  BY <1>4, <1>5

\* The handler's entry and exit and the rest of the task.
LEMMA TaskKeeps ==
  ASSUME NicServes, NicPlaces', ~ nested',
         ne2000_irq \/ Acknowledge \/ net_poll \/ ne2000_send \/ remote_write \/ Transmit \/ UNCHANGED nicVars
  PROVE  NicServes'
<1> USE DEF NicServes
<1>0. UNCHANGED <<ring, curr, bnry, swVars, arrived, taken, dropped>>
  BY DEF ne2000_irq, Acknowledge, net_poll, ne2000_send, remote_write, Transmit, nicVars, cardVars
<1>1. bnry \in 0 .. RX_PAGES - 1 /\ \A c \in Context : /\ poll[c].at # "off" => poll[c].bnry = bnry
                                                       /\ poll[c].at = "push" => CardN > 0
  BY DEF CardOK
<1>2. ASSUME UNCHANGED poll, OneAtATime' PROVE NicServes'
  BY <1>0, <1>1, <1>2, FramesStay
<1>3. ASSUME NEW c \in Context, poll[c].at = "off", poll' = [poll EXCEPT ![c] = ReadBnry(c)], OneAtATime'
      PROVE  NicServes'
  <2>1. ReadBnry(c) = [at |-> "curr", bnry |-> bnry, n |-> 0]
    BY DEF ReadBnry
  <2>2. poll'[c] = ReadBnry(c) /\ \A d \in Context \ {c} : poll'[d] = poll[d]
    BY <1>3 DEF NicPlaces
  <2>3. \A d \in Context : /\ poll'[d].at # "off" => poll'[d].bnry = bnry
                           /\ poll'[d].at = "push" => CardN > 0
                           /\ poll'[d].at = "advance" <=> poll[d].at = "advance"
    <3> SUFFICES ASSUME NEW d \in Context
                 PROVE  /\ poll'[d].at # "off" => poll'[d].bnry = bnry
                        /\ poll'[d].at = "push" => CardN > 0
                        /\ poll'[d].at = "advance" <=> poll[d].at = "advance"
      OBVIOUS
    <3>1. CASE d = c
      BY <3>1, <1>3, <2>1, <2>2
    <3>2. CASE d # c
      BY <3>2, <1>1, <2>2
    <3> QED
      BY <3>1, <3>2
  <2> QED
    BY <1>0, <1>3, <2>3, FramesStay
<1>4. CASE ne2000_irq \/ net_poll
  <2>1. PICK c \in Context : /\ poll[c].at = "off" /\ poll' = [poll EXCEPT ![c] = ReadBnry(c)] /\ dma' = dma
                             /\ \A d \in Context \ {c} : poll[d].at = "off"
                             /\ inIrq' # "no" => netPc' # "poll"
    <3>1. CASE ne2000_irq
      BY <3>1 DEF ne2000_irq, NicPlaces, Context
    <3>2. CASE net_poll
      BY <3>2 DEF net_poll, Task, NicPlaces, Context
    <3> QED
      BY <1>4, <3>1, <3>2
  <2>2. poll'[c].at = "curr" /\ \A d \in Context \ {c} : poll'[d].at = "off"
    BY <2>1 DEF ReadBnry, NicPlaces
  <2>3. OneAtATime'
    BY <2>1, <2>2 DEF OneAtATime
  <2> QED
    BY <2>1, <2>3, <1>3
<1>5. CASE Acknowledge \/ UNCHANGED nicVars
  <2>1. UNCHANGED <<dma, netPc, poll>> /\ (inIrq' # "no" => inIrq # "no")
    BY <1>5 DEF Acknowledge, nicVars
  <2>2. OneAtATime'
    BY <2>1 DEF OneAtATime
  <2> QED
    BY <2>1, <2>2, <1>2
<1>6. CASE ne2000_send \/ remote_write \/ Transmit
  <2>1. inIrq' = "no" /\ UNCHANGED poll /\ (dma' = dma \/ (netPc = "idle" /\ inIrq = "no"))
    BY <1>6 DEF ne2000_send, remote_write, Transmit, Task
  <2>2. OneAtATime'
    BY <2>1 DEF OneAtATime, NicPlaces, Context
  <2> QED
    BY <2>1, <2>2, <1>2
<1> QED
  BY <1>4, <1>5, <1>6

NicSpec == NicInit /\ [][NicNext]_nicVars

LEMMA NicStep == ASSUME NicInv, [NicNext]_nicVars PROVE NicInv'
<1>1. NicPlaces /\ NicPlaces'
  BY PlacesKeep DEF NicInv
<1>2. CASE nested'
  BY <1>1, <1>2 DEF NicInv
<1>3. CASE ~ nested'
  <2>1. ~ nested
    BY <1>3 DEF NicNext, CardReceives, PollStep, ReadCurr, Push, Corrupted, Advance, ne2000_irq,
                Acknowledge, NicTask, ne2000_recv, remote_write, Transmit, net_poll, ne2000_send, nicVars
  <2>2. NicServes
    BY <2>1 DEF NicInv
  <2>3. ASSUME NEW c \in Context, Corrupted(c) PROVE FALSE
    BY <2>2, <2>3 DEF NicServes, OneAtATime, Corrupted
  <2>4. NicServes'
    BY <1>1, <1>3, <2>2, <2>3, CardKeeps, CurrKeeps, PushKeeps, AdvanceKeeps, RecvKeeps, TaskKeeps
       DEF NicNext, PollStep, NicTask
  <2> QED
    BY <1>1, <2>4 DEF NicInv
<1> QED
  BY <1>2, <1>3

\* Until the handler comes while NET itself empties the card, frames are
\* received in the order they came and each at most once, and those that are
\* not received wait in the card or in memory or came when sw_ring was full.
\* What is transmitted is what was written, and no index leaves its ring, even
\* after that; for rings of any size and however the card, the handler and NET
\* interleave (ne2000.c:160-217, 313).
THEOREM FramesAlwaysServed == NicSpec => []FramesServed
<1>1. NicInit => NicInv
  BY NicInitOK DEF NicInv, NicServes
<1>2. NicInv /\ [NicNext]_nicVars => NicInv'
  BY NicStep
<1>3. NicServes => FramesOnceInOrder /\ FramesAccounted
  <2> SUFFICES ASSUME NicServes PROVE FramesOnceInOrder /\ FramesAccounted
    OBVIOUS
  <2> USE DEF NicServes
  <2>1. FramesOnceInOrder
    BY DEF MemOK
  <2>3. FramesAccounted
    <3>1. CardN \in Nat /\ arrived \in Nat /\ CardN <= arrived
          /\ \A k \in 1 .. CardN : CardAt(k) = arrived - CardN + k
      BY CardPages, NicSizes DEF CardOK
    <3>2. Moved \in arrived - CardN .. arrived /\ Moved >= arrived - CardN
      <4>1. (\E c \in Context : poll[c].at = "advance") => CardN > 0
        BY DEF CardOK
      <4>2. CASE \E c \in Context : poll[c].at = "advance"
        <5>1. Moved = arrived - CardN + 1
          BY <4>2 DEF Moved
        <5> QED
          BY <5>1, <4>1, <4>2, <3>1
      <4>3. CASE ~ \E c \in Context : poll[c].at = "advance"
        <5>1. Moved = arrived - CardN + 0
          BY <4>3 DEF Moved
        <5> QED
          BY <5>1, <3>1
      <4> QED
        BY <4>2, <4>3
    <3>3. InCard = arrived - CardN + 1 .. arrived
      <4>1. ASSUME NEW x \in arrived - CardN + 1 .. arrived PROVE x \in InCard
        <5> DEFINE k == x - (arrived - CardN)
        <5>1. k \in 1 .. CardN /\ x = arrived - CardN + k
          BY <3>1
        <5> HIDE DEF k
        <5> QED
          BY <5>1, <3>1, CardPages
      <4>2. ASSUME NEW k \in 1 .. CardN PROVE CardAt(k) \in arrived - CardN + 1 .. arrived
        BY <3>1
      <4> QED
        BY <4>1, <4>2, CardPages
    <3>4. \A x \in InMemory : x \in 1 .. Moved
      BY MemSlots DEF MemOK
    <3>5. \A x \in 1 .. Moved : x \in InMemory \cup {taken[t] : t \in DOMAIN taken} \cup dropped
      BY MemSlots DEF AllMoved
    <3>6. \A x \in {taken[t] : t \in DOMAIN taken} \cup dropped : x \in 1 .. Moved
      BY DEF MemOK, AllMoved
    <3>7. \A x \in 1 .. arrived : x \in 1 .. Moved \/ x \in InCard
      BY <3>1, <3>2, <3>3
    <3>8. 1 .. Moved \subseteq 1 .. arrived /\ InCard \subseteq 1 .. arrived
      BY <3>1, <3>2, <3>3
    <3> QED
      BY <3>4, <3>5, <3>6, <3>7, <3>8 DEF FramesAccounted
  <2> QED
    BY <2>1, <2>3
<1>4. NicInv => FramesServed
  BY <1>3 DEF NicInv, FramesServed, NicTypeOK, TransmitIntact, NicPlaces
<1> QED
  BY <1>1, <1>2, <1>4, PTL DEF NicSpec
================================================================================
