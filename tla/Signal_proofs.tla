-------------------------------- MODULE Signal_proofs --------------------------------
(***************************************************************************)
(* Proofs about the calculations of MCSignal and the timed fade. The input  *)
(* of a pure function never changes, so that what a run checks of it holds  *)
(* as soon as the lemma about the function does; the lemmas are for all     *)
(* inputs, where a run has a few. The timed fade has an inductive invariant,*)
(* and the clock has one for as long as nothing upsets it.                  *)
(***************************************************************************)
EXTENDS MCSignal, WellFoundedInduction, TLAPS

\* Arithmetic.

\* Division with remainder.
LEMMA DivMod ==
  ASSUME NEW n \in Nat \ {0}, NEW a \in Nat
  PROVE  /\ a % n \in 0..n-1
         /\ a \div n \in Nat
         /\ a = n * (a \div n) + (a % n)
<1>1. a % n \in 0..n-1 /\ a \div n \in Int /\ a = n * (a \div n) + (a % n)  BY Z3
<1> DEFINE q == a \div n
           r == a % n
<1>2. q \in Int /\ r \in 0..n-1 /\ a = n * q + r  BY <1>1
<1> HIDE DEF q, r
<1>3. ASSUME q < 0 PROVE FALSE
  <2>1. n * (0 - q) >= n  BY <1>2, <1>3, Z3
  <2>2. n * (0 - q) = r - a  BY <1>2, Z3
  <2> QED  BY <1>2, <2>1, <2>2
<1>4. q \in Nat  BY <1>2, <1>3
<1> QED  BY <1>1, <1>4 DEF q

\* A quotient is known by its bounds.
LEMMA Quotient ==
  ASSUME NEW n \in Nat \ {0}, NEW a \in Nat
  PROVE  a \div n \in Nat /\ n * (a \div n) <= a /\ a < n * (a \div n) + n
<1> DEFINE q == a \div n
           r == a % n
           m == n * q
<1>1. r \in 0..n-1 /\ q \in Nat /\ a = m + r  BY DivMod, Zenon
<1>2. m \in Nat  BY <1>1
<1> HIDE DEF r, m
<1>3. m <= a /\ a < m + n  BY <1>1, <1>2
<1> QED  BY <1>1, <1>3 DEF m

\* What is true of products is true of their factors.
LEMMA Cancel ==
  ASSUME NEW n \in Nat \ {0}, NEW a \in Int, NEW b \in Int
  PROVE  /\ n * a <= n * b => a <= b
         /\ n * a < n * b => a < b
<1>1. ASSUME a > b PROVE n * a > n * b
  <2>1. n * (a - b) > 0  BY <1>1, Z3
  <2> QED  BY <2>1, Z3
<1>2. ASSUME a >= b PROVE n * a >= n * b
  <2>1. n * (a - b) >= 0  BY <1>2, Z3
  <2> QED  BY <2>1, Z3
<1>3. n * a \in Int /\ n * b \in Int  OBVIOUS
<1> QED  BY <1>1, <1>2, <1>3

\* A quotient and a remainder are determined by what they must satisfy.
LEMMA ModUnique ==
  ASSUME NEW n \in Nat \ {0}, NEW a \in Nat, NEW q \in Int, NEW r \in 0..n-1, a = n * q + r
  PROVE  a % n = r /\ a \div n = q
<1> DEFINE p == a \div n
           t == a % n
<1>1. t \in 0..n-1 /\ p \in Nat /\ a = n * p + t  BY DivMod, Zenon
<1> HIDE DEF p, t
<1>2. n * (p + 1) = n * p + n /\ n * (q + 1) = n * q + n  BY <1>1, Z3
<1>3. n * p \in Int /\ n * q \in Int  BY <1>1
<1>4. n * p < n * (q + 1) /\ n * q < n * (p + 1)  BY <1>1, <1>2, <1>3
<1>5. p < q + 1 /\ q < p + 1  BY <1>1, <1>4, Cancel
<1>6. p = q  BY <1>1, <1>5
<1>7. t = r  BY <1>1, <1>3, <1>6
<1> QED  BY <1>6, <1>7 DEF p, t
--------------------------------------------------------------------------------
\* The timed fade.

\* While the fade lasts there are steps left.
StepsLeft == timed_ => scale_ < 255

\* A step is the 255th part of what was asked for, in whole ms.
WholeSteps == bucketsize_ = ms \div 255

\* The inductive invariant of the timed fade: its length in steps of that size is exact.
IInv == TypeOK /\ StepsLeft /\ WholeSteps /\ Linear /\ EndsInTime

\* The fade starts in the invariant.
LEMMA InitInv == Init => IInv
<1> SUFFICES ASSUME Init PROVE IInv  OBVIOUS
<1>1. ms \in Nat  BY FadeAssumption DEF Init
<1>2. ms \div 255 \in Nat  BY <1>1, DivMod
<1>3. bucketsize_ \in Nat \ {0}  BY <1>2 DEF Init
<1>4. TypeOK  BY <1>3 DEF Init, TypeOK
<1>5. StepsLeft  BY DEF Init, StepsLeft
<1>6. Linear /\ EndsInTime  BY <1>3 DEF Init, Linear, EndsInTime, elapsed
<1> QED  BY <1>4, <1>5, <1>6 DEF IInv, Init, WholeSteps

\* A frame of the fade keeps it.
LEMMA NextStep == IInv /\ [Next]_vars => IInv'
<1> SUFFICES ASSUME IInv, [Next]_vars PROVE IInv'  OBVIOUS
<1>1. CASE UNCHANGED vars
  BY <1>1 DEF vars, IInv, TypeOK, StepsLeft, WholeSteps, Linear, EndsInTime, elapsed
<1>2. CASE Next
  <2>1. PICK frame_ms \in FrameMs : Apply(frame_ms)  BY <1>2 DEF Next
  <2> DEFINE p == IF ms_per_frame_ = 0 THEN frame_ms ELSE ms_per_frame_
             step == (modulo_ + p) \div bucketsize_
             rest == (modulo_ + p) % bucketsize_
  <2>2. /\ ms \in Ms /\ bucketsize_ \in Nat \ {0} /\ timed_ = TRUE /\ applied \in Nat
        /\ modulo_ \in 0..bucketsize_ - 1 /\ scale_ \in 0..254 /\ ms_per_frame_ \in Nat
        /\ applied > 0 => ms_per_frame_ # 0
        /\ scale_ * bucketsize_ + modulo_ = applied * ms_per_frame_
    BY <2>1 DEF Apply, IInv, TypeOK, StepsLeft, Linear, elapsed
  <2>3. p \in Nat \ {0}  BY <2>2, FadeAssumption
  <2>4. applied * p = applied * ms_per_frame_
    <3>1. CASE ms_per_frame_ = 0
      <4>1. applied = 0  BY <2>2, <3>1
      <4> QED  BY <2>2, <2>3, <3>1, <4>1
    <3>2. CASE ms_per_frame_ # 0  BY <3>2
    <3> QED  BY <3>1, <3>2
  <2>5. /\ ms_per_frame_' = p /\ modulo_' = rest /\ applied' = applied + 1
        /\ bucketsize_' = bucketsize_ /\ ms' = ms
        /\ IF scale_ + step >= 255 THEN timed_' = FALSE /\ scale_' = 255
           ELSE scale_' = scale_ + step /\ timed_' = timed_
    BY <2>1 DEF Apply
  <2>10. WholeSteps'  BY <2>5 DEF IInv, WholeSteps
  <2> HIDE DEF p
  <2>6. step \in Nat /\ rest \in 0..bucketsize_ - 1 /\ modulo_ + p = bucketsize_ * step + rest
    <3>1. modulo_ + p \in Nat  BY <2>2, <2>3
    <3> QED  BY <2>2, <3>1, DivMod, Zenon
  <2> HIDE DEF step, rest
  <2>7. /\ (scale_ + step) * bucketsize_ + rest = (applied + 1) * p
        /\ scale_ + step < 255 => (applied + 1) * p < 255 * bucketsize_
        /\ scale_ + step >= 255 => (applied + 1) * p >= 255 * bucketsize_
        /\ applied * p < 255 * bucketsize_
    <3>1. scale_ * bucketsize_ + modulo_ = applied * p  BY <2>2, <2>4, Zenon
    <3>2. /\ bucketsize_ \in Nat \ {0} /\ applied \in Nat
          /\ modulo_ \in 0..bucketsize_ - 1 /\ scale_ \in 0..254
      BY <2>2, Zenon
    <3>3. (applied + 1) * p = applied * p + p  BY <2>3, <3>2, Z3
    <3>4. (scale_ + step) * bucketsize_ = scale_ * bucketsize_ + bucketsize_ * step
      BY <2>6, <3>2, Z3
    <3>5. (scale_ + step) * bucketsize_ + rest = (applied + 1) * p
      BY <2>3, <2>6, <3>1, <3>2, <3>3, <3>4, Z3
    <3>6. ASSUME scale_ + step < 255 PROVE (applied + 1) * p < 255 * bucketsize_
      <4>1. (scale_ + step) * bucketsize_ <= 254 * bucketsize_  BY <2>6, <3>2, <3>6, Z3
      <4> QED  BY <2>6, <3>2, <3>5, <4>1, Z3
    <3>7. ASSUME scale_ + step >= 255 PROVE (applied + 1) * p >= 255 * bucketsize_
      <4>1. (scale_ + step) * bucketsize_ >= 255 * bucketsize_  BY <2>6, <3>2, <3>7, Z3
      <4> QED  BY <2>6, <3>2, <3>5, <4>1, Z3
    <3>8. applied * p < 255 * bucketsize_
      <4>1. scale_ * bucketsize_ <= 254 * bucketsize_  BY <3>2, Z3
      <4> QED  BY <3>1, <3>2, <4>1, Z3
    <3> QED  BY <3>5, <3>6, <3>7, <3>8
  <2>8. CASE scale_ + step >= 255
    <3>1. timed_' = FALSE /\ scale_' = 255  BY <2>5, <2>8
    <3>2. applied' - 1 = applied  BY <2>2, <2>5
    <3>3. modulo_' \in 0..bucketsize_' - 1 /\ applied' \in Nat /\ scale_' \in 0..255
      BY <2>2, <2>5, <2>6, <3>1
    <3>4. TypeOK'  BY <2>2, <2>3, <2>5, <3>1, <3>3 DEF TypeOK
    <3>5. /\ elapsed' >= 255 * bucketsize_'
          /\ elapsed' - ms_per_frame_' < 255 * bucketsize_'
      <4>1. applied * p \in Nat /\ (applied + 1) * p = applied * p + p  BY <2>2, <2>3, Z3
      <4>2. elapsed' = (applied + 1) * p  BY <2>5 DEF elapsed
      <4>3. elapsed' - p = applied * p  BY <2>3, <4>1, <4>2
      <4> QED  BY <2>5, <2>8, <2>7, <4>2, <4>3
    <3> QED  BY <2>10, <3>1, <3>4, <3>5 DEF IInv, StepsLeft, Linear, EndsInTime
  <2>9. CASE ~(scale_ + step >= 255)
    <3>1. timed_' = TRUE /\ scale_' = scale_ + step  BY <2>2, <2>5, <2>9
    <3>2. scale_' < 255 /\ scale_' \in Nat  BY <2>2, <2>6, <2>9, <3>1
    <3>3. scale_ + step < 255  BY <2>2, <2>6, <2>9
    <3>4. TypeOK'  BY <2>2, <2>3, <2>5, <2>6, <3>1, <3>2 DEF TypeOK
    <3>5. Linear' /\ EndsInTime'
      BY <2>5, <2>7, <3>1, <3>3 DEF Linear, EndsInTime, elapsed
    <3> QED  BY <2>10, <3>1, <3>2, <3>4, <3>5 DEF IInv, StepsLeft
  <2> QED  BY <2>8, <2>9
<1> QED  BY <1>1, <1>2

\* The invariant holds throughout the fade.
LEMMA Invariance == Spec => []IInv
<1>1. Init => IInv  BY InitInv
<1>2. IInv /\ [Next]_vars => IInv'  BY NextStep
<1> QED  BY <1>1, <1>2, PTL DEF Spec

\* Type correctness of the timed fade: its scale never leaves the range of a uint8_t, its
\* remainder is less than a step.
THEOREM TypeCorrect == Spec => []TypeOK
<1>1. IInv => TypeOK  BY DEF IInv
<1> QED  BY <1>1, Invariance, PTL

\* The length in steps, against the length asked for.
LEMMA AgainstAsked ==
  ASSUME NEW b \in Nat \ {0}, NEW m \in Nat, b = m \div 255, NEW t \in Nat, NEW k \in 0..255
  PROVE  /\ k * b <= t => k * (m - 254) <= 255 * t
         /\ t < (k + 1) * b => 255 * t < (k + 1) * m
         /\ 255 * b <= m
<1>1. 255 * b <= m /\ m < 255 * b + 255  BY 255 \in Nat \ {0}, Quotient, SMT
<1>2. k * (255 * b) = 255 * (k * b) /\ (k + 1) * (255 * b) = 255 * ((k + 1) * b)  BY Z3
<1>3. k * (m - 254) <= k * (255 * b)
  <2>1. k * (255 * b - (m - 254)) >= 0  BY <1>1, Z3
  <2>2. k * (255 * b - (m - 254)) = k * (255 * b) - k * (m - 254)  BY Z3
  <2>3. k * (255 * b) \in Int /\ k * (m - 254) \in Int  BY Z3
  <2> QED  BY <2>1, <2>2, <2>3
<1>4. (k + 1) * (255 * b) <= (k + 1) * m
  <2>1. (k + 1) * (m - 255 * b) >= 0  BY <1>1, Z3
  <2>2. (k + 1) * (m - 255 * b) = (k + 1) * m - (k + 1) * (255 * b)  BY Z3
  <2>3. (k + 1) * (255 * b) \in Int /\ (k + 1) * m \in Int  BY Z3
  <2> QED  BY <2>1, <2>2, <2>3
<1>5. /\ k * b \in Int /\ (k + 1) * b \in Int /\ k * (m - 254) \in Int /\ (k + 1) * m \in Int
  BY Z3
<1> QED  BY <1>1, <1>2, <1>3, <1>4, <1>5

\* For any length of the fade and of the frames, the fade keeps up with the time that was
\* asked for at every frame, ends in the frame in which it is over, and is ahead of it by no
\* more than 255 steps of a whole number of ms make.
THEOREM FadeInTime == Spec => []FadeTimed
<1>1. IInv => FadeTimed
  <2> SUFFICES ASSUME IInv PROVE FadeTimed  OBVIOUS
  <2>1. /\ ms \in Nat /\ bucketsize_ \in Nat \ {0} /\ bucketsize_ = ms \div 255
        /\ scale_ \in 0..255 /\ modulo_ \in 0..bucketsize_ - 1
        /\ applied \in Nat /\ ms_per_frame_ \in Nat /\ timed_ \in BOOLEAN
    BY FadeAssumption DEF IInv, TypeOK, WholeSteps
  <2>2. elapsed \in Nat  BY <2>1 DEF elapsed
  <2>3. CASE timed_
    <3>1. scale_ * bucketsize_ + modulo_ = elapsed  BY <2>3 DEF IInv, Linear
    <3>2. scale_ * bucketsize_ \in Nat /\ (scale_ + 1) * bucketsize_ = scale_ * bucketsize_ + bucketsize_
      BY <2>1, Z3
    <3>3. scale_ * bucketsize_ <= elapsed /\ elapsed < (scale_ + 1) * bucketsize_
      BY <2>1, <2>2, <3>1, <3>2
    <3> QED  BY <2>1, <2>2, <2>3, <3>3, AgainstAsked DEF FadeTimed
  <2>4. CASE ~timed_
    <3>1. /\ scale_ = 255 /\ 255 * bucketsize_ <= elapsed
          /\ elapsed - ms_per_frame_ < 255 * bucketsize_
      BY <2>1, <2>2, <2>4 DEF IInv, EndsInTime
    <3>2. 255 * bucketsize_ <= ms /\ scale_ * (ms - 254) <= 255 * elapsed
      BY <2>1, <2>2, <3>1, AgainstAsked
    <3> QED  BY <2>1, <2>2, <2>4, <3>1, <3>2 DEF FadeTimed
  <2> QED  BY <2>3, <2>4
<1> QED  BY <1>1, Invariance, PTL
--------------------------------------------------------------------------------
\* Times.

\* The two video systems are told apart.
LEMMA TwoSystems == dv_system_525_60 # dv_system_625_50
<1>1. dv_system_525_60.seq_count = 10 /\ dv_system_625_50.seq_count = 12
  BY DEF dv_system_525_60, dv_system_625_50
<1> QED  BY <1>1

\* The number of a frame never goes back.
LEMMA NeverBack ==
  ASSUME NEW n \in Nat
  PROVE  nominal_frame_num(dv_system_525_60, n + 1) >= nominal_frame_num(dv_system_525_60, n)
<1> DEFINE a(k) == (2 * k) \div 1798
           b(k) == (2 * (k + 2)) \div 17982
<1>1. \A k \in Nat : nominal_frame_num(dv_system_525_60, k) = k + a(k) - b(k)
  BY TwoSystems, 60 * 30 - 2 = 1798, 10 * 60 * 30 - 18 = 17982, SMT DEF nominal_frame_num
<1>2. ASSUME NEW k \in Nat
      PROVE  a(k) \in Nat /\ 1798 * a(k) <= 2 * k /\ 2 * k < 1798 * a(k) + 1798
  BY 1798 \in Nat \ {0}, 2 * k \in Nat, Quotient, SMT
<1>3. ASSUME NEW k \in Nat
      PROVE  b(k) \in Nat /\ 17982 * b(k) <= 2 * (k + 2) /\ 2 * (k + 2) < 17982 * b(k) + 17982
  BY 17982 \in Nat \ {0}, 2 * (k + 2) \in Nat, Quotient, SMT
<1> HIDE DEF a, b
<1>4. n + 1 \in Nat  BY SMT
<1>5. /\ a(n) \in Nat /\ 1798 * a(n) <= 2 * n /\ 2 * n < 1798 * a(n) + 1798
      /\ a(n + 1) \in Nat /\ 1798 * a(n + 1) <= 2 * (n + 1) /\ 2 * (n + 1) < 1798 * a(n + 1) + 1798
  BY <1>2, <1>4, SMT
<1>6. /\ b(n) \in Nat /\ 17982 * b(n) <= 2 * (n + 2) /\ 2 * (n + 2) < 17982 * b(n) + 17982
      /\ b(n + 1) \in Nat /\ 17982 * b(n + 1) <= 2 * (n + 3)
      /\ 2 * (n + 3) < 17982 * b(n + 1) + 17982
  <2>1. (n + 1) + 2 = n + 3  BY SMT
  <2> QED  BY <1>3, <1>4, <2>1, SMT
<1>7. a(n + 1) - a(n) \in 0..1
  <2>1. a(n + 1) >= a(n)  BY <1>5, SMT
  <2>2. a(n + 1) <= a(n) + 1  BY <1>5, SMT
  <2> QED  BY <1>5, <2>1, <2>2, SMT
<1>8. b(n + 1) - b(n) \in 0..1  BY <1>6, SMT
<1>9. /\ nominal_frame_num(dv_system_525_60, n) = n + a(n) - b(n)
      /\ nominal_frame_num(dv_system_525_60, n + 1) = (n + 1) + a(n + 1) - b(n + 1)
  BY <1>1, <1>4, SMT
<1> QED  BY <1>5, <1>6, <1>7, <1>8, <1>9, SMT

\* Two digits are read as they were written.
LEMMA BcdRead == \A v \in 0..99 : Unbcd(bcd(v)) = v
<1> SUFFICES ASSUME NEW v \in 0..99 PROVE Unbcd(bcd(v)) = v  OBVIOUS
<1> DEFINE q == v \div 10
           r == v % 10
<1>1. q \in 0..9 /\ r \in 0..9 /\ v = 10 * q + r  BY SMT
<1>2. bcd(v) = q * 16 + r  BY DEF bcd
<1> HIDE DEF q, r
<1>3. (q * 16 + r) \div 16 = q /\ (q * 16 + r) % 16 = r  BY <1>1, SMT
<1> QED  BY <1>1, <1>2, <1>3 DEF Unbcd

\* The number of the frame is one.
LEMMA NominalNat ==
  ASSUME NEW system \in System, NEW n \in Nat
  PROVE  nominal_frame_num(system, n) \in Nat
<1>1. CASE system = dv_system_625_50  BY <1>1 DEF nominal_frame_num
<1>2. CASE system # dv_system_625_50
  <2> DEFINE a == (2 * n) \div 1798
             b == (2 * (n + 2)) \div 17982
  <2>1. nominal_frame_num(system, n) = n + a - b
    BY <1>2, 60 * 30 - 2 = 1798, 10 * 60 * 30 - 18 = 17982, SMT DEF nominal_frame_num
  <2>2. a \in Nat  BY 1798 \in Nat \ {0}, 2 * n \in Nat, Quotient, SMT
  <2>3. b \in Nat /\ 17982 * b <= 2 * (n + 2)
    BY 17982 \in Nat \ {0}, 2 * (n + 2) \in Nat, Quotient, SMT
  <2> HIDE DEF a, b
  <2>4. n + a - b >= 0  BY <2>2, <2>3, SMT
  <2> QED  BY <2>1, <2>2, <2>3, <2>4
<1> QED  BY <1>1, <1>2

\* A digit is what is left of a quotient by the next one.
LEMMA Digit ==
  ASSUME NEW n \in Nat, NEW p \in Nat \ {0}, NEW c \in Nat \ {0}
  PROVE  /\ n \div p \in Nat /\ n \div (c * p) \in Nat
         /\ (n \div p) % c = n \div p - c * (n \div (c * p))
<1> DEFINE a == n \div p
           b == n \div (c * p)
<1>1. c * p \in Nat \ {0}  BY Z3
<1>2. a \in Nat /\ p * a <= n /\ n < p * a + p  BY Quotient, Zenon
<1>3. b \in Nat /\ (c * p) * b <= n /\ n < (c * p) * b + c * p  BY <1>1, Quotient, Zenon
<1> HIDE DEF a, b
<1>4. c * b \in Nat /\ c * b + c \in Nat  BY <1>3, Z3
<1>5. (c * p) * b = p * (c * b) /\ p * (c * b + c) = p * (c * b) + c * p  BY <1>3, Z3
<1>6. p * (a + 1) = p * a + p  BY <1>2, Z3
<1>7. /\ p * a \in Nat /\ p * (c * b) \in Nat /\ p * (a + 1) \in Nat
      /\ p * (c * b + c) \in Nat /\ c * p \in Nat
  BY <1>2, <1>4, Z3
<1>8. p * (c * b) < p * (a + 1) /\ p * a < p * (c * b + c)
  BY <1>2, <1>3, <1>5, <1>6, <1>7, SMT
<1>9. c * b < a + 1 /\ a < c * b + c
  <2>1. c * b \in Int /\ a + 1 \in Int /\ a \in Int /\ c * b + c \in Int  BY <1>2, <1>4, SMT
  <2> QED  BY <1>8, <2>1, Cancel, Zenon
<1>10. a - c * b \in 0..c - 1 /\ a = c * b + (a - c * b)  BY <1>2, <1>4, <1>9, SMT
<1>11. a % c = a - c * b
  <2> DEFINE r == a - c * b
  <2>1. r \in 0..c - 1 /\ a = c * b + r  BY <1>10
  <2> HIDE DEF r
  <2>2. b \in Int  BY <1>3
  <2>3. a % c = r  BY <1>2, <2>1, <2>2, ModUnique, Zenon
  <2> QED  BY <2>3 DEF r
<1> QED  BY <1>2, <1>3, <1>11 DEF a, b

\* The last of them is left of the days.
LEMMA DigitOfDay ==
  ASSUME NEW n \in Nat, NEW hour \in Nat \ {0}, NEW day, day = 24 * hour
  PROVE  n \div day \in Nat /\ n \div hour - 24 * (n \div day) = (n \div hour) % 24
<1>1. \A k \in Nat \ {0} : n \div (k * hour) \in Nat
                             /\ (n \div hour) % k = n \div hour - k * (n \div (k * hour))
  BY Digit, Zenon
<1>2. 24 \in Nat \ {0}  BY SMT
<1> QED  BY <1>1, <1>2

\* A number is made up again from its frames, seconds, minutes and hours.
LEMMA MadeUpAgain ==
  ASSUME NEW n \in Nat, NEW rate \in Nat \ {0}
  PROVE  (n % rate) + rate * (((n \div rate) % 60)
             + 60 * (((n \div (60 * rate)) % 60) + 60 * ((n \div (60 * 60 * rate)) % 24)))
           = n % (24 * 60 * 60 * rate)
<1>1. 60 * rate \in Nat /\ 60 * rate > 0  BY Z3
<1>2. 60 * 60 * rate \in Nat /\ 60 * 60 * rate > 0 /\ 60 * 60 * rate = 60 * (60 * rate)  BY Z3
<1>3. /\ 24 * 60 * 60 * rate \in Nat /\ 24 * 60 * 60 * rate > 0
       /\ 24 * 60 * 60 * rate = 24 * (60 * 60 * rate)
  BY Z3
<1>4. PICK minute \in Nat \ {0} : minute = 60 * rate  BY <1>1
<1>5. PICK hour \in Nat \ {0} : hour = 60 * 60 * rate  BY <1>2
<1>6. PICK day \in Nat \ {0} : day = 24 * 60 * 60 * rate  BY <1>3
<1>7. hour = 60 * minute /\ day = 24 * hour  BY <1>2, <1>3, <1>4, <1>5, <1>6
<1> DEFINE a == n \div rate    b == n \div minute    c == n \div hour    d == n \div day
           f == n % rate       rest == n % day
<1>8. 60 \in Nat \ {0} /\ 24 \in Nat \ {0}  BY SMT
<1>9. a \in Nat /\ b \in Nat /\ a % 60 = a - 60 * b  BY <1>8, <1>4, Digit, Zenon
<1>10. c \in Nat /\ b % 60 = b - 60 * c  BY <1>8, <1>7, Digit, Zenon
<1>11. d \in Nat /\ c % 24 = c - 24 * d
  <2>1. n \div hour - 24 * (n \div day) = (n \div hour) % 24 /\ n \div day \in Nat
    BY <1>8, <1>7, DigitOfDay, Zenon
  <2> QED  BY <2>1, Zenon
<1>12. /\ f \in 0..rate - 1 /\ n = rate * a + f
      /\ rest \in 0..day - 1 /\ n = day * d + rest
  BY DivMod, Zenon
<1> HIDE DEF a, b, c, d, f, rest
<1>13. (a - 60 * b) + 60 * ((b - 60 * c) + 60 * (c - 24 * d)) = a - 60 * 60 * 24 * d
  BY <1>9, <1>10, <1>11, SMT
<1>14. day * d = rate * (60 * 60 * 24 * d)
  BY <1>11, <1>6, Z3
<1>15. rate * (a - 60 * 60 * 24 * d) = rate * a - day * d
  <2> DEFINE e == 60 * 60 * 24 * d
  <2>1. e \in Nat /\ day * d = rate * e  BY <1>11, <1>14, Z3
  <2> HIDE DEF e
  <2>2. rate * (a - e) = rate * a - rate * e  BY <1>9, <2>1, Z3
  <2> QED  BY <2>1, <2>2, Zenon DEF e
<1>16. f + (rate * a - day * d) = rest
  <2>1. rate * a \in Int /\ day * d \in Int /\ f \in Int /\ rest \in Int
    BY <1>9, <1>11, <1>12, Z3
  <2> QED  BY <1>12, <2>1, SMT
<1>17. f + rate * ((a % 60) + 60 * ((b % 60) + 60 * (c % 24))) = rest
  BY <1>9, <1>10, <1>11, <1>13, <1>15, <1>16, Zenon
<1>18. (n % rate) + rate * (((n \div rate) % 60)
                              + 60 * (((n \div minute) % 60) + 60 * ((n \div hour) % 24)))
         = n % day
  BY <1>17, Zenon DEF a, b, c, d, f, rest
<1> QED  BY <1>4, <1>5, <1>6, <1>18, Zenon

\* The time of each frame that the mixer ever numbers can be read back, in both video
\* systems, and never goes back.
THEOREM TimesKept ==
  ASSUME NEW system \in System, NEW n \in Nat
  PROVE  TimeKept(system, n)
<1> DEFINE number == nominal_frame_num(system, n)
           rate   == nominal_frame_rate(system)
           code   == timecode(system, n)
<1>1. rate \in {25, 30}  BY DEF nominal_frame_rate
<1>2. number \in Nat  BY NominalNat
<1>3. /\ code.frame  = bcd(number % rate)
      /\ code.second = bcd((number \div rate) % 60)
      /\ code.minute = bcd((number \div (60 * rate)) % 60)
      /\ code.hour   = bcd((number \div (60 * 60 * rate)) % 24)
  BY DEF timecode
<1> HIDE DEF number, rate, code
<1>4. /\ number % rate \in 0..99 /\ (number \div rate) % 60 \in 0..99
      /\ (number \div (60 * rate)) % 60 \in 0..99 /\ (number \div (60 * 60 * rate)) % 24 \in 0..99
  <2>1. /\ rate \in Nat \ {0} /\ 60 * rate \in Nat \ {0} /\ 60 * 60 * rate \in Nat \ {0}
        /\ rate <= 100
    BY <1>1
  <2>2. /\ number % rate \in 0..rate - 1 /\ number \div rate \in Nat
        /\ number \div (60 * rate) \in Nat /\ number \div (60 * 60 * rate) \in Nat
    BY <1>2, <2>1, DivMod
  <2> QED  BY <2>1, <2>2
<1>5. FrameOf(code, rate) = number % (24 * 60 * 60 * rate)
  <2>1. /\ Unbcd(code.frame) = number % rate
        /\ Unbcd(code.second) = (number \div rate) % 60
        /\ Unbcd(code.minute) = (number \div (60 * rate)) % 60
        /\ Unbcd(code.hour) = (number \div (60 * 60 * rate)) % 24
    BY <1>3, <1>4, BcdRead, Zenon
  <2>2. FrameOf(code, rate)
          = (number % rate) + rate * (((number \div rate) % 60)
              + 60 * (((number \div (60 * rate)) % 60) + 60 * ((number \div (60 * 60 * rate)) % 24)))
    BY <2>1, Zenon DEF FrameOf
  <2>3. rate \in Nat \ {0}  BY <1>1
  <2> QED  BY <1>2, <2>2, <2>3, MadeUpAgain, Zenon
<1>6. system = dv_system_625_50 => nominal_frame_num(system, n) = n
  BY Zenon DEF nominal_frame_num
<1>7. system # dv_system_625_50 => nominal_frame_num(system, n + 1) >= nominal_frame_num(system, n)
  BY NeverBack DEF System
<1> QED  BY <1>5, <1>6, <1>7 DEF TimeKept, number, rate, code

\* Blocks and offsets of the writes to the subcode: section y of the block 1 + x, pack z.
LEMMA SubcodeAt ==
  ASSUME NEW seq_num \in 6..11, NEW k \in 1..18
  PROVE  \E x \in 0..2, y \in 0..1, z \in 0..2 :
           /\ k = 6 * x + 3 * y + z + 1
           /\ SubcodeWrites(seq_num)[k].block = 1 + x
           /\ SubcodeWrites(seq_num)[k].offset = 24 * y + 8 * z + 6
<1> DEFINE x == (k - 1) \div 6
           y == ((k - 1) \div 3) % 2
           z == (k - 1) % 3
<1>1. x \in 0..2 /\ y \in 0..1 /\ z \in 0..2 /\ k = 6 * x + 3 * y + z + 1  BY SMT
<1>2. /\ SubcodeWrites(seq_num)[k].block = 1 + x
      /\ SubcodeWrites(seq_num)[k].offset = y * 24 + z * 8 + 6
  <2>1. ~(seq_num < 6)  OBVIOUS
  <2>2. SubcodeWrites(seq_num)[k] = Write(1 + x, y * 24 + z * 8 + 6,
                                          <<"timecode", "video date", "video time">>[z + 1])
    BY <2>1, Zenon DEF SubcodeWrites
  <2> HIDE DEF x, y, z
  <2>3. \A u, v, w : Write(u, v, w).block = u /\ Write(u, v, w).offset = v  BY DEF Write
  <2> DEFINE pack == <<"timecode", "video date", "video time">>[z + 1]
  <2>4. SubcodeWrites(seq_num)[k] = Write(1 + x, y * 24 + z * 8 + 6, pack)  BY <2>2
  <2> HIDE DEF pack
  <2> DEFINE place == y * 24 + z * 8 + 6
  <2> HIDE DEF place
  <2>5. SubcodeWrites(seq_num)[k] = Write(1 + x, place, pack)  BY <2>4 DEF place
  <2> QED  BY <2>3, <2>5 DEF place
<1> HIDE DEF x, y, z
<1>3. y * 24 + z * 8 + 6 = 24 * y + 8 * z + 6  BY <1>1
<1> QED  BY <1>1, <1>2, <1>3

\* Blocks and offsets of the writes to the VAUX.
LEMMA VauxAt ==
  ASSUME NEW k \in 1..12
  PROVE  \E x \in 0..2, y \in 0..1, z \in 0..1 :
           /\ k = 4 * x + 2 * y + z + 1
           /\ VauxWrites[k].block = 3 + x
           /\ VauxWrites[k].offset = 45 * y + 5 * z + 13
<1> DEFINE x == (k - 1) \div 4
           y == ((k - 1) \div 2) % 2
           z == (k - 1) % 2
<1>1. x \in 0..2 /\ y \in 0..1 /\ z \in 0..1 /\ k = 4 * x + 2 * y + z + 1  BY SMT
<1>2. /\ VauxWrites[k].block = 3 + x
      /\ VauxWrites[k].offset = y * 45 + z * 5 + 13
  BY DEF VauxWrites, Write
<1> HIDE DEF x, y, z
<1>3. y * 45 + z * 5 + 13 = 45 * y + 5 * z + 13  BY <1>1
<1> QED  BY <1>1, <1>2, <1>3

\* Two writes to the subcode, or to the VAUX, are apart.
LEMMA SubcodeApart ==
  ASSUME NEW seq_num \in 6..11, NEW i \in 1..18, NEW j \in i + 1..18
  PROVE  ~Overlap(SubcodeWrites(seq_num)[i], SubcodeWrites(seq_num)[j])
<1> SUFFICES ASSUME Overlap(SubcodeWrites(seq_num)[i], SubcodeWrites(seq_num)[j]) PROVE FALSE
  OBVIOUS
<1>1. j \in 1..18 /\ i < j  OBVIOUS
<1>2. PICK x1 \in 0..2, y1 \in 0..1, z1 \in 0..2 :
        /\ i = 6 * x1 + 3 * y1 + z1 + 1
        /\ SubcodeWrites(seq_num)[i].block = 1 + x1
        /\ SubcodeWrites(seq_num)[i].offset = 24 * y1 + 8 * z1 + 6
  BY SubcodeAt
<1>3. PICK x2 \in 0..2, y2 \in 0..1, z2 \in 0..2 :
        /\ j = 6 * x2 + 3 * y2 + z2 + 1
        /\ SubcodeWrites(seq_num)[j].block = 1 + x2
        /\ SubcodeWrites(seq_num)[j].offset = 24 * y2 + 8 * z2 + 6
  BY <1>1, SubcodeAt
<1>4. /\ x1 = x2
      /\ 24 * y1 + 8 * z1 < 24 * y2 + 8 * z2 + 5
      /\ 24 * y2 + 8 * z2 < 24 * y1 + 8 * z1 + 5
  BY <1>2, <1>3 DEF Overlap, DIF_PACK_SIZE
<1> QED  BY <1>1, <1>2, <1>3, <1>4

\* And so are those to the VAUX.
LEMMA VauxApart ==
  ASSUME NEW i \in 1..12, NEW j \in i + 1..12
  PROVE  ~Overlap(VauxWrites[i], VauxWrites[j])
<1> SUFFICES ASSUME Overlap(VauxWrites[i], VauxWrites[j]) PROVE FALSE  OBVIOUS
<1>1. j \in 1..12 /\ i < j  OBVIOUS
<1>2. PICK x1 \in 0..2, y1 \in 0..1, z1 \in 0..1 :
        /\ i = 4 * x1 + 2 * y1 + z1 + 1
        /\ VauxWrites[i].block = 3 + x1
        /\ VauxWrites[i].offset = 45 * y1 + 5 * z1 + 13
  BY VauxAt
<1>3. PICK x2 \in 0..2, y2 \in 0..1, z2 \in 0..1 :
        /\ j = 4 * x2 + 2 * y2 + z2 + 1
        /\ VauxWrites[j].block = 3 + x2
        /\ VauxWrites[j].offset = 45 * y2 + 5 * z2 + 13
  BY <1>1, VauxAt
<1>4. /\ x1 = x2
      /\ 45 * y1 + 5 * z1 < 45 * y2 + 5 * z2 + 5
      /\ 45 * y2 + 5 * z2 < 45 * y1 + 5 * z1 + 5
  BY <1>2, <1>3 DEF Overlap, DIF_PACK_SIZE
<1> QED  BY <1>1, <1>2, <1>3, <1>4

\* The elements of two sequences put together.
LEMMA Together ==
  ASSUME NEW S, NEW s \in Seq(S), NEW t \in Seq(S)
  PROVE  /\ s \o t \in Seq(S) /\ Len(s \o t) = Len(s) + Len(t)
         /\ \A i \in 1..Len(s) : (s \o t)[i] = s[i]
         /\ \A i \in 1..Len(t) : (s \o t)[Len(s) + i] = t[i]
<1>1. \A i \in 1..Len(s) : (s \o t)[i] = s[i]  OBVIOUS
<1>2. ASSUME NEW i \in 1..Len(t) PROVE (s \o t)[Len(s) + i] = t[i]
  <2> DEFINE k == Len(s) + i
  <2>1. k \in 1..Len(s) + Len(t) /\ k > Len(s) /\ k - Len(s) = i  OBVIOUS
  <2> HIDE DEF k
  <2>2. (s \o t)[k] = t[k - Len(s)]  BY <2>1
  <2> QED  BY <2>1, <2>2 DEF k
<1> QED  BY <1>1, <1>2

\* The i-th write, by the section of the frame it is for.
SubcodeCount(seq_num) == IF seq_num < 6 THEN 0 ELSE 18

\* The writes in their order: subcode, VAUX, AAUX.
LEMMA WritesBySection ==
  ASSUME NEW seq_num \in 0..11
  PROVE  LET n == SubcodeCount(seq_num)
             writes == set_times(seq_num)
         IN  /\ DOMAIN writes = 1..n + 14 /\ Len(writes) = n + 14
             /\ \A i \in 1..n : writes[i] = SubcodeWrites(seq_num)[i]
             /\ \A i \in 1..12 : writes[n + i] = VauxWrites[i]
             /\ \A i \in 1..2 : writes[n + 12 + i] = AauxWrites(seq_num)[i]
<1> DEFINE n == SubcodeCount(seq_num)
<1>0. n = IF seq_num < 6 THEN 0 ELSE 18  BY DEF SubcodeCount
<1> HIDE DEF n
<1> DEFINE sub  == SubcodeWrites(seq_num)
           aaux == AauxWrites(seq_num)
           All  == UNION {{sub[i] : i \in DOMAIN sub}, {VauxWrites[i] : i \in DOMAIN VauxWrites},
                          {aaux[i] : i \in DOMAIN aaux}}
<1>1. n \in Nat /\ sub \in Seq(All) /\ DOMAIN sub = 1..n
  <2>1. CASE seq_num < 6  BY <1>0, <2>1 DEF SubcodeWrites
  <2>2. CASE ~(seq_num < 6)
    <3>1. n = 18 /\ DOMAIN sub = 1..18 /\ sub = [k \in 1..18 |-> sub[k]]
      BY <1>0, <2>2 DEF SubcodeWrites
    <3> QED  BY <3>1
  <2> QED  BY <2>1, <2>2
<1>2. VauxWrites \in Seq(All) /\ DOMAIN VauxWrites = 1..12
  <2>1. DOMAIN VauxWrites = 1..12 /\ VauxWrites = [k \in 1..12 |-> VauxWrites[k]]
    BY DEF VauxWrites
  <2> QED  BY <2>1
<1>3. aaux \in Seq(All) /\ DOMAIN aaux = 1..2
  <2>1. DOMAIN aaux = 1..2  BY DEF AauxWrites
  <2>2. aaux = [k \in 1..2 |-> aaux[k]]  BY DEF AauxWrites
  <2> QED  BY <2>1, <2>2
<1>4. set_times(seq_num) = (sub \o VauxWrites) \o aaux  BY DEF set_times
<1> HIDE DEF sub, aaux
<1>5. Len(sub) = n /\ Len(VauxWrites) = 12 /\ Len(aaux) = 2  BY <1>1, <1>2, <1>3
<1> HIDE DEF All
<1> DEFINE two == sub \o VauxWrites
           whole == two \o aaux
<1>6. /\ two \in Seq(All) /\ Len(two) = n + 12
      /\ \A i \in 1..n : two[i] = sub[i]
      /\ \A i \in 1..12 : two[n + i] = VauxWrites[i]
  <2>1. sub \in Seq(All) /\ VauxWrites \in Seq(All)  BY <1>1, <1>2
  <2>2. /\ two \in Seq(All) /\ Len(two) = Len(sub) + Len(VauxWrites)
        /\ \A i \in 1..Len(sub) : two[i] = sub[i]
        /\ \A i \in 1..Len(VauxWrites) : two[Len(sub) + i] = VauxWrites[i]
    BY <2>1, Together, SMT
  <2> QED  BY <1>5, <2>2, Zenon
<1> HIDE DEF two
<1>7. /\ whole \in Seq(All) /\ Len(whole) = (n + 12) + 2
      /\ \A i \in 1..n + 12 : whole[i] = two[i]
      /\ \A i \in 1..2 : whole[n + 12 + i] = aaux[i]
  <2>1. two \in Seq(All) /\ aaux \in Seq(All)  BY <1>3, <1>6
  <2>2. /\ whole \in Seq(All) /\ Len(whole) = Len(two) + Len(aaux)
        /\ \A i \in 1..Len(two) : whole[i] = two[i]
        /\ \A i \in 1..Len(aaux) : whole[Len(two) + i] = aaux[i]
    BY <2>1, Together, SMT
  <2> QED  BY <1>5, <1>6, <2>2, Zenon
<1> HIDE DEF whole
<1>8. Len(whole) = n + 14 /\ DOMAIN whole = 1..n + 14
  <2>1. (n + 12) + 2 = n + 14  BY <1>1
  <2>2. whole \in Seq(All)  BY <1>7
  <2>3. DOMAIN whole = 1..Len(whole)  BY <2>2
  <2> QED  BY <1>7, <2>1, <2>3, Zenon
<1>9. \A i \in 1..n : i \in 1..n + 12  BY <1>1
<1>10. \A i \in 1..12 : n + i \in 1..n + 12  BY <1>1
<1> QED  BY <1>4, <1>6, <1>7, <1>8, <1>9, <1>10 DEF two, whole, sub, aaux, n

\* The settings of the sound are in block 6 of odd sequences, in block 54 of even ones.
LEMMA AsPackAt ==
  ASSUME NEW seq_num \in 0..11
  PROVE  as_pack(seq_num).block = IF seq_num % 2 = 1 THEN 6 ELSE 54
<1> DEFINE b == IF seq_num % 2 = 1 THEN 0 ELSE 3
<1>1. b \in 0..8 /\ 6 + 16 * b = IF seq_num % 2 = 1 THEN 6 ELSE 54  OBVIOUS
<1>2. \A c \in 0..8 : aaux_pack(seq_num, c) = "as" <=> c = b
  BY DEF aaux_pack
<1> HIDE DEF b
<1>3. (CHOOSE c \in 0..8 : aaux_pack(seq_num, c) = "as") = b  BY <1>1, <1>2
<1> QED  BY <1>1, <1>3 DEF as_pack, Write

\* The blocks of the two writes to the AAUX.
LEMMA AauxAt ==
  ASSUME NEW seq_num \in 0..11
  PROVE  /\ AauxWrites(seq_num)[1].block = IF seq_num % 2 = 1 THEN 38 ELSE 86
         /\ AauxWrites(seq_num)[2].block = IF seq_num % 2 = 1 THEN 54 ELSE 102
BY DEF AauxWrites, Write

\* Where the writes to the three sections may meet: subcode and VAUX in block 3 only, and
\* nothing else.
LEMMA SectionsApart ==
  ASSUME NEW seq_num \in 0..11
  PROVE  /\ \A i \in 1..18, j \in 1..12 :
              seq_num >= 6 /\ Overlap(SubcodeWrites(seq_num)[i], VauxWrites[j])
                => SubcodeWrites(seq_num)[i].block = 3
         /\ \A i \in 1..18, j \in 1..2 :
              seq_num >= 6 => ~Overlap(SubcodeWrites(seq_num)[i], AauxWrites(seq_num)[j])
         /\ \A i \in 1..12, j \in 1..2 : ~Overlap(VauxWrites[i], AauxWrites(seq_num)[j])
         /\ ~Overlap(AauxWrites(seq_num)[1], AauxWrites(seq_num)[2])
<1>1. ASSUME seq_num >= 6, NEW i \in 1..18
      PROVE  SubcodeWrites(seq_num)[i].block \in 1..3
  <2>1. seq_num \in 6..11  BY <1>1
  <2>2. PICK x \in 0..2, y \in 0..1, z \in 0..2 : SubcodeWrites(seq_num)[i].block = 1 + x
    BY <2>1, SubcodeAt
  <2> QED  BY <2>2
<1>2. ASSUME NEW j \in 1..12 PROVE VauxWrites[j].block \in 3..5
  <2>1. PICK x \in 0..2, y \in 0..1, z \in 0..1 : VauxWrites[j].block = 3 + x  BY VauxAt
  <2> QED  BY <2>1
<1>3. \A j \in 1..2 : AauxWrites(seq_num)[j].block \in 38..102
  <2>1. \A j \in 1..2 : j = 1 \/ j = 2  OBVIOUS
  <2> QED  BY <2>1, AauxAt
<1>4. \A v, w : Overlap(v, w) => v.block = w.block  BY DEF Overlap
<1>5. AauxWrites(seq_num)[1].block # AauxWrites(seq_num)[2].block  BY AauxAt
<1>6. ASSUME NEW i \in 1..18, NEW j \in 1..12, seq_num >= 6,
             Overlap(SubcodeWrites(seq_num)[i], VauxWrites[j])
      PROVE  SubcodeWrites(seq_num)[i].block = 3
  <2>1. SubcodeWrites(seq_num)[i].block = VauxWrites[j].block  BY <1>4, <1>6
  <2>2. SubcodeWrites(seq_num)[i].block \in 1..3  BY <1>1, <1>6
  <2>3. VauxWrites[j].block \in 3..5  BY <1>2
  <2> QED  BY <2>1, <2>2, <2>3
<1>7. ASSUME NEW i \in 1..18, NEW j \in 1..2, seq_num >= 6
      PROVE  ~Overlap(SubcodeWrites(seq_num)[i], AauxWrites(seq_num)[j])
  <2>1. SubcodeWrites(seq_num)[i].block \in 1..3  BY <1>1, <1>7
  <2>2. AauxWrites(seq_num)[j].block \in 38..102  BY <1>3
  <2>3. SubcodeWrites(seq_num)[i].block # AauxWrites(seq_num)[j].block  BY <2>1, <2>2
  <2> QED  BY <1>4, <2>3
<1>8. ASSUME NEW i \in 1..12, NEW j \in 1..2
      PROVE  ~Overlap(VauxWrites[i], AauxWrites(seq_num)[j])
  <2>1. VauxWrites[i].block \in 3..5  BY <1>2
  <2>2. AauxWrites(seq_num)[j].block \in 38..102  BY <1>3
  <2>3. VauxWrites[i].block # AauxWrites(seq_num)[j].block  BY <2>1, <2>2
  <2> QED  BY <1>4, <2>3
<1> QED  BY <1>4, <1>5, <1>6, <1>7, <1>8

\* What is written to a sequence stays whole, but for the subcode in block 3; the settings of
\* the sound are left alone, and so is the aspect in an even sequence.
LEMMA WritesWhole ==
  ASSUME NEW seq_num \in 0..11
  PROVE  LET writes == set_times(seq_num)
         IN  /\ \A i \in DOMAIN writes :
                  Whole(writes, i)
                    \/ (seq_num >= 6 /\ writes[i].block = 3 /\ writes[i].offset % 8 = 6)
             /\ Untouched(as_pack(seq_num), writes)
             /\ seq_num % 2 = 0 => Untouched(vsc_pack(seq_num), writes)
<1> DEFINE writes == set_times(seq_num)
           n      == SubcodeCount(seq_num)
<1>2. n \in {0, 18} /\ n = IF seq_num < 6 THEN 0 ELSE 18  BY DEF SubcodeCount
<1>1. /\ DOMAIN writes = 1..n + 14 /\ Len(writes) = n + 14
      /\ \A i \in 1..n : writes[i] = SubcodeWrites(seq_num)[i]
      /\ \A i \in 1..12 : writes[n + i] = VauxWrites[i]
      /\ \A i \in 1..2 : writes[n + 12 + i] = AauxWrites(seq_num)[i]
  BY WritesBySection, Zenon
<1> HIDE DEF writes, n
<1>3. ASSUME NEW i \in 1..n + 14
      PROVE  i \in 1..n \/ i - n \in 1..12 \/ i - (n + 12) \in 1..2
  BY <1>2
<1>4. ASSUME NEW i \in 1..n
      PROVE  /\ n = 18 /\ i \in 1..18 /\ seq_num >= 6 /\ seq_num \in 6..11
             /\ writes[i] = SubcodeWrites(seq_num)[i]
  <2>1. n = 18 /\ seq_num >= 6 /\ seq_num \in 6..11  BY <1>2
  <2> QED  BY <1>1, <2>1
<1>5. ASSUME NEW i \in 1..n + 14, i - n \in 1..12
      PROVE  writes[i] = VauxWrites[i - n]
  <2>1. n + (i - n) = i  BY <1>2
  <2>2. writes[n + (i - n)] = VauxWrites[i - n]  BY <1>1, <1>5
  <2> QED  BY <2>1, <2>2
<1>6. ASSUME NEW i \in 1..n + 14, i - (n + 12) \in 1..2
      PROVE  writes[i] = AauxWrites(seq_num)[i - (n + 12)]
  <2>1. n + 12 + (i - (n + 12)) = i  BY <1>2
  <2>2. writes[n + 12 + (i - (n + 12))] = AauxWrites(seq_num)[i - (n + 12)]  BY <1>1, <1>6
  <2> QED  BY <2>1, <2>2
<1>7. ASSUME NEW i \in 1..n + 14
      PROVE  Whole(writes, i) \/ (seq_num >= 6 /\ writes[i].block = 3 /\ writes[i].offset % 8 = 6)
  <2>1. SUFFICES ASSUME ~(seq_num >= 6 /\ writes[i].block = 3 /\ writes[i].offset % 8 = 6),
                        NEW j \in i + 1..n + 14
                 PROVE  ~Overlap(writes[i], writes[j])
    BY <1>1 DEF Whole
  <2>2. j \in 1..n + 14 /\ i < j  BY <1>2
  <2>3. CASE i \in 1..n
    <3>1. PICK x \in 0..2, y \in 0..1, z \in 0..2 :
            SubcodeWrites(seq_num)[i].offset = 24 * y + 8 * z + 6
      BY <1>4, <2>3, SubcodeAt
    <3>2. writes[i].offset % 8 = 6  BY <1>4, <2>3, <3>1
    <3>3. writes[i].block # 3  BY <1>4, <2>1, <2>3, <3>2
    <3>4. CASE j \in 1..n
      <4>1. j \in i + 1..18  BY <1>4, <2>2, <3>4
      <4>2. writes[j] = SubcodeWrites(seq_num)[j]  BY <1>4, <3>4
      <4> QED  BY <1>4, <2>3, <4>1, <4>2, SubcodeApart
    <3>5. CASE j - n \in 1..12
      <4>1. writes[j] = VauxWrites[j - n]  BY <1>5, <2>2, <3>5
      <4>2. i \in 1..18 /\ seq_num >= 6 /\ writes[i] = SubcodeWrites(seq_num)[i]  BY <1>4, <2>3
      <4> QED  BY <3>3, <3>5, <4>1, <4>2, SectionsApart
    <3>6. CASE j - (n + 12) \in 1..2
      BY <1>4, <1>6, <2>2, <2>3, <3>6, SectionsApart
    <3> QED  BY <1>3, <2>2, <3>4, <3>5, <3>6
  <2>4. CASE i - n \in 1..12
    <3>1. CASE j - n \in 1..12
      <4>1. j - n \in (i - n) + 1..12  BY <1>2, <2>2, <3>1
      <4> QED  BY <1>5, <2>2, <2>4, <3>1, <4>1, VauxApart
    <3>2. CASE j - (n + 12) \in 1..2
      BY <1>5, <1>6, <2>2, <2>4, <3>2, SectionsApart
    <3>3. ~(j \in 1..n)  BY <1>2, <2>2, <2>4
    <3> QED  BY <1>3, <2>2, <3>1, <3>2, <3>3
  <2>5. CASE i - (n + 12) \in 1..2
    <3>1. i - (n + 12) = 1 /\ j - (n + 12) = 2  BY <1>2, <2>2, <2>5
    <3>2. writes[i] = AauxWrites(seq_num)[1] /\ writes[j] = AauxWrites(seq_num)[2]
      <4>1. i - (n + 12) \in 1..2 /\ j - (n + 12) \in 1..2  BY <3>1
      <4> QED  BY <1>6, <2>2, <3>1, <4>1
    <3> QED  BY <3>2, SectionsApart
  <2> QED  BY <1>3, <2>3, <2>4, <2>5
<1>8. ASSUME NEW i \in 1..n + 14
      PROVE  ~Overlap(as_pack(seq_num), writes[i])
  <2>1. SUFFICES as_pack(seq_num).block # writes[i].block  BY DEF Overlap
  <2>2. CASE i \in 1..n
    <3>1. PICK x \in 0..2, y \in 0..1, z \in 0..2 : SubcodeWrites(seq_num)[i].block = 1 + x
      BY <1>4, <2>2, SubcodeAt, SMTT(30)
    <3> QED  BY <1>4, <2>2, <3>1, AsPackAt
  <2>3. CASE i - n \in 1..12
    <3>1. PICK x \in 0..2, y \in 0..1, z \in 0..1 : VauxWrites[i - n].block = 3 + x
      BY <2>3, VauxAt
    <3> QED  BY <1>5, <2>3, <3>1, AsPackAt
  <2>4. CASE i - (n + 12) \in 1..2
    <3>1. i - (n + 12) = 1 \/ i - (n + 12) = 2  BY <2>4
    <3> QED  BY <1>6, <2>4, <3>1, AauxAt, AsPackAt
  <2> QED  BY <1>3, <2>2, <2>3, <2>4
<1>9. ASSUME NEW i \in 1..n + 14, seq_num % 2 = 0
      PROVE  ~Overlap(vsc_pack(seq_num), writes[i])
  <2>1. vsc_pack(seq_num).block = 5 /\ vsc_pack(seq_num).offset = 53
    BY <1>9 DEF vsc_pack, Write
  <2>2. CASE i \in 1..n
    <3>1. PICK x \in 0..2, y \in 0..1, z \in 0..2 : SubcodeWrites(seq_num)[i].block = 1 + x
      BY <1>4, <2>2, SubcodeAt, SMTT(30)
    <3>2. writes[i].block # 5  BY <1>4, <2>2, <3>1
    <3> QED  BY <2>1, <3>2 DEF Overlap
  <2>3. CASE i - n \in 1..12
    <3>1. PICK x \in 0..2, y \in 0..1, z \in 0..1 :
            VauxWrites[i - n].block = 3 + x /\ VauxWrites[i - n].offset = 45 * y + 5 * z + 13
      BY <2>3, VauxAt
    <3>2. writes[i].offset \in {13, 18, 58, 63}  BY <1>5, <2>3, <3>1
    <3> QED  BY <2>1, <3>2 DEF Overlap, DIF_PACK_SIZE
  <2>4. CASE i - (n + 12) \in 1..2
    <3>1. i - (n + 12) = 1 \/ i - (n + 12) = 2  BY <2>4
    <3>2. writes[i].block # 5  BY <1>6, <2>4, <3>1, AauxAt
    <3> QED  BY <2>1, <3>2 DEF Overlap
  <2> QED  BY <1>3, <2>2, <2>3, <2>4
<1> QED  BY <1>1, <1>7, <1>8, <1>9 DEF Untouched, writes

\* The place of a write among those to the subcode, ...
LEMMA SubcodeIndex ==
  ASSUME NEW b \in 1..2, NEW y \in 0..1, NEW z \in 0..2
  PROVE  LET i == 6 * (b - 1) + 3 * y + z + 1
         IN  i \in 1..18 /\ (i - 1) \div 6 = b - 1 /\ ((i - 1) \div 3) % 2 = y /\ (i - 1) % 3 = z
<1> DEFINE i == 6 * (b - 1) + 3 * y + z + 1
<1>1. /\ i \in 1..18 /\ i - 1 \in Nat /\ 3 * y + z \in 0..5 /\ 2 * (b - 1) + y \in Nat
      /\ i - 1 = 6 * (b - 1) + (3 * y + z) /\ i - 1 = 3 * (2 * (b - 1) + y) + z
  BY SMT
<1>2. (i - 1) \div 6 = b - 1  BY <1>1, SMT
<1>3. (i - 1) \div 3 = 2 * (b - 1) + y /\ (i - 1) % 3 = z  BY <1>1, SMT
<1>4. (2 * (b - 1) + y) % 2 = y  BY <1>1, SMT
<1> QED  BY <1>1, <1>2, <1>3, <1>4

\* ... and among those to the VAUX.
LEMMA VauxIndex ==
  ASSUME NEW b \in 3..5, NEW y \in 0..1, NEW z \in 0..1
  PROVE  LET i == 4 * (b - 3) + 2 * y + z + 1
         IN  i \in 1..12 /\ (i - 1) \div 4 = b - 3 /\ ((i - 1) \div 2) % 2 = y /\ (i - 1) % 2 = z
<1> DEFINE i == 4 * (b - 3) + 2 * y + z + 1
<1>1. /\ i \in 1..12 /\ i - 1 \in Nat /\ 2 * y + z \in 0..3 /\ 2 * (b - 3) + y \in Nat
      /\ i - 1 = 4 * (b - 3) + (2 * y + z) /\ i - 1 = 2 * (2 * (b - 3) + y) + z
  BY SMT
<1>2. (i - 1) \div 4 = b - 3  BY <1>1, SMT
<1>3. (i - 1) \div 2 = 2 * (b - 3) + y /\ (i - 1) % 2 = z  BY <1>1, SMT
<1>4. (2 * (b - 3) + y) % 2 = y  BY <1>1, SMT
<1> QED  BY <1>1, <1>2, <1>3, <1>4

\* The packs of the comment for the subcode and the VAUX are among the writes.
LEMMA SubcodeWritten ==
  ASSUME NEW seq_num \in 6..11, NEW b \in 1..2, NEW y \in 0..1, NEW w \in SubcodePacks(b, y)
  PROVE  \E i \in 1..18 : SubcodeWrites(seq_num)[i] = w
<1> DEFINE packs == <<"timecode", "video date", "video time">>
<1>1. ASSUME NEW z \in 0..2
      PROVE  \E i \in 1..18 :
               SubcodeWrites(seq_num)[i] = Write(1 + (b - 1), y * 24 + z * 8 + 6, packs[z + 1])
  <2> DEFINE i == 6 * (b - 1) + 3 * y + z + 1
  <2>1. i \in 1..18 /\ (i - 1) \div 6 = b - 1 /\ ((i - 1) \div 3) % 2 = y /\ (i - 1) % 3 = z
    BY SubcodeIndex, SMT
  <2> HIDE DEF i
  <2>2. ~(seq_num < 6)  BY SMT
  <2>3. SubcodeWrites(seq_num)[i] = Write(1 + (b - 1), y * 24 + z * 8 + 6, packs[z + 1])
    BY <2>1, <2>2, Zenon DEF SubcodeWrites
  <2> QED  BY <2>1, <2>3, Zenon
<1>2. packs[0 + 1] = "timecode" /\ packs[1 + 1] = "video date" /\ packs[2 + 1] = "video time"
  BY SMT
<1> HIDE DEF packs
<1>3. /\ 1 + (b - 1) = b /\ y * 24 + 0 * 8 + 6 = 24 * y + 6 /\ y * 24 + 1 * 8 + 6 = 24 * y + 14
      /\ y * 24 + 2 * 8 + 6 = 24 * y + 22 /\ 0 \in 0..2 /\ 1 \in 0..2 /\ 2 \in 0..2
  BY SMT
<1>4. CASE w = Write(b, 24 * y + 6, "timecode")  BY <1>1, <1>2, <1>3, <1>4, Zenon
<1>5. CASE w = Write(b, 24 * y + 14, "video date")  BY <1>1, <1>2, <1>3, <1>5, Zenon
<1>6. CASE w = Write(b, 24 * y + 22, "video time")  BY <1>1, <1>2, <1>3, <1>6, Zenon
<1> QED  BY <1>4, <1>5, <1>6, Zenon DEF SubcodePacks

LEMMA VauxWritten ==
  ASSUME NEW b \in 3..5, NEW y \in 0..1, NEW w \in VauxPacks(b, y)
  PROVE  \E i \in 1..12 : VauxWrites[i] = w
<1> DEFINE packs == <<"video date", "video time">>
<1>1. ASSUME NEW z \in 0..1
      PROVE  \E i \in 1..12 :
               VauxWrites[i] = Write(3 + (b - 3), y * 45 + z * 5 + 13, packs[z + 1])
  <2> DEFINE i == 4 * (b - 3) + 2 * y + z + 1
  <2>1. i \in 1..12 /\ (i - 1) \div 4 = b - 3 /\ ((i - 1) \div 2) % 2 = y /\ (i - 1) % 2 = z
    BY VauxIndex, Zenon
  <2> HIDE DEF i
  <2>2. VauxWrites[i] = Write(3 + (b - 3), y * 45 + z * 5 + 13, packs[z + 1])
    BY <2>1, Zenon DEF VauxWrites
  <2> QED  BY <2>1, <2>2, Zenon
<1>2. packs[0 + 1] = "video date" /\ packs[1 + 1] = "video time"  BY SMT
<1> HIDE DEF packs
<1>3. /\ 3 + (b - 3) = b /\ y * 45 + 0 * 5 + 13 = 45 * y + 13 /\ y * 45 + 1 * 5 + 13 = 45 * y + 18
      /\ 0 \in 0..1 /\ 1 \in 0..1
  BY SMT
<1>4. CASE w = Write(b, 45 * y + 13, "video date")  BY <1>1, <1>2, <1>3, <1>4, Zenon
<1>5. CASE w = Write(b, 45 * y + 18, "video time")  BY <1>1, <1>2, <1>3, <1>5, Zenon
<1> QED  BY <1>4, <1>5, Zenon DEF VauxPacks

\* Every pack of the comment is one of the writes, and none of those in block 3 of the subcode.
LEMMA DocumentedWritten ==
  ASSUME NEW seq_num \in 0..11, NEW w \in Documented(seq_num)
  PROVE  \E i \in DOMAIN set_times(seq_num) :
           set_times(seq_num)[i] = w /\ ~(w.block = 3 /\ w.offset % 8 = 6)
<1> DEFINE writes == set_times(seq_num)
           n      == SubcodeCount(seq_num)
           even   == seq_num % 2 = 0
<1>1. n \in {0, 18} /\ n = IF seq_num < 6 THEN 0 ELSE 18  BY DEF SubcodeCount
<1>2. /\ DOMAIN writes = 1..n + 14
      /\ \A i \in 1..n : writes[i] = SubcodeWrites(seq_num)[i]
      /\ \A i \in 1..12 : writes[n + i] = VauxWrites[i]
      /\ \A i \in 1..2 : writes[n + 12 + i] = AauxWrites(seq_num)[i]
  BY WritesBySection, Zenon
<1> HIDE DEF writes, n
<1>3. \A u, v, x : Write(u, v, x).block = u /\ Write(u, v, x).offset = v  BY DEF Write
<1>4. ASSUME ~(seq_num < 6), NEW b \in 1..2, NEW y \in 0..1, w \in SubcodePacks(b, y)
      PROVE  \E i \in DOMAIN writes : writes[i] = w /\ ~(w.block = 3 /\ w.offset % 8 = 6)
  <2>1. w.block = b
    <3>1. PICK offset, pack : w = Write(b, offset, pack)  BY <1>4, Zenon DEF SubcodePacks
    <3> QED  BY <1>3, <3>1, Zenon
  <2>2. seq_num \in 6..11 /\ n = 18  BY <1>1, <1>4, SMT
  <2>3. PICK i \in 1..18 : SubcodeWrites(seq_num)[i] = w
    BY <1>4, <2>2, SubcodeWritten, Zenon
  <2>4. i \in DOMAIN writes /\ writes[i] = w
    <3>1. i \in 1..n /\ i \in 1..n + 14  BY <2>2, SMT
    <3> QED  BY <1>2, <2>3, <3>1, Zenon
  <2>5. b # 3  BY SMT
  <2> QED  BY <2>1, <2>4, <2>5, Zenon
<1>5. ASSUME NEW b \in 3..5, NEW y \in 0..1, w \in VauxPacks(b, y)
      PROVE  \E i \in DOMAIN writes : writes[i] = w /\ ~(w.block = 3 /\ w.offset % 8 = 6)
  <2>1. w.offset = 45 * y + 13 \/ w.offset = 45 * y + 18
    <3>1. CASE w = Write(b, 45 * y + 13, "video date")  BY <3>1 DEF Write
    <3>2. CASE w = Write(b, 45 * y + 18, "video time")  BY <3>2 DEF Write
    <3> QED  BY <1>5, <3>1, <3>2, Zenon DEF VauxPacks
  <2>2. w.offset % 8 # 6
    <3>1. y = 0 \/ y = 1  BY SMT
    <3>2. w.offset \in {13, 18, 58, 63}  BY <2>1, <3>1, SMT
    <3> QED  BY <3>2, SMT
  <2>3. PICK i \in 1..12 : VauxWrites[i] = w  BY <1>5, VauxWritten, Zenon
  <2>4. n + i \in DOMAIN writes /\ writes[n + i] = w
    <3>1. n + i \in 1..n + 14  BY <1>1, SMT
    <3> QED  BY <1>2, <2>3, <3>1, Zenon
  <2> QED  BY <2>2, <2>4, Zenon
<1>6. ASSUME w \in AauxPacks(even)
      PROVE  \E i \in DOMAIN writes : writes[i] = w /\ ~(w.block = 3 /\ w.offset % 8 = 6)
  <2>1. seq_num % 2 = 1 <=> ~even  BY SMT
  <2> HIDE DEF even
  <2>2. /\ AauxWrites(seq_num)[1] = Write(IF even THEN 86 ELSE 38, 3, "audio date")
        /\ AauxWrites(seq_num)[2] = Write(IF even THEN 102 ELSE 54, 3, "audio time")
    <3>3. /\ AauxWrites(seq_num)[1] = Write(IF seq_num % 2 = 1 THEN 38 ELSE 86, 3, "audio date")
          /\ AauxWrites(seq_num)[2] = Write(IF seq_num % 2 = 1 THEN 54 ELSE 102, 3, "audio time")
      BY SMT DEF AauxWrites
    <3>1. CASE even
      <4>1. /\ (IF seq_num % 2 = 1 THEN 38 ELSE 86) = 86 /\ (IF even THEN 86 ELSE 38) = 86
            /\ (IF seq_num % 2 = 1 THEN 54 ELSE 102) = 102 /\ (IF even THEN 102 ELSE 54) = 102
        BY <2>1, <3>1, SMT
      <4> QED  BY <3>3, <4>1, Zenon
    <3>2. CASE ~even
      <4>1. /\ (IF seq_num % 2 = 1 THEN 38 ELSE 86) = 38 /\ (IF even THEN 86 ELSE 38) = 38
            /\ (IF seq_num % 2 = 1 THEN 54 ELSE 102) = 54 /\ (IF even THEN 102 ELSE 54) = 54
        BY <2>1, <3>2, SMT
      <4> QED  BY <3>3, <4>1, Zenon
    <3> QED  BY <3>1, <3>2
  <2>3. writes[n + 12 + 1] = AauxWrites(seq_num)[1] /\ writes[n + 12 + 2] = AauxWrites(seq_num)[2]
    <3>1. 1 \in 1..2 /\ 2 \in 1..2  BY SMT
    <3> QED  BY <1>2, <3>1, Zenon
  <2>4. n + 12 + 1 \in DOMAIN writes /\ n + 12 + 2 \in DOMAIN writes
    <3>1. n + 12 + 1 \in 1..n + 14 /\ n + 12 + 2 \in 1..n + 14  BY <1>1, SMT
    <3> QED  BY <1>2, <3>1, Zenon
  <2>5. w.offset = 3
    <3>1. CASE w = Write(IF even THEN 86 ELSE 38, 3, "audio date")  BY <3>1 DEF Write
    <3>2. CASE w = Write(IF even THEN 102 ELSE 54, 3, "audio time")  BY <3>2 DEF Write
    <3> QED  BY <1>6, <3>1, <3>2, Zenon DEF AauxPacks
  <2>6. 3 % 8 # 6  BY SMT
  <2>7. writes[n + 12 + 1] = w \/ writes[n + 12 + 2] = w
    BY <1>6, <2>2, <2>3, Zenon DEF AauxPacks
  <2> QED  BY <2>4, <2>5, <2>6, <2>7, Zenon
<1>7. \/ ~(seq_num < 6) /\ \E b \in 1..2, y \in 0..1 : w \in SubcodePacks(b, y)
      \/ \E b \in 3..5, y \in 0..1 : w \in VauxPacks(b, y)
      \/ w \in AauxPacks(even)
  <2> DEFINE first  == UNION {SubcodePacks(b, i) : b \in 1..2, i \in 0..1}
             second == UNION {VauxPacks(b, i) : b \in 3..5, i \in 0..1}
             third  == AauxPacks(even)
  <2>1. w \in UNION {IF seq_num < 6 THEN {} ELSE first, IF even THEN second ELSE {}, third}
    BY DEF Documented
  <2>2. w \in first => \E b \in 1..2, y \in 0..1 : w \in SubcodePacks(b, y)  OBVIOUS
  <2>3. w \in second => \E b \in 3..5, y \in 0..1 : w \in VauxPacks(b, y)  OBVIOUS
  <2> HIDE DEF first, second, third
  <2>4. \/ ~(seq_num < 6) /\ w \in first
        \/ w \in second
        \/ w \in third
    BY <2>1
  <2> QED  BY <2>2, <2>3, <2>4 DEF third
<1> QED  BY <1>4, <1>5, <1>6, <1>7, Zenon DEF writes

\* In each sequence of a frame, every pack that the comment lists is written and stays whole,
\* and the settings that the program reads are left alone.
THEOREM SequenceKept ==
  ASSUME NEW seq_num \in 0..11
  PROVE  PacksKept(seq_num)
<1>1. ASSUME NEW w \in Documented(seq_num)
      PROVE  \E i \in DOMAIN set_times(seq_num) :
               set_times(seq_num)[i] = w /\ Whole(set_times(seq_num), i)
  <2>1. PICK i \in DOMAIN set_times(seq_num) :
          set_times(seq_num)[i] = w /\ ~(w.block = 3 /\ w.offset % 8 = 6)
    BY DocumentedWritten
  <2>2. Whole(set_times(seq_num), i)  BY <2>1, WritesWhole, Zenon
  <2> QED  BY <2>1, <2>2
<1> QED  BY <1>1, WritesWhole, Zenon DEF PacksKept
--------------------------------------------------------------------------------
\* Video effects.

\* A fade up.
LEMMA FadeUp ==
  ASSUME NEW d \in 0..255, NEW s \in 0..255, NEW scale \in 0..255, d <= s
  PROVE  LET v == video_effect_fade(d, s, scale)
         IN  /\ v \in d..s
             /\ 256 * (v - d) <= scale * (s - d)
             /\ 256 * (v - d) >= scale * (s - d) - 255
<1> DEFINE m == scale * (s - d)
           q == m \div 256
<1>1. m \in Nat /\ m <= 255 * (s - d)  BY Z3
<1> HIDE DEF m
<1>2. m % 65536 = m  BY <1>1, SMT
<1>3. q \in Nat /\ 256 * q <= m /\ m < 256 * q + 256  BY <1>1, 256 \in Nat \ {0}, Quotient, SMT
<1>4. video_effect_fade(d, s, scale) = (d + q) % 256
  BY <1>2, SMT DEF video_effect_fade, m
<1> HIDE DEF q
<1>5. q <= s - d  BY <1>1, <1>3, SMT
<1>6. (d + q) % 256 = d + q  BY <1>3, <1>5, SMT
<1> QED  BY <1>1, <1>3, <1>4, <1>5, <1>6, SMT DEF m

\* And down, where the difference is negative and is kept modulo 2^16.
LEMMA FadeDown ==
  ASSUME NEW d \in 0..255, NEW s \in 0..255, NEW scale \in 0..255, s < d
  PROVE  LET v == video_effect_fade(d, s, scale)
         IN  /\ v \in s..d
             /\ 256 * (d - v) <= scale * (d - s) + 255
             /\ 256 * (d - v) >= scale * (d - s)
<1> DEFINE k == scale * (d - s)
           m == scale * (s - d)
           tmp == m % 65536
           q == tmp \div 256
<1>1. k \in Nat /\ k <= 255 * (d - s) /\ m = 0 - k  BY Z3
<1>2. video_effect_fade(d, s, scale) = (d + q) % 256  BY DEF video_effect_fade
<1> HIDE DEF k, m
<1>3. CASE k = 0
  <2>1. m % 65536 = 0  BY <1>1, <1>3, SMT
  <2>2. q = 0  BY <2>1, SMT
  <2>3. (d + q) % 256 = d  BY <2>2, SMT
  <2> QED  BY <1>2, <1>3, <2>3, SMT DEF k
<1>4. CASE k > 0
  <2>1. k <= 65025  BY <1>1, SMT
  <2>2. tmp = 65536 - k  BY <1>1, <1>4, <2>1, SMT
  <2> HIDE DEF tmp
  <2>3. tmp \in Nat  BY <1>1, <2>1, <2>2, SMT
  <2>4. q \in Nat /\ 256 * q <= tmp /\ tmp < 256 * q + 256
    BY <2>3, 256 \in Nat \ {0}, Quotient, SMT
  <2> HIDE DEF q
  <2> DEFINE r == 256 - q
  <2>5. r \in Int /\ q = 256 - r /\ 256 * r >= k /\ 256 * r <= k + 255
    BY <1>1, <2>2, <2>4, SMT
  <2> HIDE DEF r
  <2>6. r >= 1 /\ r <= d - s  BY <1>1, <1>4, <2>5, SMT
  <2>7. (d + q) % 256 = d - r  BY <2>5, <2>6, SMT
  <2> QED  BY <1>1, <1>2, <2>5, <2>6, <2>7, SMT DEF k
<1> QED  BY <1>1, <1>3, <1>4, SMT

\* For every pair of values, video_effect_fade stays between them and in step with the scale:
\* no product is lost in 16 bits, nor any sum in 8.
THEOREM FadesBetween ==
  ASSUME NEW d \in 0..255, NEW s \in 0..255
  PROVE  Fades(d, s)
<1> SUFFICES ASSUME NEW scale \in 0..255
             PROVE  LET v == video_effect_fade(d, s, scale)
                    IN  /\ v \in Least(d, s)..Greatest(d, s)
                        /\ 256 * Abs(v - d) <= scale * Abs(s - d) + 255
                        /\ 256 * Abs(v - d) >= scale * Abs(s - d) - 255
  BY DEF Fades
<1> DEFINE v == video_effect_fade(d, s, scale)
<1>1. CASE d <= s
  <2>1. /\ v \in d..s
        /\ 256 * (v - d) <= scale * (s - d)
        /\ 256 * (v - d) >= scale * (s - d) - 255
    BY <1>1, FadeUp
  <2> HIDE DEF v
  <2>2. Least(d, s) = d /\ Greatest(d, s) = s  BY <1>1 DEF Least, Greatest
  <2>3. Abs(v - d) = v - d /\ Abs(s - d) = s - d  BY <1>1, <2>1 DEF Abs
  <2>4. scale * (s - d) \in Int  OBVIOUS
  <2>5. /\ v \in Least(d, s)..Greatest(d, s)
        /\ 256 * Abs(v - d) <= scale * Abs(s - d) + 255
        /\ 256 * Abs(v - d) >= scale * Abs(s - d) - 255
    BY <2>1, <2>2, <2>3, <2>4, SMT
  <2> QED  BY <2>5 DEF v
<1>2. CASE s < d
  <2>1. /\ v \in s..d
        /\ 256 * (d - v) <= scale * (d - s) + 255
        /\ 256 * (d - v) >= scale * (d - s)
    BY <1>2, FadeDown, ZenonT(60)
  <2> HIDE DEF v
  <2>2. Least(d, s) = s /\ Greatest(d, s) = d  BY <1>2 DEF Least, Greatest
  <2>3. Abs(v - d) = d - v /\ Abs(s - d) = d - s  BY <1>2, <2>1 DEF Abs
  <2>4. scale * (d - s) \in Int  OBVIOUS
  <2>5. /\ v \in Least(d, s)..Greatest(d, s)
        /\ 256 * Abs(v - d) <= scale * Abs(s - d) + 255
        /\ 256 * Abs(v - d) >= scale * Abs(s - d) - 255
    BY <2>1, <2>2, <2>3, <2>4, SMT
  <2> QED  BY <2>5 DEF v
<1> QED  BY <1>1, <1>2

\* Rectangles with edges anywhere.
AnyRect == [left : Int, top : Int, right : Int, bottom : Int]

\* The points of a rectangle.
LEMMA PointsIn ==
  ASSUME NEW rect \in AnyRect, NEW p
  PROVE  p \in Points(rect) <=> /\ p \in Int \X Int
                                /\ rect.left <= p[1] /\ p[1] < rect.right
                                /\ rect.top <= p[2] /\ p[2] < rect.bottom
BY DEF Points, AnyRect

\* rectangle_clip gives the overlap of any two rectangles, and a proper rectangle if it is empty.
THEOREM ClipRight ==
  ASSUME NEW rect \in AnyRect, NEW other \in AnyRect, Proper(rect), Proper(other)
  PROVE  LET clip == rectangle_clip(rect, other)
         IN  Points(clip) = Points(rect) \cap Points(other) /\ Proper(clip)
<1> DEFINE clip   == rectangle_clip(rect, other)
           right  == Least(rect.right, other.right)
           bottom == Least(rect.bottom, other.bottom)
           left   == Least(Greatest(rect.left, other.left), right)
           top    == Least(Greatest(rect.top, other.top), bottom)
<1>1. clip = [left |-> left, right |-> right, top |-> top, bottom |-> bottom]
  BY DEF rectangle_clip
<1>2. /\ right \in Int /\ bottom \in Int /\ left \in Int /\ top \in Int
      /\ left <= right /\ top <= bottom
  BY DEF Least, Greatest, AnyRect
<1>3. \A x \in Int : left <= x /\ x < right <=> /\ rect.left <= x /\ x < rect.right
                                                /\ other.left <= x /\ x < other.right
  BY DEF Least, Greatest, AnyRect
<1>4. \A y \in Int : top <= y /\ y < bottom <=> /\ rect.top <= y /\ y < rect.bottom
                                                /\ other.top <= y /\ y < other.bottom
  BY DEF Least, Greatest, AnyRect
<1> HIDE DEF clip, left, right, top, bottom
<1>5. clip \in AnyRect /\ Proper(clip)  BY <1>1, <1>2 DEF AnyRect, Proper
<1>6. \A p : p \in Points(clip) <=> p \in Points(rect) /\ p \in Points(other)
  <2> TAKE p
  <2>1. CASE p \in Int \X Int
    <3>1. p[1] \in Int /\ p[2] \in Int  BY <2>1
    <3>2. clip.left = left /\ clip.right = right /\ clip.top = top /\ clip.bottom = bottom
      BY <1>1
    <3>3. p \in Points(clip) <=> left <= p[1] /\ p[1] < right /\ top <= p[2] /\ p[2] < bottom
      BY <1>5, <2>1, <3>2, PointsIn
    <3> QED  BY <1>3, <1>4, <2>1, <3>1, <3>3, PointsIn, Zenon
  <2>2. CASE p \notin Int \X Int  BY <1>5, <2>2, PointsIn
  <2> QED  BY <2>1, <2>2
<1>7. Points(clip) = Points(rect) \cap Points(other)  BY <1>6
<1> QED  BY <1>5, <1>7 DEF clip

\* rectangle_extend gives the least rectangle that covers both.
THEOREM ExtendRight ==
  ASSUME NEW rect \in AnyRect, NEW other \in AnyRect, Proper(rect), Proper(other)
  PROVE  LET extend == rectangle_extend(rect, other)
         IN  /\ Points(rect) \cup Points(other) \subseteq Points(extend)
             /\ \A r \in AnyRect : Points(rect) \cup Points(other) \subseteq Points(r)
                                     => Points(extend) \subseteq Points(r)
<1> DEFINE extend == rectangle_extend(rect, other)
<1>1. ASSUME NEW r \in AnyRect, rectangle_is_empty(r) PROVE Points(r) = {}
  <2> SUFFICES ASSUME NEW p \in Points(r) PROVE FALSE  OBVIOUS
  <2>1. p[1] \in Int /\ p[2] \in Int /\ r.left <= p[1] /\ p[1] < r.right
        /\ r.top <= p[2] /\ p[2] < r.bottom
    BY PointsIn
  <2> QED  BY <1>1, <2>1 DEF rectangle_is_empty, AnyRect
<1>2. CASE rectangle_is_empty(other)
  BY <1>1, <1>2 DEF rectangle_extend
<1>3. CASE rectangle_is_empty(rect)
  <2>1. extend = other \/ (extend = rect /\ rectangle_is_empty(other))
    BY <1>3 DEF rectangle_extend
  <2> QED  BY <1>1, <1>3, <2>1
<1>4. CASE ~rectangle_is_empty(rect) /\ ~rectangle_is_empty(other)
  <2> DEFINE left   == Least(rect.left, other.left)
             right  == Greatest(rect.right, other.right)
             top    == Least(rect.top, other.top)
             bottom == Greatest(rect.bottom, other.bottom)
  <2>1. extend = [left |-> left, right |-> right, top |-> top, bottom |-> bottom]
    BY <1>4 DEF rectangle_extend
  <2>2. left \in Int /\ right \in Int /\ top \in Int /\ bottom \in Int
    BY DEF Least, Greatest, AnyRect
  <2>3. /\ left <= rect.left /\ left <= other.left /\ rect.right <= right /\ other.right <= right
        /\ top <= rect.top /\ top <= other.top /\ rect.bottom <= bottom /\ other.bottom <= bottom
        /\ left \in {rect.left, other.left} /\ right \in {rect.right, other.right}
        /\ top \in {rect.top, other.top} /\ bottom \in {rect.bottom, other.bottom}
    BY DEF Least, Greatest, AnyRect
  <2> HIDE DEF extend, left, right, top, bottom
  <2>4. /\ extend \in AnyRect /\ extend.left = left /\ extend.right = right
        /\ extend.top = top /\ extend.bottom = bottom
    BY <2>1, <2>2 DEF AnyRect
  <2>5. Points(rect) \cup Points(other) \subseteq Points(extend)
    <3>1. ASSUME NEW r \in AnyRect, NEW p \in Points(r), left <= r.left, r.right <= right,
                 top <= r.top, r.bottom <= bottom
          PROVE  p \in Points(extend)
      <4>1. /\ p \in Int \X Int /\ r.left <= p[1] /\ p[1] < r.right
            /\ r.top <= p[2] /\ p[2] < r.bottom
        BY PointsIn
      <4>2. p[1] \in Int /\ p[2] \in Int  BY <4>1
      <4>3. left <= p[1] /\ p[1] < right /\ top <= p[2] /\ p[2] < bottom
        BY <2>2, <3>1, <4>1, <4>2 DEF AnyRect
      <4> QED  BY <2>4, <4>1, <4>3, PointsIn
    <3> QED  BY <2>3, <3>1
  <2>6. ASSUME NEW r \in AnyRect, Points(rect) \cup Points(other) \subseteq Points(r)
        PROVE  Points(extend) \subseteq Points(r)
    <3>1. ASSUME NEW q \in AnyRect, Proper(q), ~rectangle_is_empty(q), Points(q) \subseteq Points(r)
          PROVE  r.left <= q.left /\ q.right <= r.right /\ r.top <= q.top /\ q.bottom <= r.bottom
      <4>1. /\ q.left \in Int /\ q.right \in Int /\ q.top \in Int /\ q.bottom \in Int
            /\ q.left < q.right /\ q.top < q.bottom
        BY <3>1 DEF Proper, rectangle_is_empty, AnyRect
      <4>2. <<q.left, q.top>> \in Points(q) /\ <<q.right - 1, q.bottom - 1>> \in Points(q)
        BY <4>1, PointsIn
      <4>3. <<q.left, q.top>> \in Points(r) /\ <<q.right - 1, q.bottom - 1>> \in Points(r)
        BY <3>1, <4>2
      <4>4. r.left <= q.left /\ q.right - 1 < r.right /\ r.top <= q.top /\ q.bottom - 1 < r.bottom
        BY <4>3, PointsIn
      <4> QED  BY <4>1, <4>4 DEF AnyRect
    <3>2. /\ r.left <= rect.left /\ rect.right <= r.right /\ r.top <= rect.top /\ rect.bottom <= r.bottom
          /\ r.left <= other.left /\ other.right <= r.right
          /\ r.top <= other.top /\ other.bottom <= r.bottom
      BY <1>4, <2>6, <3>1
    <3>3. r.left <= left /\ right <= r.right /\ r.top <= top /\ bottom <= r.bottom
      BY <2>3, <3>2
    <3> SUFFICES ASSUME NEW p \in Points(extend) PROVE p \in Points(r)  OBVIOUS
    <3>4. /\ p \in Int \X Int /\ left <= p[1] /\ p[1] < right /\ top <= p[2] /\ p[2] < bottom
      BY <2>4, PointsIn
    <3>5. p[1] \in Int /\ p[2] \in Int  BY <3>4
    <3>6. r.left <= p[1] /\ p[1] < r.right /\ r.top <= p[2] /\ p[2] < r.bottom
      BY <2>2, <3>3, <3>4, <3>5 DEF AnyRect
    <3> QED  BY <3>4, <3>6, PointsIn
  <2> QED  BY <2>5, <2>6 DEF extend
<1> QED  BY <1>2, <1>3, <1>4

\* The error term after x columns, by the code's recursion.
ErrorTerm(e, s_size, d_size) ==
  e = [x \in 0..s_size |->
         IF x = 0 THEN 0
         ELSE LET sum == e[x - 1] + d_size IN IF sum >= s_size THEN sum - s_size ELSE sum]

\* What is left of x columns when whole destination columns have been filled.
Left(x, s_size, d_size) == (x * d_size) % s_size

\* What is left grows by a column, less a destination column that it fills.
LEMMA LeftStep ==
  ASSUME NEW s_size \in Nat \ {0}, NEW d_size \in 1..s_size, NEW x \in Nat
  PROVE  /\ Left(x, s_size, d_size) \in 0..s_size - 1
         /\ Left(x + 1, s_size, d_size) =
              LET sum == Left(x, s_size, d_size) + d_size
              IN  IF sum >= s_size THEN sum - s_size ELSE sum
<1> DEFINE q == (x * d_size) \div s_size
           r == Left(x, s_size, d_size)
<1>1. x * d_size \in Nat /\ (x + 1) * d_size = x * d_size + d_size  BY Z3
<1>2. r \in 0..s_size - 1 /\ q \in Nat /\ x * d_size = s_size * q + r
  BY <1>1, DivMod, Zenon DEF Left
<1> HIDE DEF q, r
<1>3. (x + 1) * d_size = s_size * q + (r + d_size) /\ (x + 1) * d_size \in Nat
  <2>1. s_size * q \in Int  BY <1>2
  <2> QED  BY <1>1, <1>2, <2>1
<1>4. CASE r + d_size >= s_size
  <2>1. s_size * (q + 1) = s_size * q + s_size  BY <1>2, Z3
  <2>2. (x + 1) * d_size = s_size * (q + 1) + (r + d_size - s_size)
    <3>1. s_size * q \in Int  BY <1>2
    <3> QED  BY <1>2, <1>3, <2>1, <3>1
  <2>3. r + d_size - s_size \in 0..s_size - 1 /\ q + 1 \in Int  BY <1>2, <1>4
  <2>4. ((x + 1) * d_size) % s_size = r + d_size - s_size
    <3> DEFINE a == (x + 1) * d_size
               f == r + d_size - s_size
               g == q + 1
    <3>1. a \in Nat /\ a = s_size * g + f /\ f \in 0..s_size - 1 /\ g \in Int
      BY <1>3, <2>2, <2>3, Zenon
    <3> HIDE DEF a, f, g
    <3>2. a % s_size = f  BY <3>1, ModUnique
    <3> QED  BY <3>2 DEF a, f
  <2> QED  BY <1>2, <1>4, <2>4 DEF Left, r
<1>5. CASE ~(r + d_size >= s_size)
  <2>1. r + d_size \in 0..s_size - 1 /\ q \in Int  BY <1>2, <1>5
  <2>2. ((x + 1) * d_size) % s_size = r + d_size
    <3> DEFINE a == (x + 1) * d_size
               f == r + d_size
    <3>1. a \in Nat /\ a = s_size * q + f  BY <1>3, Zenon
    <3> HIDE DEF a, f
    <3>2. f \in 0..s_size - 1  BY <2>1 DEF f
    <3>3. a % s_size = f  BY <2>1, <3>1, <3>2, ModUnique
    <3> QED  BY <3>3 DEF a, f
  <2> QED  BY <1>2, <1>5, <2>2 DEF Left, r
<1> QED  BY <1>4, <1>5

\* A set of numbers that has any has a least one.
LEMMA LeastNumber ==
  ASSUME NEW T, T \subseteq Nat, T # {}
  PROVE  \E i \in T : \A j \in T : i <= j
<1> DEFINE R == OpToRel(<, Nat)
<1>1. IsWellFoundedOn(R, Nat)  BY NatLessThanWellFounded
<1>2. R = {ss \in Nat \X Nat : ss[1] < ss[2]}  BY DEF OpToRel
<1> HIDE DEF R
<1>3. PICK i \in T : \A j \in T : ~(<<j, i>> \in R)  BY <1>1, WFMin
<1>4. \A j \in T : <<j, i>> \in R <=> j < i  BY <1>2
<1>5. \A j \in T : i \in Nat /\ j \in Nat /\ ~(j < i)  BY <1>3, <1>4
<1> QED  BY <1>5

\* The error term exists and is what is left.
LEMMA ErrorTermIs ==
  ASSUME NEW s_size \in Nat \ {0}, NEW d_size \in 1..s_size
  PROVE  LET e == CHOOSE e : ErrorTerm(e, s_size, d_size)
         IN  \A x \in 0..s_size : e[x] = Left(x, s_size, d_size)
<1> DEFINE f == [x \in 0..s_size |-> Left(x, s_size, d_size)]
           e == CHOOSE g : ErrorTerm(g, s_size, d_size)
<1>0. Left(0, s_size, d_size) = 0
  <2>1. 0 * d_size = 0  OBVIOUS
  <2>2. 0 = s_size * 0 + 0  OBVIOUS
  <2>3. 0 % s_size = 0  BY <2>2, ModUnique
  <2> QED  BY <2>1, <2>3 DEF Left
<1>1. ErrorTerm(f, s_size, d_size)
  <2>1. ASSUME NEW x \in 0..s_size
        PROVE  f[x] = IF x = 0 THEN 0
                      ELSE LET sum == f[x - 1] + d_size
                           IN  IF sum >= s_size THEN sum - s_size ELSE sum
    <3>1. CASE x = 0  BY <1>0, <3>1
    <3>2. CASE x # 0
      <4>1. x - 1 \in Nat /\ x - 1 \in 0..s_size /\ (x - 1) + 1 = x  BY <3>2
      <4>2. f[x - 1] = Left(x - 1, s_size, d_size) /\ f[x] = Left(x, s_size, d_size)  BY <4>1
      <4>3. Left((x - 1) + 1, s_size, d_size) =
              LET sum == Left(x - 1, s_size, d_size) + d_size
              IN  IF sum >= s_size THEN sum - s_size ELSE sum
        BY <4>1, LeftStep
      <4> HIDE DEF f
      <4> QED  BY <3>2, <4>1, <4>2, <4>3
    <3> QED  BY <3>1, <3>2
  <2> QED  BY <2>1, Zenon DEF ErrorTerm
<1>2. ErrorTerm(e, s_size, d_size)  BY <1>1, Zenon
<1> HIDE DEF e, f
<1>3. ASSUME NEW x \in 0..s_size
      PROVE  e[x] = IF x = 0 THEN 0
                    ELSE LET sum == e[x - 1] + d_size IN IF sum >= s_size THEN sum - s_size ELSE sum
  BY <1>2, Zenon DEF ErrorTerm
<1> DEFINE T == {x \in 0..s_size : e[x] # Left(x, s_size, d_size)}
<1>4. T = {}
  <2> SUFFICES ASSUME T # {} PROVE FALSE  OBVIOUS
  <2>1. T \subseteq Nat  OBVIOUS
  <2>2. PICK x \in T : \A y \in T : x <= y  BY <2>1, LeastNumber
  <2>3. x \in 0..s_size /\ e[x] # Left(x, s_size, d_size)  BY <2>2
  <2>4. x # 0  BY <1>0, <1>3, <2>3
  <2>5. x - 1 \in Nat /\ x - 1 \in 0..s_size /\ (x - 1) + 1 = x /\ ~(x <= x - 1)  BY <2>3, <2>4
  <2>6. e[x - 1] = Left(x - 1, s_size, d_size)  BY <2>2, <2>5
  <2>7. Left(x, s_size, d_size) = LET sum == Left(x - 1, s_size, d_size) + d_size
                                  IN  IF sum >= s_size THEN sum - s_size ELSE sum
    <3>1. Left((x - 1) + 1, s_size, d_size) =
            LET sum == Left(x - 1, s_size, d_size) + d_size
            IN  IF sum >= s_size THEN sum - s_size ELSE sum
      BY <2>5, LeftStep
    <3> QED  BY <2>5, <3>1
  <2> QED  BY <1>3, <2>3, <2>4, <2>6, <2>7
<1> QED  BY <1>4 DEF e

\* The tables, by what is left before and after a column.
LEMMA WeightsBy ==
  ASSUME NEW s_size \in Nat \ {0}, NEW d_size \in 1..s_size, NEW x \in 0..s_size - 1
  PROVE  LET r    == Left(x, s_size, d_size)
             next == Left(x + 1, s_size, d_size)
         IN  weights(s_size, d_size)[x] = IF r + d_size >= s_size
                                          THEN [cur |-> d_size - next, spill |-> 1 + next]
                                          ELSE [cur |-> d_size, spill |-> 0]
<1> DEFINE e == CHOOSE g : ErrorTerm(g, s_size, d_size)
<1>1. weights(s_size, d_size) =
        [y \in 0..s_size - 1 |->
           IF e[y] + d_size >= s_size
           THEN [cur |-> d_size - e[y + 1], spill |-> 1 + e[y + 1]]
           ELSE [cur |-> d_size, spill |-> 0]]
  BY DEF weights, ErrorTerm
<1>2. x \in 0..s_size /\ x + 1 \in 0..s_size  OBVIOUS
<1>3. e[x] = Left(x, s_size, d_size) /\ e[x + 1] = Left(x + 1, s_size, d_size)
  BY <1>2, ErrorTermIs
<1> HIDE DEF e
<1> QED  BY <1>1, <1>3

\* Scaling: a source column adds to the destination column it begins in, and to the next one,
\* as much as it overlaps with them; and it overlaps with no other.
WeightsAreOverlaps(s_size, d_size) ==
  \A x \in 0..s_size - 1 :
    LET w == weights(s_size, d_size)[x]
        X == (x * d_size) \div s_size
    IN  /\ w.cur = Overlap1(x, X, s_size, d_size)
        /\ w.spill = IF (x + 1) * d_size >= (X + 1) * s_size
                     THEN 1 + Overlap1(x, X + 1, s_size, d_size) ELSE 0
        /\ w.spill = 0 => Overlap1(x, X + 1, s_size, d_size) = 0
        /\ \A Y \in Int \ {X, X + 1} : Overlap1(x, Y, s_size, d_size) = 0

\* The scaling tables of picture in picture are exact for any sizes.
THEOREM WeightsRight ==
  ASSUME NEW s_size \in Nat \ {0}, NEW d_size \in 1..s_size
  PROVE  WeightsAreOverlaps(s_size, d_size)
<1> SUFFICES ASSUME NEW x \in 0..s_size - 1
             PROVE  LET w == weights(s_size, d_size)[x]
                        X == (x * d_size) \div s_size
                    IN  /\ w.cur = Overlap1(x, X, s_size, d_size)
                        /\ w.spill = IF (x + 1) * d_size >= (X + 1) * s_size
                                     THEN 1 + Overlap1(x, X + 1, s_size, d_size) ELSE 0
                        /\ w.spill = 0 => Overlap1(x, X + 1, s_size, d_size) = 0
                        /\ \A Y \in Int \ {X, X + 1} : Overlap1(x, Y, s_size, d_size) = 0
  BY DEF WeightsAreOverlaps
<1> DEFINE w == weights(s_size, d_size)[x]
           X == (x * d_size) \div s_size
           r == Left(x, s_size, d_size)
           a == x * d_size
           b == s_size * X
<1>1. a \in Nat /\ (x + 1) * d_size = a + d_size  BY Z3
<1>2. r \in 0..s_size - 1 /\ X \in Nat /\ a = b + r
  BY <1>1, DivMod, Zenon DEF Left
<1>3. w = IF r + d_size >= s_size
          THEN [cur |-> s_size - r, spill |-> 1 + (r + d_size - s_size)]
          ELSE [cur |-> d_size, spill |-> 0]
  <2>1. x \in Nat  OBVIOUS
  <2>2. Left(x + 1, s_size, d_size) = LET sum == r + d_size
                                      IN  IF sum >= s_size THEN sum - s_size ELSE sum
    BY <2>1, LeftStep
  <2>3. w = IF r + d_size >= s_size
            THEN [cur |-> d_size - Left(x + 1, s_size, d_size),
                  spill |-> 1 + Left(x + 1, s_size, d_size)]
            ELSE [cur |-> d_size, spill |-> 0]
    BY WeightsBy
  <2> HIDE DEF w, r
  <2>4. CASE r + d_size >= s_size
    <3>1. Left(x + 1, s_size, d_size) = r + d_size - s_size  BY <1>2, <2>2, <2>4
    <3>2. d_size - Left(x + 1, s_size, d_size) = s_size - r  BY <1>2, <3>1
    <3> QED  BY <2>3, <2>4, <3>1, <3>2
  <2>5. CASE ~(r + d_size >= s_size)  BY <2>3, <2>5
  <2> QED  BY <2>4, <2>5
<1> HIDE DEF X, r, w
<1>4. b \in Int /\ X * s_size = b /\ (X + 1) * s_size = b + s_size
      /\ (X + 1 + 1) * s_size = b + s_size + s_size
  BY <1>2, Z3
<1> DEFINE first == Overlap1(x, X, s_size, d_size)
           second == Overlap1(x, X + 1, s_size, d_size)
<1>5. /\ first = Greatest(0, Least(a + d_size, b + s_size) - Greatest(a, b))
      /\ second = Greatest(0, Least(a + d_size, b + s_size + s_size) - Greatest(a, b + s_size))
  BY <1>1, <1>4 DEF Overlap1
<1>6. \A Y \in Int \ {X, X + 1} : Overlap1(x, Y, s_size, d_size) = 0
  <2> TAKE Y \in Int \ {X, X + 1}
  <2> DEFINE c == Y * s_size
  <2>1. c \in Int /\ (Y + 1) * s_size = c + s_size  BY Z3
  <2>2. Overlap1(x, Y, s_size, d_size)
          = Greatest(0, Least(a + d_size, c + s_size) - Greatest(a, c))
    BY <1>1, <2>1 DEF Overlap1
  <2>3. CASE Y < X
    <3>1. s_size * (X - Y - 1) >= 0  BY <1>2, <2>3, Z3
    <3>2. c + s_size <= b  BY <1>2, <3>1, Z3
    <3> HIDE DEF a, b, c
    <3> QED  BY <1>1, <1>2, <1>4, <2>1, <2>2, <3>2 DEF Greatest, Least
  <2>4. CASE Y > X + 1
    <3>1. s_size * (Y - X - 2) >= 0  BY <1>2, <2>4, Z3
    <3>2. c >= b + s_size + s_size  BY <1>2, <3>1, Z3
    <3> HIDE DEF a, b, c
    <3> QED  BY <1>1, <1>2, <1>4, <2>1, <2>2, <3>2 DEF Greatest, Least
  <2> QED  BY <1>2, <2>3, <2>4
<1> HIDE DEF a, b, first, second
<1>7. CASE r + d_size >= s_size
  <2>1. first = s_size - r  BY <1>1, <1>2, <1>4, <1>5, <1>7 DEF Greatest, Least
  <2>2. second = r + d_size - s_size  BY <1>1, <1>2, <1>4, <1>5, <1>7 DEF Greatest, Least
  <2>3. (x + 1) * d_size >= (X + 1) * s_size  BY <1>1, <1>2, <1>4, <1>7
  <2>4. w.cur = s_size - r /\ w.spill = 1 + (r + d_size - s_size)  BY <1>3, <1>7
  <2>5. w.spill # 0  BY <1>2, <1>7, <2>4
  <2> QED  BY <1>6, <2>1, <2>2, <2>3, <2>4, <2>5, Zenon DEF first, second, w, X
<1>8. CASE ~(r + d_size >= s_size)
  <2>1. first = d_size  BY <1>1, <1>2, <1>4, <1>5, <1>8 DEF Greatest, Least
  <2>2. second = 0  BY <1>1, <1>2, <1>4, <1>5, <1>8 DEF Greatest, Least
  <2>3. ~((x + 1) * d_size >= (X + 1) * s_size)  BY <1>1, <1>2, <1>4, <1>8
  <2>4. w.cur = d_size /\ w.spill = 0  BY <1>3, <1>8
  <2> QED  BY <1>6, <2>1, <2>2, <2>3, <2>4, Zenon DEF first, second, w, X
<1> QED  BY <1>7, <1>8

\* The border of colour covers that of brightness, in each format.
THEOREM SameBorder ==
  ASSUME NEW height \in {480, 576}, NEW shift \in {Yuv420, Yuv411}
  PROVE  SameArea(height, shift)
<1> DEFINE h == 2^shift.horiz
           v == 2^shift.vert
           edge == (height + 5) \div 10
<1>1. \/ h = 2 /\ v = 2
      \/ h = 4 /\ v = 1
  <2>1. 2^0 = 1 /\ 2^1 = 2 /\ 2^2 = 4  BY SMT
  <2>2. CASE shift = Yuv420  BY <2>1, <2>2, Zenon DEF Yuv420
  <2>3. CASE shift = Yuv411  BY <2>1, <2>3, Zenon DEF Yuv411
  <2> QED  BY <2>2, <2>3
<1>2. 2^0 = 1  BY SMT
<1>3. \/ height = 480 /\ edge = 48
      \/ height = 576 /\ edge = 58
  BY SMT
<1> HIDE DEF h, v, edge
<1> DEFINE width_ == 720 \div h
           height_ == height \div v
           horiz_ == 72 \div h
           vert_ == edge \div v
<1>4. Darkened(720, height, shift.horiz, shift.vert)
        = title_safe_darkened(width_, height_, horiz_, vert_)
  <2>1. (720 + 5) \div 10 = 72  BY SMT
  <2> QED  BY <2>1, SMT DEF Darkened, h, v, edge
<1>5. Darkened(720, height, 0, 0) = title_safe_darkened(720, height, 72, edge)
  <2>1. (720 + 5) \div 10 = 72 /\ 720 \div 1 = 720 /\ 72 \div 1 = 72  BY SMT
  <2>2. height \div 1 = height /\ edge \div 1 = edge  BY <1>3, SMT
  <2> QED  BY <1>2, <2>1, <2>2, SMT DEF Darkened, edge
<1>6. SUFFICES ASSUME NEW i \in 0..width_ - 1, NEW j \in 0..height_ - 1
               PROVE  <<i, j>> \in title_safe_darkened(width_, height_, horiz_, vert_)
                        <=> <<i * h, j * v>> \in title_safe_darkened(720, height, 72, edge)
  <2>1. SameArea(height, shift) <=>
          \A p \in (0..width_ - 1) \X (0..height_ - 1) :
            p \in Darkened(720, height, shift.horiz, shift.vert)
              <=> <<p[1] * h, p[2] * v>> \in Darkened(720, height, 0, 0)
    BY DEF SameArea, h, v
  <2> HIDE DEF width_, height_, horiz_, vert_
  <2>2. ASSUME NEW p \in (0..width_ - 1) \X (0..height_ - 1)
        PROVE  p[1] \in 0..width_ - 1 /\ p[2] \in 0..height_ - 1 /\ p = <<p[1], p[2]>>
    OBVIOUS
  <2> QED  BY <1>4, <1>5, <1>6, <2>1, <2>2
<1>7. \/ width_ = 360 /\ horiz_ = 36 /\ h = 2 /\ v = 2 /\ height_ = 240 /\ vert_ = 24
           /\ height = 480 /\ edge = 48
      \/ width_ = 360 /\ horiz_ = 36 /\ h = 2 /\ v = 2 /\ height_ = 288 /\ vert_ = 29
           /\ height = 576 /\ edge = 58
      \/ width_ = 180 /\ horiz_ = 18 /\ h = 4 /\ v = 1 /\ height_ = 480 /\ vert_ = 48
           /\ height = 480 /\ edge = 48
      \/ width_ = 180 /\ horiz_ = 18 /\ h = 4 /\ v = 1 /\ height_ = 576 /\ vert_ = 58
           /\ height = 576 /\ edge = 58
  BY <1>1, <1>3, SMT
<1> HIDE DEF width_, height_, horiz_, vert_
<1>8. /\ i \in 0..width_ - 1 /\ j \in 0..height_ - 1
      /\ i * h \in 0..719 /\ j * v \in 0..height - 1
  BY <1>7, SMT
<1>9. \A w, t, x, y, a, b : <<a, b>> \in title_safe_darkened(w, t, x, y)
        <=> /\ a \in 0..w - 1 /\ b \in 0..t - 1
            /\ a < x \/ a >= w - x \/ ~(b >= y /\ b < t - y)
  BY SMT DEF title_safe_darkened
<1>10. 720 - 1 = 719  BY SMT
<1>11. \/ i < horiz_ \/ i >= width_ - horiz_ \/ ~(j >= vert_ /\ j < height_ - vert_)
       <=> \/ i * h < 72 \/ i * h >= 720 - 72 \/ ~(j * v >= edge /\ j * v < height - edge)
  BY <1>7, <1>8, SMT
<1> QED  BY <1>8, <1>9, <1>10, <1>11, SMT
--------------------------------------------------------------------------------
\* Pictures in pictures.

\* The destination columns that x source columns fill.
Filled(x, s_size, d_size) == (x * d_size) \div s_size

\* Columns that a source column cannot reach.
LEMMA OverlapNone ==
  ASSUME NEW s_size \in Nat \ {0}, NEW d_size \in 1..s_size, NEW x \in Nat, NEW c \in Nat, NEW X \in Int
  PROVE  /\ x < c /\ X > Filled(c, s_size, d_size) => Overlap1(x, X, s_size, d_size) = 0
         /\ c <= x /\ X < Filled(c, s_size, d_size) => Overlap1(x, X, s_size, d_size) = 0
<1> DEFINE q == Filled(c, s_size, d_size)
           a == x * d_size
           b == X * s_size
           e == c * d_size
<1>1. e \in Nat /\ a \in Nat /\ b \in Int  BY Z3
<1>2. q \in Nat /\ s_size * q <= e /\ e < s_size * q + s_size
  BY <1>1, Quotient DEF Filled
<1>3. (x + 1) * d_size = a + d_size /\ (X + 1) * s_size = b + s_size  BY Z3
<1>4. Overlap1(x, X, s_size, d_size)
        = Greatest(0, Least(a + d_size, b + s_size) - Greatest(a, b))
  BY <1>3 DEF Overlap1
<1> HIDE DEF q
<1>5. ASSUME x < c, X > q PROVE Overlap1(x, X, s_size, d_size) = 0
  <2>1. (c - x - 1) * d_size >= 0  BY <1>5, Z3
  <2>2. a + d_size <= e  BY <2>1, Z3
  <2>3. s_size * (X - q - 1) >= 0  BY <1>2, <1>5, Z3
  <2>4. s_size * q + s_size <= b  BY <1>2, <2>3, Z3
  <2>5. s_size * q \in Int  BY <1>2
  <2> HIDE DEF a, b, e
  <2>6. a + d_size <= b  BY <1>1, <1>2, <2>2, <2>4, <2>5
  <2> QED  BY <1>1, <1>4, <2>6 DEF Greatest, Least
<1>6. ASSUME c <= x, X < q PROVE Overlap1(x, X, s_size, d_size) = 0
  <2>1. (x - c) * d_size >= 0  BY <1>6, Z3
  <2>2. e <= a  BY <2>1, Z3
  <2>3. s_size * (q - X - 1) >= 0  BY <1>2, <1>6, Z3
  <2>4. b + s_size <= s_size * q  BY <1>2, <2>3, Z3
  <2>5. s_size * q \in Int  BY <1>2
  <2> HIDE DEF a, b, e
  <2>6. b + s_size <= a  BY <1>1, <1>2, <2>2, <2>4, <2>5
  <2> QED  BY <1>1, <1>4, <2>6 DEF Greatest, Least
<1> QED  BY <1>5, <1>6 DEF q

\* A step over a source column: it fills up the current destination column, or not.
LEMMA ColumnStep ==
  ASSUME NEW s_size \in Nat \ {0}, NEW d_size \in 1..s_size, NEW x \in 0..s_size - 1
  PROVE  LET w == weights(s_size, d_size)[x]
             q == Filled(x, s_size, d_size)
         IN  /\ w.cur = Overlap1(x, q, s_size, d_size)
             /\ \/ w.spill = 0 /\ Filled(x + 1, s_size, d_size) = q
                \/ /\ w.spill # 0 /\ w.spill - 1 = Overlap1(x, q + 1, s_size, d_size)
                   /\ Filled(x + 1, s_size, d_size) = q + 1
<1> DEFINE w == weights(s_size, d_size)[x]
           q == Filled(x, s_size, d_size)
           p == Filled(x + 1, s_size, d_size)
           second == Overlap1(x, q + 1, s_size, d_size)
           a == x * d_size
           b == s_size * q
<1>1. /\ w.cur = Overlap1(x, q, s_size, d_size)
      /\ w.spill = IF (x + 1) * d_size >= (q + 1) * s_size THEN 1 + second ELSE 0
  BY WeightsRight DEF WeightsAreOverlaps, Filled
<1>2. a \in Nat /\ (x + 1) * d_size = a + d_size /\ a + d_size \in Nat  BY Z3
<1>3. q \in Nat /\ b <= a /\ a < b + s_size  BY <1>2, Quotient DEF Filled
<1>4. p \in Nat /\ s_size * p <= a + d_size /\ a + d_size < s_size * p + s_size
  BY <1>2, Quotient DEF Filled
<1>5. second \in Nat
  <2>1. (q + 1) * s_size \in Int /\ ((q + 1) + 1) * s_size \in Int  BY <1>3, Z3
  <2> QED  BY <1>2, <2>1 DEF Overlap1, Greatest, Least
<1> HIDE DEF w, q, p, second, a
<1>6. (q + 1) * s_size = b + s_size /\ b \in Int  BY <1>3, Z3
<1>7. s_size * (q + 1) = b + s_size /\ s_size * (q + 2) = b + s_size + s_size
      /\ s_size * (p + 1) = s_size * p + s_size /\ s_size * p \in Int
  BY <1>3, <1>4, Z3
<1> HIDE DEF b
<1>8. CASE a + d_size >= b + s_size
  <2>1. s_size * p < s_size * (q + 2) /\ s_size * (q + 1) < s_size * (p + 1)
    BY <1>2, <1>3, <1>4, <1>6, <1>7, <1>8
  <2>2. p < q + 2 /\ q + 1 < p + 1  BY <1>3, <1>4, <2>1, Cancel
  <2>3. p = q + 1  BY <1>3, <1>4, <2>2
  <2>4. w.spill = 1 + second  BY <1>1, <1>2, <1>6, <1>8
  <2> QED  BY <1>1, <1>5, <2>3, <2>4 DEF w, q, p, second
<1>9. CASE ~(a + d_size >= b + s_size)
  <2>1. s_size * p < s_size * (q + 1) /\ s_size * q < s_size * (p + 1)
    BY <1>2, <1>3, <1>4, <1>6, <1>7, <1>9 DEF b
  <2>2. p < q + 1 /\ q < p + 1  BY <1>3, <1>4, <2>1, Cancel
  <2>3. p = q  BY <1>3, <1>4, <2>2
  <2>4. w.spill = 0  BY <1>1, <1>2, <1>6, <1>9
  <2> QED  BY <1>1, <2>3, <2>4 DEF w, q, p
<1> QED  BY <1>8, <1>9

\* What is at a place of a row, or beyond it.
ValueAt(buffer, i) == IF i \in DOMAIN buffer THEN buffer[i] ELSE 0

\* A step of the pass over the columns of a source row.
PassStep(p, value, row_weight, w, row_buffer) ==
  LET rw  == value * row_weight
      sum == p.sum + rw * w.cur
  IN  IF w.spill = 0 THEN [p EXCEPT !.sum = sum]
      ELSE [sum |-> ValueAt(row_buffer, p.row_p + 1) + rw * (w.spill - 1),
            row_p |-> p.row_p + 1,
            buffer |-> [p.buffer EXCEPT ![p.row_p] = sum]]

\* The pass, by the code's recursion.
IsPass(pass, value, row_weight, col_weights, s_width, row_buffer) ==
  pass = [x \in 0..s_width |->
            IF x = 0 THEN [sum |-> ValueAt(row_buffer, 0), row_p |-> 0, buffer |-> row_buffer]
            ELSE PassStep(pass[x - 1], value[x - 1], row_weight, col_weights[x - 1], row_buffer)]

\* A row with one bright pixel.
BrightRow(s_width, at, value) == [x \in 0..s_width - 1 |-> IF x = at THEN value ELSE 0]

\* What the columns before x of such a row have added to the destination column X.
Added(x, at, total, X, s_size, d_size) ==
  IF at < x THEN total * Overlap1(at, X, s_size, d_size) ELSE 0

\* The pass after x columns: the destination columns filled are complete, and the next is begun.
PassAt(x, at, total, row_buffer, s_size, d_size) ==
  LET q == Filled(x, s_size, d_size)
  IN  [sum |-> ValueAt(row_buffer, q) + Added(x, at, total, q, s_size, d_size),
       row_p |-> q,
       buffer |-> [X \in DOMAIN row_buffer |->
                     row_buffer[X] + IF X < q THEN Added(x, at, total, X, s_size, d_size) ELSE 0]]

\* Overlaps are natural numbers.
LEMMA OverlapNat ==
  ASSUME NEW s_size \in Nat, NEW d_size \in Nat, NEW x \in Nat, NEW X \in Nat
  PROVE  Overlap1(x, X, s_size, d_size) \in Nat
<1>1. /\ x * d_size \in Int /\ (x + 1) * d_size \in Int
      /\ X * s_size \in Int /\ (X + 1) * s_size \in Int
  BY Z3
<1> QED  BY <1>1 DEF Overlap1, Greatest, Least

\* What the source column y adds is what the pass adds for it.
AddsColumn(s_size, d_size, y, at, value, row_weight) ==
  LET w == weights(s_size, d_size)[y]
      q == Filled(y, s_size, d_size)
      total == value * row_weight
      rw == (IF y = at THEN value ELSE 0) * row_weight
      Now(X) == Added(y, at, total, X, s_size, d_size)
      Then(X) == Added(y + 1, at, total, X, s_size, d_size)
  IN  /\ Now(q) \in Int /\ rw * w.cur \in Int /\ Then(q) = Now(q) + rw * w.cur
      /\ w.spill # 0 => Then(q + 1) = rw * (w.spill - 1)
      /\ \A X \in Nat : Then(X) \in Int /\ (X < q => Then(X) = Now(X))

\* The tables add to the sums what the bright pixel covers.
LEMMA AddedStep ==
  ASSUME NEW s_size \in Nat \ {0}, NEW d_size \in 1..s_size, NEW y \in 0..s_size - 1,
         NEW at \in Nat, NEW value \in Int, NEW row_weight \in Int
  PROVE  AddsColumn(s_size, d_size, y, at, value, row_weight)
<1> DEFINE w == weights(s_size, d_size)[y]
           q == Filled(y, s_size, d_size)
           total == value * row_weight
           rw == (IF y = at THEN value ELSE 0) * row_weight
           Now(X) == Added(y, at, total, X, s_size, d_size)
           Then(X) == Added(y + 1, at, total, X, s_size, d_size)
           O(X) == Overlap1(at, X, s_size, d_size)
<1>1. q \in Nat
  <2>1. y * d_size \in Nat  BY Z3
  <2> QED  BY <2>1, Quotient DEF Filled
<1>2. total \in Int /\ rw = IF y = at THEN total ELSE 0  BY Z3
<1>3. \A X \in Nat : O(X) \in Nat  BY OverlapNat
<1>4. /\ w.cur = Overlap1(y, q, s_size, d_size)
      /\ w.spill # 0 => w.spill - 1 = Overlap1(y, q + 1, s_size, d_size)
  BY ColumnStep
<1>5. /\ at < y /\ q + 1 > q => O(q + 1) = 0
      /\ \A X \in Nat : y <= at /\ X < q => O(X) = 0
  BY <1>1, OverlapNone
<1>6. q + 1 \in Nat /\ q + 1 > q  BY <1>1
<1>7. \A X : /\ Now(X) = IF at < y THEN total * O(X) ELSE 0
             /\ Then(X) = IF at < y + 1 THEN total * O(X) ELSE 0
  BY DEF Added
<1>8. \A X \in Nat : total * O(X) \in Int /\ (O(X) = 0 => total * O(X) = 0)
  <2> TAKE X \in Nat
  <2>1. O(X) \in Int  BY <1>3
  <2> HIDE DEF O, total
  <2> QED  BY <1>2, <2>1, Z3
<1>9. /\ y = at => w.cur = O(q) /\ (w.spill # 0 => w.spill - 1 = O(q + 1))
      /\ w.cur \in Nat /\ (w.spill # 0 => w.spill - 1 \in Nat)
  <2>1. Overlap1(y, q, s_size, d_size) \in Nat /\ Overlap1(y, q + 1, s_size, d_size) \in Nat
    BY <1>1, <1>6, OverlapNat
  <2> QED  BY <1>4, <2>1
<1> HIDE DEF w, q, total, rw, Now, Then, O
<1>10. ASSUME y < at
       PROVE  /\ Now(q) \in Int /\ rw * w.cur \in Int /\ Then(q) = Now(q) + rw * w.cur
              /\ w.spill # 0 => Then(q + 1) = rw * (w.spill - 1)
              /\ \A X \in Nat : Then(X) \in Int /\ (X < q => Then(X) = Now(X))
  <2>1. ~(at < y) /\ ~(at < y + 1) /\ y # at  BY <1>10
  <2>2. \A X : Now(X) = 0 /\ Then(X) = 0  BY <1>7, <2>1
  <2>3. rw = 0  BY <1>2, <2>1
  <2>4. rw * w.cur = 0 /\ (w.spill # 0 => rw * (w.spill - 1) = 0)  BY <1>9, <2>3
  <2> QED  BY <2>2, <2>4
<1>11. ASSUME y = at
       PROVE  /\ Now(q) \in Int /\ rw * w.cur \in Int /\ Then(q) = Now(q) + rw * w.cur
              /\ w.spill # 0 => Then(q + 1) = rw * (w.spill - 1)
              /\ \A X \in Nat : Then(X) \in Int /\ (X < q => Then(X) = Now(X))
  <2>1. ~(at < y) /\ at < y + 1 /\ y <= at  BY <1>11
  <2>2. \A X : Now(X) = 0 /\ Then(X) = total * O(X)  BY <1>7, <2>1
  <2>3. rw = total  BY <1>2, <1>11
  <2>4. rw * w.cur = Then(q) /\ (w.spill # 0 => rw * (w.spill - 1) = Then(q + 1))
    BY <1>9, <1>11, <2>2, <2>3
  <2>5. \A X \in Nat : Then(X) \in Int /\ (X < q => Then(X) = Now(X))
    BY <1>5, <1>8, <2>1, <2>2
  <2> QED  BY <1>1, <2>2, <2>4, <2>5
<1>12. ASSUME y > at
       PROVE  /\ Now(q) \in Int /\ rw * w.cur \in Int /\ Then(q) = Now(q) + rw * w.cur
              /\ w.spill # 0 => Then(q + 1) = rw * (w.spill - 1)
              /\ \A X \in Nat : Then(X) \in Int /\ (X < q => Then(X) = Now(X))
  <2>1. at < y /\ at < y + 1 /\ y # at  BY <1>12
  <2>2. \A X : Now(X) = total * O(X) /\ Then(X) = total * O(X)  BY <1>7, <2>1
  <2>3. rw = 0  BY <1>2, <2>1
  <2>4. rw * w.cur = 0 /\ (w.spill # 0 => rw * (w.spill - 1) = 0)  BY <1>9, <2>3
  <2>5. Then(q + 1) = 0  BY <1>5, <1>6, <1>8, <2>1, <2>2
  <2>6. \A X \in Nat : Now(X) \in Int /\ Then(X) = Now(X)  BY <1>8, <2>2
  <2> QED  BY <1>1, <2>4, <2>5, <2>6
<1>13. y < at \/ y = at \/ y > at  OBVIOUS
<1> QED  BY <1>10, <1>11, <1>12, <1>13, Zenon DEF AddsColumn, w, q, total, rw, Now, Then

\* Columns that end with a destination column fill as many as there are.
LEMMA FilledUpTo ==
  ASSUME NEW s_size \in Nat \ {0}, NEW d_size \in Nat, NEW width \in Nat, NEW d_width \in Nat,
         width * d_size = d_width * s_size
  PROVE  /\ Filled(width, s_size, d_size) = d_width /\ Filled(0, s_size, d_size) = 0
         /\ \A x \in 0..width : Filled(x, s_size, d_size) \in 0..d_width
<1>1. ASSUME NEW x \in 0..width PROVE Filled(x, s_size, d_size) \in 0..d_width
  <2> DEFINE q == Filled(x, s_size, d_size)
  <2>1. x * d_size \in Nat  BY Z3
  <2>2. q \in Nat /\ s_size * q <= x * d_size  BY <2>1, Quotient DEF Filled
  <2>3. (width - x) * d_size >= 0  BY Z3
  <2>4. x * d_size <= d_width * s_size  BY <2>3, Z3
  <2> HIDE DEF q
  <2>5. s_size * q <= s_size * d_width  BY <2>1, <2>2, <2>4, Z3
  <2>6. q <= d_width  BY <2>2, <2>5, Cancel
  <2> QED  BY <2>2, <2>6 DEF q
<1>2. Filled(width, s_size, d_size) = d_width
  <2>1. width * d_size = s_size * d_width + 0 /\ width * d_size \in Nat  BY Z3
  <2> QED  BY <2>1, ModUnique DEF Filled
<1>3. Filled(0, s_size, d_size) = 0
  <2>1. 0 * d_size = 0 /\ 0 = s_size * 0 + 0  OBVIOUS
  <2>2. 0 \div s_size = 0  BY <2>1, ModUnique
  <2> QED  BY <2>1, <2>2 DEF Filled
<1> QED  BY <1>1, <1>2, <1>3

\* A source row with one bright pixel, as wide as some columns that end with a destination
\* column, and a row of sums.
RowSetting(s_size, d_size, width, d_width, row_buffer, at, value, row_weight) ==
  /\ s_size \in Nat \ {0} /\ d_size \in 1..s_size /\ width \in 0..s_size /\ d_width \in Nat
  /\ width * d_size = d_width * s_size
  /\ row_buffer \in [0..d_width - 1 -> Int]
  /\ at \in Nat /\ value \in Int /\ row_weight \in Int

\* The pass is at y + 1 after a step from y.
LEMMA PassAtStep ==
  ASSUME NEW s_size, NEW d_size, NEW width, NEW d_width, NEW row_buffer, NEW at, NEW value,
         NEW row_weight,
         RowSetting(s_size, d_size, width, d_width, row_buffer, at, value, row_weight),
         NEW y \in 0..width - 1
  PROVE  PassAt(y + 1, at, value * row_weight, row_buffer, s_size, d_size)
           = PassStep(PassAt(y, at, value * row_weight, row_buffer, s_size, d_size),
                      IF y = at THEN value ELSE 0, row_weight, weights(s_size, d_size)[y], row_buffer)
<1>a. /\ s_size \in Nat \ {0} /\ d_size \in 1..s_size /\ width \in 0..s_size /\ d_width \in Nat
      /\ width * d_size = d_width * s_size /\ row_buffer \in [0..d_width - 1 -> Int]
      /\ at \in Nat /\ value \in Int /\ row_weight \in Int
  BY DEF RowSetting
<1>b. y \in 0..s_size - 1 /\ y + 1 \in 0..width /\ width \in Nat /\ d_size \in Nat  BY <1>a
<1>c. Filled(y + 1, s_size, d_size) \in 0..d_width
  <2>1. \A x \in 0..width : Filled(x, s_size, d_size) \in 0..d_width
    BY <1>a, <1>b, FilledUpTo, Zenon
  <2> QED  BY <1>b, <2>1
<1> USE <1>a, <1>b, <1>c
<1> DEFINE w == weights(s_size, d_size)[y]
           q == Filled(y, s_size, d_size)
           total == value * row_weight
           rw == (IF y = at THEN value ELSE 0) * row_weight
           Now(X) == Added(y, at, total, X, s_size, d_size)
           Then(X) == Added(y + 1, at, total, X, s_size, d_size)
           At(X) == ValueAt(row_buffer, X)
           p == PassAt(y, at, total, row_buffer, s_size, d_size)
           next == PassAt(y + 1, at, total, row_buffer, s_size, d_size)
           sum == p.sum + rw * w.cur
           D == 0..d_width - 1
           step == PassStep(p, IF y = at THEN value ELSE 0, row_weight, w, row_buffer)
<1>1. /\ Now(q) \in Int /\ rw * w.cur \in Int /\ Then(q) = Now(q) + rw * w.cur
      /\ w.spill # 0 => Then(q + 1) = rw * (w.spill - 1)
      /\ \A X \in Nat : Then(X) \in Int /\ (X < q => Then(X) = Now(X))
  <2>1. AddsColumn(s_size, d_size, y, at, value, row_weight)  BY AddedStep, Zenon
  <2> QED  BY <2>1, Zenon DEF AddsColumn
<1>2. q \in Nat
  <2>1. y * d_size \in Nat  BY Z3
  <2> QED  BY <2>1, Quotient DEF Filled
<1>3. \/ w.spill = 0 /\ Filled(y + 1, s_size, d_size) = q
      \/ w.spill # 0 /\ Filled(y + 1, s_size, d_size) = q + 1
  BY ColumnStep
<1>4. p = [sum |-> At(q) + Now(q), row_p |-> q,
           buffer |-> [X \in D |-> row_buffer[X] + IF X < q THEN Now(X) ELSE 0]]
  BY DEF PassAt
<1>5. \A c : Filled(y + 1, s_size, d_size) = c =>
        next = [sum |-> At(c) + Then(c), row_p |-> c,
                buffer |-> [X \in D |-> row_buffer[X] + IF X < c THEN Then(X) ELSE 0]]
  BY DEF PassAt
<1>6. step = IF w.spill = 0 THEN [p EXCEPT !.sum = sum]
             ELSE [sum |-> At(p.row_p + 1) + rw * (w.spill - 1), row_p |-> p.row_p + 1,
                   buffer |-> [p.buffer EXCEPT ![p.row_p] = sum]]
  BY DEF PassStep
<1>7. \A X : At(X) \in Int /\ (X \in D => At(X) = row_buffer[X])  BY DEF ValueAt
<1>8. D \subseteq Nat  OBVIOUS
<1>9. q + 1 <= d_width => q \in D  BY <1>2
<1> HIDE DEF w, q, total, rw, Now, Then, At, p, next, step, D
<1>10. sum = At(q) + Then(q)
  <2>1. p.sum = At(q) + Now(q)  BY <1>4
  <2>2. At(q) \in Int  BY <1>7
  <2> DEFINE added == rw * w.cur
  <2>3. added \in Int /\ Now(q) \in Int /\ Then(q) = Now(q) + added  BY <1>1
  <2>4. sum = p.sum + added  OBVIOUS
  <2> HIDE DEF added, sum
  <2> QED  BY <2>1, <2>2, <2>3, <2>4
<1>11. CASE w.spill = 0 /\ Filled(y + 1, s_size, d_size) = q
  <2>1. step = [p EXCEPT !.sum = sum]  BY <1>6, <1>11
  <2>2. \A X \in D : (IF X < q THEN Now(X) ELSE 0) = (IF X < q THEN Then(X) ELSE 0)  BY <1>1, <1>8
  <2>3. next = [sum |-> At(q) + Then(q), row_p |-> q,
                buffer |-> [X \in D |-> row_buffer[X] + IF X < q THEN Then(X) ELSE 0]]
    BY <1>5, <1>11
  <2>4. [X \in D |-> row_buffer[X] + IF X < q THEN Then(X) ELSE 0]
          = [X \in D |-> row_buffer[X] + IF X < q THEN Now(X) ELSE 0]
    BY <2>2
  <2> DEFINE old == [X \in D |-> row_buffer[X] + IF X < q THEN Now(X) ELSE 0]
  <2>5. next = [sum |-> At(q) + Then(q), row_p |-> q, buffer |-> old]  BY <2>3, <2>4, Zenon
  <2>6. p = [sum |-> At(q) + Now(q), row_p |-> q, buffer |-> old]  BY <1>4
  <2> HIDE DEF old, sum
  <2>7. step = [sum |-> sum, row_p |-> q, buffer |-> old]  BY <2>1, <2>6
  <2> QED  BY <1>10, <2>5, <2>7 DEF next, step, p, total, w
<1>12. CASE w.spill # 0 /\ Filled(y + 1, s_size, d_size) = q + 1
  <2>1. p.row_p = q /\ p.buffer = [X \in D |-> row_buffer[X] + IF X < q THEN Now(X) ELSE 0]
    BY <1>4
  <2> DEFINE new == [p.buffer EXCEPT ![q] = sum]
  <2>2. step = [sum |-> At(q + 1) + Then(q + 1), row_p |-> q + 1, buffer |-> new]
    BY <1>1, <1>6, <1>12, <2>1
  <2>3. next = [sum |-> At(q + 1) + Then(q + 1), row_p |-> q + 1,
                buffer |-> [X \in D |-> row_buffer[X] + IF X < q + 1 THEN Then(X) ELSE 0]]
    BY <1>5, <1>12
  <2>4. q \in D  BY <1>9, <1>12
  <2>5. ASSUME NEW X \in D
        PROVE  new[X] = row_buffer[X] + IF X < q + 1 THEN Then(X) ELSE 0
    <3>1. X \in Nat  BY <1>8
    <3> HIDE DEF sum
    <3>2. CASE X = q
      <4>1. new[X] = sum  BY <2>1, <2>4, <3>2
      <4>2. X < q + 1  BY <1>2, <3>2
      <4> QED  BY <1>7, <1>10, <2>4, <3>2, <4>1, <4>2
    <3>3. CASE X # q
      <4>1. new[X] = row_buffer[X] + IF X < q THEN Now(X) ELSE 0  BY <2>1, <3>3
      <4>2. X < q + 1 <=> X < q  BY <1>2, <3>1, <3>3
      <4> QED  BY <1>1, <3>1, <4>1, <4>2
    <3> QED  BY <3>2, <3>3
  <2>6. new = [X \in D |-> row_buffer[X] + IF X < q + 1 THEN Then(X) ELSE 0]
    <3>1. new = [X \in D |-> new[X]]  BY <2>1
    <3> HIDE DEF new
    <3> QED  BY <2>5, <3>1
  <2> HIDE DEF new
  <2> QED  BY <2>2, <2>3, <2>6 DEF next, step, p, total, w
<1> QED  BY <1>3, <1>11, <1>12

\* Where the pass begins, and how it goes on.
LEMMA PassAtFirst ==
  ASSUME NEW s_size, NEW d_size, NEW width, NEW d_width, NEW row_buffer, NEW at, NEW value,
         NEW row_weight,
         RowSetting(s_size, d_size, width, d_width, row_buffer, at, value, row_weight)
  PROVE  PassAt(0, at, value * row_weight, row_buffer, s_size, d_size)
           = [sum |-> ValueAt(row_buffer, 0), row_p |-> 0, buffer |-> row_buffer]
<1>a. /\ s_size \in Nat \ {0} /\ d_size \in 1..s_size /\ width \in 0..s_size /\ d_width \in Nat
      /\ width * d_size = d_width * s_size /\ row_buffer \in [0..d_width - 1 -> Int]
      /\ at \in Nat /\ value \in Int /\ row_weight \in Int
      /\ width \in Nat /\ d_size \in Nat
  BY DEF RowSetting
<1>1. Filled(0, s_size, d_size) = 0  BY <1>a, FilledUpTo
<1>2. \A X : Added(0, at, value * row_weight, X, s_size, d_size) = 0  BY <1>a DEF Added
<1>3. ValueAt(row_buffer, 0) \in Int  BY <1>a DEF ValueAt
<1>4. ValueAt(row_buffer, 0) + 0 = ValueAt(row_buffer, 0)  BY <1>3
<1>5. [X \in DOMAIN row_buffer |-> row_buffer[X] + IF X < 0 THEN 0 ELSE 0] = row_buffer
  <2>1. \A X \in DOMAIN row_buffer : row_buffer[X] + (IF X < 0 THEN 0 ELSE 0) = row_buffer[X]
    BY <1>a
  <2> QED  BY <1>a, <2>1
<1>6. [X \in DOMAIN row_buffer |->
         row_buffer[X] + IF X < 0 THEN Added(0, at, value * row_weight, X, s_size, d_size) ELSE 0]
        = row_buffer
  BY <1>2, <1>5
<1> QED  BY <1>1, <1>2, <1>4, <1>6 DEF PassAt

\* The same for a step of the pass over the row.
LEMMA PassAtNext ==
  ASSUME NEW s_size, NEW d_size, NEW width, NEW d_width, NEW row_buffer, NEW at, NEW value,
         NEW row_weight,
         RowSetting(s_size, d_size, width, d_width, row_buffer, at, value, row_weight),
         NEW y \in 0..width - 1
  PROVE  PassAt(y + 1, at, value * row_weight, row_buffer, s_size, d_size)
           = PassStep(PassAt(y, at, value * row_weight, row_buffer, s_size, d_size),
                      BrightRow(width, at, value)[y], row_weight,
                      weights(s_size, d_size)[y], row_buffer)
<1>1. PassAt(y + 1, at, value * row_weight, row_buffer, s_size, d_size)
        = PassStep(PassAt(y, at, value * row_weight, row_buffer, s_size, d_size),
                   IF y = at THEN value ELSE 0, row_weight, weights(s_size, d_size)[y], row_buffer)
  BY PassAtStep
<1>2. BrightRow(width, at, value)[y] = IF y = at THEN value ELSE 0  BY DEF BrightRow
<1> QED  BY <1>1, <1>2, Zenon

\* The pass over a row with one bright pixel is PassAt at each column.
LEMMA PassIs ==
  ASSUME NEW s_size, NEW d_size, NEW width, NEW d_width, NEW row_buffer, NEW at, NEW value,
         NEW row_weight,
         RowSetting(s_size, d_size, width, d_width, row_buffer, at, value, row_weight),
         NEW pass, IsPass(pass, BrightRow(width, at, value), row_weight,
                          weights(s_size, d_size), width, row_buffer)
  PROVE  \A x \in 0..width :
           pass[x] = PassAt(x, at, value * row_weight, row_buffer, s_size, d_size)
<1> DEFINE W(x) == PassAt(x, at, value * row_weight, row_buffer, s_size, d_size)
           Step(p, y) == PassStep(p, BrightRow(width, at, value)[y], row_weight,
                                  weights(s_size, d_size)[y], row_buffer)
<1>a. /\ s_size \in Nat \ {0} /\ d_size \in 1..s_size /\ width \in 0..s_size /\ d_width \in Nat
      /\ width * d_size = d_width * s_size /\ row_buffer \in [0..d_width - 1 -> Int]
      /\ at \in Nat /\ value \in Int /\ row_weight \in Int
      /\ width \in Nat /\ d_size \in Nat
  BY DEF RowSetting
<1>1. W(0) = [sum |-> ValueAt(row_buffer, 0), row_p |-> 0, buffer |-> row_buffer]
  BY PassAtFirst
<1>2. ASSUME NEW y \in 0..width - 1 PROVE W(y + 1) = Step(W(y), y)
  BY PassAtNext
<1>3. \A x \in 0..width :
        pass[x] = IF x = 0
                  THEN [sum |-> ValueAt(row_buffer, 0), row_p |-> 0, buffer |-> row_buffer]
                  ELSE PassStep(pass[x - 1], BrightRow(width, at, value)[x - 1], row_weight,
                                weights(s_size, d_size)[x - 1], row_buffer)
  BY Zenon DEF IsPass
<1>5. pass[0] = W(0)
  <2>1. 0 \in 0..width  BY <1>a
  <2> QED  BY <1>1, <1>3, <2>1, Zenon
<1>6. ASSUME NEW y \in 0..width - 1 PROVE pass[y + 1] = Step(pass[y], y)
  <2>1. y + 1 \in 0..width /\ y + 1 # 0 /\ (y + 1) - 1 = y  BY <1>a
  <2> QED  BY <1>3, <2>1
<1> HIDE DEF W, Step
<1> DEFINE T == {x \in 0..width : pass[x] # W(x)}
<1>7. T = {}
  <2> SUFFICES ASSUME T # {} PROVE FALSE  OBVIOUS
  <2>1. T \subseteq Nat  BY <1>a
  <2>2. PICK x \in T : \A y \in T : x <= y  BY <2>1, LeastNumber
  <2>3. x \in 0..width /\ pass[x] # W(x)  BY <2>2
  <2>4. x # 0  BY <1>5, <2>3
  <2>5. x - 1 \in 0..width - 1 /\ x - 1 \in 0..width /\ (x - 1) + 1 = x /\ ~(x <= x - 1)
    BY <1>a, <2>3, <2>4
  <2>6. pass[x - 1] = W(x - 1)  BY <2>2, <2>5
  <2>7. pass[(x - 1) + 1] = Step(pass[x - 1], x - 1) /\ W((x - 1) + 1) = Step(W(x - 1), x - 1)
    BY <1>2, <1>6, <2>5
  <2>8. pass[x] = W(x)  BY <2>5, <2>6, <2>7, Zenon
  <2> QED  BY <2>3, <2>8
<1> QED  BY <1>7 DEF W

\* There is such a pass.
LEMMA PassExists ==
  ASSUME NEW s_size, NEW d_size, NEW width, NEW d_width, NEW row_buffer, NEW at, NEW value,
         NEW row_weight,
         RowSetting(s_size, d_size, width, d_width, row_buffer, at, value, row_weight)
  PROVE  \E pass : IsPass(pass, BrightRow(width, at, value), row_weight,
                          weights(s_size, d_size), width, row_buffer)
<1> DEFINE W(x) == PassAt(x, at, value * row_weight, row_buffer, s_size, d_size)
           f == [x \in 0..width |-> W(x)]
           F(x) == IF x = 0
                   THEN [sum |-> ValueAt(row_buffer, 0), row_p |-> 0, buffer |-> row_buffer]
                   ELSE PassStep(f[x - 1], BrightRow(width, at, value)[x - 1], row_weight,
                                 weights(s_size, d_size)[x - 1], row_buffer)
<1>a. /\ s_size \in Nat \ {0} /\ d_size \in 1..s_size /\ width \in 0..s_size /\ d_width \in Nat
      /\ width * d_size = d_width * s_size /\ row_buffer \in [0..d_width - 1 -> Int]
      /\ at \in Nat /\ value \in Int /\ row_weight \in Int
      /\ width \in Nat /\ d_size \in Nat
  BY DEF RowSetting
<1>1. ASSUME NEW x \in 0..width PROVE W(x) = F(x)
  <2>1. CASE x = 0  BY <2>1, PassAtFirst
  <2>2. CASE x # 0
    <3>1. x - 1 \in 0..width - 1 /\ x - 1 \in 0..width /\ (x - 1) + 1 = x  BY <1>a, <2>2
    <3>2. W((x - 1) + 1) = PassStep(W(x - 1), BrightRow(width, at, value)[x - 1], row_weight,
                                    weights(s_size, d_size)[x - 1], row_buffer)
      BY <3>1, PassAtNext
    <3>3. f[x - 1] = W(x - 1)  BY <3>1
    <3> HIDE DEF W, f
    <3> QED  BY <2>2, <3>1, <3>2, <3>3
  <2> QED  BY <2>1, <2>2
<1>2. f = [x \in 0..width |-> F(x)]
  <2> HIDE DEF W, F
  <2> QED  BY <1>1
<1>3. IsPass(f, BrightRow(width, at, value), row_weight, weights(s_size, d_size), width, row_buffer)
  BY <1>2, Zenon DEF IsPass
<1> QED  BY <1>3

\* A row of sums after a bright pixel has been added.
RowSum(at, total, d_width, row_buffer, s_size, d_size) ==
  [X \in 0..d_width - 1 |-> row_buffer[X] + total * Overlap1(at, X, s_size, d_size)]

\* A row with one bright pixel adds to each destination column what it covers of it.
LEMMA RowAdded ==
  ASSUME NEW s_size, NEW d_size, NEW width, NEW d_width, NEW row_buffer, NEW at, NEW value,
         NEW row_weight,
         RowSetting(s_size, d_size, width, d_width, row_buffer, at, value, row_weight),
         at < width
  PROVE  AddRow(BrightRow(width, at, value), row_weight, weights(s_size, d_size), width, row_buffer)
           = RowSum(at, value * row_weight, d_width, row_buffer, s_size, d_size)
<1> DEFINE pass == CHOOSE g : IsPass(g, BrightRow(width, at, value), row_weight,
                                     weights(s_size, d_size), width, row_buffer)
<1>a. /\ s_size \in Nat \ {0} /\ d_size \in 1..s_size /\ width \in 0..s_size /\ d_width \in Nat
      /\ width * d_size = d_width * s_size /\ row_buffer \in [0..d_width - 1 -> Int]
      /\ at \in Nat /\ value \in Int /\ row_weight \in Int
      /\ width \in Nat /\ d_size \in Nat
  BY DEF RowSetting
<1>1. AddRow(BrightRow(width, at, value), row_weight, weights(s_size, d_size), width, row_buffer)
        = pass[width].buffer
  BY DEF AddRow, IsPass, PassStep, ValueAt
<1>2. width \in 0..width  BY <1>a
<1>3. \E g : IsPass(g, BrightRow(width, at, value), row_weight,
                    weights(s_size, d_size), width, row_buffer)
  BY <1>2, PassExists
<1>4. IsPass(pass, BrightRow(width, at, value), row_weight,
             weights(s_size, d_size), width, row_buffer)
  BY <1>3, Zenon
<1> HIDE DEF pass
<1>5. \A x \in 0..width : pass[x] = PassAt(x, at, value * row_weight, row_buffer, s_size, d_size)
  BY <1>2, <1>4, PassIs
<1>6. pass[width] = PassAt(width, at, value * row_weight, row_buffer, s_size, d_size)
  BY <1>2, <1>5
<1>7. Filled(width, s_size, d_size) = d_width  BY <1>a, FilledUpTo
<1>8. \A X : Added(width, at, value * row_weight, X, s_size, d_size)
             = (value * row_weight) * Overlap1(at, X, s_size, d_size)
  BY DEF Added
<1>9. pass[width].buffer
        = [X \in 0..d_width - 1 |->
             row_buffer[X] + IF X < d_width
                             THEN Added(width, at, value * row_weight, X, s_size, d_size) ELSE 0]
  BY <1>a, <1>6, <1>7 DEF PassAt
<1>10. \A X \in 0..d_width - 1 : X < d_width  BY <1>a
<1>11. \A X \in 0..d_width - 1 :
         (IF X < d_width THEN Added(width, at, value * row_weight, X, s_size, d_size) ELSE 0)
           = (value * row_weight) * Overlap1(at, X, s_size, d_size)
  BY <1>8, <1>10
<1> QED  BY <1>1, <1>9, <1>11 DEF RowSum

\* A sum of weighted values as a pixel.
Rescaled(v, pixels, one) == (v * ((one + pixels \div 2) \div pixels) + one \div 2) \div one

\* A step over a source row.
RowsStep(r, row, w, s_width, d_width, full, one) ==
  LET col_weights == weights(full.s_width, full.d_width)
      sum == AddRow(row, w.cur, col_weights, s_width, r.buffer)
  IN  IF w.spill = 0 THEN [r EXCEPT !.buffer = sum]
      ELSE [buffer |-> AddRow(row, w.spill - 1, col_weights, s_width, [x \in 0..d_width - 1 |-> 0]),
            out |-> Append(r.out, [x \in 0..d_width - 1 |->
                                     Rescaled(sum[x], full.s_width * full.s_height, one)])]

\* A row of a picture.
PictureRow(picture, s_width, y) == [x \in 0..s_width - 1 |-> picture[<<x, y>>]]

\* The steps over all source rows, by the code's recursion.
IsRows(rows, picture, s_width, s_height, d_width, full, one) ==
  rows = [y \in 0..s_height |->
            IF y = 0 THEN [buffer |-> [x \in 0..d_width - 1 |-> 0], out |-> <<>>]
            ELSE RowsStep(rows[y - 1], PictureRow(picture, s_width, y - 1),
                          weights(full.s_height, full.d_height)[y - 1],
                          s_width, d_width, full, one)]

\* The sizes are those of the first plane of a picture, or of another plane of it, whose
\* columns and rows end where destination columns and rows do.
PlaneSetting(s_width, s_height, d_width, d_height, full, bright, value) ==
  /\ full.s_width \in Nat \ {0} /\ full.d_width \in 1..full.s_width
  /\ full.s_height \in Nat \ {0} /\ full.d_height \in 1..full.s_height
  /\ s_width \in 0..full.s_width /\ s_height \in 0..full.s_height
  /\ d_width \in Nat /\ d_height \in Nat
  /\ s_width * full.d_width = d_width * full.s_width
  /\ s_height * full.d_height = d_height * full.s_height
  /\ bright \in (0..s_width - 1) \X (0..s_height - 1) /\ value \in Int

\* The weight with which the bright pixel is in the pixel X of row Y.
Share(X, Y, full, bright, value) ==
  (value * Overlap1(bright[2], Y, full.s_height, full.d_height))
    * Overlap1(bright[1], X, full.s_width, full.d_width)

\* A row of the scaled picture, and all rows that are complete after y source rows.
RowOut(Y, d_width, full, bright, value, one) ==
  [X \in 0..d_width - 1 |->
     Rescaled(Share(X, Y, full, bright, value), full.s_width * full.s_height, one)]

\* The state after y source rows: the sums of the row begun, and the rows that are out.
RowsAt(y, d_width, full, bright, value, one) ==
  LET Q == Filled(y, full.s_height, full.d_height)
  IN  [buffer |-> [X \in 0..d_width - 1 |->
                     Added(y, bright[2], value, Q, full.s_height, full.d_height)
                       * Overlap1(bright[1], X, full.s_width, full.d_width)],
       out |-> [Y \in 1..Q |-> RowOut(Y - 1, d_width, full, bright, value, one)]]

\* A sequence with one more element.
LEMMA AppendOne ==
  ASSUME NEW S, NEW n \in Nat, NEW s \in [1..n -> S], NEW t \in [1..n + 1 -> S],
         \A i \in 1..n : t[i] = s[i]
  PROVE  Append(s, t[n + 1]) = t
<1>1. s \in Seq(S) /\ Len(s) = n  OBVIOUS
<1>2. t \in Seq(S) /\ Len(t) = n + 1  OBVIOUS
<1>3. n + 1 \in 1..n + 1  OBVIOUS
<1>4. t[n + 1] \in S  BY <1>3
<1> DEFINE e == t[n + 1]
           r == Append(s, e)
<1>5. r \in Seq(S) /\ Len(r) = n + 1 /\ r[n + 1] = e /\ \A i \in 1..n : r[i] = s[i]
  BY <1>1, <1>4
<1> HIDE DEF r
<1>6. ASSUME NEW i \in 1..n + 1 PROVE r[i] = t[i]
  <2>1. i \in 1..n \/ i = n + 1  OBVIOUS
  <2> QED  BY <1>5, <2>1
<1>7. r = t
  <2>1. DOMAIN r = 1..n + 1 /\ DOMAIN t = 1..n + 1  BY <1>2, <1>5
  <2>2. r = [i \in 1..n + 1 |-> r[i]] /\ t = [i \in 1..n + 1 |-> t[i]]  BY <1>2, <1>5, <2>1
  <2> QED  BY <1>6, <2>2
<1> QED  BY <1>7 DEF r

\* A step over a source row does what RowsAt says.
LEMMA RowsAtNext ==
  ASSUME NEW s_width, NEW s_height, NEW d_width, NEW d_height, NEW full, NEW bright, NEW value,
         PlaneSetting(s_width, s_height, d_width, d_height, full, bright, value),
         NEW one, NEW y \in 0..s_height - 1
  PROVE  RowsAt(y + 1, d_width, full, bright, value, one)
           = RowsStep(RowsAt(y, d_width, full, bright, value, one),
                      BrightRow(s_width, bright[1], IF y = bright[2] THEN value ELSE 0),
                      weights(full.s_height, full.d_height)[y], s_width, d_width, full, one)
<1> DEFINE sw == full.s_width
           dw == full.d_width
           sh == full.s_height
           dh == full.d_height
           bx == bright[1]
           by == bright[2]
           val == IF y = by THEN value ELSE 0
           row == BrightRow(s_width, bx, val)
           w == weights(sh, dh)[y]
           q == Filled(y, sh, dh)
           C(X) == Overlap1(bx, X, sw, dw)
           Now(Y) == Added(y, by, value, Y, sh, dh)
           Then(Y) == Added(y + 1, by, value, Y, sh, dh)
           D == 0..d_width - 1
           r == RowsAt(y, d_width, full, bright, value, one)
           next == RowsAt(y + 1, d_width, full, bright, value, one)
           Out(Y) == RowOut(Y, d_width, full, bright, value, one)
           zero == [x \in D |-> 0]
           sum == AddRow(row, w.cur, weights(sw, dw), s_width, r.buffer)
           begun == AddRow(row, w.spill - 1, weights(sw, dw), s_width, zero)
<1>1. /\ sw \in Nat \ {0} /\ dw \in 1..sw /\ sh \in Nat \ {0} /\ dh \in 1..sh
      /\ s_width \in 0..sw /\ s_height \in 0..sh /\ d_width \in Nat /\ d_height \in Nat
      /\ s_width * dw = d_width * sw /\ s_height * dh = d_height * sh
      /\ bx \in Nat /\ bx < s_width /\ by \in Nat /\ by < s_height /\ value \in Int /\ val \in Int
  BY DEF PlaneSetting
<1>2. y \in 0..sh - 1 /\ y \in Nat  BY <1>1
<1>3. q \in Nat
  <2>1. y * dh \in Nat  BY <1>1, <1>2, Z3
  <2> QED  BY <1>1, <2>1, Quotient DEF Filled
<1>4. /\ Now(q) \in Int /\ val * w.cur \in Int /\ Then(q) = Now(q) + val * w.cur
      /\ w.spill # 0 => Then(q + 1) = val * (w.spill - 1)
      /\ \A Y \in Nat : Then(Y) \in Int /\ (Y < q => Then(Y) = Now(Y))
  <2>a. 1 \in Int  OBVIOUS
  <2>1. AddsColumn(sh, dh, y, by, value, 1)  BY <1>1, <1>2, <2>a, AddedStep, Zenon
  <2>2. value * 1 = value /\ val * 1 = val  BY <1>1
  <2> QED  BY <2>1, <2>2, Zenon DEF AddsColumn
<1>5. /\ w.cur \in Int /\ (w.spill # 0 => w.spill - 1 \in Int)
      /\ \/ w.spill = 0 /\ Filled(y + 1, sh, dh) = q
         \/ w.spill # 0 /\ Filled(y + 1, sh, dh) = q + 1
  <2>1. /\ w.cur = Overlap1(y, q, sh, dh)
        /\ w.spill # 0 => w.spill - 1 = Overlap1(y, q + 1, sh, dh)
        /\ \/ w.spill = 0 /\ Filled(y + 1, sh, dh) = q
           \/ w.spill # 0 /\ Filled(y + 1, sh, dh) = q + 1
    BY <1>1, <1>2, ColumnStep
  <2>2. Overlap1(y, q, sh, dh) \in Nat /\ Overlap1(y, q + 1, sh, dh) \in Nat
    <3>1. q + 1 \in Nat /\ sh \in Nat /\ dh \in Nat  BY <1>1, <1>3
    <3> QED  BY <1>2, <1>3, <3>1, OverlapNat
  <2> QED  BY <2>1, <2>2
<1>6. ASSUME NEW X \in D PROVE C(X) \in Int
  <2>1. sw \in Nat /\ dw \in Nat /\ X \in Nat /\ bx \in Nat  BY <1>1
  <2> HIDE DEF D, sw, dw, bx
  <2>2. C(X) \in Nat  BY <2>1, OverlapNat
  <2> HIDE DEF C
  <2> QED  BY <2>2
<1>7. ASSUME NEW buffer \in [D -> Int], NEW weight \in Int
      PROVE  AddRow(row, weight, weights(sw, dw), s_width, buffer)
               = [X \in D |-> buffer[X] + (val * weight) * C(X)]
  <2>1. RowSetting(sw, dw, s_width, d_width, buffer, bx, val, weight)
    BY <1>1, Zenon DEF RowSetting
  <2>2. bx < s_width  BY <1>1
  <2> HIDE DEF sw, dw, bx, val
  <2>3. AddRow(BrightRow(s_width, bx, val), weight, weights(sw, dw), s_width, buffer)
          = RowSum(bx, val * weight, d_width, buffer, sw, dw)
    BY <2>1, <2>2, RowAdded, SMT
  <2> QED  BY <2>3, Zenon DEF RowSum, row
<1>8. /\ r.buffer = [X \in D |-> Now(q) * C(X)]
      /\ r = [buffer |-> r.buffer, out |-> [Y \in 1..q |-> Out(Y - 1)]]
  BY DEF RowsAt
<1>9. \A c : Filled(y + 1, sh, dh) = c =>
        next = [buffer |-> [X \in D |-> Then(c) * C(X)], out |-> [Y \in 1..c |-> Out(Y - 1)]]
  BY DEF RowsAt
<1>10. /\ w.spill = 0 => RowsStep(r, row, w, s_width, d_width, full, one)
                           = [r EXCEPT !.buffer = sum]
       /\ w.spill # 0 => RowsStep(r, row, w, s_width, d_width, full, one)
                           = [buffer |-> begun,
                              out |-> Append(r.out, [x \in D |-> Rescaled(sum[x], sw * sh, one)])]
  BY Zenon DEF RowsStep
<1>11. \A Y : Out(Y) = [X \in D |-> Rescaled((value * Overlap1(by, Y, sh, dh)) * C(X), sw * sh, one)]
  BY DEF RowOut, Share
<1>12. y + 1 > by => Then(q) = value * Overlap1(by, q, sh, dh)
  BY <1>1, <1>2 DEF Added
<1>13. y + 1 <= by /\ Filled(y + 1, sh, dh) = q + 1 =>
         Then(q) = 0 /\ value * Overlap1(by, q, sh, dh) = 0
  <2>1. SUFFICES ASSUME y + 1 <= by, Filled(y + 1, sh, dh) = q + 1
                 PROVE  Then(q) = 0 /\ value * Overlap1(by, q, sh, dh) = 0
    OBVIOUS
  <2>2. y + 1 \in Nat /\ q \in Int /\ q < Filled(y + 1, sh, dh)  BY <1>2, <1>3, <2>1
  <2>3. Overlap1(by, q, sh, dh) = 0  BY <1>1, <2>1, <2>2, OverlapNone
  <2>4. value * Overlap1(by, q, sh, dh) = 0  BY <1>1, <2>3
  <2>5. Then(q) = 0  BY <1>1, <2>1, <2>2 DEF Added
  <2> QED  BY <2>4, <2>5
<1> HIDE DEF sw, dw, sh, dh, bx, by, val, row, w, q, C, Now, Then, r, next, Out, sum
<1>14. sum = [X \in D |-> Then(q) * C(X)]
  <2>1. \A X \in D : Now(q) * C(X) \in Int  BY <1>4, <1>6
  <2>2. r.buffer \in [D -> Int]  BY <1>8, <2>1
  <2>3. sum = [X \in D |-> r.buffer[X] + (val * w.cur) * C(X)]  BY <1>5, <1>7, <2>2 DEF sum
  <2>4. ASSUME NEW X \in D
        PROVE  r.buffer[X] + (val * w.cur) * C(X) = Then(q) * C(X)
    <3>1. r.buffer[X] = Now(q) * C(X)  BY <1>8
    <3> DEFINE more == val * w.cur
    <3>2. more \in Int /\ Now(q) \in Int /\ C(X) \in Int /\ Then(q) = Now(q) + more  BY <1>4, <1>6
    <3> HIDE DEF more
    <3>3. Now(q) * C(X) + more * C(X) = (Now(q) + more) * C(X)  BY <3>2, Z3
    <3> QED  BY <3>1, <3>2, <3>3 DEF more
  <2> QED  BY <2>3, <2>4
<1>15. CASE w.spill = 0 /\ Filled(y + 1, sh, dh) = q
  <2>1. next = [buffer |-> sum, out |-> [Y \in 1..q |-> Out(Y - 1)]]  BY <1>9, <1>14, <1>15
  <2>2. [r EXCEPT !.buffer = sum] = [buffer |-> sum, out |-> [Y \in 1..q |-> Out(Y - 1)]]
    <3> DEFINE old == r.buffer
               out == [Y \in 1..q |-> Out(Y - 1)]
    <3>1. r = [buffer |-> old, out |-> out]  BY <1>8, Zenon
    <3> HIDE DEF old, out
    <3>2. [r EXCEPT !.buffer = sum] = [buffer |-> sum, out |-> out]  BY <3>1
    <3> QED  BY <3>2 DEF out
  <2> QED  BY <1>10, <1>15, <2>1, <2>2, Zenon
           DEF sw, dw, sh, dh, bx, by, val, row, w, q, r, next
<1>16. CASE w.spill # 0 /\ Filled(y + 1, sh, dh) = q + 1
  <2>1. begun = [X \in D |-> Then(q + 1) * C(X)]
    <3>1. zero \in [D -> Int]  OBVIOUS
    <3>2. w.spill - 1 \in Int  BY <1>5, <1>16
    <3>3. begun = [X \in D |-> zero[X] + (val * (w.spill - 1)) * C(X)]  BY <1>7, <3>1, <3>2
    <3>4. val * (w.spill - 1) = Then(q + 1)  BY <1>4, <1>16
    <3>5. q + 1 \in Nat  BY <1>3
    <3>6. \A X \in D : zero[X] + Then(q + 1) * C(X) = Then(q + 1) * C(X)
      <4>1. \A X \in D : Then(q + 1) * C(X) \in Int  BY <1>4, <1>6, <3>5
      <4> QED  BY <4>1
    <3> HIDE DEF zero, begun, D
    <3> QED  BY <3>3, <3>4, <3>6
  <2>2. [x \in D |-> Rescaled(sum[x], sw * sh, one)] = Out(q)
    <3>1. Then(q) = value * Overlap1(by, q, sh, dh)  BY <1>1, <1>2, <1>12, <1>13, <1>16
    <3>2. \A X \in D : sum[X] = (value * Overlap1(by, q, sh, dh)) * C(X)  BY <1>14, <3>1
    <3> QED  BY <1>11, <3>2
  <2>3. Append(r.out, Out(q)) = [Y \in 1..q + 1 |-> Out(Y - 1)]
    <3> DEFINE S == {Out(Y) : Y \in Nat}
               s == [Y \in 1..q |-> Out(Y - 1)]
               t == [Y \in 1..q + 1 |-> Out(Y - 1)]
    <3>1. \A Y \in 1..q + 1 : Y - 1 \in Nat  BY <1>3
    <3>2. s \in [1..q -> S]  BY <1>3, <3>1
    <3>3. t \in [1..q + 1 -> S]  BY <1>3, <3>1
    <3>4. \A i \in 1..q : t[i] = s[i]  BY <1>3
    <3>5. t[q + 1] = Out(q)
      <4>1. q + 1 \in 1..q + 1 /\ (q + 1) - 1 = q  BY <1>3
      <4> QED  BY <4>1
    <3>6. r.out = s  BY <1>8
    <3> HIDE DEF S, s, t
    <3>7. Append(s, t[q + 1]) = t  BY <1>3, <3>2, <3>3, <3>4, AppendOne
    <3> QED  BY <3>5, <3>6, <3>7 DEF t
  <2>4. next = [buffer |-> begun, out |-> Append(r.out, [x \in D |-> Rescaled(sum[x], sw * sh, one)])]
    BY <1>9, <1>16, <2>1, <2>2, <2>3
  <2> QED  BY <1>10, <1>16, <2>4, Zenon
           DEF sw, dw, sh, dh, bx, by, val, row, w, q, r, next
<1> QED  BY <1>5, <1>15, <1>16

\* A row of a picture with one bright pixel.
LEMMA BrightRows ==
  ASSUME NEW s_width, NEW s_height, NEW bright, NEW value, NEW y \in 0..s_height - 1,
         bright \in (0..s_width - 1) \X (0..s_height - 1)
  PROVE  PictureRow(BrightPicture(s_width, s_height, bright, value), s_width, y)
           = BrightRow(s_width, bright[1], IF y = bright[2] THEN value ELSE 0)
<1> DEFINE P == BrightPicture(s_width, s_height, bright, value)
<1>1. ASSUME NEW x \in 0..s_width - 1
      PROVE  P[<<x, y>>] = IF x = bright[1] THEN (IF y = bright[2] THEN value ELSE 0) ELSE 0
  <2>1. P[<<x, y>>] = IF <<x, y>> = bright THEN value ELSE 0  BY DEF BrightPicture
  <2>2. <<x, y>> = bright <=> x = bright[1] /\ y = bright[2]  OBVIOUS
  <2> HIDE DEF P
  <2> QED  BY <2>1, <2>2
<1> HIDE DEF P
<1> QED  BY <1>1 DEF BrightRow, PictureRow, P

\* Before the first source row nothing is added and nothing is out.
LEMMA RowsAtFirst ==
  ASSUME NEW s_width, NEW s_height, NEW d_width, NEW d_height, NEW full, NEW bright, NEW value,
         PlaneSetting(s_width, s_height, d_width, d_height, full, bright, value), NEW one
  PROVE  RowsAt(0, d_width, full, bright, value, one)
           = [buffer |-> [x \in 0..d_width - 1 |-> 0], out |-> <<>>]
<1> DEFINE sw == full.s_width
           dw == full.d_width
           sh == full.s_height
           dh == full.d_height
           C(X) == Overlap1(bright[1], X, sw, dw)
           Out(Y) == RowOut(Y, d_width, full, bright, value, one)
           D == 0..d_width - 1
<1>1. /\ sw \in Nat /\ dw \in Nat /\ sh \in Nat \ {0} /\ dh \in Nat
      /\ d_width \in Nat /\ d_height \in Nat /\ s_height \in Nat
      /\ s_height * dh = d_height * sh /\ bright[1] \in Nat /\ bright[2] \in Nat
  BY DEF PlaneSetting
<1>2. Filled(0, sh, dh) = 0  BY <1>1, FilledUpTo
<1>3. \A Y : Added(0, bright[2], value, Y, sh, dh) = 0  BY <1>1 DEF Added
<1>4. ASSUME NEW X \in D PROVE 0 * C(X) = 0
  <2>1. X \in Nat  BY <1>1
  <2> HIDE DEF sw, dw
  <2>2. C(X) \in Nat  BY <1>1, <2>1, OverlapNat
  <2> HIDE DEF C
  <2> QED  BY <2>2
<1>5. RowsAt(0, d_width, full, bright, value, one)
        = [buffer |-> [X \in D |-> 0 * C(X)], out |-> [Y \in 1..0 |-> Out(Y - 1)]]
  BY <1>2, <1>3 DEF RowsAt
<1> HIDE DEF C, Out
<1>6. [X \in D |-> 0 * C(X)] = [X \in D |-> 0]  BY <1>4
<1>7. [Y \in 1..0 |-> Out(Y - 1)] = <<>>  OBVIOUS
<1> QED  BY <1>5, <1>6, <1>7, Zenon

\* The recursion takes RowsAt from each row to the next.
LEMMA RowsAtStep ==
  ASSUME NEW s_width, NEW s_height, NEW d_width, NEW d_height, NEW full, NEW bright, NEW value,
         PlaneSetting(s_width, s_height, d_width, d_height, full, bright, value),
         NEW one, NEW y \in 0..s_height - 1
  PROVE  RowsAt(y + 1, d_width, full, bright, value, one)
           = RowsStep(RowsAt(y, d_width, full, bright, value, one),
                      PictureRow(BrightPicture(s_width, s_height, bright, value), s_width, y),
                      weights(full.s_height, full.d_height)[y], s_width, d_width, full, one)
<1>1. bright \in (0..s_width - 1) \X (0..s_height - 1)  BY Zenon DEF PlaneSetting
<1>2. PictureRow(BrightPicture(s_width, s_height, bright, value), s_width, y)
        = BrightRow(s_width, bright[1], IF y = bright[2] THEN value ELSE 0)
  BY <1>1, BrightRows
<1> QED  BY <1>2, RowsAtNext

\* The state after each row, by the code's recursion, is RowsAt.
LEMMA RowsIs ==
  ASSUME NEW s_width, NEW s_height, NEW d_width, NEW d_height, NEW full, NEW bright, NEW value,
         PlaneSetting(s_width, s_height, d_width, d_height, full, bright, value), NEW one,
         NEW rows, IsRows(rows, BrightPicture(s_width, s_height, bright, value),
                          s_width, s_height, d_width, full, one)
  PROVE  \A y \in 0..s_height : rows[y] = RowsAt(y, d_width, full, bright, value, one)
<1> DEFINE W(y) == RowsAt(y, d_width, full, bright, value, one)
           Step(r, y) == RowsStep(r, PictureRow(BrightPicture(s_width, s_height, bright, value), s_width, y),
                                  weights(full.s_height, full.d_height)[y],
                                  s_width, d_width, full, one)
<1>a. s_height \in Nat  BY DEF PlaneSetting
<1>1. W(0) = [buffer |-> [x \in 0..d_width - 1 |-> 0], out |-> <<>>]  BY RowsAtFirst
<1>2. ASSUME NEW y \in 0..s_height - 1 PROVE W(y + 1) = Step(W(y), y)  BY RowsAtStep
<1>3. \A y \in 0..s_height :
        rows[y] = IF y = 0 THEN [buffer |-> [x \in 0..d_width - 1 |-> 0], out |-> <<>>]
                  ELSE Step(rows[y - 1], y - 1)
  BY Zenon DEF IsRows
<1> HIDE DEF W, Step
<1>4. rows[0] = W(0)
  <2>1. 0 \in 0..s_height  BY <1>a
  <2> QED  BY <1>1, <1>3, <2>1, Zenon
<1>5. ASSUME NEW y \in 0..s_height - 1 PROVE rows[y + 1] = Step(rows[y], y)
  <2>1. y + 1 \in 0..s_height /\ y + 1 # 0 /\ (y + 1) - 1 = y  BY <1>a
  <2> QED  BY <1>3, <2>1
<1> DEFINE T == {y \in 0..s_height : rows[y] # W(y)}
<1>6. T = {}
  <2> SUFFICES ASSUME T # {} PROVE FALSE  OBVIOUS
  <2>1. T \subseteq Nat  BY <1>a
  <2>2. PICK x \in T : \A y \in T : x <= y  BY <2>1, LeastNumber
  <2>3. x \in 0..s_height /\ rows[x] # W(x)  BY <2>2
  <2>4. x # 0  BY <1>4, <2>3
  <2>5. x - 1 \in 0..s_height - 1 /\ x - 1 \in 0..s_height /\ (x - 1) + 1 = x /\ ~(x <= x - 1)
    BY <1>a, <2>3, <2>4
  <2>6. rows[x - 1] = W(x - 1)  BY <2>2, <2>5
  <2>7. rows[(x - 1) + 1] = Step(rows[x - 1], x - 1) /\ W((x - 1) + 1) = Step(W(x - 1), x - 1)
    BY <1>2, <1>5, <2>5
  <2>8. rows[x] = W(x)  BY <2>5, <2>6, <2>7, Zenon
  <2> QED  BY <2>3, <2>8
<1> QED  BY <1>6 DEF W

\* There is such a function.
LEMMA RowsExists ==
  ASSUME NEW s_width, NEW s_height, NEW d_width, NEW d_height, NEW full, NEW bright, NEW value,
         PlaneSetting(s_width, s_height, d_width, d_height, full, bright, value), NEW one
  PROVE  \E rows : IsRows(rows, BrightPicture(s_width, s_height, bright, value),
                          s_width, s_height, d_width, full, one)
<1> DEFINE W(y) == RowsAt(y, d_width, full, bright, value, one)
           Step(r, y) == RowsStep(r, PictureRow(BrightPicture(s_width, s_height, bright, value), s_width, y),
                                  weights(full.s_height, full.d_height)[y],
                                  s_width, d_width, full, one)
           f == [y \in 0..s_height |-> W(y)]
           F(y) == IF y = 0 THEN [buffer |-> [x \in 0..d_width - 1 |-> 0], out |-> <<>>]
                   ELSE Step(f[y - 1], y - 1)
<1>a. s_height \in Nat  BY DEF PlaneSetting
<1>1. W(0) = [buffer |-> [x \in 0..d_width - 1 |-> 0], out |-> <<>>]  BY RowsAtFirst
<1>2. ASSUME NEW y \in 0..s_height - 1 PROVE W(y + 1) = Step(W(y), y)  BY RowsAtStep
<1> HIDE DEF W, Step
<1>3. ASSUME NEW y \in 0..s_height PROVE W(y) = F(y)
  <2>1. CASE y = 0  BY <1>1, <2>1
  <2>2. CASE y # 0
    <3>1. y - 1 \in 0..s_height - 1 /\ y - 1 \in 0..s_height /\ (y - 1) + 1 = y  BY <1>a, <2>2
    <3>2. W((y - 1) + 1) = Step(W(y - 1), y - 1)  BY <1>2, <3>1
    <3>3. f[y - 1] = W(y - 1)  BY <3>1
    <3> HIDE DEF f
    <3> QED  BY <2>2, <3>1, <3>2, <3>3
  <2> QED  BY <2>1, <2>2
<1>4. f = [y \in 0..s_height |-> F(y)]
  <2> HIDE DEF F
  <2> QED  BY <1>3
<1>5. IsRows(f, BrightPicture(s_width, s_height, bright, value),
             s_width, s_height, d_width, full, one)
  BY <1>4, Zenon DEF IsRows, Step
<1> QED  BY <1>5, Zenon

\* What the effect makes of a picture with one bright pixel.
IsPicInPic(s_width, s_height, d_width, d_height, full, bright, value, one) ==
  video_effect_pic_in_pic(BrightPicture(s_width, s_height, bright, value),
                          s_width, s_height, d_width, d_height, full, one)
    = [Y \in 1..d_height |-> RowOut(Y - 1, d_width, full, bright, value, one)]

\* The effect turns one bright pixel into its shares of the pixels of the scaled picture.
THEOREM PicInPic ==
  ASSUME NEW s_width, NEW s_height, NEW d_width, NEW d_height, NEW full, NEW bright, NEW value,
         PlaneSetting(s_width, s_height, d_width, d_height, full, bright, value), NEW one
  PROVE  IsPicInPic(s_width, s_height, d_width, d_height, full, bright, value, one)
<1> DEFINE P == BrightPicture(s_width, s_height, bright, value)
           rows == CHOOSE f : IsRows(f, P, s_width, s_height, d_width, full, one)
<1>1. video_effect_pic_in_pic(P, s_width, s_height, d_width, d_height, full, one)
        = rows[s_height].out
  BY DEF video_effect_pic_in_pic, IsRows, RowsStep, Rescaled, PictureRow
<1>2. IsRows(rows, P, s_width, s_height, d_width, full, one)  BY RowsExists
<1>3. /\ s_height \in Nat /\ full.s_height \in Nat \ {0} /\ full.d_height \in Nat
      /\ d_height \in Nat /\ s_height * full.d_height = d_height * full.s_height
  BY DEF PlaneSetting
<1> HIDE DEF rows
<1>4. \A y \in 0..s_height : rows[y] = RowsAt(y, d_width, full, bright, value, one)
  BY <1>2, RowsIs
<1>5. rows[s_height] = RowsAt(s_height, d_width, full, bright, value, one)  BY <1>3, <1>4
<1>6. Filled(s_height, full.s_height, full.d_height) = d_height  BY <1>3, FilledUpTo
<1> QED  BY <1>1, <1>5, <1>6 DEF RowsAt, IsPicInPic

\* The order of numbers is that of their multiples.
LEMMA ScaledOrder ==
  ASSUME NEW k \in Nat \ {0}, NEW a \in Int, NEW b \in Int
  PROVE  /\ Least(k * a, k * b) = k * Least(a, b)
         /\ Greatest(k * a, k * b) = k * Greatest(a, b)
<1>1. k * a < k * b <=> a < b
  <2>1. a < b => k * a < k * b
    <3>1. SUFFICES ASSUME a < b PROVE k * a < k * b  OBVIOUS
    <3>2. k * (b - a) > 0  BY <3>1, Z3
    <3> QED  BY <3>2, Z3
  <2> QED  BY <2>1, Cancel
<1>2. k * a > k * b <=> a > b
  <2>1. a > b => k * a > k * b
    <3>1. SUFFICES ASSUME a > b PROVE k * a > k * b  OBVIOUS
    <3>2. k * (a - b) > 0  BY <3>1, Z3
    <3> QED  BY <3>2, Z3
  <2>2. k * b < k * a => b < a  BY Cancel
  <2>3. k * a \in Int /\ k * b \in Int  BY Z3
  <2> DEFINE c == k * a
             d == k * b
  <2> HIDE DEF c, d
  <2> QED  BY <2>1, <2>2, <2>3 DEF c, d
<1> DEFINE c == k * a
           d == k * b
<1> HIDE DEF c, d
<1>3. /\ Least(c, d) = IF a < b THEN c ELSE d
      /\ Greatest(c, d) = IF a > b THEN c ELSE d
  BY <1>1, <1>2 DEF Least, Greatest, c, d
<1> QED  BY <1>3 DEF Least, Greatest, c, d

\* Columns of two sizes overlap as those of sizes that are multiples of them.
LEMMA OverlapScaled ==
  ASSUME NEW k \in Nat \ {0}, NEW s_size \in Nat, NEW d_size \in Nat, NEW x \in Nat, NEW X \in Nat
  PROVE  Overlap1(x, X, k * s_size, k * d_size) = k * Overlap1(x, X, s_size, d_size)
<1> DEFINE a == (x + 1) * d_size
           b == (X + 1) * s_size
           c == x * d_size
           d == X * s_size
<1>1. /\ (x + 1) * (k * d_size) = k * a /\ (X + 1) * (k * s_size) = k * b
      /\ x * (k * d_size) = k * c /\ X * (k * s_size) = k * d
  BY Z3
<1>2. a \in Int /\ b \in Int /\ c \in Int /\ d \in Int  BY Z3
<1> HIDE DEF a, b, c, d
<1>3. Overlap1(x, X, s_size, d_size) = Greatest(0, Least(a, b) - Greatest(c, d))
  BY DEF Overlap1, a, b, c, d
<1>4. Overlap1(x, X, k * s_size, k * d_size)
        = Greatest(0, Least(k * a, k * b) - Greatest(k * c, k * d))
  BY <1>1 DEF Overlap1
<1>5. Least(k * a, k * b) = k * Least(a, b) /\ Greatest(k * c, k * d) = k * Greatest(c, d)
  BY <1>2, ScaledOrder
<1> DEFINE l == Least(a, b)
           g == Greatest(c, d)
<1>6. l \in Int /\ g \in Int  BY <1>2 DEF Least, Greatest
<1> HIDE DEF l, g
<1>7. k * l - k * g = k * (l - g) /\ k * 0 = 0 /\ l - g \in Int /\ 0 \in Int  BY <1>6, Z3
<1>8. Greatest(k * 0, k * (l - g)) = k * Greatest(0, l - g)  BY <1>7, ScaledOrder
<1>9. Greatest(0, k * l - k * g) = k * Greatest(0, l - g)
  BY <1>7, <1>8, Zenon
<1> QED  BY <1>3, <1>4, <1>5, <1>9 DEF l, g

\* How far the fixed-point unit of a pixel is from its exact value, times the pixels.
UnitError(pixels, one) == pixels * ((one + pixels \div 2) \div pixels) - one

\* It is at most half the pixels.
LEMMA UnitErrorBound ==
  ASSUME NEW pixels \in Nat \ {0}, NEW one \in Nat
  PROVE  /\ UnitError(pixels, one) \in Int
         /\ 2 * UnitError(pixels, one) <= pixels /\ 2 * UnitError(pixels, one) >= -pixels
<1> DEFINE half == pixels \div 2
           u == (one + half) \div pixels
           m == pixels * u
<1>1. half \in Nat /\ 2 * half <= pixels /\ pixels < 2 * half + 2  BY Quotient
<1> HIDE DEF half
<1>2. one + half \in Nat  BY <1>1
<1>3. u \in Nat /\ m <= one + half /\ one + half < m + pixels  BY <1>2, Quotient
<1>4. m \in Nat  BY <1>3
<1>5. UnitError(pixels, one) = m - one  BY DEF UnitError, half
<1> HIDE DEF m
<1> QED  BY <1>1, <1>3, <1>4, <1>5

\* A sum of weighted values is rounded to the nearest pixel value, but for the error of the unit.
LEMMA RescaledNear ==
  ASSUME NEW pixels \in Nat \ {0}, NEW half \in Nat \ {0}, NEW v \in Nat
  PROVE  LET one == 2 * half
             c == Rescaled(v, pixels, one)
             e == UnitError(pixels, one)
         IN  /\ c \in Nat
             /\ one * (2 * (c * pixels - v)) <= one * pixels + 2 * (v * e)
             /\ one * (2 * (c * pixels - v)) >= 2 * (v * e) - one * pixels
<1> DEFINE one == 2 * half
           u == (one + pixels \div 2) \div pixels
           c == Rescaled(v, pixels, one)
           e == UnitError(pixels, one)
<1>1. one \in Nat \ {0} /\ one \div 2 = half
  <2>1. one = 2 * half + 0 /\ 0 \in 0..2-1 /\ one \in Nat  OBVIOUS
  <2> QED  BY <2>1, ModUnique
<1>2. u \in Nat /\ e \in Int /\ e = pixels * u - one
  <2>1. pixels \div 2 \in Nat  BY Quotient
  <2>2. one + pixels \div 2 \in Nat  BY <1>1, <2>1
  <2> QED  BY <1>1, <2>2, Quotient, UnitErrorBound DEF UnitError
<1>3. c = (v * u + half) \div one  BY <1>1 DEF Rescaled
<1> HIDE DEF u, e, c
<1>4. v * u \in Nat /\ v * u + half \in Nat  BY <1>2, Z3
<1>5. c \in Nat /\ one * c <= v * u + half /\ v * u + half < one * c + one
  BY <1>1, <1>3, <1>4, Quotient
<1> HIDE DEF one
<1>6. pixels * u = one + e  BY <1>1, <1>2, Z3
<1>7. pixels * (v * u) = v * one + v * e  BY <1>1, <1>2, <1>6, Z3
<1>8. 2 * half = one  BY DEF one
<1> DEFINE p == one * c
           r == v * u
<1>9. p \in Int /\ r \in Int /\ p <= r + half /\ r + half < p + one  BY <1>1, <1>4, <1>5
<1>10. pixels * (2 * p) = 2 * (one * (c * pixels))  BY <1>1, <1>5, Z3
<1>11. pixels * r = v * one + v * e  BY <1>7
<1> HIDE DEF p, r
<1>12. pixels * (2 * r + one - 2 * p) >= 0
  <2>1. 2 * r + one - 2 * p >= 0  BY <1>1, <1>8, <1>9
  <2> QED  BY <1>1, <1>9, <2>1, Z3
<1>13. pixels * (2 * p + one - 2 * r) >= 0
  <2>1. 2 * p + one - 2 * r >= 0  BY <1>1, <1>8, <1>9
  <2> QED  BY <1>1, <1>9, <2>1, Z3
<1>14. /\ pixels * (2 * r + one - 2 * p) = 2 * (pixels * r) + one * pixels - pixels * (2 * p)
       /\ pixels * (2 * p + one - 2 * r) = pixels * (2 * p) + one * pixels - 2 * (pixels * r)
  BY <1>1, <1>9, Z3
<1>15. one * (2 * (c * pixels - v)) = 2 * (one * (c * pixels)) - 2 * (v * one)  BY <1>1, <1>5, Z3
<1>16. /\ one * (2 * (c * pixels - v)) <= one * pixels + 2 * (v * e)
       /\ one * (2 * (c * pixels - v)) >= 2 * (v * e) - one * pixels
  <2> DEFINE i == one * (c * pixels)
             j == v * one
             k == v * e
             l == one * pixels
             n == pixels * r
             o == pixels * (2 * p)
  <2>1. i \in Int /\ j \in Int /\ k \in Int /\ l \in Int /\ n \in Int /\ o \in Int
    BY <1>1, <1>2, <1>5, <1>9, Z3
  <2>2. /\ 2 * n + l - o >= 0 /\ o + l - 2 * n >= 0 /\ n = j + k /\ o = 2 * i
        /\ one * (2 * (c * pixels - v)) = 2 * i - 2 * j
    BY <1>10, <1>11, <1>12, <1>13, <1>14, <1>15, Zenon
  <2> HIDE DEF i, j, k, l, n, o
  <2>3. 2 * i - 2 * j <= l + 2 * k /\ 2 * i - 2 * j >= 2 * k - l  BY <2>1, <2>2
  <2> QED  BY <2>2, <2>3, Zenon DEF k, l
<1> QED  BY <1>5, <1>16, Zenon DEF one, c, e

\* Where the unit is exact, sums are rounded to the nearest pixel value.
LEMMA RescaledExact ==
  ASSUME NEW pixels \in Nat \ {0}, NEW half \in Nat \ {0}, NEW v \in Nat,
         NEW n \in Nat, 2 * half = pixels * n
  PROVE  LET c == Rescaled(v, pixels, 2 * half)
         IN  /\ c \in Nat
             /\ 2 * (c * pixels - v) <= pixels /\ 2 * (c * pixels - v) >= -pixels
<1> DEFINE one == 2 * half
           c == Rescaled(v, pixels, one)
           e == UnitError(pixels, one)
           t == 2 * (c * pixels - v)
<1>1. c \in Nat /\ one * t <= one * pixels + 2 * (v * e) /\ one * t >= 2 * (v * e) - one * pixels
  BY RescaledNear, Zenon
<1>2. e = 0
  <2> DEFINE p2 == pixels \div 2
  <2>1. p2 \in Nat /\ 2 * p2 <= pixels  BY Quotient
  <2> HIDE DEF p2
  <2>2. p2 \in 0..pixels-1  BY <2>1
  <2>3. pixels * n + p2 \in Nat  BY <2>1, Z3
  <2>4. (pixels * n + p2) \div pixels = n  BY <2>2, <2>3, ModUnique
  <2>5. e = pixels * ((pixels * n + p2) \div pixels) - pixels * n  BY DEF UnitError, p2
  <2>6. e = pixels * n - pixels * n  BY <2>4, <2>5, Zenon
  <2>7. pixels * n \in Int  BY Z3
  <2> QED  BY <2>6, <2>7
<1>3. one \in Nat \ {0}  OBVIOUS
<1> HIDE DEF one, c, e
<1>4. v * e = 0 /\ c * pixels \in Int  BY <1>1, <1>2, Z3
<1>5. t \in Int  BY <1>4
<1> HIDE DEF t
<1>6. one * t <= one * pixels /\ one * pixels \in Int /\ one * (-pixels) <= one * t
      /\ one * t \in Int
  <2>1. one * (-pixels) = -(one * pixels) /\ one * pixels \in Int /\ one * t \in Int
    BY <1>3, <1>5, Z3
  <2> DEFINE a == one * t
             b == one * pixels
  <2>2. a <= b + 0 /\ a >= 0 - b  BY <1>1, <1>4
  <2> HIDE DEF a, b
  <2>3. a <= b /\ -b <= a  BY <2>1, <2>2 DEF a, b
  <2> QED  BY <2>1, <2>3 DEF a, b
<1>7. t <= pixels /\ -pixels <= t  BY <1>3, <1>5, <1>6, Cancel
<1> QED  BY <1>1, <1>5, <1>7, Zenon DEF c, one, t

\* A plane of a picture, whose columns and rows are as many as a part of those of the first.
IsPlane(full, a, b, s_width, s_height, d_width, d_height) ==
  /\ a \in Nat \ {0} /\ b \in Nat \ {0}
  /\ s_width \in Nat \ {0} /\ d_width \in 1..s_width
  /\ s_height \in Nat \ {0} /\ d_height \in 1..s_height
  /\ full.s_width = a * s_width /\ full.d_width = a * d_width
  /\ full.s_height = b * s_height /\ full.d_height = b * d_height

\* Such a plane can be scaled by the tables of the first.
LEMMA PlaneIs ==
  ASSUME NEW full, NEW a, NEW b, NEW s_width, NEW s_height, NEW d_width, NEW d_height,
         IsPlane(full, a, b, s_width, s_height, d_width, d_height),
         NEW bright \in (0..s_width - 1) \X (0..s_height - 1), NEW value \in Nat
  PROVE  PlaneSetting(s_width, s_height, d_width, d_height, full, bright, value)
<1> DEFINE sw == full.s_width
           dw == full.d_width
           sh == full.s_height
           dh == full.d_height
<1>1. /\ a \in Nat \ {0} /\ b \in Nat \ {0}
      /\ s_width \in Nat \ {0} /\ d_width \in 1..s_width
      /\ s_height \in Nat \ {0} /\ d_height \in 1..s_height
      /\ sw = a * s_width /\ dw = a * d_width /\ sh = b * s_height /\ dh = b * d_height
  BY Zenon DEF IsPlane
<1>2. ASSUME NEW k \in Nat \ {0}, NEW s \in Nat \ {0}, NEW d \in 1..s
      PROVE  k * s \in Nat \ {0} /\ k * d \in 1..k * s /\ s \in 0..k * s /\ s * (k * d) = d * (k * s)
  <2>1. k * s \in Int /\ k * d \in Int /\ s * (k * d) = d * (k * s)  BY Z3
  <2>2. k * (s - d) >= 0 /\ (k - 1) * s >= 0 /\ (k - 1) * d >= 0  BY Z3
  <2>3. k * (s - d) = k * s - k * d /\ (k - 1) * s = k * s - s /\ (k - 1) * d = k * d - d  BY Z3
  <2> DEFINE ks == k * s
             kd == k * d
  <2>4. ks \in Int /\ kd \in Int /\ ks - kd >= 0 /\ ks - s >= 0 /\ kd - d >= 0
    BY <2>1, <2>2, <2>3, Zenon
  <2> HIDE DEF ks, kd
  <2>5. ks \in Nat \ {0} /\ kd \in 1..ks /\ s \in 0..ks  BY <2>4
  <2> QED  BY <2>1, <2>5, Zenon DEF ks, kd
<1>3. /\ sw \in Nat \ {0} /\ dw \in 1..sw /\ s_width \in 0..sw /\ s_width * dw = d_width * sw
      /\ sh \in Nat \ {0} /\ dh \in 1..sh /\ s_height \in 0..sh /\ s_height * dh = d_height * sh
  <2>1. /\ a * s_width \in Nat \ {0} /\ a * d_width \in 1..a * s_width
        /\ s_width \in 0..a * s_width /\ s_width * (a * d_width) = d_width * (a * s_width)
    BY <1>1, <1>2
  <2>2. /\ b * s_height \in Nat \ {0} /\ b * d_height \in 1..b * s_height
        /\ s_height \in 0..b * s_height /\ s_height * (b * d_height) = d_height * (b * s_height)
    BY <1>1, <1>2
  <2>3. sw = a * s_width /\ dw = a * d_width /\ sh = b * s_height /\ dh = b * d_height
    BY <1>1, Zenon
  <2> HIDE DEF sw, dw, sh, dh
  <2> QED  BY <2>1, <2>2, <2>3, Zenon
<1>4. d_width \in Nat /\ d_height \in Nat /\ value \in Int  BY <1>1
<1> QED  BY <1>3, <1>4, Zenon DEF PlaneSetting

\* Its shares and its pixels are multiples of its areas and its own pixels.
SharesAreAreas(X, Y, full, a, b, bright, value, s_width, s_height, d_width, d_height) ==
  /\ Share(X, Y, full, bright, value)
       = (a * b) * Area(X, Y, bright, value, s_width, s_height, d_width, d_height)
  /\ Area(X, Y, bright, value, s_width, s_height, d_width, d_height) \in Nat
  /\ full.s_width * full.s_height = (a * b) * (s_width * s_height)
  /\ a * b \in Nat \ {0} /\ s_width * s_height \in Nat \ {0}

\* They are, for any planes.
LEMMA PlaneShare ==
  ASSUME NEW full, NEW a, NEW b, NEW s_width, NEW s_height, NEW d_width, NEW d_height,
         IsPlane(full, a, b, s_width, s_height, d_width, d_height),
         NEW bright \in (0..s_width - 1) \X (0..s_height - 1), NEW value \in Nat,
         NEW X \in Nat, NEW Y \in Nat
  PROVE  SharesAreAreas(X, Y, full, a, b, bright, value, s_width, s_height, d_width, d_height)
<1>1. /\ a \in Nat \ {0} /\ b \in Nat \ {0}
      /\ s_width \in Nat \ {0} /\ d_width \in 1..s_width
      /\ s_height \in Nat \ {0} /\ d_height \in 1..s_height
      /\ full.s_width = a * s_width /\ full.d_width = a * d_width
      /\ full.s_height = b * s_height /\ full.d_height = b * d_height
  BY Zenon DEF IsPlane
<1>2. bright[1] \in Nat /\ bright[2] \in Nat /\ d_width \in Nat /\ d_height \in Nat  BY <1>1
<1> DEFINE h == Overlap1(bright[1], X, s_width, d_width)
           k == Overlap1(bright[2], Y, s_height, d_height)
<1>3. h \in Nat /\ k \in Nat  BY <1>1, <1>2, OverlapNat
<1>a. a \in Nat \ {0} /\ b \in Nat \ {0} /\ s_width \in Nat /\ s_height \in Nat  BY <1>1
<1>4. Overlap1(bright[1], X, a * s_width, a * d_width) = a * h
  BY <1>a, <1>2, OverlapScaled, SMTT(30)
<1>5. Overlap1(bright[2], Y, b * s_height, b * d_height) = b * k
  BY <1>a, <1>2, OverlapScaled, SMTT(30)
<1>6. Share(X, Y, full, bright, value) = (value * (b * k)) * (a * h)
  BY <1>1, <1>4, <1>5, Zenon DEF Share
<1>7. Area(X, Y, bright, value, s_width, s_height, d_width, d_height) = (value * h) * k  BY DEF Area
<1> HIDE DEF h, k
<1>8. (value * (b * k)) * (a * h) = (a * b) * ((value * h) * k) /\ (value * h) * k \in Nat
  BY <1>1, <1>3, Z3
<1>9. /\ (a * s_width) * (b * s_height) = (a * b) * (s_width * s_height)
      /\ a * b \in Nat \ {0} /\ s_width * s_height \in Nat \ {0}
  BY <1>1, Z3
<1> QED  BY <1>1, <1>6, <1>7, <1>8, <1>9, Zenon DEF SharesAreAreas

\* A multiple of a difference is as near to nought as it is a multiple of.
LEMMA PlaneNear ==
  ASSUME NEW m \in Nat \ {0}, NEW pixels \in Nat \ {0}, NEW area \in Nat, NEW c \in Nat,
         2 * (c * (m * pixels) - m * area) <= m * pixels,
         2 * (c * (m * pixels) - m * area) >= -(m * pixels)
  PROVE  c * pixels - area \in Int /\ 2 * Abs(c * pixels - area) <= pixels
<1> DEFINE t == c * pixels - area
<1>1. t \in Int /\ 2 * (c * (m * pixels) - m * area) = m * (2 * t) /\ -(m * pixels) = m * (-pixels)
  <2>1. c * pixels \in Int  BY Z3
  <2> QED  BY <2>1, Z3
<1>2. m * (2 * t) <= m * pixels /\ m * (-pixels) <= m * (2 * t)
  <2>1. 2 * (c * (m * pixels) - m * area) <= m * pixels
        /\ 2 * (c * (m * pixels) - m * area) >= -(m * pixels)
    OBVIOUS
  <2>2. m * (2 * t) <= m * pixels /\ m * (2 * t) >= m * (-pixels)  BY <1>1, <2>1, Zenon
  <2>3. m * (2 * t) \in Int /\ m * (-pixels) \in Int  BY <1>1, Z3
  <2> DEFINE f == m * (2 * t)
             g == m * (-pixels)
  <2> HIDE DEF f, g
  <2> QED  BY <2>2, <2>3 DEF f, g
<1> HIDE DEF t
<1>3. 2 * t <= pixels /\ -pixels <= 2 * t
  <2>1. 2 * t \in Int /\ -pixels \in Int /\ pixels \in Int  BY <1>1
  <2> QED  BY <1>2, <2>1, Cancel
<1>4. 2 * Abs(t) <= pixels  BY <1>1, <1>3 DEF Abs
<1> QED  BY <1>1, <1>4 DEF t

\* The scaled plane, where the pixels divide the unit: means to the nearest value.
LEMMA PlaneMeans ==
  ASSUME NEW full, NEW a, NEW b, NEW s_width, NEW s_height, NEW d_width, NEW d_height,
         IsPlane(full, a, b, s_width, s_height, d_width, d_height),
         NEW bright \in (0..s_width - 1) \X (0..s_height - 1), NEW value \in Nat,
         NEW half \in Nat \ {0}, NEW n \in Nat, 2 * half = (full.s_width * full.s_height) * n,
         NEW X \in 0..d_width - 1, NEW Y \in 0..d_height - 1
  PROVE  LET scaled == video_effect_pic_in_pic(BrightPicture(s_width, s_height, bright, value),
                         s_width, s_height, d_width, d_height, full, 2 * half)
             area   == Area(X, Y, bright, value, s_width, s_height, d_width, d_height)
             pixels == s_width * s_height
         IN  /\ Len(scaled) = d_height
             /\ scaled[Y + 1][X] * pixels - area \in Int
             /\ 2 * Abs(scaled[Y + 1][X] * pixels - area) <= pixels
<1> DEFINE one == 2 * half
           scaled == video_effect_pic_in_pic(BrightPicture(s_width, s_height, bright, value),
                       s_width, s_height, d_width, d_height, full, one)
           area == Area(X, Y, bright, value, s_width, s_height, d_width, d_height)
           pixels == s_width * s_height
           m == a * b
           all == full.s_width * full.s_height
           v == Share(X, Y, full, bright, value)
           c == Rescaled(v, all, one)
<1>1. d_width \in Nat /\ d_height \in Nat /\ X \in Nat /\ Y \in Nat
      /\ Y + 1 \in 1..d_height /\ (Y + 1) - 1 = Y
  <2>1. s_width \in Nat /\ s_height \in Nat /\ d_width \in 1..s_width /\ d_height \in 1..s_height
    BY DEF IsPlane
  <2> QED  BY <2>1
<1>2. PlaneSetting(s_width, s_height, d_width, d_height, full, bright, value)  BY PlaneIs
<1>3. scaled = [y \in 1..d_height |-> RowOut(y - 1, d_width, full, bright, value, one)]
  <2> HIDE DEF one
  <2>1. IsPicInPic(s_width, s_height, d_width, d_height, full, bright, value, one)
    BY <1>2, PicInPic
  <2> QED  BY <2>1, Zenon DEF IsPicInPic
<1>4. v = m * area /\ area \in Nat /\ all = m * pixels /\ m \in Nat \ {0} /\ pixels \in Nat \ {0}
  <2>1. SharesAreAreas(X, Y, full, a, b, bright, value, s_width, s_height, d_width, d_height)
    <3>1. X \in Nat /\ Y \in Nat  BY <1>1
    <3> HIDE DEF m, pixels, all, area, v
    <3> QED  BY <3>1, PlaneShare
  <2> QED  BY <2>1, Zenon DEF SharesAreAreas
<1>5. scaled[Y + 1] = RowOut(Y, d_width, full, bright, value, one)
  <2> HIDE DEF scaled
  <2> QED  BY <1>1, <1>3
<1>6. scaled[Y + 1][X] = c
  <2> HIDE DEF scaled
  <2> QED  BY <1>5 DEF RowOut
<1>7. Len(scaled) = d_height
  <2> DEFINE Out(y) == RowOut(y - 1, d_width, full, bright, value, one)
             S == {Out(y) : y \in 1..d_height}
  <2>1. scaled = [y \in 1..d_height |-> Out(y)]  BY <1>3, Zenon
  <2> HIDE DEF scaled, Out
  <2>2. scaled \in [1..d_height -> S]  BY <2>1
  <2> HIDE DEF S
  <2> QED  BY <1>1, <2>2
<1>8. one = all * n  OBVIOUS
<1> HIDE DEF scaled, area, pixels, m, v, c, all
<1>9. all \in Nat \ {0} /\ v \in Nat  BY <1>4, Z3
<1>10. c \in Nat /\ 2 * (c * all - v) <= all /\ 2 * (c * all - v) >= -all
  BY <1>8, <1>9, RescaledExact DEF c
<1>11. 2 * (c * (m * pixels) - m * area) <= m * pixels
       /\ 2 * (c * (m * pixels) - m * area) >= -(m * pixels)
  BY <1>4, <1>10, Zenon
<1>12. c * pixels - area \in Int /\ 2 * Abs(c * pixels - area) <= pixels
  BY <1>4, <1>10, <1>11, PlaneNear
<1> QED  BY <1>6, <1>7, <1>12, Zenon DEF scaled, area, pixels

\* A size is a multiple of its part in a chroma plane.
LEMMA Parts ==
  ASSUME NEW a \in Nat \ {0}, NEW s \in Nat \ {0}, NEW d \in Nat \ {0},
         s % a = 0, d % a = 0, d <= s
  PROVE  /\ s = a * (s \div a) /\ d = a * (d \div a)
         /\ s \div a \in Nat \ {0} /\ d \div a \in 1..(s \div a)
<1> DEFINE p == s \div a
           q == d \div a
<1>1. s = a * p + (s % a) /\ d = a * q + (d % a) /\ p \in Nat /\ q \in Nat  BY DivMod, Zenon
<1> HIDE DEF p, q
<1>2. s = a * p /\ d = a * q
  <2>1. a * p \in Int /\ a * q \in Int  BY <1>1, Z3
  <2> QED  BY <1>1, <2>1
<1>3. p # 0 /\ q # 0
  <2>1. a * 0 = 0  OBVIOUS
  <2> QED  BY <1>2, <2>1
<1>4. q <= p  BY <1>1, <1>2, Cancel
<1> QED  BY <1>1, <1>2, <1>3, <1>4 DEF p, q

\* The shifts of the formats.
ShiftFactor(a) == a \in {1, 2, 4}

\* They are small powers of two.
LEMMA ShiftFactors ==
  ASSUME NEW shift \in {[horiz |-> 0, vert |-> 0], Yuv420, Yuv411}
  PROVE  /\ ShiftFactor(2^shift.horiz) /\ 2^shift.vert \in {1, 2}
<1>1. 2^0 = 1 /\ 2^1 = 2 /\ 2^2 = 4  BY SMT
<1>2. shift.horiz \in {0, 1, 2} /\ shift.vert \in {0, 1}  BY DEF Yuv420, Yuv411
<1> QED  BY <1>1, <1>2 DEF ShiftFactor

\* The sizes of the run, and the number by which their pixels divide the unit.
LEMMA UnitDivides ==
  ASSUME NEW s \in {2, 4, 8}, NEW h \in {2, 4}
  PROVE  \E n \in Nat : 2 * 32768 = (s * h) * n
<1>1. s * h \in {4, 8, 16, 32}  BY SMT
<1>2. \A k : k = s * h => \E n \in Nat : 2 * 32768 = k * n
  <2>1. 2 * 32768 = 4 * 16384 /\ 2 * 32768 = 8 * 8192
        /\ 2 * 32768 = 16 * 4096 /\ 2 * 32768 = 32 * 2048  BY SMT
  <2>2. 16384 \in Nat /\ 8192 \in Nat /\ 4096 \in Nat /\ 2048 \in Nat  BY SMT
  <2> QED  BY <1>1, <2>1, <2>2, SMT
<1> QED  BY <1>2, SMT

\* Half the unit of the weights.
HalfUnit == 32768

\* The constants of the run.
LEMMA Units == /\ Unit = 2 * HalfUnit /\ HalfUnit \in Nat \ {0} /\ Bright \in Nat
               /\ \A s \in {2, 4, 8}, h \in {2, 4} : \E n \in Nat : 2 * HalfUnit = (s * h) * n
<1>1. Unit = 2 * HalfUnit /\ HalfUnit \in Nat \ {0} /\ Bright \in Nat
  BY SMT DEF Unit, HalfUnit, Bright
<1>2. \A s \in {2, 4, 8}, h \in {2, 4} : \E n \in Nat : 2 * HalfUnit = (s * h) * n
  BY UnitDivides, SMT DEF HalfUnit
<1> QED  BY <1>1, <1>2

\* The size of a plane of the run.
LEMMA ScalingPlane ==
  ASSUME NEW x \in Scalings
  PROVE  LET a == 2^x.shift.horiz   b == 2^x.shift.vert
             s_width == x.full.s_width \div a   s_height == x.full.s_height \div b
         IN  /\ IsPlane(x.full, a, b, s_width, s_height, x.full.d_width \div a, x.full.d_height \div b)
             /\ x.bright \in (0..s_width - 1) \X (0..s_height - 1)
             /\ x.full.s_width \in {2, 4, 8} /\ x.full.s_height \in {2, 4}
<1> DEFINE a == 2^x.shift.horiz
           b == 2^x.shift.vert
           sw == x.full.s_width
           dw == x.full.d_width
           sh == x.full.s_height
           dh == x.full.d_height
           bx == x.bright[1]
           by == x.bright[2]
<1>1. /\ sw \in {2, 4, 8} /\ sh \in {2, 4} /\ dw \in {2, 4} /\ dh \in {2, 4}
      /\ x.shift \in {[horiz |-> 0, vert |-> 0], Yuv420, Yuv411}
      /\ x.bright \in (0..7) \X (0..3)
      /\ dw <= sw /\ dh <= sh /\ dw % a = 0 /\ sw % a = 0
      /\ bx < sw \div a /\ by < sh \div b
  BY DEF Scalings
<1>2. a \in {1, 2, 4} /\ b \in {1, 2}  BY <1>1, ShiftFactors DEF ShiftFactor
<1>3. bx \in Nat /\ by \in Nat /\ x.bright = <<bx, by>>  BY <1>1
<1> HIDE DEF a, b, sw, dw, sh, dh, bx, by
<1>4. sh % b = 0 /\ dh % b = 0
  <2>1. \A h \in {2, 4}, k \in {1, 2} : h % k = 0
    <3> TAKE h \in {2, 4}, k \in {1, 2}
    <3>1. \E q \in Nat : h = k * q + 0
      <4>1. 2 = 1 * 2 + 0 /\ 4 = 1 * 4 + 0 /\ 2 = 2 * 1 + 0 /\ 4 = 2 * 2 + 0  OBVIOUS
      <4> QED  BY <4>1
    <3>2. PICK q \in Nat : h = k * q + 0  BY <3>1
    <3>3. k \in Nat \ {0} /\ h \in Nat /\ 0 \in 0..k-1  OBVIOUS
    <3> QED  BY <3>2, <3>3, ModUnique
  <2> QED  BY <1>1, <1>2, <2>1
<1>5. /\ sw = a * (sw \div a) /\ dw = a * (dw \div a)
      /\ sw \div a \in Nat \ {0} /\ dw \div a \in 1..(sw \div a)
  <2>1. a \in Nat \ {0} /\ sw \in Nat \ {0} /\ dw \in Nat \ {0}  BY <1>1, <1>2
  <2> QED  BY <1>1, <2>1, Parts, Zenon
<1>6. /\ sh = b * (sh \div b) /\ dh = b * (dh \div b)
      /\ sh \div b \in Nat \ {0} /\ dh \div b \in 1..(sh \div b)
  <2>1. b \in Nat \ {0} /\ sh \in Nat \ {0} /\ dh \in Nat \ {0}  BY <1>1, <1>2
  <2> QED  BY <1>1, <1>4, <2>1, Parts, Zenon
<1>7. a \in Nat \ {0} /\ b \in Nat \ {0}  BY <1>2
<1>8. IsPlane(x.full, a, b, sw \div a, sh \div b, dw \div a, dh \div b)
  BY <1>5, <1>6, <1>7, Zenon DEF IsPlane, sw, dw, sh, dh
<1>9. x.bright \in (0..(sw \div a) - 1) \X (0..(sh \div b) - 1)
  <2> DEFINE p == sw \div a
             q == sh \div b
  <2>1. p \in Nat /\ q \in Nat /\ bx < p /\ by < q  BY <1>1, <1>5, <1>6
  <2> HIDE DEF p, q
  <2>2. bx \in 0..p - 1 /\ by \in 0..q - 1  BY <1>3, <2>1
  <2>3. <<bx, by>> \in (0..p - 1) \X (0..q - 1)  BY <2>2
  <2> QED  BY <1>3, <2>3 DEF p, q
<1> QED  BY <1>1, <1>8, <1>9, Zenon DEF a, b, sw, dw, sh, dh

\* The scaled pictures of the run are means.
LEMMA ScaledRight ==
  ASSUME NEW x \in Scalings
  PROVE  ScaledToMeans(x.full, x.shift, x.bright)
<1> DEFINE full == x.full
           bright == x.bright
           a == 2^x.shift.horiz
           b == 2^x.shift.vert
           s_width == full.s_width \div a
           s_height == full.s_height \div b
           d_width == full.d_width \div a
           d_height == full.d_height \div b
           scaled == video_effect_pic_in_pic(BrightPicture(s_width, s_height, bright, Bright),
                       s_width, s_height, d_width, d_height, full, Unit)
           Area_(X, Y) == Area(X, Y, bright, Bright, s_width, s_height, d_width, d_height)
           pixels == s_width * s_height
<1>1. /\ IsPlane(full, a, b, s_width, s_height, d_width, d_height)
      /\ bright \in (0..s_width - 1) \X (0..s_height - 1)
      /\ full.s_width \in {2, 4, 8} /\ full.s_height \in {2, 4}
  BY ScalingPlane, Zenon
<1>2. PICK n \in Nat : 2 * HalfUnit = (full.s_width * full.s_height) * n  BY <1>1, Units, Zenon
<1>3. HalfUnit \in Nat \ {0} /\ Bright \in Nat /\ Unit = 2 * HalfUnit  BY Units
<1> HIDE DEF a, b, s_width, s_height, d_width, d_height, full, bright
<1>4. ASSUME NEW X \in 0..d_width - 1, NEW Y \in 0..d_height - 1
      PROVE  /\ Len(scaled) = d_height
             /\ 2 * Abs(scaled[Y + 1][X] * pixels - Area_(X, Y)) <= pixels
  BY <1>1, <1>2, <1>3, PlaneMeans
<1>5. Len(scaled) = d_height
  <2>1. d_width \in Nat \ {0} /\ d_height \in Nat \ {0}
    <3>1. s_width \in Nat /\ s_height \in Nat /\ d_width \in 1..s_width /\ d_height \in 1..s_height
      BY <1>1 DEF IsPlane
    <3> QED  BY <3>1
  <2>2. 0 \in 0..d_width - 1 /\ 0 \in 0..d_height - 1  BY <2>1
  <2> HIDE DEF scaled, pixels, Area_
  <2> QED  BY <1>4, <2>2
<1>6. IsMeans(scaled, bright, Bright, s_width, s_height, d_width, d_height)
  BY <1>4, <1>5, Zenon DEF IsMeans
<1> QED  BY <1>6, Zenon DEF ScaledToMeans, full, bright, a, b, s_width, s_height, d_width, d_height

\* The unit of the code.
CodeUnit == 4294967296

\* Half of it.
HalfCodeUnit == 2147483648

\* The most pixels that a picture has.
MostPixels == 720 * 576

\* The greatest value of a pixel.
MostValue == 255

\* They leave room for the rounding of the unit.
LEMMA CodeUnits ==
  /\ CodeUnit = 2 * HalfCodeUnit /\ HalfCodeUnit \in Nat \ {0} /\ CodeUnit \in Nat \ {0}
  /\ MostPixels \in Nat /\ MostValue \in Nat
  /\ 32 * (MostValue * MostPixels) <= CodeUnit
  BY SMT DEF CodeUnit, HalfCodeUnit, MostPixels, MostValue

\* A weighted value that is small for the unit is rounded to a little more than a half.
LEMMA RescaledRoom ==
  ASSUME NEW pixels \in Nat \ {0}, NEW half \in Nat \ {0}, NEW v \in Nat, 32 * v <= 2 * half
  PROVE  LET c == Rescaled(v, pixels, 2 * half)
         IN  /\ c \in Nat
             /\ 64 * (c * pixels - v) <= 33 * pixels /\ 64 * (c * pixels - v) >= -(33 * pixels)
<1> DEFINE one == 2 * half
           c == Rescaled(v, pixels, one)
           e == UnitError(pixels, one)
           t == 2 * (c * pixels - v)
<1>1. c \in Nat /\ one * t <= one * pixels + 2 * (v * e) /\ one * t >= 2 * (v * e) - one * pixels
  BY RescaledNear, Zenon
<1>2. e \in Int /\ 2 * e <= pixels /\ 2 * e >= -pixels
  <2>1. one \in Nat  OBVIOUS
  <2> QED  BY <2>1, UnitErrorBound, Zenon
<1>3. one \in Nat \ {0} /\ 32 * v <= one  OBVIOUS
<1> HIDE DEF one, c, e
<1>4. t \in Int
  <2>1. c * pixels \in Int  BY <1>1, Z3
  <2> QED  BY <2>1
<1> HIDE DEF t
<1>5. pixels * (one - 32 * v) >= 0 /\ v * (pixels - 2 * e) >= 0 /\ v * (pixels + 2 * e) >= 0
  <2>1. one - 32 * v >= 0 /\ one - 32 * v \in Int  BY <1>3
  <2>2. pixels - 2 * e >= 0 /\ pixels - 2 * e \in Int  BY <1>2
  <2>3. pixels + 2 * e >= 0 /\ pixels + 2 * e \in Int  BY <1>2
  <2> DEFINE f == one - 32 * v
             g == pixels - 2 * e
             h == pixels + 2 * e
  <2>4. f \in Nat /\ g \in Nat /\ h \in Nat  BY <2>1, <2>2, <2>3
  <2> HIDE DEF f, g, h
  <2>5. pixels * f >= 0 /\ v * g >= 0 /\ v * h >= 0  BY <2>4, Z3
  <2> QED  BY <2>5 DEF f, g, h
<1>6. /\ pixels * (one - 32 * v) = one * pixels - 32 * (v * pixels)
      /\ v * (pixels - 2 * e) = v * pixels - 2 * (v * e)
      /\ v * (pixels + 2 * e) = v * pixels + 2 * (v * e)
  BY <1>2, <1>3, Z3
<1>7. /\ one * (32 * t) = 32 * (one * t) /\ one * (33 * pixels) = 33 * (one * pixels)
      /\ one * (-(33 * pixels)) = -(33 * (one * pixels))
  BY <1>3, <1>4, Z3
<1> DEFINE i == one * pixels
           j == v * pixels
           k == v * e
           l == one * t
<1>8. i \in Int /\ j \in Int /\ k \in Int /\ l \in Int  BY <1>2, <1>3, <1>4, Z3
<1>9. i - 32 * j >= 0 /\ j - 2 * k >= 0 /\ j + 2 * k >= 0 /\ l <= i + 2 * k /\ l >= 2 * k - i
  BY <1>1, <1>5, <1>6, Zenon
<1>10. one * (32 * t) = 32 * l /\ one * (33 * pixels) = 33 * i /\ one * (-(33 * pixels)) = -(33 * i)
  BY <1>7, Zenon
<1> HIDE DEF i, j, k, l
<1>11. 32 * l <= 33 * i /\ -(33 * i) <= 32 * l  BY <1>8, <1>9
<1>12. 32 * t \in Int /\ 33 * pixels \in Int /\ -(33 * pixels) \in Int  BY <1>4
<1>13. 32 * t <= 33 * pixels /\ -(33 * pixels) <= 32 * t
  <2>1. one * (32 * t) <= one * (33 * pixels) /\ one * (-(33 * pixels)) <= one * (32 * t)
    BY <1>10, <1>11, Zenon
  <2> DEFINE f == 32 * t
             g == 33 * pixels
             h == -(33 * pixels)
  <2> HIDE DEF f, g, h
  <2>2. f <= g /\ h <= f  BY <1>3, <1>12, <2>1, Cancel DEF f, g, h
  <2> QED  BY <2>2 DEF f, g, h
<1>14. 32 * t = 64 * (c * pixels - v)
  <2>1. c * pixels \in Int  BY <1>1, Z3
  <2> QED  BY <2>1 DEF t
<1>15. 64 * (c * pixels - v) <= 33 * pixels /\ 64 * (c * pixels - v) >= -(33 * pixels)
  BY <1>4, <1>13, <1>14
<1> QED  BY <1>1, <1>15, Zenon DEF c, one

\* Any sum of weighted pixel values in a picture of at most 720 by 576 comes out as a pixel
\* value, its mean to 33/64: with the unit 2^32 the rounding of the unit costs no more than
\* a sixty-fourth.
THEOREM RescaledInCode ==
  ASSUME NEW pixels \in 1..MostPixels, NEW v \in 0..MostValue * pixels
  PROVE  LET c == Rescaled(v, pixels, CodeUnit)
         IN  /\ c \in 0..MostValue
             /\ 64 * (c * pixels - v) <= 33 * pixels /\ 64 * (c * pixels - v) >= -(33 * pixels)
<1> DEFINE c == Rescaled(v, pixels, CodeUnit)
<1>1. /\ MostPixels \in Nat /\ MostValue \in Nat /\ HalfCodeUnit \in Nat \ {0}
      /\ CodeUnit = 2 * HalfCodeUnit /\ 32 * (MostValue * MostPixels) <= CodeUnit
  BY CodeUnits
<1>2. pixels \in Nat \ {0} /\ MostValue * pixels \in Nat /\ v \in Nat /\ v <= MostValue * pixels
  BY <1>1
<1>3. 32 * v <= 2 * HalfCodeUnit
  <2>1. MostValue * (MostPixels - pixels) >= 0
    <3> DEFINE f == MostPixels - pixels
    <3>1. f \in Nat  BY <1>1
    <3> HIDE DEF f
    <3>2. MostValue * f >= 0  BY <1>1, <3>1, Z3
    <3> QED  BY <3>2 DEF f
  <2>2. MostValue * (MostPixels - pixels) = MostValue * MostPixels - MostValue * pixels
    BY <1>1, <1>2, Z3
  <2> DEFINE g == MostValue * MostPixels
             h == MostValue * pixels
  <2>3. g \in Int /\ h \in Int /\ g - h >= 0 /\ v <= h /\ 32 * g <= CodeUnit
    BY <1>1, <1>2, <2>1, <2>2, Z3
  <2> HIDE DEF g, h
  <2> QED  BY <1>1, <1>2, <2>3
<1>4. c \in Nat /\ 64 * (c * pixels - v) <= 33 * pixels /\ 64 * (c * pixels - v) >= -(33 * pixels)
  BY <1>1, <1>2, <1>3, RescaledRoom, Zenon
<1> HIDE DEF c
<1>5. c <= MostValue
  <2> SUFFICES ASSUME c >= MostValue + 1 PROVE FALSE  BY <1>1, <1>4
  <2>1. (c - MostValue - 1) * pixels >= 0
    <3> DEFINE f == c - MostValue - 1
    <3>1. f \in Nat  BY <1>1, <1>4
    <3> HIDE DEF f
    <3>2. f * pixels >= 0  BY <1>2, <3>1, Z3
    <3> QED  BY <3>2 DEF f
  <2>2. (c - MostValue - 1) * pixels = c * pixels - MostValue * pixels - pixels
    BY <1>1, <1>2, <1>4, Z3
  <2> DEFINE f == c * pixels
             g == MostValue * pixels
  <2>3. f \in Int /\ g \in Int /\ f - g - pixels >= 0 /\ v <= g /\ 64 * (f - v) <= 33 * pixels
    BY <1>1, <1>2, <1>4, <2>1, <2>2, Z3
  <2> HIDE DEF f, g
  <2> QED  BY <1>2, <2>3
<1>6. c \in 0..MostValue  BY <1>1, <1>4, <1>5
<1> QED  BY <1>4, <1>6, Zenon DEF c
--------------------------------------------------------------------------------
\* Sound.

\* The scales of the companding, and their powers of two.
LEMMA Powers == 2^0 = 1 /\ 2^1 = 2 /\ 2^2 = 4 /\ 2^3 = 8 /\ 2^4 = 16 /\ 2^5 = 32 /\ 2^6 = 64
BY SMT

\* A scale and its power of two.
Scale(k, p) ==
  <<k, p>> \in {<<1, 2>>, <<2, 4>>, <<3, 8>>, <<4, 16>>, <<5, 32>>, <<6, 64>>}

\* The steps of the segments.
StepSizes == {2, 4, 8, 16, 32, 64}

\* get_12bit_scale finds the segment of a sample by three tests of its upper bits.
LEMMA ScaleOf ==
  ASSUME NEW k, NEW p, Scale(k, p), NEW s \in 256 * p..512 * p - 1
  PROVE  get_12bit_scale(s) = k
<1> DEFINE four == IF (s \div 4096) % 8 # 0 THEN 4 ELSE 0
           s1   == s \div 2^four
           two  == IF (s1 \div 1024) % 4 # 0 THEN 2 ELSE 0
           s2   == s1 \div 2^two
<1>1. get_12bit_scale(s) = four + two + ((s2 \div 512) % 2)  BY DEF get_12bit_scale
<1>2. s \in Nat /\ s < 32768  BY SMT DEF Scale
<1>3. four = IF s >= 4096 THEN 4 ELSE 0  BY <1>2, SMT
<1> HIDE DEF four
<1>4. s1 = IF s >= 4096 THEN s \div 16 ELSE s  BY <1>2, <1>3, Powers, SMTT(30)
<1> HIDE DEF s1
<1>5. s1 \in 0..4095  BY <1>2, <1>4, SMTT(30)
<1>6. two = IF s1 >= 1024 THEN 2 ELSE 0  BY <1>5, SMT
<1> HIDE DEF two
<1>7. s2 = IF s1 >= 1024 THEN s1 \div 4 ELSE s1  BY <1>5, <1>6, Powers, SMT
<1> HIDE DEF s2
<1>8. CASE k = 1 /\ p = 2   BY <1>1, <1>3, <1>4, <1>6, <1>7, <1>8, SMT
<1>9. CASE k = 2 /\ p = 4   BY <1>1, <1>3, <1>4, <1>6, <1>7, <1>9, SMT
<1>10. CASE k = 3 /\ p = 8  BY <1>1, <1>3, <1>4, <1>6, <1>7, <1>10, SMT
<1>11. CASE k = 4 /\ p = 16 BY <1>1, <1>3, <1>4, <1>6, <1>7, <1>11, SMT
<1>12. CASE k = 5 /\ p = 32 BY <1>1, <1>3, <1>4, <1>6, <1>7, <1>12, SMT
<1>13. CASE k = 6 /\ p = 64 BY <1>1, <1>3, <1>4, <1>6, <1>7, <1>13, SMT
<1> QED  BY <1>8, <1>9, <1>10, <1>11, <1>12, <1>13 DEF Scale

\* Below the first segment nothing is divided.
LEMMA ScaleNone ==
  ASSUME NEW s \in 0..511
  PROVE  get_12bit_scale(s) = 0
<1>1. (s \div 4096) % 8 = 0 /\ (s \div 1024) % 4 = 0 /\ (s \div 512) % 2 = 0 /\ s \div 1 = s
  BY SMT
<1> QED  BY <1>1, Powers, SMT DEF get_12bit_scale

\* Every power of a scale is that of two.
LEMMA ScalePower ==
  ASSUME NEW k, NEW p, Scale(k, p)
  PROVE  2^k = p /\ k \in 1..6 /\ p \in StepSizes
<1>1. k \in 1..6 /\ p \in StepSizes  BY SMT DEF Scale, StepSizes
<1>2. 2^k = p  BY Powers, Zenon DEF Scale
<1> QED  BY <1>1, <1>2

\* A number over the step of its segment.
LEMMA Steps ==
  ASSUME NEW p \in StepSizes, NEW s \in 256 * p..512 * p - 1
  PROVE  /\ s \div p \in 256..511
         /\ (s \div p) * p \in 256 * p..512 * p - 1
         /\ (s \div p) * p <= s /\ s < (s \div p) * p + p
         /\ ((s \div p) * p) \div p = s \div p
<1>0. p \in Nat \ {0}  BY SMT DEF StepSizes
<1> DEFINE q == s \div p
<1>1. q \in Int /\ q * p <= s /\ s < q * p + p
  <2>1. CASE p = 2   BY <2>1, SMT
  <2>2. CASE p = 4   BY <2>2, SMT
  <2>3. CASE p = 8   BY <2>3, SMT
  <2>4. CASE p = 16  BY <2>4, SMT
  <2>5. CASE p = 32  BY <2>5, SMT
  <2>6. CASE p = 64  BY <2>6, SMT
  <2> QED  BY <2>1, <2>2, <2>3, <2>4, <2>5, <2>6, Zenon DEF StepSizes
<1> HIDE DEF q
<1>2. q \in 256..511
  <2>1. ASSUME q <= 255 PROVE FALSE
    <3>1. (255 - q) * p >= 0  BY <1>0, <1>1, <2>1, Z3
    <3>2. (255 - q) * p = 255 * p - q * p  BY <1>0, <1>1, Z3
    <3> QED  BY <1>0, <1>1, <3>1, <3>2, SMT
  <2>2. ASSUME q >= 512 PROVE FALSE
    <3>1. (q - 512) * p >= 0  BY <1>0, <1>1, <2>2, Z3
    <3>2. (q - 512) * p = q * p - 512 * p  BY <1>0, <1>1, Z3
    <3> QED  BY <1>0, <1>1, <3>1, <3>2, SMT
  <2> QED  BY <1>1, <2>1, <2>2
<1>3. q * p \in 256 * p..512 * p - 1 /\ (q * p) \div p = q
  <2>1. CASE p = 2   BY <1>2, <2>1, SMT
  <2>2. CASE p = 4   BY <1>2, <2>2, SMT
  <2>3. CASE p = 8   BY <1>2, <2>3, SMT
  <2>4. CASE p = 16  BY <1>2, <2>4, SMT
  <2>5. CASE p = 32  BY <1>2, <2>5, SMT
  <2>6. CASE p = 64  BY <1>2, <2>6, SMT
  <2> QED  BY <2>1, <2>2, <2>3, <2>4, <2>5, <2>6, Zenon DEF StepSizes
<1> QED  BY <1>1, <1>2, <1>3 DEF q

\* The code of a sample in the segments above zero.
LEMMA EncodeUp ==
  ASSUME NEW k, NEW p, Scale(k, p), NEW s \in 256 * p..512 * p - 1
  PROVE  encode_12bit(s) = k * 256 + (s \div p)
<1>0. p \in Nat \ {0}  BY ScalePower, SMT DEF StepSizes
<1>1. 2^k = p /\ k \in 1..6 /\ p \in StepSizes  BY ScalePower
<1>2. get_12bit_scale(s) = k  BY ScaleOf
<1>7. s \div p \in 256..511  BY <1>1, Steps, ZenonT(60)
<1> DEFINE q == s \div p
<1>3. q \in 256..511  BY <1>7
<1>4. s >= 512  BY <1>0, <1>1 DEF StepSizes
<1>5. CASE s = 512
  <2>1. k = 1 /\ p = 2  BY <1>5, SMT DEF Scale
  <2> QED  BY <1>5, <2>1, SMT DEF encode_12bit
<1>6. CASE s > 512
  <2>1. s \notin -512..512 /\ s > 0  BY <1>6
  <2>2. LET scale == get_12bit_scale(s)
        IN  encode_12bit(s) = (scale + 1) * 256 + ((s \div 2^scale) % 256)
    BY <2>1 DEF encode_12bit
  <2>5. encode_12bit(s) = (k + 1) * 256 + (q % 256)  BY <1>1, <1>2, <2>2, SMT
  <2> HIDE DEF q
  <2>3. q % 256 = q - 256  BY <1>3, SMT
  <2>4. encode_12bit(s) = k * 256 + q  BY <1>1, <1>3, <2>5, <2>3, SMT
  <2> QED  BY <2>4 DEF q
<1> QED  BY <1>4, <1>5, <1>6

\* And what the code stands for.
LEMMA DecodeUp ==
  ASSUME NEW k, NEW p, Scale(k, p), NEW q \in 256..511
  PROVE  decode_12bit(k * 256 + q) = q * p
<1>1. 2^k = p /\ k \in 1..6 /\ p \in StepSizes  BY ScalePower
<1> DEFINE code == k * 256 + q
<1>2. code \in 512..2047 /\ code % 256 = q - 256 /\ code \div 256 = k + 1  BY <1>1, SMT
<1> HIDE DEF code
<1>3. (k + 1) - 1 = k /\ (q - 256) + 256 = q  BY <1>1
<1>4. ~(code < 512) /\ code < 2048  BY <1>2
<1>5. decode_12bit(code) = ((code % 256) + 256) * 2^(code \div 256 - 1)
  BY <1>4 DEF decode_12bit
<1>6. decode_12bit(code) = q * p  BY <1>1, <1>2, <1>3, <1>5, SMT
<1> QED  BY <1>6 DEF code

\* A number over the step of its segment, below zero, where it is rounded up.
LEMMA StepsDown ==
  ASSUME NEW p \in StepSizes, NEW s \in -512 * p..-256 * p - 1
  PROVE  /\ (s - 1) \div p \in Int /\ (s - 1) \div p + 1 \in -512..-256
         /\ s <= ((s - 1) \div p + 1) * p /\ ((s - 1) \div p + 1) * p < s + p
<1>0. p \in Nat \ {0}  BY SMT DEF StepSizes
<1> DEFINE d == (s - 1) \div p
           r == d + 1
<1>1. d \in Int /\ r \in Int /\ s <= r * p /\ r * p < s + p
  <2>1. CASE p = 2   BY <2>1, SMT
  <2>2. CASE p = 4   BY <2>2, SMT
  <2>3. CASE p = 8   BY <2>3, SMT
  <2>4. CASE p = 16  BY <2>4, SMT
  <2>5. CASE p = 32  BY <2>5, SMT
  <2>6. CASE p = 64  BY <2>6, SMT
  <2> QED  BY <2>1, <2>2, <2>3, <2>4, <2>5, <2>6, Zenon DEF StepSizes
<1> HIDE DEF d, r
<1>2. r \in -512..-256
  <2>1. ASSUME r <= -513 PROVE FALSE
    <3>1. (-513 - r) * p >= 0  BY <1>0, <1>1, <2>1, Z3
    <3>2. (-513 - r) * p = -513 * p - r * p  BY <1>0, <1>1, Z3
    <3> QED  BY <1>0, <1>1, <3>1, <3>2, SMT
  <2>2. ASSUME r >= -255 PROVE FALSE
    <3>1. (r + 255) * p >= 0  BY <1>0, <1>1, <2>2, Z3
    <3>2. (r + 255) * p = r * p + 255 * p  BY <1>0, <1>1, Z3
    <3> QED  BY <1>0, <1>1, <3>1, <3>2, SMT
  <2> QED  BY <1>1, <2>1, <2>2
<1> QED  BY <1>1, <1>2 DEF d, r

\* A whole step is rounded to itself.
LEMMA WholeStep ==
  ASSUME NEW p \in StepSizes, NEW r \in -512..-256
  PROVE  (r * p - 1) \div p + 1 = r
<1>1. CASE p = 2   BY <1>1, SMT
<1>2. CASE p = 4   BY <1>2, SMT
<1>3. CASE p = 8   BY <1>3, SMT
<1>4. CASE p = 16  BY <1>4, SMT
<1>5. CASE p = 32  BY <1>5, SMT
<1>6. CASE p = 64  BY <1>6, SMT
<1> QED  BY <1>1, <1>2, <1>3, <1>4, <1>5, <1>6, Zenon DEF StepSizes

\* The code of a sample in the segments below zero, and that of one whose carry is not lost.
LEMMA EncodeDown ==
  ASSUME NEW k, NEW p, Scale(k, p), NEW s \in -512 * p..-256 * p - 1
  PROVE  LET r == (s - 1) \div p + 1
         IN  /\ encode_12bit(s) \in 0..4095
             /\ r # -256 => encode_12bit(s) = (14 - k) * 256 + r + 512
<1>0. p \in Nat \ {0}  BY ScalePower, SMT DEF StepSizes
<1>1. 2^k = p /\ k \in 1..6 /\ p \in StepSizes  BY ScalePower
<1>2. get_12bit_scale(-s - 1) = k
  <2>1. -s - 1 \in 256 * p..512 * p - 1  BY <1>0
  <2> QED  BY <2>1, ScaleOf
<1>3. (s - 1) \div p + 1 \in -512..-256  BY <1>1, StepsDown
<1>4. s \notin -512..512 /\ ~(s > 0)  BY <1>0, <1>1 DEF StepSizes
<1>5. LET scale == get_12bit_scale(-s - 1)
      IN  encode_12bit(s) = (14 - scale) * 256 + (((s - 1) \div 2^scale + 1) % 256)
  BY <1>4 DEF encode_12bit
<1>6. encode_12bit(s) = (14 - k) * 256 + (((s - 1) \div p + 1) % 256)
  BY <1>1, <1>2, <1>5, SMT
<1> DEFINE r == (s - 1) \div p + 1
<1>7. r \in -512..-256 /\ encode_12bit(s) = (14 - k) * 256 + (r % 256)  BY <1>3, <1>6
<1> HIDE DEF r
<1>8. r % 256 \in 0..255 /\ (r # -256 => r % 256 = r + 512)  BY <1>7, SMT
<1>9. encode_12bit(s) \in 0..4095  BY <1>1, <1>7, <1>8
<1>10. r # -256 => encode_12bit(s) = (14 - k) * 256 + r + 512  BY <1>1, <1>7, <1>8
<1> QED  BY <1>9, <1>10 DEF r

\* And what the code stands for: all but the code 2048.
LEMMA DecodeDown ==
  ASSUME NEW k, NEW p, Scale(k, p), NEW r \in -512..-257, ~(k = 6 /\ r = -512)
  PROVE  decode_12bit((14 - k) * 256 + r + 512) = r * p
<1>1. 2^k = p /\ k \in 1..6 /\ p \in StepSizes  BY ScalePower
<1> DEFINE code == (14 - k) * 256 + r + 512
<1>2. code \in 2049..3583 /\ code % 256 = r + 512 /\ code \div 256 = 14 - k  BY <1>1, SMT
<1> HIDE DEF code
<1>3. 14 - (14 - k) = k /\ (r + 512) - 512 = r  BY <1>1
<1>4. ~(code < 512) /\ ~(code < 2048) /\ code # 2048 /\ code < 3584  BY <1>2
<1>5. decode_12bit(code) = ((code % 256) - 512) * 2^(14 - code \div 256)
  BY <1>4 DEF decode_12bit
<1>6. decode_12bit(code) = r * p  BY <1>1, <1>2, <1>3, <1>5, SMT
<1> QED  BY <1>6 DEF code

\* Samples that 12 bits hold exactly.
SmallSample == -512..512

\* Those that a segment holds.
LargeSample == {m \in Int : 512 <= m /\ m < 32768}

\* The bounds of a 16-bit sample.
Lowest == -32768

\* And the upper one.
Highest == 32767

\* They bound it.
LEMMA Bounds ==
  ASSUME NEW s \in Sample16
  PROVE  s \in Int /\ -32768 <= s /\ s <= 32767
<1>1. Sample16 = Lowest..Highest  BY DEF Sample16, Lowest, Highest
<1>2. Lowest \in Int /\ Highest \in Int  BY SMT DEF Lowest, Highest
<1>3. s \in Int /\ Lowest <= s /\ s <= Highest  BY <1>1, <1>2, SMT
<1> QED  BY <1>3 DEF Lowest, Highest

\* A number in the segment of a scale.
Segment(m, k, p) == Scale(k, p) /\ m \in Int /\ 256 * p <= m /\ m < 512 * p

\* The segments, with none between them.
LEMMA InSegment ==
  ASSUME NEW m \in LargeSample
  PROVE  \E k, p : Segment(m, k, p)
<1>1. (m >= 512 /\ m < 1024) => Segment(m, 1, 2)  BY SMT DEF Segment, Scale, LargeSample
<1>2. (m >= 1024 /\ m < 2048) => Segment(m, 2, 4)  BY SMT DEF Segment, Scale, LargeSample
<1>3. (m >= 2048 /\ m < 4096) => Segment(m, 3, 8)  BY SMT DEF Segment, Scale, LargeSample
<1>4. (m >= 4096 /\ m < 8192) => Segment(m, 4, 16)  BY SMT DEF Segment, Scale, LargeSample
<1>5. (m >= 8192 /\ m < 16384) => Segment(m, 5, 32)  BY SMT DEF Segment, Scale, LargeSample
<1>6. (m >= 16384 /\ m < 32768) => Segment(m, 6, 64)  BY SMT DEF Segment, Scale, LargeSample
<1>7. \/ (m >= 512 /\ m < 1024) \/ (m >= 1024 /\ m < 2048) \/ (m >= 2048 /\ m < 4096) \/ (m >= 4096 /\ m < 8192)
      \/ (m >= 8192 /\ m < 16384) \/ (m >= 16384 /\ m < 32768)
  BY SMT DEF LargeSample
<1>8. \/ Segment(m, 1, 2) \/ Segment(m, 2, 4) \/ Segment(m, 3, 8)
      \/ Segment(m, 4, 16) \/ Segment(m, 5, 32) \/ Segment(m, 6, 64)
  BY <1>1, <1>2, <1>3, <1>4, <1>5, <1>6, <1>7, SMT
<1> QED  BY <1>8, Zenon

\* The small ones come back.
LEMMA ExactSmall ==
  ASSUME NEW s \in SmallSample
  PROVE  encode_12bit(s) \in 0..4095 /\ decode_12bit(encode_12bit(s)) = s
<1>1. s \in -512..512 /\ encode_12bit(s) = s % 4096  BY SMT DEF encode_12bit, SmallSample
<1> DEFINE code == s % 4096
<1>2. CASE s \in 0..511
  <2>1. code = s  BY <1>2, SMT
  <2> HIDE DEF code
  <2>2. decode_12bit(code) = s  BY <1>2, <2>1 DEF decode_12bit
  <2> QED  BY <1>1, <1>2, <2>1, <2>2 DEF code
<1>3. CASE s = 512
  <2>1. code = 1 * 256 + 256  BY <1>3, SMT
  <2> HIDE DEF code
  <2>2. Scale(1, 2) /\ 256 \in 256..511  BY SMT DEF Scale
  <2>3. decode_12bit(1 * 256 + 256) = 256 * 2  BY <2>2, DecodeUp
  <2>4. decode_12bit(code) = s  BY <1>3, <2>1, <2>3, SMT
  <2>5. code \in 0..4095  BY <2>1, SMT
  <2> QED  BY <1>1, <2>4, <2>5 DEF code
<1>4. CASE s < 0
  <2>1. code = s + 4096  BY <1>1, <1>4, SMT
  <2> HIDE DEF code
  <2>2. code \in 3584..4095  BY <1>1, <1>4, <2>1, SMT
  <2>3. ~(code < 512) /\ ~(code < 2048) /\ code # 2048 /\ ~(code < 3584)  BY <2>2
  <2>4. decode_12bit(code) = code - 4096  BY <2>3 DEF decode_12bit
  <2> QED  BY <1>1, <2>1, <2>2, <2>4 DEF code
<1>5. s \in 0..511 \/ s = 512 \/ s < 0  BY <1>1, SMT
<1> QED  BY <1>2, <1>3, <1>4, <1>5, Zenon

\* Small samples are kept as they are.
LEMMA SmallKept ==
  ASSUME NEW s \in SmallSample
  PROVE  SampleKept(s)
<1> DEFINE m == IF s < 0 THEN -s - 1 ELSE s
           step == 2^get_12bit_scale(m)
<1>1. encode_12bit(s) \in 0..4095 /\ decode_12bit(encode_12bit(s)) = s  BY ExactSmall, SMT
<1>2. step \in {1, 2}
  <2>0. m \in 0..511 \/ m = 512  BY SMT DEF SmallSample
  <2> HIDE DEF m
  <2>1. CASE m \in 0..511
    <3>1. get_12bit_scale(m) = 0  BY <2>1, ScaleNone
    <3> QED  BY <3>1, Powers DEF step
  <2>2. CASE m = 512
    <3>1. Scale(1, 2) /\ m \in 256 * 2..512 * 2 - 1  BY <2>2, SMT DEF Scale
    <3>2. get_12bit_scale(m) = 1  BY <3>1, ScaleOf
    <3> QED  BY <3>2, Powers DEF step
  <2> QED  BY <2>0, <2>1, <2>2 DEF step
<1>3. Abs(s - s) = 0 /\ Abs(s) <= Abs(s)  BY SMT DEF Abs, SmallSample
<1> HIDE DEF step
<1>4. Abs(s - s) < step  BY <1>2, <1>3
<1>5. SampleKept(s) <=>
        /\ encode_12bit(s) \in 0..4095
        /\ ~CarryLost(s) => /\ Abs(decode_12bit(encode_12bit(s)) - s) < step
                            /\ Abs(decode_12bit(encode_12bit(s))) <= Abs(s)
                            /\ encode_12bit(decode_12bit(encode_12bit(s))) = encode_12bit(s)
  BY Zenon DEF SampleKept, step, m
<1> QED  BY <1>1, <1>3, <1>4, <1>5

\* So are those in the segments above, to the step of theirs.
LEMMA UpKept ==
  ASSUME NEW k, NEW p, Scale(k, p), NEW s \in 256 * p..512 * p - 1
  PROVE  SampleKept(s)
<1>1. 2^k = p /\ k \in 1..6 /\ p \in StepSizes  BY ScalePower
<1>2. p \in Nat \ {0}  BY <1>1 DEF StepSizes
<1>3. encode_12bit(s) = k * 256 + (s \div p)  BY EncodeUp
<1> DEFINE q == s \div p
           back == q * p
<1>4. /\ q \in 256..511 /\ back \in 256 * p..512 * p - 1 /\ back <= s /\ s < back + p
      /\ back \div p = q
  BY <1>1, Steps
<1>5. encode_12bit(back) = k * 256 + (back \div p)  BY <1>4, EncodeUp
<1>6. decode_12bit(k * 256 + q) = back  BY <1>4, DecodeUp
<1> HIDE DEF back, q
<1>7. /\ encode_12bit(s) = k * 256 + q /\ encode_12bit(back) = k * 256 + q
      /\ decode_12bit(encode_12bit(s)) = back
  BY <1>3, <1>4, <1>5, <1>6 DEF q
<1>8. get_12bit_scale(s) = k  BY ScaleOf
<1>9. s >= 0 /\ back \in Nat /\ (IF s < 0 THEN -s - 1 ELSE s) = s  BY <1>2, <1>4
<1>10. k * 256 + q \in 0..4095  BY <1>1, <1>4
<1>11. Abs(back - s) < p /\ Abs(back) <= Abs(s)  BY <1>2, <1>4, <1>9 DEF Abs
<1>12. 2^get_12bit_scale(IF s < 0 THEN -s - 1 ELSE s) = p  BY <1>1, <1>8, <1>9
<1> QED  BY <1>7, <1>10, <1>11, <1>12 DEF SampleKept

\* And those in the segments below, but for those whose carry is lost.
LEMMA DownKept ==
  ASSUME NEW k, NEW p, Scale(k, p), NEW s \in -512 * p..-256 * p - 1
  PROVE  SampleKept(s)
<1>1. 2^k = p /\ k \in 1..6 /\ p \in StepSizes  BY ScalePower
<1>2. p \in Nat \ {0}  BY <1>1 DEF StepSizes
<1> DEFINE r == (s - 1) \div p + 1
           back == r * p
<1>3. /\ encode_12bit(s) \in 0..4095
      /\ r # -256 => encode_12bit(s) = (14 - k) * 256 + r + 512
  BY EncodeDown
<1>4. r \in -512..-256 /\ s <= back /\ back < s + p  BY <1>1, StepsDown
<1>5. (back - 1) \div p + 1 = r  BY <1>1, <1>4, WholeStep
<1>6. -s - 1 \in 256 * p..512 * p - 1 /\ s < 0 /\ (IF s < 0 THEN -s - 1 ELSE s) = -s - 1
  BY <1>2
<1>7. get_12bit_scale(-s - 1) = k  BY <1>6, ScaleOf
<1>8. 2^get_12bit_scale(IF s < 0 THEN -s - 1 ELSE s) = p  BY <1>1, <1>6, <1>7
<1>9. ASSUME ~CarryLost(s)
      PROVE  /\ r \in -512..-257 /\ ~(k = 6 /\ r = -512)
             /\ back \in -512 * p..-256 * p - 1
  <2>1. r # -256
    <3> SUFFICES ASSUME r = -256 PROVE FALSE  OBVIOUS
    <3>1. s \in -256 * p - p + 1..-256 * p - 1  BY <1>2, <1>4
    <3>2. \E i \in 1..6 : s \in (-256 * 2^i - 2^i + 1)..(-256 * 2^i - 1)
      <4> DEFINE Lost(i) == s \in (-256 * 2^i - 2^i + 1)..(-256 * 2^i - 1)
      <4>1. Lost(k)  BY <1>1, <3>1, SMT
      <4>2. k \in 1..6  BY <1>1
      <4> HIDE DEF Lost
      <4>3. \E i \in 1..6 : Lost(i)  BY <4>1, <4>2, Zenon
      <4> QED  BY <4>3 DEF Lost
    <3>3. CarryLost(s) <=> \/ s = Lowest
                           \/ \E i \in 1..6 : s \in (-256 * 2^i - 2^i + 1)..(-256 * 2^i - 1)
      BY DEF CarryLost, Lowest
    <3> QED  BY <1>9, <3>2, <3>3, Zenon
  <2>2. ~(k = 6 /\ r = -512)
    <3> SUFFICES ASSUME k = 6, r = -512 PROVE FALSE  OBVIOUS
    <3>1. p = 64  BY SMT DEF Scale
    <3>2. back = -32768  BY <3>1, SMT
    <3>3. back >= s /\ back <= s  BY <1>4, <3>1, <3>2, SMT
    <3>4. s = -32768  BY <3>2, <3>3, SMT
    <3> QED  BY <1>9, <3>4, SMT DEF CarryLost
  <2>3. r \in -512..-257  BY <1>4, <2>1
  <2> HIDE DEF r
  <2>4. back \in -512 * p..-256 * p - 1
    <3>1. (r + 512) * p >= 0 /\ (-257 - r) * p >= 0  BY <1>2, <2>3, Z3
    <3>2. (r + 512) * p = back + 512 * p /\ (-257 - r) * p = -257 * p - back  BY <1>2, <2>3, Z3
    <3>3. back \in Int  BY <1>2, <2>3
    <3> HIDE DEF back
    <3> QED  BY <1>2, <3>1, <3>2, <3>3, SMT
  <2> QED  BY <2>2, <2>3, <2>4
<1> HIDE DEF back, r
<1>10. ASSUME ~CarryLost(s)
       PROVE  /\ decode_12bit(encode_12bit(s)) = back /\ encode_12bit(back) = encode_12bit(s)
              /\ Abs(back - s) < p /\ Abs(back) <= Abs(s)
  <2>1. /\ r \in -512..-257 /\ ~(k = 6 /\ r = -512)
        /\ back \in -512 * p..-256 * p - 1
    BY <1>9, <1>10
  <2>2. decode_12bit((14 - k) * 256 + r + 512) = back  BY <2>1, DecodeDown DEF back
  <2>3. LET t == (back - 1) \div p + 1
        IN  t # -256 => encode_12bit(back) = (14 - k) * 256 + t + 512
    BY <2>1, EncodeDown
  <2>4. encode_12bit(back) = (14 - k) * 256 + r + 512  BY <1>5, <2>1, <2>3
  <2>5. encode_12bit(s) = (14 - k) * 256 + r + 512  BY <1>3, <2>1
  <2>6. Abs(back - s) < p /\ Abs(back) <= Abs(s)  BY <1>2, <1>4, <1>6, <2>1 DEF Abs
  <2> QED  BY <2>2, <2>4, <2>5, <2>6
<1> QED  BY <1>3, <1>8, <1>10 DEF SampleKept

\* Every 16-bit sample is kept as nearly as the companding is made for, on its side of zero,
\* but for the codes whose carry is lost.
THEOREM Companded ==
  ASSUME NEW sample \in Sample16
  PROVE  SampleKept(sample)
<1>1. sample \in Int /\ -32768 <= sample /\ sample <= 32767  BY Bounds
<1>2. CASE sample \in SmallSample  BY <1>2, SmallKept, Zenon
<1>3. CASE sample > 512
  <2>1. sample \in LargeSample  BY <1>1, <1>3, SMT DEF LargeSample
  <2>2. PICK k, p : Segment(sample, k, p)  BY <2>1, InSegment, Zenon
  <2>3. p \in Nat  BY <2>2, ScalePower DEF StepSizes, Segment
  <2>4. sample \in 256 * p..512 * p - 1  BY <2>2, <2>3, SMT DEF Segment
  <2> QED  BY <2>2, <2>4, UpKept DEF Segment
<1>4. CASE sample < -512
  <2> DEFINE m == -sample - 1
  <2>1. m \in LargeSample  BY <1>1, <1>4, SMT DEF LargeSample
  <2> HIDE DEF m
  <2>2. PICK k, p : Segment(m, k, p)  BY <2>1, InSegment, Zenon
  <2>3. p \in Nat  BY <2>2, ScalePower DEF StepSizes, Segment
  <2>4. sample \in -512 * p..-256 * p - 1  BY <1>1, <2>2, <2>3, SMT DEF m, Segment
  <2> QED  BY <2>2, <2>4, DownKept DEF Segment
<1>5. sample \in SmallSample \/ sample > 512 \/ sample < -512  BY <1>1, SMT DEF SmallSample
<1> QED  BY <1>2, <1>3, <1>4, <1>5, Zenon

\* A row of a shuffling table has a number.
InRow(row, v) == \E b \in 0..8 : row[b + 1] = v

\* A row has the numbers of a set.
Row(row, V) == /\ \A v \in V : InRow(row, v)
               /\ \A b \in 0..8 : row[b + 1] \in V

\* It has those that it is made of, and no others.
LEMMA RowOf ==
  ASSUME NEW row,
         NEW a1, NEW a2, NEW a3, NEW a4, NEW a5, NEW a6, NEW a7, NEW a8, NEW a9,
         row = <<a1, a2, a3, a4, a5, a6, a7, a8, a9>>
  PROVE  Row(row, {a1, a2, a3, a4, a5, a6, a7, a8, a9})
<1>1. /\ row[0 + 1] = a1 /\ row[1 + 1] = a2 /\ row[2 + 1] = a3
      /\ row[3 + 1] = a4 /\ row[4 + 1] = a5 /\ row[5 + 1] = a6
      /\ row[6 + 1] = a7 /\ row[7 + 1] = a8 /\ row[8 + 1] = a9
  BY SMT
<1>2. /\ 0 \in 0..8 /\ 1 \in 0..8 /\ 2 \in 0..8 /\ 3 \in 0..8 /\ 4 \in 0..8
      /\ 5 \in 0..8 /\ 6 \in 0..8 /\ 7 \in 0..8 /\ 8 \in 0..8
  OBVIOUS
<1>3. \A b \in 0..8 : \/ b = 0 \/ b = 1 \/ b = 2 \/ b = 3 \/ b = 4 \/ b = 5 \/ b = 6 \/ b = 7 \/ b = 8
  OBVIOUS
<1>4. \A v \in {a1, a2, a3, a4, a5, a6, a7, a8, a9} : InRow(row, v)
  BY <1>1, <1>2, Zenon DEF InRow
<1>5. \A b \in 0..8 : row[b + 1] \in {a1, a2, a3, a4, a5, a6, a7, a8, a9}
  BY <1>1, <1>3, SMT
<1> QED  BY <1>4, <1>5, Zenon DEF Row

\* The shuffling table of a video system has every number below nine times its sequences.
Shuffles(table, seq_count) ==
  /\ \A s \in 0..seq_count - 1, b \in 0..8 : table[s + 1][b + 1] \in Nat
  /\ \A v \in 0..9 * seq_count - 1 : \E s \in 0..seq_count - 1 : InRow(table[s + 1], v)

\* That of 625/50 does.
LEMMA Shuffle625 == Shuffles(dv_audio_shuffle_625_50, 12)
<1> DEFINE table == dv_audio_shuffle_625_50
           R0 == {0, 36, 72, 26, 62, 98, 16, 52, 88}
           R1 == {6, 42, 78, 32, 68, 104, 22, 58, 94}
           R2 == {12, 48, 84, 2, 38, 74, 28, 64, 100}
           R3 == {18, 54, 90, 8, 44, 80, 34, 70, 106}
           R4 == {24, 60, 96, 14, 50, 86, 4, 40, 76}
           R5 == {30, 66, 102, 20, 56, 92, 10, 46, 82}
           R6 == {1, 37, 73, 27, 63, 99, 17, 53, 89}
           R7 == {7, 43, 79, 33, 69, 105, 23, 59, 95}
           R8 == {13, 49, 85, 3, 39, 75, 29, 65, 101}
           R9 == {19, 55, 91, 9, 45, 81, 35, 71, 107}
           R10 == {25, 61, 97, 15, 51, 87, 5, 41, 77}
           R11 == {31, 67, 103, 21, 57, 93, 11, 47, 83}
<1>1. table[0 + 1] = <<0, 36, 72, 26, 62, 98, 16, 52, 88>>  BY SMT DEF dv_audio_shuffle_625_50
<1>2. table[1 + 1] = <<6, 42, 78, 32, 68, 104, 22, 58, 94>>  BY SMT DEF dv_audio_shuffle_625_50
<1>3. table[2 + 1] = <<12, 48, 84, 2, 38, 74, 28, 64, 100>>  BY SMT DEF dv_audio_shuffle_625_50
<1>4. table[3 + 1] = <<18, 54, 90, 8, 44, 80, 34, 70, 106>>  BY SMT DEF dv_audio_shuffle_625_50
<1>5. table[4 + 1] = <<24, 60, 96, 14, 50, 86, 4, 40, 76>>  BY SMT DEF dv_audio_shuffle_625_50
<1>6. table[5 + 1] = <<30, 66, 102, 20, 56, 92, 10, 46, 82>>  BY SMT DEF dv_audio_shuffle_625_50
<1>7. table[6 + 1] = <<1, 37, 73, 27, 63, 99, 17, 53, 89>>  BY SMT DEF dv_audio_shuffle_625_50
<1>8. table[7 + 1] = <<7, 43, 79, 33, 69, 105, 23, 59, 95>>  BY SMT DEF dv_audio_shuffle_625_50
<1>9. table[8 + 1] = <<13, 49, 85, 3, 39, 75, 29, 65, 101>>  BY SMT DEF dv_audio_shuffle_625_50
<1>10. table[9 + 1] = <<19, 55, 91, 9, 45, 81, 35, 71, 107>>  BY SMT DEF dv_audio_shuffle_625_50
<1>11. table[10 + 1] = <<25, 61, 97, 15, 51, 87, 5, 41, 77>>  BY SMT DEF dv_audio_shuffle_625_50
<1>12. table[11 + 1] = <<31, 67, 103, 21, 57, 93, 11, 47, 83>>  BY SMT DEF dv_audio_shuffle_625_50
<1> HIDE DEF table
<1>13. Row(table[0 + 1], R0)  BY <1>1, RowOf, ZenonT(60)
<1>14. Row(table[1 + 1], R1)  BY <1>2, RowOf, ZenonT(60)
<1>15. Row(table[2 + 1], R2)  BY <1>3, RowOf, ZenonT(60)
<1>16. Row(table[3 + 1], R3)  BY <1>4, RowOf, ZenonT(60)
<1>17. Row(table[4 + 1], R4)  BY <1>5, RowOf, ZenonT(60)
<1>18. Row(table[5 + 1], R5)  BY <1>6, RowOf, ZenonT(60)
<1>19. Row(table[6 + 1], R6)  BY <1>7, RowOf, ZenonT(60)
<1>20. Row(table[7 + 1], R7)  BY <1>8, RowOf, ZenonT(60)
<1>21. Row(table[8 + 1], R8)  BY <1>9, RowOf, ZenonT(60)
<1>22. Row(table[9 + 1], R9)  BY <1>10, RowOf, ZenonT(60)
<1>23. Row(table[10 + 1], R10)  BY <1>11, RowOf, ZenonT(60)
<1>24. Row(table[11 + 1], R11)  BY <1>12, RowOf, ZenonT(60)
<1>25. \A s \in 0..12 - 1 :
        \/ s = 0 \/ s = 1 \/ s = 2 \/ s = 3 \/ s = 4 \/ s = 5
        \/ s = 6 \/ s = 7 \/ s = 8 \/ s = 9 \/ s = 10 \/ s = 11
  OBVIOUS
<1>26. \A v \in 0..9 * 12 - 1 :
        \/ v \in R0 \/ v \in R1 \/ v \in R2 \/ v \in R3 \/ v \in R4 \/ v \in R5
        \/ v \in R6 \/ v \in R7 \/ v \in R8 \/ v \in R9 \/ v \in R10 \/ v \in R11
  BY SMT
<1>31. /\ R0 \subseteq Nat /\ R1 \subseteq Nat /\ R2 \subseteq Nat /\ R3 \subseteq Nat /\ R4 \subseteq Nat /\ R5 \subseteq Nat
      /\ R6 \subseteq Nat /\ R7 \subseteq Nat /\ R8 \subseteq Nat /\ R9 \subseteq Nat /\ R10 \subseteq Nat /\ R11 \subseteq Nat
  BY SMT
<1> HIDE DEF R0, R1, R2, R3, R4, R5, R6, R7, R8, R9, R10, R11
<1>27. \A s \in 0..12 - 1, b \in 0..8 : table[s + 1][b + 1] \in Nat
  BY <1>13, <1>14, <1>15, <1>16, <1>17, <1>18, <1>19, <1>20, <1>21, <1>22, <1>23, <1>24, <1>25, <1>31, Zenon DEF Row
<1>28. /\ 0 \in 0..12 - 1 /\ 1 \in 0..12 - 1 /\ 2 \in 0..12 - 1 /\ 3 \in 0..12 - 1 /\ 4 \in 0..12 - 1 /\ 5 \in 0..12 - 1
      /\ 6 \in 0..12 - 1 /\ 7 \in 0..12 - 1 /\ 8 \in 0..12 - 1 /\ 9 \in 0..12 - 1 /\ 10 \in 0..12 - 1 /\ 11 \in 0..12 - 1
  OBVIOUS
<1>29. \A v \in 0..9 * 12 - 1 : \E s \in 0..12 - 1 : InRow(table[s + 1], v)
  BY <1>13, <1>14, <1>15, <1>16, <1>17, <1>18, <1>19, <1>20, <1>21, <1>22, <1>23, <1>24, <1>26, <1>28, Zenon DEF Row
<1> QED  BY <1>27, <1>29, Zenon DEF Shuffles, table

\* That of 525/60 does.
LEMMA Shuffle525 == Shuffles(dv_audio_shuffle_525_60, 10)
<1> DEFINE table == dv_audio_shuffle_525_60
           R0 == {0, 30, 60, 20, 50, 80, 10, 40, 70}
           R1 == {6, 36, 66, 26, 56, 86, 16, 46, 76}
           R2 == {12, 42, 72, 2, 32, 62, 22, 52, 82}
           R3 == {18, 48, 78, 8, 38, 68, 28, 58, 88}
           R4 == {24, 54, 84, 14, 44, 74, 4, 34, 64}
           R5 == {1, 31, 61, 21, 51, 81, 11, 41, 71}
           R6 == {7, 37, 67, 27, 57, 87, 17, 47, 77}
           R7 == {13, 43, 73, 3, 33, 63, 23, 53, 83}
           R8 == {19, 49, 79, 9, 39, 69, 29, 59, 89}
           R9 == {25, 55, 85, 15, 45, 75, 5, 35, 65}
<1>1. table[0 + 1] = <<0, 30, 60, 20, 50, 80, 10, 40, 70>>  BY SMT DEF dv_audio_shuffle_525_60
<1>2. table[1 + 1] = <<6, 36, 66, 26, 56, 86, 16, 46, 76>>  BY SMT DEF dv_audio_shuffle_525_60
<1>3. table[2 + 1] = <<12, 42, 72, 2, 32, 62, 22, 52, 82>>  BY SMT DEF dv_audio_shuffle_525_60
<1>4. table[3 + 1] = <<18, 48, 78, 8, 38, 68, 28, 58, 88>>  BY SMT DEF dv_audio_shuffle_525_60
<1>5. table[4 + 1] = <<24, 54, 84, 14, 44, 74, 4, 34, 64>>  BY SMT DEF dv_audio_shuffle_525_60
<1>6. table[5 + 1] = <<1, 31, 61, 21, 51, 81, 11, 41, 71>>  BY SMT DEF dv_audio_shuffle_525_60
<1>7. table[6 + 1] = <<7, 37, 67, 27, 57, 87, 17, 47, 77>>  BY SMT DEF dv_audio_shuffle_525_60
<1>8. table[7 + 1] = <<13, 43, 73, 3, 33, 63, 23, 53, 83>>  BY SMT DEF dv_audio_shuffle_525_60
<1>9. table[8 + 1] = <<19, 49, 79, 9, 39, 69, 29, 59, 89>>  BY SMT DEF dv_audio_shuffle_525_60
<1>10. table[9 + 1] = <<25, 55, 85, 15, 45, 75, 5, 35, 65>>  BY SMT DEF dv_audio_shuffle_525_60
<1> HIDE DEF table
<1>11. Row(table[0 + 1], R0)  BY <1>1, RowOf, ZenonT(60)
<1>12. Row(table[1 + 1], R1)  BY <1>2, RowOf, ZenonT(60)
<1>13. Row(table[2 + 1], R2)  BY <1>3, RowOf, ZenonT(60)
<1>14. Row(table[3 + 1], R3)  BY <1>4, RowOf, ZenonT(60)
<1>15. Row(table[4 + 1], R4)  BY <1>5, RowOf, ZenonT(60)
<1>16. Row(table[5 + 1], R5)  BY <1>6, RowOf, ZenonT(60)
<1>17. Row(table[6 + 1], R6)  BY <1>7, RowOf, ZenonT(60)
<1>18. Row(table[7 + 1], R7)  BY <1>8, RowOf, ZenonT(60)
<1>19. Row(table[8 + 1], R8)  BY <1>9, RowOf, ZenonT(60)
<1>20. Row(table[9 + 1], R9)  BY <1>10, RowOf, ZenonT(60)
<1>21. \A s \in 0..10 - 1 :
        \/ s = 0 \/ s = 1 \/ s = 2 \/ s = 3 \/ s = 4 \/ s = 5
        \/ s = 6 \/ s = 7 \/ s = 8 \/ s = 9
  OBVIOUS
<1>22. \A v \in 0..9 * 10 - 1 :
        \/ v \in R0 \/ v \in R1 \/ v \in R2 \/ v \in R3 \/ v \in R4 \/ v \in R5
        \/ v \in R6 \/ v \in R7 \/ v \in R8 \/ v \in R9
  BY SMT
<1>27. /\ R0 \subseteq Nat /\ R1 \subseteq Nat /\ R2 \subseteq Nat /\ R3 \subseteq Nat /\ R4 \subseteq Nat /\ R5 \subseteq Nat
      /\ R6 \subseteq Nat /\ R7 \subseteq Nat /\ R8 \subseteq Nat /\ R9 \subseteq Nat
  BY SMT
<1> HIDE DEF R0, R1, R2, R3, R4, R5, R6, R7, R8, R9
<1>23. \A s \in 0..10 - 1, b \in 0..8 : table[s + 1][b + 1] \in Nat
  BY <1>11, <1>12, <1>13, <1>14, <1>15, <1>16, <1>17, <1>18, <1>19, <1>20, <1>21, <1>27, Zenon DEF Row
<1>24. /\ 0 \in 0..10 - 1 /\ 1 \in 0..10 - 1 /\ 2 \in 0..10 - 1 /\ 3 \in 0..10 - 1 /\ 4 \in 0..10 - 1 /\ 5 \in 0..10 - 1
      /\ 6 \in 0..10 - 1 /\ 7 \in 0..10 - 1 /\ 8 \in 0..10 - 1 /\ 9 \in 0..10 - 1
  OBVIOUS
<1>25. \A v \in 0..9 * 10 - 1 : \E s \in 0..10 - 1 : InRow(table[s + 1], v)
  BY <1>11, <1>12, <1>13, <1>14, <1>15, <1>16, <1>17, <1>18, <1>19, <1>20, <1>22, <1>24, Zenon DEF Row
<1> QED  BY <1>23, <1>25, Zenon DEF Shuffles, table

\* How a video system lays out its sound: what the next lemmas use of it.
Layout(system) ==
  /\ system.seq_count \in {10, 12} /\ Shuffles(system.audio_shuffle, system.seq_count)
  /\ system.at48k.min \in Nat \ {0} /\ 2 * system.at48k.max = 36 * (9 * system.seq_count)
  /\ system.at32k.min \in Nat \ {0} /\ 2 * system.at32k.max = 24 * (9 * system.seq_count)
  /\ system.at48k.max \in Nat /\ system.at48k.max - system.at48k.min < 64
  /\ system.at32k.max \in Nat /\ system.at32k.max - system.at32k.min < 64

\* Both video systems do.
LEMMA Layouts ==
  ASSUME NEW system \in System
  PROVE  Layout(system)
<1>1. Layout(dv_system_625_50)
  <2> DEFINE table == dv_audio_shuffle_625_50
  <2>1. /\ dv_system_625_50.seq_count = 12
        /\ dv_system_625_50.audio_shuffle = table
        /\ dv_system_625_50.at48k.min = 1896 /\ dv_system_625_50.at48k.max = 1944
        /\ dv_system_625_50.at32k.min = 1264 /\ dv_system_625_50.at32k.max = 1296
    BY SMT DEF dv_system_625_50
  <2>2. Shuffles(table, 12)  BY Shuffle625
  <2> HIDE DEF table
  <2> QED  BY <2>1, <2>2, SMT DEF Layout
<1>2. Layout(dv_system_525_60)
  <2> DEFINE table == dv_audio_shuffle_525_60
  <2>1. /\ dv_system_525_60.seq_count = 10
        /\ dv_system_525_60.audio_shuffle = table
        /\ dv_system_525_60.at48k.min = 1580 /\ dv_system_525_60.at48k.max = 1620
        /\ dv_system_525_60.at32k.min = 1053 /\ dv_system_525_60.at32k.max = 1080
    BY SMT DEF dv_system_525_60
  <2>2. Shuffles(table, 10)  BY Shuffle525
  <2> HIDE DEF table
  <2> QED  BY <2>1, <2>2, SMT DEF Layout
<1> QED  BY <1>1, <1>2, Zenon DEF System

\* Every place below n times the places of a shuffle is that of a sample.
LEMMA EveryPlace ==
  ASSUME NEW system, Layout(system), NEW n \in Nat, NEW pos \in Nat,
         pos < n * (9 * system.seq_count)
  PROVE  \E b \in Blocks(system), i \in 0..n - 1 : position(system, b[1], b[2], i) = pos
<1> DEFINE m == 9 * system.seq_count
           i == pos \div m
           v == pos % m
<1>1. m \in Nat \ {0} /\ system.seq_count \in Nat  BY SMT DEF Layout
<1>2. v \in 0..m - 1 /\ i \in Nat /\ pos = m * i + v  BY <1>1, DivMod
<1>3. pos < n * m  OBVIOUS
<1> HIDE DEF v, i
<1>4. i < n
  <2>1. ASSUME i >= n PROVE FALSE
    <3>1. m * (i - n) >= 0  BY <1>1, <1>2, <2>1, Z3
    <3>2. m * (i - n) = m * i - n * m  BY <1>1, <1>2, Z3
    <3>3. m * i \in Int /\ n * m \in Int  BY <1>1, <1>2
    <3> HIDE DEF m
    <3> QED  BY <1>1, <1>2, <1>3, <3>1, <3>2, <3>3, SMT
  <2> QED  BY <1>2, <2>1
<1>5. \A w \in 0..9 * system.seq_count - 1 :
        \E s \in 0..system.seq_count - 1 : InRow(system.audio_shuffle[s + 1], w)
  BY Zenon DEF Layout, Shuffles
<1>6. PICK s \in 0..system.seq_count - 1 : InRow(system.audio_shuffle[s + 1], v)
  BY <1>2, <1>5
<1>7. PICK b \in 0..8 : system.audio_shuffle[s + 1][b + 1] = v  BY <1>6 DEF InRow
<1>8. i * system.seq_count * 9 = m * i  BY <1>1, <1>2, Z3
<1>9. v + m * i = pos  BY <1>1, <1>2
<1>10. position(system, s, b, i) = pos
  BY <1>7, <1>8, <1>9 DEF position
<1>11. i \in 0..n - 1  BY <1>2, <1>4
<1>12. <<s, b>> \in Blocks(system) /\ <<s, b>>[1] = s /\ <<s, b>>[2] = b  BY DEF Blocks
<1> QED  BY <1>10, <1>11, <1>12

\* Places are natural numbers.
LEMMA PlaceType ==
  ASSUME NEW system, Layout(system), NEW s \in 0..system.seq_count - 1, NEW b \in 0..8, NEW i \in Nat
  PROVE  position(system, s, b, i) \in Nat
<1>1. system.audio_shuffle[s + 1][b + 1] \in Nat  BY Zenon DEF Layout, Shuffles
<1>2. system.seq_count \in Nat  BY DEF Layout
<1>3. i * system.seq_count * 9 \in Nat  BY <1>2, Z3
<1> QED  BY <1>1, <1>3 DEF position

\* The sample at a place, and silence beyond the last.
At(samples, frame_count, pos) == IF pos < frame_count * PCM_CHANNELS THEN samples[pos] ELSE 0

\* A sound: a function on the places of a frame with as many samples.
Places(frame_count) == 0..PCM_CHANNELS * frame_count - 1

\* A sound, or a block of one, that is not silent.
Audible(f) == f # <<>>

\* One with any sample is not.
LEMMA NotSilent ==
  ASSUME NEW f, 0 \in DOMAIN f
  PROVE  Audible(f)
<1>1. DOMAIN <<>> = {}  OBVIOUS
<1> QED  BY <1>1 DEF Audible

\* What dv_buffer_set_audio puts in the frame, but for the samples.
LEMMA SetFields ==
  ASSUME NEW system \in System, NEW rate \in SampleRate, NEW frame_count, NEW samples
  PROVE  LET audio == Readable(dv_buffer_set_audio(system, rate, frame_count, samples))
         IN  /\ audio.pack[<<0, 3>>] = "as"
             /\ audio.count_code = frame_count - audio_frame_counts(system, rate).min
             /\ audio.quant = (IF rate = 32000 THEN 1 ELSE 0)
             /\ audio.rate_code = 2 * (IF rate = 48000 THEN 0 ELSE 1)
             /\ audio.data = dv_buffer_set_audio(system, rate, frame_count, samples).data
<1> DEFINE set   == dv_buffer_set_audio(system, rate, frame_count, samples)
           pack  == [b \in Blocks(system) |-> aaux_pack(b[1], b[2])]
<1>1. /\ set.pack = pack
      /\ set.count_code = frame_count - audio_frame_counts(system, rate).min
      /\ set.quant = (IF rate = 32000 THEN 1 ELSE 0)
      /\ set.rate_code = (IF rate = 48000 THEN 0 ELSE 1)
      /\ DOMAIN set = {"pack", "count_code", "quant", "rate_code", "data"}
  BY DEF dv_buffer_set_audio
<1>2. <<0, 3>> \in Blocks(system)
  <2>1. system.seq_count \in {10, 12}  BY Layouts DEF Layout
  <2> QED  BY <2>1 DEF Blocks
<1>3. pack[<<0, 3>>] = "as"
  <2>1. aaux_pack(0, 3) = "as"  BY SMT DEF aaux_pack
  <2> QED  BY <1>2, <2>1
<1> HIDE DEF set, pack
<1>4. /\ Readable(set).pack = set.pack /\ Readable(set).count_code = set.count_code
      /\ Readable(set).quant = set.quant /\ Readable(set).rate_code = 2 * set.rate_code
      /\ Readable(set).data = set.data
  BY <1>1 DEF Readable
<1> QED  BY <1>1, <1>3, <1>4 DEF set

\* A block of samples.
LinearBlock(f, system, frame_count, samples, b) ==
  /\ Audible(f)
  /\ \A i \in 0..35 : f[i] = At(samples, frame_count, position(system, b[1], b[2], i))

\* And one of companded pairs, a sample of each half of the frame.
CompandedBlock(f, system, frame_count, samples, b) ==
  /\ Audible(f)
  /\ \A i \in 0..23 : f[i] =
       <<encode_12bit(At(samples, frame_count, position(system, b[1], b[2], i))),
         encode_12bit(At(samples, frame_count,
                         position(system, b[1] + system.seq_count \div 2, b[2], i)))>>

\* The samples in the frame, at 48 kHz.
LEMMA SetData48 ==
  ASSUME NEW system, NEW rate, rate = 48000, NEW frame_count, NEW samples, Audible(samples),
         NEW b \in Blocks(system)
  PROVE  LinearBlock(dv_buffer_set_audio(system, rate, frame_count, samples).data[b],
                     system, frame_count, samples, b)
<1> DEFINE block == [i \in 0..35 |-> At(samples, frame_count, position(system, b[1], b[2], i))]
<1>1. rate # 32000  BY SMT
<1>2. dv_buffer_set_audio(system, rate, frame_count, samples).data[b] = block
  BY <1>1 DEF dv_buffer_set_audio, At, Audible
<1>3. \A i \in 0..35 : block[i] = At(samples, frame_count, position(system, b[1], b[2], i))
  OBVIOUS
<1>4. 0 \in DOMAIN block  OBVIOUS
<1> HIDE DEF block
<1>5. Audible(block)  BY <1>4, NotSilent
<1>6. LinearBlock(block, system, frame_count, samples, b)  BY <1>3, <1>5 DEF LinearBlock
<1> QED  BY <1>2, <1>6

\* And at 32 kHz.
LEMMA SetData32 ==
  ASSUME NEW system, NEW rate, rate = 32000, NEW frame_count, NEW samples, Audible(samples),
         NEW b \in Blocks(system), ~(b[1] >= system.seq_count \div 2)
  PROVE  CompandedBlock(dv_buffer_set_audio(system, rate, frame_count, samples).data[b],
                        system, frame_count, samples, b)
<1> DEFINE half          == system.seq_count \div 2
           code(x, y, i) == encode_12bit(At(samples, frame_count, position(system, x, y, i)))
           place(x, y)   == IF samples = <<>> \/ x >= half THEN <<>>
                            ELSE [i \in 0..23 |-> <<code(x, y, i), code(x + half, y, i)>>]
           block == [i \in 0..23 |-> <<code(b[1], b[2], i), code(b[1] + half, b[2], i)>>]
<1>1. dv_buffer_set_audio(system, rate, frame_count, samples).data
        = [k \in Blocks(system) |-> place(k[1], k[2])]
  BY DEF dv_buffer_set_audio, At
<1>2. place(b[1], b[2]) = block  BY DEF Audible
<1>3. \A i \in 0..23 : block[i] = <<code(b[1], b[2], i), code(b[1] + half, b[2], i)>>  OBVIOUS
<1>4. 0 \in DOMAIN block  OBVIOUS
<1> HIDE DEF block, place
<1>5. dv_buffer_set_audio(system, rate, frame_count, samples).data[b] = block
  BY <1>1, <1>2
<1>6. Audible(block)  BY <1>4, NotSilent
<1>7. CompandedBlock(block, system, frame_count, samples, b)  BY <1>3, <1>6 DEF CompandedBlock
<1> QED  BY <1>5, <1>7

\* Silence has no samples.
LEMMA SetNone ==
  ASSUME NEW system, NEW rate, NEW frame_count, NEW samples, ~Audible(samples),
         NEW block \in Blocks(system)
  PROVE  ~Audible(dv_buffer_set_audio(system, rate, frame_count, samples).data[block])
BY DEF dv_buffer_set_audio, Audible

\* A sample as it is read.
LinearSample(audio, block, i) ==
  IF audio.data[block] = <<>> \/ audio.data[block][i] = -32768 THEN 0 ELSE audio.data[block][i]

\* And one of a companded pair.
ExpandedSample(audio, block, i, h) ==
  decode_12bit((IF audio.data[block] = <<>> THEN <<0, 0>> ELSE audio.data[block][i])[h + 1])

\* dv_buffer_get_audio reads each block at 48 kHz.
LEMMA GetLinear ==
  ASSUME NEW system, NEW rate, rate = 48000, NEW audio, NEW count,
         dv_buffer_get_sample_rate(audio) = rate, audio.quant = 0,
         PCM_CHANNELS * (audio_frame_counts(system, rate).min + (audio.count_code % 64)) = count
  PROVE  dv_buffer_get_audio(system, audio) =
           {pair \in {<<position(system, b[1], b[2], i), LinearSample(audio, b, i)>> :
                        b \in Blocks(system), i \in 0..35} : pair[1] < count}
<1>1. ~(dv_buffer_get_sample_rate(audio) < 0) /\ ~(audio.quant > 1) /\ audio.quant # 1
  BY SMT
<1> QED  BY <1>1 DEF dv_buffer_get_audio, LinearSample

\* And the blocks of the first half of the frame, each for both halves, at 32 kHz.
LEMMA GetCompanded ==
  ASSUME NEW system, NEW rate, rate = 32000, NEW audio, NEW count,
         dv_buffer_get_sample_rate(audio) = rate, audio.quant = 1,
         PCM_CHANNELS * (audio_frame_counts(system, rate).min + (audio.count_code % 64)) = count
  PROVE  dv_buffer_get_audio(system, audio) =
           {pair \in {<<position(system, b[1] + h * (system.seq_count \div 2), b[2], i),
                        ExpandedSample(audio, b, i, h)>> :
                        b \in {x \in Blocks(system) : x[1] < system.seq_count \div 2},
                        i \in 0..23, h \in 0..1} : pair[1] < count}
<1>1. ~(dv_buffer_get_sample_rate(audio) < 0) /\ ~(audio.quant > 1)
  BY SMT
<1> QED  BY <1>1 DEF dv_buffer_get_audio, ExpandedSample

\* The rate and the number of samples are read as they were set.
LEMMA SetIsRead ==
  ASSUME NEW system \in System, NEW rate \in SampleRate, NEW samples,
         NEW frame_count \in audio_frame_counts(system, rate).min..audio_frame_counts(system, rate).max
  PROVE  LET audio == Readable(dv_buffer_set_audio(system, rate, frame_count, samples))
         IN  /\ dv_buffer_get_sample_rate(audio) = rate
             /\ PCM_CHANNELS * (audio_frame_counts(system, rate).min + (audio.count_code % 64))
                  = PCM_CHANNELS * frame_count
             /\ audio.quant = (IF rate = 32000 THEN 1 ELSE 0)
             /\ frame_count \in Nat \ {0}
<1> DEFINE audio == Readable(dv_buffer_set_audio(system, rate, frame_count, samples))
           c == audio_frame_counts(system, rate)
<1>1. c = (IF rate = 48000 THEN system.at48k ELSE system.at32k)  BY DEF audio_frame_counts
<1>2. c.min \in Nat \ {0} /\ c.max \in Nat /\ c.max - c.min < 64
  BY <1>1, Layouts DEF Layout
<1>3. /\ audio.pack[<<0, 3>>] = "as" /\ audio.count_code = frame_count - c.min
      /\ audio.quant = (IF rate = 32000 THEN 1 ELSE 0)
      /\ audio.rate_code = 2 * (IF rate = 48000 THEN 0 ELSE 1)
  BY SetFields
<1>4. frame_count \in c.min..c.max  OBVIOUS
<1> HIDE DEF audio, c
<1>5. rate = 48000 \/ rate = 32000  BY SMT DEF SampleRate
<1>6. dv_buffer_get_sample_rate(audio) = rate
  <2>1. CASE rate = 48000  BY <1>3, <2>1, SMT DEF dv_buffer_get_sample_rate
  <2>2. CASE rate = 32000  BY <1>3, <2>2, SMT DEF dv_buffer_get_sample_rate
  <2> QED  BY <1>5, <2>1, <2>2
<1>7. frame_count \in Nat \ {0} /\ audio.count_code \in 0..63  BY <1>2, <1>3, <1>4
<1>8. audio.count_code % 64 = audio.count_code  BY <1>7, SMT
<1>9. c.min + (audio.count_code % 64) = frame_count  BY <1>2, <1>3, <1>7, <1>8
<1> QED  BY <1>3, <1>6, <1>7, <1>9 DEF audio, c

\* A sound of a frame: a function on its places, to samples that are not the mark of an error.
SoundOf(samples, frame_count) ==
  /\ DOMAIN samples = Places(frame_count)
  /\ \A pos \in Places(frame_count) : samples[pos] # -32768

\* The places of a sound, and what is at each.
LEMMA SoundAt ==
  ASSUME NEW frame_count \in Nat \ {0}, NEW samples, DOMAIN samples = Places(frame_count),
         NEW count, count = PCM_CHANNELS * frame_count
  PROVE  /\ count \in Nat \ {0} /\ Audible(samples)
         /\ \A pos : pos \in DOMAIN samples <=> pos \in Nat /\ pos < count
         /\ \A pos \in Nat : pos < count => At(samples, frame_count, pos) = samples[pos]
         /\ \A pos \in Nat : ~(pos < count) => At(samples, frame_count, pos) = 0
<1>1. count \in Nat \ {0} /\ frame_count * PCM_CHANNELS = count /\ Places(frame_count) = 0..count - 1
  BY SMT DEF PCM_CHANNELS, Places
<1>2. \A pos : pos \in DOMAIN samples <=> pos \in Nat /\ pos < count  BY <1>1
<1>3. 0 \in DOMAIN samples  BY <1>1, <1>2
<1>4. Audible(samples)  BY <1>3, NotSilent
<1> QED  BY <1>1, <1>2, <1>4 DEF At

\* A place, by the block and the number of its sample.
Place(system, b, i) == position(system, b[1], b[2], i)

\* All places of the samples of the blocks, and no others.
LEMMA PlacesOfBlocks ==
  ASSUME NEW system \in System, NEW n \in Nat, NEW count \in Nat,
         count <= n * (9 * system.seq_count)
  PROVE  /\ \A b \in Blocks(system), i \in 0..n - 1 : Place(system, b, i) \in Nat
         /\ \A pos \in Nat : pos < count =>
              \E b \in Blocks(system), i \in 0..n - 1 : Place(system, b, i) = pos
<1>0. Layout(system)  BY Layouts
<1>1. system.seq_count \in Nat  BY <1>0, SMT DEF Layout
<1>2. n * (9 * system.seq_count) \in Nat  BY <1>1, Z3
<1>3. ASSUME NEW b \in Blocks(system), NEW i \in 0..n - 1 PROVE Place(system, b, i) \in Nat
  <2>1. b[1] \in 0..system.seq_count - 1 /\ b[2] \in 0..8 /\ i \in Nat  BY DEF Blocks
  <2> QED  BY <1>0, <2>1, PlaceType DEF Place
<1>4. ASSUME NEW pos \in Nat, pos < count
      PROVE  \E b \in Blocks(system), i \in 0..n - 1 : Place(system, b, i) = pos
  <2>1. pos < n * (9 * system.seq_count)
    <3> DEFINE m == n * (9 * system.seq_count)
    <3>1. m \in Nat /\ count <= m  BY <1>2
    <3> HIDE DEF m
    <3>2. pos < m  BY <1>4, <3>1
    <3> QED  BY <3>2 DEF m
  <2> QED  BY <1>0, <2>1, EveryPlace, Zenon DEF Place
<1> QED  BY <1>3, <1>4

\* What is got of a frame of n samples in each block, as far as the frame has places.
LinearPairs(system, audio, n) ==
  {<<Place(system, b, i), LinearSample(audio, b, i)>> : b \in Blocks(system), i \in 0..n - 1}

\* How a frame is read whose sound was set at 48 kHz.
LEMMA Read48 ==
  ASSUME NEW system \in System, NEW rate \in SampleRate, rate = 48000,
         NEW frame_count \in system.at48k.min..system.at48k.max, NEW samples
  PROVE  LET set   == dv_buffer_set_audio(system, rate, frame_count, samples)
             count == PCM_CHANNELS * frame_count
         IN  /\ dv_buffer_get_audio(system, Readable(set))
                  = {pair \in LinearPairs(system, Readable(set), 36) : pair[1] < count}
             /\ Readable(set).data = set.data
             /\ frame_count \in Nat \ {0} /\ count \in Nat /\ count = 2 * frame_count
             /\ count <= 36 * (9 * system.seq_count)
<1> DEFINE set   == dv_buffer_set_audio(system, rate, frame_count, samples)
           audio == Readable(set)
           count == PCM_CHANNELS * frame_count
           got   == {<<position(system, b[1], b[2], i), LinearSample(audio, b, i)>> :
                       b \in Blocks(system), i \in 0..35}
<1>0. Layout(system)  BY Layouts
<1>1. audio_frame_counts(system, rate) = system.at48k  BY DEF audio_frame_counts
<1>2. /\ dv_buffer_get_sample_rate(audio) = rate
      /\ PCM_CHANNELS * (audio_frame_counts(system, rate).min + (audio.count_code % 64)) = count
      /\ audio.quant = 0 /\ frame_count \in Nat \ {0}
  <2> DEFINE c == audio_frame_counts(system, rate)
  <2>1. (IF rate = 32000 THEN 1 ELSE 0) = 0  BY SMT
  <2>2. frame_count \in c.min..c.max  BY <1>1
  <2>3. /\ dv_buffer_get_sample_rate(audio) = rate
        /\ PCM_CHANNELS * (c.min + (audio.count_code % 64)) = PCM_CHANNELS * frame_count
        /\ audio.quant = (IF rate = 32000 THEN 1 ELSE 0) /\ frame_count \in Nat \ {0}
    BY <2>2, SetIsRead
  <2> HIDE DEF audio, c
  <2>4. audio.quant = 0  BY <2>1, <2>3
  <2> QED  BY <2>3, <2>4 DEF c
<1>3. audio.data = set.data  BY SetFields
<1>4. dv_buffer_get_audio(system, audio) = {pair \in got : pair[1] < count}
  BY <1>2, GetLinear
<1>5. got = LinearPairs(system, audio, 36)
  <2> HIDE DEF audio
  <2> QED  BY DEF Place, LinearPairs
<1>6. count <= 36 * (9 * system.seq_count) /\ count \in Nat /\ count = 2 * frame_count
  BY <1>0, <1>2, SMT DEF Layout, PCM_CHANNELS
<1> HIDE DEF audio, set, count, got
<1> QED  BY <1>2, <1>3, <1>4, <1>5, <1>6 DEF audio, set, count

\* Every sample that is set at 48 kHz, and no other, is got from its place.
THEOREM LinearKept ==
  ASSUME NEW system \in System, NEW rate \in SampleRate, rate = 48000,
         NEW frame_count \in system.at48k.min..system.at48k.max,
         NEW samples, SoundOf(samples, frame_count)
  PROVE  dv_buffer_get_audio(system, Readable(dv_buffer_set_audio(system, rate, frame_count, samples)))
           = PairsOf(samples)
<1> DEFINE set   == dv_buffer_set_audio(system, rate, frame_count, samples)
           audio == Readable(set)
           count == PCM_CHANNELS * frame_count
           n     == 36
           put   == LinearPairs(system, audio, n)
<1>1. /\ dv_buffer_get_audio(system, audio) = {pair \in put : pair[1] < count}
      /\ audio.data = set.data /\ frame_count \in Nat \ {0}
      /\ n \in Nat /\ count \in Nat /\ count <= n * (9 * system.seq_count)
  BY Read48
<1>7. Audible(samples)  BY <1>1, SoundAt DEF SoundOf
<1>8. ASSUME NEW b \in Blocks(system)
      PROVE  LinearBlock(audio.data[b], system, frame_count, samples, b)
  BY <1>1, <1>7, SetData48
<1>9. ASSUME NEW b \in Blocks(system), NEW i \in 0..n - 1
      PROVE  /\ Audible(audio.data[b])
             /\ audio.data[b][i] = At(samples, frame_count, Place(system, b, i))
  <2>1. i \in 0..35  OBVIOUS
  <2> HIDE DEF audio, n, set, count, put
  <2>2. LinearBlock(audio.data[b], system, frame_count, samples, b)  BY <1>8
  <2> QED  BY <2>1, <2>2, SMT DEF LinearBlock, Place
<1> HIDE DEF audio, set, count, n
<1>10. /\ count \in Nat \ {0}
       /\ \A pos : pos \in DOMAIN samples <=> pos \in Nat /\ pos < count
       /\ \A pos \in Nat : pos < count => At(samples, frame_count, pos) = samples[pos]
       /\ \A pos \in Nat : ~(pos < count) => At(samples, frame_count, pos) = 0
  BY <1>1, SoundAt DEF SoundOf, count
<1>11. \A b \in Blocks(system), i \in 0..n - 1 : Place(system, b, i) \in Nat
  BY <1>1, <1>10, PlacesOfBlocks
<1>12. \A pos \in Nat : pos < count =>
         \E b \in Blocks(system), i \in 0..n - 1 : Place(system, b, i) = pos
  BY <1>1, <1>10, PlacesOfBlocks
<1>13. ASSUME NEW b \in Blocks(system), NEW i \in 0..n - 1, Place(system, b, i) < count
       PROVE  LinearSample(audio, b, i) = samples[Place(system, b, i)]
  <2> DEFINE p == Place(system, b, i)
             a == audio.data[b][i]
  <2>1. p \in DOMAIN samples /\ a = samples[p]  BY <1>9, <1>10, <1>11, <1>13
  <2>2. samples[p] # -32768  BY <2>1 DEF SoundOf
  <2>3. a # -32768 /\ Audible(audio.data[b])  BY <1>9, <2>1, <2>2
  <2>4. LinearSample(audio, b, i) = a  BY <2>3 DEF LinearSample, Audible
  <2> QED  BY <2>1, <2>4
<1>14. ASSUME NEW pair \in put, pair[1] < count PROVE pair \in PairsOf(samples)
  <2>1. PICK b \in Blocks(system), i \in 0..n - 1 : pair = <<Place(system, b, i), LinearSample(audio, b, i)>>
    BY <1>14 DEF LinearPairs
  <2>2. Place(system, b, i) < count  BY <1>14, <2>1
  <2>3. LinearSample(audio, b, i) = samples[Place(system, b, i)]  BY <1>13, <2>2
  <2>4. Place(system, b, i) \in DOMAIN samples  BY <1>10, <1>11, <2>2
  <2> QED  BY <2>1, <2>3, <2>4 DEF PairsOf
<1>15. ASSUME NEW pair \in PairsOf(samples) PROVE pair \in put /\ pair[1] < count
  <2>1. PICK pos \in DOMAIN samples : pair = <<pos, samples[pos]>>  BY <1>15 DEF PairsOf
  <2>2. pos \in Nat /\ pos < count  BY <1>10, <2>1
  <2>3. PICK b \in Blocks(system), i \in 0..n - 1 : Place(system, b, i) = pos  BY <1>12, <2>2
  <2>4. LinearSample(audio, b, i) = samples[pos]  BY <1>13, <2>2, <2>3
  <2> QED  BY <2>1, <2>2, <2>3, <2>4 DEF LinearPairs
<1> HIDE DEF put
<1>16. PairsOf(samples) = {pair \in put : pair[1] < count}  BY <1>14, <1>15
<1> QED  BY <1>1, <1>16 DEF audio, set

\* A sound of which 12 bits hold every sample exactly.
SmallSound(samples, frame_count) ==
  /\ DOMAIN samples = Places(frame_count)
  /\ \A pos \in Places(frame_count) : samples[pos] \in SmallSample

\* The blocks of the first half of the sequences of a frame.
FirstHalf(system) == {x \in Blocks(system) : x[1] < system.seq_count \div 2}

\* A place in the first half, or the other one, by the block in the first half.
HalfPlace(system, b, i, h) == position(system, b[1] + h * (system.seq_count \div 2), b[2], i)

\* A place that is that of a sample of a pair, when a block has n pairs.
IsHalfPlace(system, n, pos) ==
  \E b \in FirstHalf(system), i \in 0..n - 1, h \in 0..1 : HalfPlace(system, b, i, h) = pos

\* The places in both halves are those of all blocks.
LEMMA PlacesOfHalves ==
  ASSUME NEW system \in System, NEW n \in Nat, NEW count \in Nat,
         count <= n * (9 * system.seq_count)
  PROVE  /\ \A b \in FirstHalf(system), i \in 0..n - 1, h \in 0..1 :
              HalfPlace(system, b, i, h) \in Nat
         /\ \A pos \in Nat : pos < count => IsHalfPlace(system, n, pos)
<1> DEFINE half == system.seq_count \div 2
<1>1. half \in Nat /\ system.seq_count = 2 * half /\ system.seq_count \in Nat
  <2>1. system.seq_count \in {10, 12}  BY Layouts DEF Layout
  <2> QED  BY <2>1
<1> HIDE DEF half
<1>2. ASSUME NEW b \in FirstHalf(system), NEW i \in 0..n - 1, NEW h \in 0..1
      PROVE  HalfPlace(system, b, i, h) \in Nat
  <2>1. b[1] \in Nat /\ b[1] < half /\ b[2] \in 0..8  BY <1>1 DEF FirstHalf, Blocks, half
  <2>2. h = 0 \/ h = 1  OBVIOUS
  <2>3. b[1] + h * half \in 0..system.seq_count - 1 /\ i \in Nat
    <3>1. CASE h = 0  BY <1>1, <2>1, <3>1
    <3>2. CASE h = 1  BY <1>1, <2>1, <3>2
    <3> QED  BY <2>2, <3>1, <3>2
  <2>4. Layout(system)  BY Layouts
  <2> QED  BY <2>1, <2>3, <2>4, PlaceType DEF HalfPlace, half
<1>3. ASSUME NEW pos \in Nat, pos < count
      PROVE  IsHalfPlace(system, n, pos)
  <2>1. PICK x \in Blocks(system), i \in 0..n - 1 : Place(system, x, i) = pos
    BY <1>3, PlacesOfBlocks
  <2>2. /\ x[1] \in Nat /\ x[1] < system.seq_count /\ x[2] \in 0..8
        /\ position(system, x[1], x[2], i) = pos
    BY <1>1, <2>1 DEF Blocks, Place
  <2>3. CASE x[1] < half
    <3>1. x \in FirstHalf(system)  BY <2>3 DEF FirstHalf, half
    <3>2. x[1] + 0 * half = x[1]  BY <1>1, <2>2
    <3>3. HalfPlace(system, x, i, 0) = pos  BY <2>2, <3>2 DEF HalfPlace, half
    <3> QED  BY <3>1, <3>3 DEF IsHalfPlace
  <2>4. CASE ~(x[1] < half)
    <3> DEFINE b == <<x[1] - half, x[2]>>
    <3>1. b[1] = x[1] - half /\ b[2] = x[2]  OBVIOUS
    <3>2. b[1] \in 0..system.seq_count - 1 /\ b[1] < half /\ b[1] + 1 * half = x[1]
      BY <1>1, <2>2, <2>4
    <3>3. b \in FirstHalf(system)  BY <2>2, <3>2 DEF FirstHalf, Blocks, half
    <3>4. HalfPlace(system, b, i, 1) = pos
      <4>1. HalfPlace(system, b, i, 1) = position(system, b[1] + 1 * half, b[2], i)
        BY DEF HalfPlace, half
      <4> HIDE DEF b
      <4> QED  BY <2>2, <3>1, <3>2, <4>1
    <3> HIDE DEF b
    <3> QED  BY <3>3, <3>4 DEF IsHalfPlace
  <2> QED  BY <2>3, <2>4
<1> QED  BY <1>2, <1>3

\* What is got of a frame of n pairs in each block of its first half.
HalfPairs(system, audio, n) ==
  {<<HalfPlace(system, b, i, h), ExpandedSample(audio, b, i, h)>> :
     b \in FirstHalf(system), i \in 0..n - 1, h \in 0..1}

\* How a frame is read whose sound was set at 32 kHz.
LEMMA Read32 ==
  ASSUME NEW system \in System, NEW rate \in SampleRate, rate = 32000,
         NEW frame_count \in system.at32k.min..system.at32k.max, NEW samples
  PROVE  LET set   == dv_buffer_set_audio(system, rate, frame_count, samples)
             count == PCM_CHANNELS * frame_count
         IN  /\ dv_buffer_get_audio(system, Readable(set))
                  = {pair \in HalfPairs(system, Readable(set), 24) : pair[1] < count}
             /\ Readable(set).data = set.data
             /\ frame_count \in Nat \ {0} /\ count \in Nat /\ count = 2 * frame_count
             /\ count <= 24 * (9 * system.seq_count)
<1> DEFINE set   == dv_buffer_set_audio(system, rate, frame_count, samples)
           audio == Readable(set)
           count == PCM_CHANNELS * frame_count
           put   == HalfPairs(system, audio, 24)
<1>0. Layout(system)  BY Layouts
<1>1. audio_frame_counts(system, rate) = system.at32k  BY SMT DEF audio_frame_counts
<1>2. /\ dv_buffer_get_sample_rate(audio) = rate
      /\ PCM_CHANNELS * (audio_frame_counts(system, rate).min + (audio.count_code % 64)) = count
      /\ audio.quant = 1 /\ frame_count \in Nat \ {0}
  <2> DEFINE c == audio_frame_counts(system, rate)
  <2>1. (IF rate = 32000 THEN 1 ELSE 0) = 1  BY SMT
  <2>2. frame_count \in c.min..c.max  BY <1>1
  <2>3. /\ dv_buffer_get_sample_rate(audio) = rate
        /\ PCM_CHANNELS * (c.min + (audio.count_code % 64)) = PCM_CHANNELS * frame_count
        /\ audio.quant = (IF rate = 32000 THEN 1 ELSE 0) /\ frame_count \in Nat \ {0}
    BY <2>2, SetIsRead
  <2> HIDE DEF audio, c
  <2>4. audio.quant = 1  BY <2>1, <2>3
  <2> QED  BY <2>3, <2>4 DEF c
<1>3. audio.data = set.data  BY SetFields
<1>4. dv_buffer_get_audio(system, audio) = {pair \in put : pair[1] < count}
  <2>1. put = {<<position(system, b[1] + h * (system.seq_count \div 2), b[2], i),
                        ExpandedSample(audio, b, i, h)>> :
                        b \in {x \in Blocks(system) : x[1] < system.seq_count \div 2},
                        i \in 0..23, h \in 0..1}
    <3> HIDE DEF audio
    <3> QED  BY DEF HalfPlace, FirstHalf, HalfPairs
  <2> HIDE DEF audio, put
  <2> QED  BY <1>2, <2>1, GetCompanded
<1>6. count <= 24 * (9 * system.seq_count) /\ count \in Nat /\ count = 2 * frame_count
  BY <1>0, <1>2, SMT DEF Layout, PCM_CHANNELS
<1> HIDE DEF audio, set, count, put
<1> QED  BY <1>2, <1>3, <1>4, <1>6 DEF audio, set, count, put

\* Every sample that is set at 32 kHz is got from its place as it is expanded from its code, of
\* a frame with the rate code that is read (see Readable).
LEMMA CompandedKept ==
  ASSUME NEW system \in System, NEW rate \in SampleRate, rate = 32000,
         NEW frame_count \in system.at32k.min..system.at32k.max,
         NEW samples, DOMAIN samples = Places(frame_count)
  PROVE  dv_buffer_get_audio(system, Readable(dv_buffer_set_audio(system, rate, frame_count, samples)))
           = {<<pos, decode_12bit(encode_12bit(samples[pos]))>> : pos \in DOMAIN samples}
<1> DEFINE set   == dv_buffer_set_audio(system, rate, frame_count, samples)
           audio == Readable(set)
           count == PCM_CHANNELS * frame_count
           n     == 24
           Kept(pos) == decode_12bit(encode_12bit(samples[pos]))
           kept  == {<<pos, Kept(pos)>> : pos \in DOMAIN samples}
           put   == HalfPairs(system, audio, n)
<1>1. /\ dv_buffer_get_audio(system, audio) = {pair \in put : pair[1] < count}
      /\ audio.data = set.data /\ frame_count \in Nat \ {0}
      /\ n \in Nat /\ count \in Nat /\ count <= n * (9 * system.seq_count)
  BY Read32
<1>7. Audible(samples)  BY <1>1, SoundAt
<1>8. ASSUME NEW b \in FirstHalf(system)
      PROVE  CompandedBlock(audio.data[b], system, frame_count, samples, b)
  <2>1. b \in Blocks(system) /\ ~(b[1] >= system.seq_count \div 2)
    <3>1. system.seq_count \in {10, 12}  BY Layouts DEF Layout
    <3>2. b \in Blocks(system) /\ b[1] < system.seq_count \div 2  BY DEF FirstHalf
    <3>3. b[1] \in Int  BY <3>1, <3>2 DEF Blocks
    <3> QED  BY <3>1, <3>2, <3>3
  <2> QED  BY <1>1, <1>7, <2>1, SetData32
<1>9. ASSUME NEW b \in FirstHalf(system), NEW i \in 0..n - 1, NEW h \in 0..1
      PROVE  ExpandedSample(audio, b, i, h)
               = decode_12bit(encode_12bit(At(samples, frame_count, HalfPlace(system, b, i, h))))
  <2>1. i \in 0..23  OBVIOUS
  <2> HIDE DEF audio, n, set, count, put, kept, Kept
  <2> DEFINE half == system.seq_count \div 2
             code(x) == encode_12bit(At(samples, frame_count, position(system, x, b[2], i)))
  <2>2. CompandedBlock(audio.data[b], system, frame_count, samples, b)  BY <1>8
  <2>3. Audible(audio.data[b]) /\ audio.data[b][i] = <<code(b[1]), code(b[1] + half)>>
    BY <2>1, <2>2, SMT DEF CompandedBlock
  <2>4. b[1] + 0 * half = b[1] /\ 1 * half = half
    <3>1. system.seq_count \in {10, 12}  BY Layouts DEF Layout
    <3>2. b[1] \in Int  BY <3>1 DEF FirstHalf, Blocks
    <3>3. half \in Int  BY <3>1
    <3> HIDE DEF half
    <3> QED  BY <3>2, <3>3
  <2>5. audio.data[b][i][h + 1] = code(b[1] + h * half)
    <3> HIDE DEF half, code
    <3>1. CASE h = 0  BY <2>3, <2>4, <3>1
    <3>2. CASE h = 1  BY <2>3, <2>4, <3>2
    <3> QED  BY <3>1, <3>2
  <2>6. ExpandedSample(audio, b, i, h) = decode_12bit(audio.data[b][i][h + 1])
    BY <2>3 DEF ExpandedSample, Audible
  <2> QED  BY <2>5, <2>6 DEF HalfPlace
<1> HIDE DEF audio, set, count, n
<1>10. /\ count \in Nat \ {0}
       /\ \A pos : pos \in DOMAIN samples <=> pos \in Nat /\ pos < count
       /\ \A pos \in Nat : pos < count => At(samples, frame_count, pos) = samples[pos]
  BY <1>1, SoundAt DEF count
<1>11. \A b \in FirstHalf(system), i \in 0..n - 1, h \in 0..1 : HalfPlace(system, b, i, h) \in Nat
  BY <1>1, <1>10, PlacesOfHalves
<1>12. \A pos \in Nat : pos < count => IsHalfPlace(system, n, pos)
  BY <1>1, <1>10, PlacesOfHalves
<1>13. ASSUME NEW b \in FirstHalf(system), NEW i \in 0..n - 1, NEW h \in 0..1,
              HalfPlace(system, b, i, h) < count
       PROVE  ExpandedSample(audio, b, i, h) = Kept(HalfPlace(system, b, i, h))
  BY <1>9, <1>10, <1>11, <1>13
<1> HIDE DEF Kept
<1>14. ASSUME NEW pair \in put, pair[1] < count PROVE pair \in kept
  <2>1. PICK b \in FirstHalf(system), i \in 0..n - 1, h \in 0..1 :
          pair = <<HalfPlace(system, b, i, h), ExpandedSample(audio, b, i, h)>>
    BY <1>14 DEF HalfPairs
  <2>2. HalfPlace(system, b, i, h) < count  BY <1>14, <2>1
  <2>3. ExpandedSample(audio, b, i, h) = Kept(HalfPlace(system, b, i, h))  BY <1>13, <2>2
  <2>4. HalfPlace(system, b, i, h) \in DOMAIN samples  BY <1>10, <1>11, <2>2
  <2> QED  BY <2>1, <2>3, <2>4
<1>15. ASSUME NEW pair \in kept PROVE pair \in put /\ pair[1] < count
  <2>1. PICK pos \in DOMAIN samples : pair = <<pos, Kept(pos)>>  BY <1>15
  <2>2. pos \in Nat /\ pos < count  BY <1>10, <2>1
  <2>3. PICK b \in FirstHalf(system), i \in 0..n - 1, h \in 0..1 : HalfPlace(system, b, i, h) = pos
    BY <1>12, <2>2 DEF IsHalfPlace
  <2>4. ExpandedSample(audio, b, i, h) = Kept(pos)  BY <1>13, <2>2, <2>3
  <2> QED  BY <2>1, <2>2, <2>3, <2>4 DEF HalfPairs
<1> HIDE DEF put, kept
<1>16. kept = {pair \in put : pair[1] < count}
  BY <1>14, <1>15
<1> QED  BY <1>1, <1>16 DEF audio, set, kept, Kept

\* What 12 bits hold exactly is kept at either rate.
LEMMA SmallSoundKept ==
  ASSUME NEW system \in System, NEW rate \in SampleRate,
         NEW frame_count \in audio_frame_counts(system, rate).min..audio_frame_counts(system, rate).max,
         NEW samples, SmallSound(samples, frame_count)
  PROVE  dv_buffer_get_audio(system, Readable(dv_buffer_set_audio(system, rate, frame_count, samples)))
           = PairsOf(samples)
<1>1. DOMAIN samples = Places(frame_count)  BY DEF SmallSound
<1>2. CASE rate = 48000
  <2>1. frame_count \in system.at48k.min..system.at48k.max  BY <1>2 DEF audio_frame_counts
  <2>2. \A s \in SmallSample : s # -32768  BY SMT DEF SmallSample
  <2>3. SoundOf(samples, frame_count)  BY <1>1, <2>2 DEF SmallSound, SoundOf
  <2> QED  BY <1>2, <2>1, <2>3, LinearKept
<1>3. CASE rate = 32000
  <2>1. frame_count \in system.at32k.min..system.at32k.max  BY <1>3, SMT DEF audio_frame_counts
  <2> DEFINE Kept(pos) == decode_12bit(encode_12bit(samples[pos]))
             kept == {<<pos, Kept(pos)>> : pos \in DOMAIN samples}
  <2>2. ASSUME NEW pos \in DOMAIN samples PROVE Kept(pos) = samples[pos]
    BY <1>1, ExactSmall DEF SmallSound
  <2>3. dv_buffer_get_audio(system, Readable(dv_buffer_set_audio(system, rate, frame_count, samples)))
          = kept
    BY <1>1, <1>3, <2>1, CompandedKept
  <2> HIDE DEF Kept
  <2>4. kept = PairsOf(samples)  BY <2>2 DEF PairsOf
  <2> QED  BY <2>3, <2>4
<1>4. rate = 48000 \/ rate = 32000  BY SMT DEF SampleRate
<1> QED  BY <1>2, <1>3, <1>4

\* The samples of silence: zeros.
Zeros(count) == {<<pos, 0>> : pos \in 0..count - 1}

\* Silence is read as zeros, at 48 kHz.
LEMMA LinearSilence ==
  ASSUME NEW system \in System, NEW rate \in SampleRate, rate = 48000,
         NEW frame_count \in system.at48k.min..system.at48k.max,
         NEW samples, ~Audible(samples)
  PROVE  dv_buffer_get_audio(system, Readable(dv_buffer_set_audio(system, rate, frame_count, samples)))
           = Zeros(2 * frame_count)
<1> DEFINE set   == dv_buffer_set_audio(system, rate, frame_count, samples)
           audio == Readable(set)
           count == PCM_CHANNELS * frame_count
           n     == 36
           put   == LinearPairs(system, audio, n)
<1>1. /\ dv_buffer_get_audio(system, audio) = {pair \in put : pair[1] < count}
      /\ audio.data = set.data /\ count = 2 * frame_count
      /\ n \in Nat /\ count \in Nat /\ count <= n * (9 * system.seq_count)
  BY Read48
<1>2. ASSUME NEW b \in Blocks(system), NEW i PROVE LinearSample(audio, b, i) = 0
  <2>1. ~Audible(set.data[b])  BY SetNone
  <2> HIDE DEF audio, set, put
  <2>2. ~Audible(audio.data[b])  BY <1>1, <2>1
  <2> QED  BY <2>2 DEF LinearSample, Audible
<1> HIDE DEF audio, set, count, n
<1>3. \A b \in Blocks(system), i \in 0..n - 1 : Place(system, b, i) \in Nat
  BY <1>1, PlacesOfBlocks
<1>4. \A pos \in Nat : pos < count =>
         \E b \in Blocks(system), i \in 0..n - 1 : Place(system, b, i) = pos
  BY <1>1, PlacesOfBlocks
<1>5. ASSUME NEW pair \in put, pair[1] < count PROVE pair \in Zeros(count)
  <2>1. PICK b \in Blocks(system), i \in 0..n - 1 : pair = <<Place(system, b, i), LinearSample(audio, b, i)>>
    BY <1>5 DEF LinearPairs
  <2>2. Place(system, b, i) \in 0..count - 1  BY <1>1, <1>3, <1>5, <2>1
  <2> QED  BY <1>2, <2>1, <2>2 DEF Zeros
<1>6. ASSUME NEW pair \in Zeros(count) PROVE pair \in put /\ pair[1] < count
  <2>1. PICK pos \in 0..count - 1 : pair = <<pos, 0>>  BY <1>6 DEF Zeros
  <2>2. pos \in Nat /\ pos < count  BY <1>1, <2>1
  <2>3. PICK b \in Blocks(system), i \in 0..n - 1 : Place(system, b, i) = pos  BY <1>4, <2>2
  <2> QED  BY <1>2, <2>1, <2>2, <2>3 DEF LinearPairs
<1> HIDE DEF put
<1>7. Zeros(count) = {pair \in put : pair[1] < count}  BY <1>5, <1>6
<1>8. dv_buffer_get_audio(system, audio) = Zeros(count)  BY <1>1, <1>7
<1>9. Zeros(count) = Zeros(2 * frame_count)  BY <1>1
<1> QED  BY <1>8, <1>9 DEF audio, set

\* And at 32 kHz, where the code 0 is expanded to zero.
LEMMA CompandedSilence ==
  ASSUME NEW system \in System, NEW rate \in SampleRate, rate = 32000,
         NEW frame_count \in system.at32k.min..system.at32k.max,
         NEW samples, ~Audible(samples)
  PROVE  dv_buffer_get_audio(system, Readable(dv_buffer_set_audio(system, rate, frame_count, samples)))
           = Zeros(2 * frame_count)
<1> DEFINE set   == dv_buffer_set_audio(system, rate, frame_count, samples)
           audio == Readable(set)
           count == PCM_CHANNELS * frame_count
           n     == 24
           put   == HalfPairs(system, audio, n)
<1>1. /\ dv_buffer_get_audio(system, audio) = {pair \in put : pair[1] < count}
      /\ audio.data = set.data /\ count = 2 * frame_count
      /\ n \in Nat /\ count \in Nat /\ count <= n * (9 * system.seq_count)
  BY Read32
<1>2. ASSUME NEW b \in FirstHalf(system), NEW i, NEW h \in 0..1 PROVE ExpandedSample(audio, b, i, h) = 0
  <2>1. ~Audible(set.data[b])  BY SetNone DEF FirstHalf
  <2> HIDE DEF audio, set, put
  <2>2. ~Audible(audio.data[b])  BY <1>1, <2>1
  <2>3. decode_12bit(0) = 0  BY SMT DEF decode_12bit
  <2>4. ExpandedSample(audio, b, i, h) = decode_12bit(<<0, 0>>[h + 1])  BY <2>2 DEF ExpandedSample, Audible
  <2>5. <<0, 0>>[h + 1] = 0  OBVIOUS
  <2> QED  BY <2>3, <2>4, <2>5
<1> HIDE DEF audio, set, count, n
<1>3. \A b \in FirstHalf(system), i \in 0..n - 1, h \in 0..1 : HalfPlace(system, b, i, h) \in Nat
  BY <1>1, PlacesOfHalves
<1>4. \A pos \in Nat : pos < count => IsHalfPlace(system, n, pos)
  BY <1>1, PlacesOfHalves
<1>5. ASSUME NEW pair \in put, pair[1] < count PROVE pair \in Zeros(count)
  <2>1. PICK b \in FirstHalf(system), i \in 0..n - 1, h \in 0..1 :
          pair = <<HalfPlace(system, b, i, h), ExpandedSample(audio, b, i, h)>>
    BY <1>5 DEF HalfPairs
  <2>2. HalfPlace(system, b, i, h) \in 0..count - 1  BY <1>1, <1>3, <1>5, <2>1
  <2> QED  BY <1>2, <2>1, <2>2 DEF Zeros
<1>6. ASSUME NEW pair \in Zeros(count) PROVE pair \in put /\ pair[1] < count
  <2>1. PICK pos \in 0..count - 1 : pair = <<pos, 0>>  BY <1>6 DEF Zeros
  <2>2. pos \in Nat /\ pos < count  BY <1>1, <2>1
  <2>3. PICK b \in FirstHalf(system), i \in 0..n - 1, h \in 0..1 : HalfPlace(system, b, i, h) = pos
    BY <1>4, <2>2 DEF IsHalfPlace
  <2> QED  BY <1>2, <2>1, <2>2, <2>3 DEF HalfPairs
<1> HIDE DEF put
<1>7. Zeros(count) = {pair \in put : pair[1] < count}  BY <1>5, <1>6
<1>8. dv_buffer_get_audio(system, audio) = Zeros(count)  BY <1>1, <1>7
<1>9. Zeros(count) = Zeros(2 * frame_count)  BY <1>1
<1> QED  BY <1>8, <1>9 DEF audio, set

\* At either rate.
LEMMA SilenceRead ==
  ASSUME NEW system \in System, NEW rate \in SampleRate,
         NEW frame_count \in audio_frame_counts(system, rate).min..audio_frame_counts(system, rate).max,
         NEW samples, ~Audible(samples)
  PROVE  dv_buffer_get_audio(system, Readable(dv_buffer_set_audio(system, rate, frame_count, samples)))
           = Zeros(2 * frame_count)
<1>1. CASE rate = 48000
  <2>1. frame_count \in system.at48k.min..system.at48k.max  BY <1>1 DEF audio_frame_counts
  <2> QED  BY <1>1, <2>1, LinearSilence
<1>2. CASE rate = 32000
  <2>1. frame_count \in system.at32k.min..system.at32k.max  BY <1>2, SMT DEF audio_frame_counts
  <2> QED  BY <1>2, <2>1, CompandedSilence
<1>3. rate = 48000 \/ rate = 32000  BY SMT DEF SampleRate
<1> QED  BY <1>1, <1>2, <1>3

\* A frame of sound as it is read has all parts, those of the blocks for each block.
SoundFields == {"pack", "count_code", "quant", "rate_code", "data"}

\* The parts of a frame with its sound set.
LEMMA ReadableParts ==
  ASSUME NEW system, NEW rate, NEW frame_count, NEW samples
  PROVE  LET audio == Readable(dv_buffer_set_audio(system, rate, frame_count, samples))
         IN  /\ audio = [f \in SoundFields |-> audio[f]]
             /\ audio.pack = [b \in Blocks(system) |-> audio.pack[b]]
             /\ audio.data = [b \in Blocks(system) |-> audio.data[b]]
<1> DEFINE set   == dv_buffer_set_audio(system, rate, frame_count, samples)
           audio == Readable(set)
           half  == system.seq_count \div 2
           value(s, b, i) == IF position(system, s, b, i) < frame_count * PCM_CHANNELS
                             THEN samples[position(system, s, b, i)] ELSE 0
           block(s, b) ==
             IF samples = <<>> \/ (rate = 32000 /\ s >= half) THEN <<>>
             ELSE IF rate = 32000
                  THEN [i \in 0..23 |-> <<encode_12bit(value(s, b, i)), encode_12bit(value(s + half, b, i))>>]
             ELSE [i \in 0..35 |-> value(s, b, i)]
           pack == [b \in Blocks(system) |-> aaux_pack(b[1], b[2])]
           data == [b \in Blocks(system) |-> block(b[1], b[2])]
           count == frame_count - audio_frame_counts(system, rate).min
           quant == IF rate = 32000 THEN 1 ELSE 0
           code  == IF rate = 48000 THEN 0 ELSE 1
<1>1. set = [pack |-> pack, count_code |-> count, quant |-> quant, rate_code |-> code, data |-> data]
  BY DEF dv_buffer_set_audio
<1>2. pack = [b \in Blocks(system) |-> pack[b]]  OBVIOUS
<1>3. data = [b \in Blocks(system) |-> data[b]]  OBVIOUS
<1> HIDE DEF pack, data, count, quant, code, set
<1>4. audio = [pack |-> pack, count_code |-> count, quant |-> quant, rate_code |-> 2 * code,
               data |-> data]
  BY <1>1 DEF Readable
<1> HIDE DEF audio
<1>5. audio = [f \in SoundFields |-> audio[f]]  BY <1>4 DEF SoundFields
<1>6. audio.pack = pack /\ audio.data = data  BY <1>4
<1>7. audio.pack = [b \in Blocks(system) |-> audio.pack[b]]  BY <1>2, <1>6
<1>8. audio.data = [b \in Blocks(system) |-> audio.data[b]]  BY <1>3, <1>6
<1> QED  BY <1>5, <1>7, <1>8 DEF audio, set

\* Dubbing takes the whole sound of a frame, whatever sound the other frame had.
LEMMA DubTakesAll ==
  ASSUME NEW system, NEW other, DOMAIN other = SoundFields, NEW audio,
         audio = [f \in SoundFields |-> audio[f]],
         audio.pack = [b \in Blocks(system) |-> audio.pack[b]],
         audio.data = [b \in Blocks(system) |-> audio.data[b]]
  PROVE  dv_buffer_dub_audio(system, other, audio) = audio
<1> DEFINE dub == dv_buffer_dub_audio(system, other, audio)
<1>1. /\ dub = [f \in SoundFields |-> dub[f]]
      /\ dub.pack = audio.pack /\ dub.count_code = audio.count_code /\ dub.quant = audio.quant
      /\ dub.rate_code = audio.rate_code /\ dub.data = audio.data
  <2> DEFINE pack == [b \in Blocks(system) |-> audio.pack[b]]
             data == [b \in Blocks(system) |-> audio.data[b]]
  <2>1. dub = [other EXCEPT !.pack = pack, !.count_code = audio.count_code,
                            !.quant = audio.quant, !.rate_code = audio.rate_code, !.data = data]
    BY DEF dv_buffer_dub_audio
  <2>2. pack = audio.pack /\ data = audio.data  OBVIOUS
  <2> HIDE DEF dub, pack, data
  <2> QED  BY <2>1, <2>2 DEF SoundFields
<1> HIDE DEF dub
<1>2. \A f \in SoundFields : dub[f] = audio[f]  BY <1>1 DEF SoundFields
<1>3. dub = audio  BY <1>1, <1>2
<1> QED  BY <1>3 DEF dub

\* So what is got of a frame is got of any frame that its sound is dubbed to.
THEOREM DubKept ==
  ASSUME NEW system, NEW rate, NEW frame_count, NEW samples,
         NEW rate2, NEW frame_count2, NEW samples2
  PROVE  LET audio == Readable(dv_buffer_set_audio(system, rate, frame_count, samples))
             other == dv_buffer_set_audio(system, rate2, frame_count2, samples2)
         IN  dv_buffer_get_audio(system, dv_buffer_dub_audio(system, other, audio))
               = dv_buffer_get_audio(system, audio)
<1> DEFINE audio == Readable(dv_buffer_set_audio(system, rate, frame_count, samples))
           other == dv_buffer_set_audio(system, rate2, frame_count2, samples2)
<1>1. DOMAIN other = SoundFields  BY DEF dv_buffer_set_audio, SoundFields
<1>2. /\ audio = [f \in SoundFields |-> audio[f]]
      /\ audio.pack = [b \in Blocks(system) |-> audio.pack[b]]
      /\ audio.data = [b \in Blocks(system) |-> audio.data[b]]
  BY ReadableParts
<1> HIDE DEF audio, other
<1>3. dv_buffer_dub_audio(system, other, audio) = audio  BY <1>1, <1>2, DubTakesAll
<1> QED  BY <1>3 DEF audio, other

\* The samples of the first j frames of a cycle.
Partial(system, rate, j) ==
  IF system = dv_system_625_50 THEN j * (IF rate = 48000 THEN 1920 ELSE 1280)
  ELSE IF rate = 48000 THEN (IF j = 0 THEN 0 ELSE 1602 * j - 2)
  ELSE 1068 * j - ((j + 2) \div 4)

\* A cycle: what its frames add, that it ends in step with the video, and that no frame of it
\* has more or fewer samples than a frame may have.
Cycle(system, rate, L) ==
  LET counts == audio_frame_counts(system, rate)
  IN  /\ L \in Nat \ {0} /\ Len(counts.std_cycle) = L
      /\ Partial(system, rate, 0) = 0
      /\ Partial(system, rate, L) * system.frame_rate_numer = rate * L * system.frame_rate_denom
      /\ \A j \in 0..L - 1 :
           /\ Partial(system, rate, j) \in Int
           /\ Partial(system, rate, j + 1) = Partial(system, rate, j) + counts.std_cycle[j + 1]
           /\ counts.std_cycle[j + 1] \in Nat
           /\ counts.std_cycle[j + 1] \in counts.min..counts.max
           /\ Abs(Partial(system, rate, j) * system.frame_rate_numer
                    - rate * j * system.frame_rate_denom) < 2 * system.frame_rate_numer

\* With one frame in each cycle.
LEMMA Cycle625 ==
  ASSUME NEW rate \in SampleRate
  PROVE  Cycle(dv_system_625_50, rate, 1)
<1> DEFINE s == dv_system_625_50
           c == IF rate = 48000 THEN 1920 ELSE 1280
           counts == audio_frame_counts(s, rate)
<1>1. s.frame_rate_numer = 25 /\ s.frame_rate_denom = 1  BY SMT DEF dv_system_625_50
<1>2. rate = c * 25 /\ c \in Nat
  <2>1. rate = 48000 \/ rate = 32000  BY SMT DEF SampleRate
  <2> QED  BY <2>1
<1>3. \A j : Partial(s, rate, j) = j * c  BY DEF Partial
<1>4. counts.std_cycle = <<c>> /\ c \in counts.min..counts.max
  <2>1. rate = 48000 \/ rate = 32000  BY SMT DEF SampleRate
  <2>2. CASE rate = 48000
    <3>1. counts = [min |-> 1896, max |-> 1944, std_cycle |-> <<1920>>]
      BY <2>2 DEF audio_frame_counts, dv_system_625_50
    <3> HIDE DEF counts
    <3> QED  BY <2>2, <3>1
  <2>3. CASE rate = 32000
    <3>1. counts = [min |-> 1264, max |-> 1296, std_cycle |-> <<1280>>]
      BY <2>3, SMT DEF audio_frame_counts, dv_system_625_50
    <3> HIDE DEF counts
    <3> QED  BY <2>3, <3>1
  <2> QED  BY <2>1, <2>2, <2>3
<1> HIDE DEF s, c, counts
<1>5. /\ Partial(s, rate, 0) = 0 /\ Partial(s, rate, 1) = c  BY <1>2, <1>3
<1>6. Len(counts.std_cycle) = 1 /\ counts.std_cycle[1] = c  BY <1>4
<1>7. Abs(0) = 0  BY DEF Abs
<1>8. ASSUME NEW j \in 0..1 - 1
      PROVE  /\ Partial(s, rate, j) \in Int
             /\ Partial(s, rate, j + 1) = Partial(s, rate, j) + counts.std_cycle[j + 1]
             /\ counts.std_cycle[j + 1] \in Nat
             /\ counts.std_cycle[j + 1] \in counts.min..counts.max
             /\ Abs(Partial(s, rate, j) * s.frame_rate_numer - rate * j * s.frame_rate_denom)
                  < 2 * s.frame_rate_numer
  <2>1. j = 0 /\ j + 1 = 1  OBVIOUS
  <2>2. rate \in Int  BY <1>2
  <2>3. Partial(s, rate, 0) * s.frame_rate_numer - rate * 0 * s.frame_rate_denom = 0
    BY <1>1, <1>5, <2>2
  <2> QED  BY <1>1, <1>2, <1>4, <1>5, <1>6, <1>7, <2>1, <2>3
<1>9. Partial(s, rate, 1) * s.frame_rate_numer = rate * 1 * s.frame_rate_denom
  BY <1>1, <1>2, <1>5
<1> QED  BY <1>5, <1>6, <1>8, <1>9 DEF Cycle, s, counts

\* With five.
LEMMA Cycle525_48 ==
  ASSUME NEW rate \in SampleRate, rate = 48000
  PROVE  Cycle(dv_system_525_60, rate, 5)
<1> DEFINE s == dv_system_525_60
           counts == audio_frame_counts(s, rate)
<1>0. s # dv_system_625_50  BY TwoSystems
<1>1. s.frame_rate_numer = 30000 /\ s.frame_rate_denom = 1001  BY SMT DEF dv_system_525_60
<1>2. counts = [min |-> 1580, max |-> 1620, std_cycle |-> <<1600, 1602, 1602, 1602, 1602>>]
  BY DEF audio_frame_counts, dv_system_525_60
<1> HIDE DEF s, counts
<1>3. \A j : Partial(s, rate, j) = IF j = 0 THEN 0 ELSE 1602 * j - 2  BY <1>0 DEF Partial
<1>4. Len(counts.std_cycle) = 5 /\ counts.min = 1580 /\ counts.max = 1620  BY <1>2
<1>5. \A j \in 0..4 : counts.std_cycle[j + 1] = IF j = 0 THEN 1600 ELSE 1602
  <2>1. /\ counts.std_cycle[1] = 1600 /\ counts.std_cycle[2] = 1602 /\ counts.std_cycle[3] = 1602
        /\ counts.std_cycle[4] = 1602 /\ counts.std_cycle[5] = 1602
    BY <1>2
  <2> QED  BY <2>1, SMT
<1>6. ASSUME NEW j \in 0..5 - 1
      PROVE  /\ Partial(s, rate, j) \in Int
             /\ Partial(s, rate, j + 1) = Partial(s, rate, j) + counts.std_cycle[j + 1]
             /\ counts.std_cycle[j + 1] \in Nat
             /\ counts.std_cycle[j + 1] \in counts.min..counts.max
             /\ Abs(Partial(s, rate, j) * s.frame_rate_numer - rate * j * s.frame_rate_denom)
                  < 2 * s.frame_rate_numer
  <2> DEFINE p == Partial(s, rate, j)
             e == p * s.frame_rate_numer - rate * j * s.frame_rate_denom
  <2>1. p = IF j = 0 THEN 0 ELSE 1602 * j - 2  BY <1>3
  <2>2. Partial(s, rate, j + 1) = 1602 * (j + 1) - 2  BY <1>3, SMT
  <2>3. counts.std_cycle[j + 1] = IF j = 0 THEN 1600 ELSE 1602  BY <1>5
  <2> HIDE DEF p
  <2>4. e = p * 30000 - 48048000 * j  BY <1>1, <2>1, SMT
  <2> HIDE DEF e
  <2>5. -60000 < e /\ e < 60000 /\ e \in Int  BY <2>1, <2>4, SMT
  <2>6. Abs(e) < 60000  BY <2>5, SMT DEF Abs
  <2>8. p \in Int /\ Partial(s, rate, j + 1) = p + counts.std_cycle[j + 1]
    BY <2>1, <2>2, <2>3, SMT
  <2>9. /\ counts.std_cycle[j + 1] \in Nat
        /\ counts.std_cycle[j + 1] \in counts.min..counts.max
    BY <1>4, <2>3, SMT
  <2>10. Abs(e) < 2 * s.frame_rate_numer  BY <1>1, <2>6, SMT
  <2> QED  BY <2>8, <2>9, <2>10 DEF p, e
<1>7. Partial(s, rate, 5) * s.frame_rate_numer = rate * 5 * s.frame_rate_denom
  BY <1>1, <1>3, SMT
<1>8. Partial(s, rate, 0) = 0  BY <1>3
<1> QED  BY <1>4, <1>6, <1>7, <1>8 DEF Cycle, s, counts

\* With fifteen.
LEMMA Cycle525_32 ==
  ASSUME NEW rate \in SampleRate, rate = 32000
  PROVE  Cycle(dv_system_525_60, rate, 15)
<1> DEFINE s == dv_system_525_60
           counts == audio_frame_counts(s, rate)
<1>0. s # dv_system_625_50  BY TwoSystems
<1>1. s.frame_rate_numer = 30000 /\ s.frame_rate_denom = 1001  BY SMT DEF dv_system_525_60
<1>2. counts = [min |-> 1053, max |-> 1080,
                std_cycle |-> <<1068, 1067, 1068, 1068, 1068, 1067, 1068, 1068, 1068, 1067,
                                1068, 1068, 1068, 1067, 1068>>]
  BY SMT DEF audio_frame_counts, dv_system_525_60
<1> HIDE DEF s, counts
<1>3. \A j : Partial(s, rate, j) = 1068 * j - ((j + 2) \div 4)
  <2>1. rate # 48000  BY SMT
  <2> QED  BY <1>0, <2>1 DEF Partial
<1>4. Len(counts.std_cycle) = 15 /\ counts.min = 1053 /\ counts.max = 1080  BY <1>2
<1>5. \A j \in 0..14 : counts.std_cycle[j + 1] = IF j % 4 = 1 THEN 1067 ELSE 1068
  <2>1. /\ counts.std_cycle[1] = 1068 /\ counts.std_cycle[2] = 1067 /\ counts.std_cycle[3] = 1068
        /\ counts.std_cycle[4] = 1068 /\ counts.std_cycle[5] = 1068 /\ counts.std_cycle[6] = 1067
        /\ counts.std_cycle[7] = 1068 /\ counts.std_cycle[8] = 1068 /\ counts.std_cycle[9] = 1068
        /\ counts.std_cycle[10] = 1067 /\ counts.std_cycle[11] = 1068
        /\ counts.std_cycle[12] = 1068 /\ counts.std_cycle[13] = 1068
        /\ counts.std_cycle[14] = 1067 /\ counts.std_cycle[15] = 1068
    BY <1>2
  <2> QED  BY <2>1, SMT
<1>6. ASSUME NEW j \in 0..15 - 1
      PROVE  /\ Partial(s, rate, j) \in Int
             /\ Partial(s, rate, j + 1) = Partial(s, rate, j) + counts.std_cycle[j + 1]
             /\ counts.std_cycle[j + 1] \in Nat
             /\ counts.std_cycle[j + 1] \in counts.min..counts.max
             /\ Abs(Partial(s, rate, j) * s.frame_rate_numer - rate * j * s.frame_rate_denom)
                  < 2 * s.frame_rate_numer
  <2> DEFINE p == Partial(s, rate, j)
             e == p * s.frame_rate_numer - rate * j * s.frame_rate_denom
  <2>1. p = 1068 * j - ((j + 2) \div 4)  BY <1>3
  <2>2. Partial(s, rate, j + 1) = 1068 * (j + 1) - ((j + 3) \div 4)
    <3>1. Partial(s, rate, j + 1) = 1068 * (j + 1) - ((j + 1 + 2) \div 4)  BY <1>3
    <3>2. j + 1 + 2 = j + 3  OBVIOUS
    <3> QED  BY <3>1, <3>2
  <2>3. counts.std_cycle[j + 1] = IF j % 4 = 1 THEN 1067 ELSE 1068  BY <1>5
  <2> HIDE DEF p
  <2>7. (j + 3) \div 4 = ((j + 2) \div 4) + (IF j % 4 = 1 THEN 1 ELSE 0)  BY SMT
  <2>4. e = p * 30000 - 32032000 * j  BY <1>1, <2>1, SMT
  <2> HIDE DEF e
  <2>5. -60000 < e /\ e < 60000 /\ e \in Int  BY <2>1, <2>4, SMT
  <2>6. Abs(e) < 60000  BY <2>5, SMT DEF Abs
  <2>8. p \in Int /\ Partial(s, rate, j + 1) = p + counts.std_cycle[j + 1]
    BY <2>1, <2>2, <2>3, <2>7, SMT
  <2>9. /\ counts.std_cycle[j + 1] \in Nat
        /\ counts.std_cycle[j + 1] \in counts.min..counts.max
    BY <1>4, <2>3, SMT
  <2>10. Abs(e) < 2 * s.frame_rate_numer  BY <1>1, <2>6, SMT
  <2> QED  BY <2>8, <2>9, <2>10 DEF p, e
<1>7. Partial(s, rate, 15) * s.frame_rate_numer = rate * 15 * s.frame_rate_denom
  BY <1>1, <1>3, SMT
<1>8. Partial(s, rate, 0) = 0  BY <1>3, SMT
<1> QED  BY <1>4, <1>6, <1>7, <1>8 DEF Cycle, s, counts

\* Each video system and rate has its cycle.
LEMMA Cycles ==
  ASSUME NEW system \in System, NEW rate \in SampleRate
  PROVE  \E L : Cycle(system, rate, L)
<1>1. rate = 48000 \/ rate = 32000  BY SMT DEF SampleRate
<1>2. system = dv_system_625_50 \/ system = dv_system_525_60  BY Zenon DEF System
<1>3. CASE system = dv_system_625_50  BY <1>3, Cycle625, Zenon
<1>4. CASE system = dv_system_525_60 /\ rate = 48000
  <2>1. Cycle(system, rate, 5)  BY <1>4, Cycle525_48, SMT
  <2> QED  BY <2>1, Zenon
<1>5. CASE system = dv_system_525_60 /\ rate = 32000
  <2>1. Cycle(system, rate, 15)  BY <1>5, Cycle525_32, SMT
  <2> QED  BY <2>1, Zenon
<1> QED  BY <1>1, <1>2, <1>3, <1>4, <1>5

\* The samples of the frames before one, whole cycles and the rest.
Before(system, rate, L, n) == (n \div L) * Partial(system, rate, L) + Partial(system, rate, n % L)

\* One more frame adds its samples.
LEMMA BeforeStep ==
  ASSUME NEW system, NEW rate, NEW L, Cycle(system, rate, L), NEW n \in Nat
  PROVE  Before(system, rate, L, n + 1) = Before(system, rate, L, n) + silence_count(system, rate, n)
<1> DEFINE q == n \div L
           r == n % L
           P(j) == Partial(system, rate, j)
           cycle == audio_frame_counts(system, rate).std_cycle
<1>1. /\ L \in Nat \ {0} /\ Len(cycle) = L /\ P(0) = 0
      /\ \A j \in 0..L - 1 : P(j) \in Int /\ P(j + 1) = P(j) + cycle[j + 1] /\ cycle[j + 1] \in Nat
  BY Zenon DEF Cycle
<1>2. q \in Nat /\ r \in 0..L - 1 /\ n = L * q + r  BY <1>1, DivMod
<1>3. silence_count(system, rate, n) = cycle[r + 1]  BY <1>1 DEF silence_count
<1>4. P(L) \in Int
  <2>1. L - 1 \in 0..L - 1 /\ (L - 1) + 1 = L  BY <1>1
  <2>2. P((L - 1) + 1) = P(L - 1) + cycle[(L - 1) + 1] /\ P(L - 1) \in Int /\ cycle[(L - 1) + 1] \in Nat
    BY <1>1, <2>1, Zenon
  <2> HIDE DEF P, cycle
  <2> QED  BY <2>1, <2>2
<1>5. P(r + 1) = P(r) + cycle[r + 1] /\ P(r) \in Int /\ cycle[r + 1] \in Int  BY <1>1, <1>2
<1>6. Before(system, rate, L, n) = q * P(L) + P(r)  BY DEF Before
<1>7. q * P(L) \in Int /\ (q + 1) * P(L) = q * P(L) + P(L)
  <2> DEFINE p == P(L)
  <2>1. p \in Int  BY <1>4
  <2> HIDE DEF p, q
  <2>2. q * p \in Int /\ (q + 1) * p = q * p + p  BY <1>2, <2>1, Z3
  <2> QED  BY <2>2 DEF p
<1>8. n + 1 \in Nat  OBVIOUS
<1>9. CASE r + 1 < L
  <2> HIDE DEF P, cycle, q, r
  <2>1. n + 1 = L * q + (r + 1) /\ r + 1 \in 0..L - 1 /\ q \in Int
    <3> DEFINE m == L * q
    <3>1. m \in Int /\ n = m + r  BY <1>1, <1>2
    <3> HIDE DEF m
    <3>2. n + 1 = m + (r + 1) /\ r + 1 \in 0..L - 1  BY <1>1, <1>2, <1>9, <3>1
    <3> QED  BY <1>2, <3>2 DEF m
  <2>2. (n + 1) % L = r + 1 /\ (n + 1) \div L = q
    <3> DEFINE a == n + 1
               b == r + 1
    <3>1. a \in Nat /\ a = L * q + b /\ b \in 0..L - 1 /\ q \in Int /\ L \in Nat \ {0}
      BY <1>1, <1>8, <2>1, Zenon
    <3> HIDE DEF a, b
    <3>2. a % L = b /\ a \div L = q  BY <3>1, ModUnique
    <3> QED  BY <3>2 DEF a, b
  <2>3. Before(system, rate, L, n + 1) = q * P(L) + P(r + 1)  BY <2>2 DEF Before, P
  <2> QED  BY <1>3, <1>5, <1>6, <1>7, <2>3
<1>10. CASE ~(r + 1 < L)
  <2> HIDE DEF P, cycle, q, r
  <2>1. r + 1 = L  BY <1>1, <1>2, <1>10
  <2>2. n + 1 = L * (q + 1) + 0 /\ 0 \in 0..L - 1 /\ q + 1 \in Int
    <3>1. L * (q + 1) = L * q + L /\ L * q \in Int  BY <1>1, <1>2, Z3
    <3> QED  BY <1>1, <1>2, <2>1, <3>1
  <2>3. (n + 1) % L = 0 /\ (n + 1) \div L = q + 1  BY <1>1, <1>8, <2>2, ModUnique
  <2>4. Before(system, rate, L, n + 1) = (q + 1) * P(L) + P(0)  BY <2>3 DEF Before, P
  <2>5. P(r + 1) = P(L)  BY <2>1
  <2> QED  BY <1>1, <1>3, <1>4, <1>5, <1>6, <1>7, <2>4, <2>5
<1> QED  BY <1>9, <1>10

\* Before the first frame there are none.
LEMMA BeforeNone ==
  ASSUME NEW system, NEW rate, NEW L, Cycle(system, rate, L)
  PROVE  Before(system, rate, L, 0) = 0
<1> DEFINE p == Partial(system, rate, L)
<1>1. L \in Nat \ {0} /\ Partial(system, rate, 0) = 0  BY DEF Cycle
<1>2. 0 = L * 0 + 0 /\ 0 \in 0..L - 1  BY <1>1
<1>3. 0 % L = 0 /\ 0 \div L = 0  BY <1>1, <1>2, ModUnique
<1>4. p \in Int
  <2> DEFINE counts == audio_frame_counts(system, rate)
  <2>1. L - 1 \in 0..L - 1 /\ (L - 1) + 1 = L  BY <1>1
  <2>2. /\ Partial(system, rate, (L - 1) + 1) = Partial(system, rate, L - 1) + counts.std_cycle[(L - 1) + 1]
        /\ Partial(system, rate, L - 1) \in Int /\ counts.std_cycle[(L - 1) + 1] \in Nat
    BY <2>1, Zenon DEF Cycle
  <2> HIDE DEF counts
  <2> QED  BY <2>1, <2>2
<1>5. Before(system, rate, L, 0) = 0 * p + 0  BY <1>1, <1>3 DEF Before
<1> HIDE DEF p
<1> QED  BY <1>4, <1>5

\* A sum as SilenceBefore defines it.
IsSum(sum, system, rate, serial_num) ==
  sum = [k \in 0..serial_num |->
           IF k = 0 THEN 0 ELSE sum[k - 1] + silence_count(system, rate, k - 1)]

\* There is one, and it has the samples of the frames before each.
LEMMA SilenceIs ==
  ASSUME NEW system, NEW rate, NEW L, Cycle(system, rate, L), NEW serial_num \in Nat
  PROVE  SilenceBefore(system, rate, serial_num) = Before(system, rate, L, serial_num)
<1> DEFINE B(k) == Before(system, rate, L, k)
           f    == [k \in 0..serial_num |-> B(k)]
           sum  == CHOOSE g : IsSum(g, system, rate, serial_num)
           c(k) == silence_count(system, rate, k)
<1>0. B(0) = 0 /\ \A k \in Nat : B(k + 1) = B(k) + c(k)  BY BeforeNone, BeforeStep
<1> HIDE DEF B, c
<1>1. IsSum(f, system, rate, serial_num)
  <2>1. ASSUME NEW k \in 0..serial_num
        PROVE  f[k] = IF k = 0 THEN 0 ELSE f[k - 1] + c(k - 1)
    <3>1. CASE k = 0  BY <1>0, <3>1
    <3>2. CASE k # 0
      <4>1. k - 1 \in Nat /\ k - 1 \in 0..serial_num /\ (k - 1) + 1 = k  BY <3>2
      <4>2. f[k - 1] = B(k - 1) /\ f[k] = B(k)  BY <4>1
      <4>3. B((k - 1) + 1) = B(k - 1) + c(k - 1)  BY <1>0, <4>1
      <4> HIDE DEF f
      <4> QED  BY <3>2, <4>1, <4>2, <4>3
    <3> QED  BY <3>1, <3>2
  <2> QED  BY <2>1, Zenon DEF IsSum, c
<1>2. IsSum(sum, system, rate, serial_num)  BY <1>1, Zenon
<1>3. SilenceBefore(system, rate, serial_num) = sum[serial_num]  BY DEF SilenceBefore, IsSum
<1> HIDE DEF sum, f
<1>4. ASSUME NEW k \in 0..serial_num
      PROVE  sum[k] = IF k = 0 THEN 0 ELSE sum[k - 1] + c(k - 1)
  BY <1>2, Zenon DEF IsSum, c
<1> DEFINE T == {k \in 0..serial_num : sum[k] # B(k)}
<1>5. T = {}
  <2> SUFFICES ASSUME T # {} PROVE FALSE  OBVIOUS
  <2>1. T \subseteq Nat  OBVIOUS
  <2>2. PICK k \in T : \A y \in T : k <= y  BY <2>1, LeastNumber
  <2>3. k \in 0..serial_num /\ sum[k] # B(k)  BY <2>2
  <2>4. k # 0  BY <1>0, <1>4, <2>3
  <2>5. k - 1 \in Nat /\ k - 1 \in 0..serial_num /\ (k - 1) + 1 = k /\ ~(k <= k - 1)  BY <2>3, <2>4
  <2>6. sum[k - 1] = B(k - 1)  BY <2>2, <2>5
  <2>7. B(k) = B(k - 1) + c(k - 1)
    <3>1. B((k - 1) + 1) = B(k - 1) + c(k - 1)  BY <1>0, <2>5
    <3> QED  BY <2>5, <3>1
  <2> QED  BY <1>4, <2>3, <2>4, <2>6, <2>7
<1>6. sum[serial_num] = B(serial_num)  BY <1>5
<1> QED  BY <1>3, <1>6 DEF B

\* Silence is in step with the video at every frame that the mixer ever numbers, and is read as
\* zeros.
THEOREM SilenceKeepsStep ==
  ASSUME NEW system \in System, NEW rate \in SampleRate, NEW serial_num \in Nat
  PROVE  SilenceInStep(system, rate, serial_num)
<1> DEFINE counts == audio_frame_counts(system, rate)
           count  == silence_count(system, rate, serial_num)
           numer  == system.frame_rate_numer
           denom  == system.frame_rate_denom
<1>1. PICK L : Cycle(system, rate, L)  BY Cycles
<1> DEFINE q == serial_num \div L
           r == serial_num % L
           P(j) == Partial(system, rate, j)
           error == SilenceBefore(system, rate, serial_num) * numer - rate * serial_num * denom
           part  == P(r) * numer - rate * r * denom
<1>2. /\ L \in Nat \ {0} /\ Len(counts.std_cycle) = L /\ P(0) = 0
      /\ P(L) * numer = rate * L * denom
      /\ \A j \in 0..L - 1 : /\ P(j) \in Int /\ P(j + 1) = P(j) + counts.std_cycle[j + 1]
                             /\ counts.std_cycle[j + 1] \in counts.min..counts.max
                             /\ Abs(P(j) * numer - rate * j * denom) < 2 * numer
  BY <1>1 DEF Cycle
<1>3. q \in Nat /\ r \in 0..L - 1 /\ serial_num = L * q + r  BY <1>2, DivMod
<1>4. P(L) \in Int /\ P(r) \in Int
  <2>1. L - 1 \in 0..L - 1 /\ (L - 1) + 1 = L  BY <1>2
  <2>2. P((L - 1) + 1) = P(L - 1) + counts.std_cycle[(L - 1) + 1] /\ P(L - 1) \in Int
        /\ counts.std_cycle[(L - 1) + 1] \in Int
    BY <1>2, <2>1
  <2>3. P(r) \in Int  BY <1>2, <1>3
  <2> HIDE DEF P, counts
  <2> QED  BY <2>1, <2>2, <2>3
<1>5. numer \in Nat /\ denom \in Nat /\ rate \in Nat
  <2>1. numer \in Nat /\ denom \in Nat
    <3>1. CASE system = dv_system_625_50  BY <3>1, SMT DEF dv_system_625_50
    <3>2. CASE system = dv_system_525_60  BY <3>2, SMT DEF dv_system_525_60
    <3> QED  BY <3>1, <3>2, Zenon DEF System
  <2>2. rate \in Nat  BY SMT DEF SampleRate
  <2> QED  BY <2>1, <2>2
<1>6. SilenceBefore(system, rate, serial_num) = q * P(L) + P(r)
  BY <1>1, SilenceIs DEF Before
<1>7. error = part
  <2> DEFINE total == P(L)
             rest  == P(r)
             s     == SilenceBefore(system, rate, serial_num)
  <2>1. s = q * total + rest /\ total \in Int /\ rest \in Int /\ total * numer = rate * L * denom
    BY <1>2, <1>4, <1>6
  <2>2. error = s * numer - rate * serial_num * denom /\ part = rest * numer - rate * r * denom
    OBVIOUS
  <2> HIDE DEF s, total, rest, numer, denom, q, r, error, part
  <2>3. r \in Int  BY <1>2, <1>3
  <2>4. s * numer = q * (total * numer) + rest * numer  BY <1>3, <1>5, <2>1, Z3
  <2>5. rate * serial_num * denom = q * (rate * L * denom) + rate * r * denom
    <3>1. rate * serial_num * denom = rate * (L * q + r) * denom  BY <1>3
    <3>2. rate * (L * q + r) * denom = q * (rate * L * denom) + rate * r * denom
      BY <1>2, <1>3, <1>5, <2>3, Z3
    <3> QED  BY <3>1, <3>2
  <2> DEFINE x == q * (total * numer)
             y == rest * numer
             z == rate * r * denom
  <2>6. x \in Int /\ y \in Int /\ z \in Int  BY <1>2, <1>3, <1>5, <2>1, <2>3, Z3
  <2>7. s * numer = x + y /\ rate * serial_num * denom = x + z /\ part = y - z
    BY <2>1, <2>2, <2>4, <2>5
  <2> HIDE DEF x, y, z
  <2> QED  BY <2>2, <2>6, <2>7
<1>8. Abs(part) < 2 * numer  BY <1>2, <1>3
<1>9. ASSUME r = 0 PROVE part = 0
  <2>1. P(r) = 0  BY <1>2, <1>9
  <2> DEFINE p == P(r)
  <2> HIDE DEF p, numer, denom, r
  <2>2. p = 0  BY <2>1 DEF p
  <2>3. p * numer = 0 /\ rate * r * denom = 0  BY <1>5, <1>9, <2>2, Z3
  <2> QED  BY <2>3 DEF p
<1>10. count \in counts.min..counts.max
  <2>1. count = counts.std_cycle[r + 1]  BY <1>2 DEF silence_count
  <2> QED  BY <1>2, <1>3, <2>1
<1>11. dv_buffer_get_audio(system, Readable(dv_buffer_silence_audio(system, rate, serial_num)))
         = {<<pos, 0>> : pos \in 0..2 * count - 1}
  <2> DEFINE nothing == <<>>
  <2>1. ~Audible(nothing)  BY DEF Audible
  <2> HIDE DEF nothing, counts, count
  <2>2. dv_buffer_get_audio(system, Readable(dv_buffer_set_audio(system, rate, count, nothing)))
          = Zeros(2 * count)
    BY <1>10, <2>1, SilenceRead DEF counts
  <2> QED  BY <2>2 DEF Zeros, dv_buffer_silence_audio, nothing, count
<1> HIDE DEF part
<1>12. (serial_num % L = 0 => error = 0) /\ Abs(error) < 2 * numer
  BY <1>7, <1>8, <1>9
<1> HIDE DEF error
<1>13. /\ serial_num % Len(counts.std_cycle) = 0 => error = 0
       /\ Abs(error) < 2 * numer
  BY <1>2, <1>12
<1> QED  BY <1>11, <1>13 DEF SilenceInStep, error

\* The sound of the run is one that 12 bits hold exactly.
LEMMA SmallSamples ==
  ASSUME NEW frame_count \in Nat \ {0}
  PROVE  SmallSound(Sound(frame_count), frame_count)
<1>1. DOMAIN Sound(frame_count) = Places(frame_count)  BY DEF Sound, Places
<1>2. ASSUME NEW pos \in Places(frame_count) PROVE Sound(frame_count)[pos] \in SmallSample
  <2>1. pos \in Nat  BY DEF Places, PCM_CHANNELS
  <2>2. pos % 1023 \in 0..1022  BY <2>1, SMT
  <2>3. Sound(frame_count)[pos] = (pos % 1023) - 511  BY DEF Sound, Places
  <2> QED  BY <2>2, <2>3, SMT DEF SmallSample
<1> QED  BY <1>1, <1>2 DEF SmallSound

\* Any sound that 12 bits hold exactly is kept at either rate, in the frame it is set in and in
\* any that it is dubbed to; the sound of the run is one.
LEMMA SoundIsKept ==
  ASSUME NEW system \in System, NEW rate \in SampleRate,
         NEW frame_count \in audio_frame_counts(system, rate).min..audio_frame_counts(system, rate).max
  PROVE  SoundKept(system, rate, frame_count)
<1> DEFINE audio == Readable(dv_buffer_set_audio(system, rate, frame_count, Sound(frame_count)))
           other == dv_buffer_silence_audio(system, 48000, 0)
           samples == Sound(frame_count)
<1>1. frame_count \in Nat \ {0}
  <2> DEFINE a == Readable(dv_buffer_set_audio(system, rate, frame_count, samples))
  <2> HIDE DEF samples
  <2> QED  BY SetIsRead
<1>2. SmallSound(samples, frame_count)  BY <1>1, SmallSamples
<1>3. dv_buffer_get_audio(system, audio) = PairsOf(samples)
  <2> HIDE DEF samples
  <2>1. dv_buffer_get_audio(system, Readable(dv_buffer_set_audio(system, rate, frame_count, samples)))
          = PairsOf(samples)
    BY <1>2, SmallSoundKept
  <2> QED  BY <2>1 DEF samples
<1>4. dv_buffer_get_audio(system, dv_buffer_dub_audio(system, other, audio))
        = dv_buffer_get_audio(system, audio)
  BY DubKept DEF dv_buffer_silence_audio
<1> QED  BY <1>3, <1>4 DEF SoundKept

\* The frame counts of the run are ones that a frame may have.
LEMMA CountsWithin ==
  ASSUME NEW system \in System, NEW rate \in SampleRate, NEW frame_count \in Counts(system, rate)
  PROVE  frame_count \in audio_frame_counts(system, rate).min..audio_frame_counts(system, rate).max
<1> DEFINE counts == audio_frame_counts(system, rate)
<1>1. frame_count = counts.min \/ frame_count = counts.max \/ frame_count = counts.std_cycle[1]
  BY DEF Counts
<1>2. counts.std_cycle[1] \in counts.min..counts.max
  <2>1. PICK L : Cycle(system, rate, L)  BY Cycles
  <2>2. /\ L \in Nat \ {0}
        /\ \A j \in 0..L - 1 : counts.std_cycle[j + 1] \in counts.min..counts.max
    BY <2>1, Zenon DEF Cycle
  <2>3. 0 \in 0..L - 1 /\ 0 + 1 = 1  BY <2>2
  <2>4. counts.std_cycle[0 + 1] \in counts.min..counts.max  BY <2>2, <2>3, Zenon
  <2> HIDE DEF counts
  <2> QED  BY <2>3, <2>4
<1>3. counts.min \in Nat /\ counts.max \in Nat
  <2>1. counts = system.at48k \/ counts = system.at32k  BY DEF audio_frame_counts
  <2> QED  BY <2>1, Layouts DEF Layout
<1>4. counts.min <= counts.max
  <2>1. Layout(system) /\ system.seq_count \in {10, 12}  BY Layouts DEF Layout
  <2> HIDE DEF counts
  <2> DEFINE x == counts.std_cycle[1]
  <2>2. x \in Int /\ counts.min <= x /\ x <= counts.max  BY <1>2, <1>3
  <2> QED  BY <1>3, <2>2
<1> HIDE DEF counts
<1> QED  BY <1>1, <1>2, <1>3, <1>4 DEF counts
--------------------------------------------------------------------------------
\* Displays.

\* The active regions, as displayed.
LEMMA Regions ==
  ASSUME NEW region \in DisplayRegion
  PROVE  /\ \/ region.left = 9 /\ region.right = 711 /\ region.bottom = 576
            \/ region.left = 4 /\ region.right = 716 /\ region.bottom = 480
         /\ region.top = 0
         /\ \/ region.left = 9 /\ region.pixel_width = 59 /\ region.pixel_height = 54
            \/ region.left = 9 /\ region.pixel_width = 118 /\ region.pixel_height = 81
            \/ region.left = 4 /\ region.pixel_width = 10 /\ region.pixel_height = 11
            \/ region.left = 4 /\ region.pixel_width = 40 /\ region.pixel_height = 33
<1>1. \A rect, w, h : /\ Region(rect, w, h).left = rect.left /\ Region(rect, w, h).right = rect.right
                      /\ Region(rect, w, h).top = rect.top /\ Region(rect, w, h).bottom = rect.bottom
                      /\ Region(rect, w, h).pixel_width = w /\ Region(rect, w, h).pixel_height = h
  BY DEF Region
<1>2. /\ active_region_625_50.left = 9 /\ active_region_625_50.top = 0
      /\ active_region_625_50.right = 711 /\ active_region_625_50.bottom = 576
      /\ active_region_525_60.left = 4 /\ active_region_525_60.top = 0
      /\ active_region_525_60.right = 716 /\ active_region_525_60.bottom = 480
  BY DEF active_region_625_50, active_region_525_60
<1> QED  BY <1>1, <1>2, SMT DEF DisplayRegion

\* One direction of a selection lies in the region.
LEMMA SpanWithin ==
  ASSUME NEW low \in Int, NEW high \in Int, NEW start \in low..high - 1, NEW point \in Int,
         NEW other_size \in Nat \ {0}, NEW scale \in Nat,
         scale <= Extent(start, point, low, high, other_size).most
  PROVE  LET q    == Quot(scale, other_size)
             span == Span(Extent(start, point, low, high, other_size), q)
         IN  /\ q \in Nat /\ other_size * q <= scale /\ scale < other_size * q + other_size
             /\ span.from \in Int /\ span.to \in Int
             /\ low <= span.from /\ span.to <= high /\ span.to <= span.from + q /\ span.from + q <= span.to
<1> DEFINE q    == Quot(scale, other_size)
           e    == Extent(start, point, low, high, other_size)
           span == Span(e, q)
<1>1. q = scale \div other_size  BY DEF Quot
<1>2. q \in Nat /\ other_size * q <= scale /\ scale < other_size * q + other_size
  BY <1>1, Quotient
<1> HIDE DEF q
<1>3. CASE point < start
  <2>1. e.hold = start + 1 /\ e.dir = -1 /\ e.most = (start + 1 - low) * other_size
    BY <1>3 DEF Extent
  <2>0. scale <= e.most /\ e.dir < 0  BY <2>1
  <2> HIDE DEF e
  <2>2. span.from = start + 1 - q /\ span.to = start + 1
    <3>1. span = [from |-> e.hold - q, to |-> e.hold]  BY <2>0 DEF Span
    <3> HIDE DEF span
    <3>2. span.from = e.hold - q /\ span.to = e.hold  BY <3>1
    <3>3. e.hold = start + 1  BY <2>1
    <3> QED  BY <1>2, <3>2, <3>3
  <2>3. (start + 1 - low) * other_size = other_size * (start + 1 - low)  BY Z3
  <2>4. other_size * q <= other_size * (start + 1 - low)
    <3>1. scale <= other_size * (start + 1 - low)  BY <2>0, <2>1, <2>3
    <3>2. other_size * q \in Int /\ other_size * (start + 1 - low) \in Int  BY <1>2
    <3> QED  BY <1>2, <3>1, <3>2
  <2>5. q <= start + 1 - low  BY <1>2, <2>4, Cancel
  <2> QED  BY <1>2, <2>2, <2>5 DEF q, e
<1>4. CASE ~(point < start)
  <2>1. e.hold = start /\ e.dir = 1 /\ e.most = (high - start) * other_size
    BY <1>4 DEF Extent
  <2>0. scale <= e.most  OBVIOUS
  <2> HIDE DEF e
  <2>2. span.from = start /\ span.to = start + q
    BY <2>1 DEF Span
  <2>3. (high - start) * other_size = other_size * (high - start)  BY Z3
  <2>4. other_size * q <= other_size * (high - start)
    <3>1. scale <= other_size * (high - start)  BY <2>0, <2>1, <2>3
    <3>2. other_size * q \in Int /\ other_size * (high - start) \in Int  BY <1>2
    <3> QED  BY <1>2, <3>1, <3>2
  <2>5. q <= high - start  BY <1>2, <2>4, Cancel
  <2> QED  BY <1>2, <2>2, <2>5 DEF q, e
<1> QED  BY <1>3, <1>4

\* The extents of a selection are natural numbers.
LEMMA ExtentType ==
  ASSUME NEW low \in Int, NEW high \in Int, NEW start \in low..high - 1, NEW point \in Int,
         NEW other_size \in Nat \ {0}
  PROVE  LET e == Extent(start, point, low, high, other_size)
         IN  e.scale \in Nat /\ e.most \in Nat
<1>1. CASE point < start
  <2>1. start + 1 - point \in Nat /\ start + 1 - low \in Nat  BY <1>1
  <2>2. (start + 1 - point) * other_size \in Nat /\ (start + 1 - low) * other_size \in Nat
    BY <2>1, Z3
  <2> QED  BY <1>1, <2>2 DEF Extent
<1>2. CASE ~(point < start)
  <2>1. point + 1 - start \in Nat /\ high - start \in Nat  BY <1>2
  <2>2. (point + 1 - start) * other_size \in Nat /\ (high - start) * other_size \in Nat
    BY <2>1, Z3
  <2> QED  BY <1>2, <2>2 DEF Extent
<1> QED  BY <1>1, <1>2

\* A region that is wider than it is high, and a start of the selection in it.
LEMMA SelectionWithin ==
  ASSUME NEW region,
         region.left \in Int, region.right \in Int, region.top \in Int, region.bottom \in Int,
         HeightOf(region) \in Nat \ {0}, WidthOf(region) \in Nat \ {0},
         HeightOf(region) <= WidthOf(region),
         NEW start \in Points(region), NEW point \in Int \X Int
  PROVE  LET selection == update_selection(region, start, point)
         IN  /\ selection.left \in Int /\ selection.right \in Int
             /\ selection.top \in Int /\ selection.bottom \in Int
             /\ Within(selection, region) /\ InAspect(selection, region)
<1> DEFINE W     == WidthOf(region)
           H     == HeightOf(region)
           h     == Extent(start[1], point[1], region.left, region.right, H)
           v     == Extent(start[2], point[2], region.top, region.bottom, W)
           scale == Least(Greatest(h.scale, v.scale), Least(h.most, v.most))
           w     == Quot(scale, H)
           t     == Quot(scale, W)
           x     == Span(h, w)
           y     == Span(v, t)
           selection == update_selection(region, start, point)
<1>1. /\ start[1] \in region.left..region.right - 1 /\ start[2] \in region.top..region.bottom - 1
      /\ point[1] \in Int /\ point[2] \in Int
  BY DEF Points
<1>2. selection = [left |-> x.from, right |-> x.to, top |-> y.from, bottom |-> y.to]
  BY DEF update_selection
<1>3. W \in Nat \ {0} /\ H \in Nat \ {0} /\ H <= W  OBVIOUS
<1> HIDE DEF W, H
<1>4. h.scale \in Nat /\ h.most \in Nat /\ v.scale \in Nat /\ v.most \in Nat
  BY <1>1, <1>3, ExtentType
<1>5. scale \in Nat /\ scale <= h.most /\ scale <= v.most
  BY <1>4 DEF Least, Greatest
<1> HIDE DEF scale
<1> DEFINE s1 == start[1]   s2 == start[2]   p1 == point[1]   p2 == point[2]
           left == region.left   right == region.right
           top == region.top     bottom == region.bottom
<1> HIDE DEF s1, s2, p1, p2, left, right, top, bottom
<1>a. /\ h = Extent(s1, p1, left, right, H) /\ v = Extent(s2, p2, top, bottom, W)
      /\ s1 \in left..right - 1 /\ s2 \in top..bottom - 1 /\ p1 \in Int /\ p2 \in Int
      /\ left \in Int /\ right \in Int /\ top \in Int /\ bottom \in Int
  BY <1>1 DEF s1, s2, p1, p2, left, right, top, bottom
<1> HIDE DEF h, v
<1>6. /\ w \in Nat /\ H * w <= scale /\ scale < H * w + H
      /\ x.from \in Int /\ x.to \in Int
      /\ left <= x.from /\ x.to <= right /\ x.to = x.from + w
  <2>1. scale <= Extent(s1, p1, left, right, H).most  BY <1>5, <1>a
  <2> DEFINE e == Extent(s1, p1, left, right, H)
  <2>2. w \in Nat /\ H * w <= scale /\ scale < H * w + H
    BY <1>3, <1>5, <1>a, <2>1, SpanWithin, Zenon
  <2>3. Span(e, w).from \in Int /\ Span(e, w).to \in Int
    BY <1>3, <1>5, <1>a, <2>1, SpanWithin, Zenon
  <2>4. left <= Span(e, w).from /\ Span(e, w).to <= right
    BY <1>3, <1>5, <1>a, <2>1, SpanWithin, Zenon
  <2>5. Span(e, w).to = Span(e, w).from + w
    <3>1. Span(e, w).to <= Span(e, w).from + w /\ Span(e, w).from + w <= Span(e, w).to
      BY <1>3, <1>5, <1>a, <2>1, SpanWithin, Zenon
    <3> QED  BY <2>2, <2>3, <3>1
  <2> HIDE DEF e
  <2>6. h = e  BY <1>a DEF e
  <2> QED  BY <2>2, <2>3, <2>4, <2>5, <2>6, Zenon
<1>7. /\ t \in Nat /\ W * t <= scale /\ scale < W * t + W
      /\ y.from \in Int /\ y.to \in Int
      /\ top <= y.from /\ y.to <= bottom /\ y.to = y.from + t
  <2>1. scale <= Extent(s2, p2, top, bottom, W).most  BY <1>5, <1>a
  <2> DEFINE e == Extent(s2, p2, top, bottom, W)
  <2>2. t \in Nat /\ W * t <= scale /\ scale < W * t + W
    BY <1>3, <1>5, <1>a, <2>1, SpanWithin, Zenon
  <2>3. Span(e, t).from \in Int /\ Span(e, t).to \in Int
    BY <1>3, <1>5, <1>a, <2>1, SpanWithin, Zenon
  <2>4. top <= Span(e, t).from /\ Span(e, t).to <= bottom
    BY <1>3, <1>5, <1>a, <2>1, SpanWithin, Zenon
  <2>5. Span(e, t).to = Span(e, t).from + t
    <3>1. Span(e, t).to <= Span(e, t).from + t /\ Span(e, t).from + t <= Span(e, t).to
      BY <1>3, <1>5, <1>a, <2>1, SpanWithin, Zenon
    <3> QED  BY <2>2, <2>3, <3>1
  <2> HIDE DEF e
  <2>6. v = e  BY <1>a DEF e
  <2> QED  BY <2>2, <2>3, <2>4, <2>5, <2>6, Zenon
<1> HIDE DEF w, t, x, y
<1>8. /\ selection.left = x.from /\ selection.right = x.to
      /\ selection.top = y.from /\ selection.bottom = y.to
  BY <1>2
<1> HIDE DEF selection
<1>9. Within(selection, region)
  BY <1>6, <1>7, <1>8 DEF Within, Proper, left, right, top, bottom
<1>10. InAspect(selection, region)
  <2>1. WidthOf(selection) = w /\ HeightOf(selection) = t
    BY <1>6, <1>7, <1>8 DEF WidthOf, HeightOf
  <2>2. w * H = H * w /\ t * W = W * t /\ H * w \in Int /\ W * t \in Int
    BY <1>3, <1>6, <1>7, Z3
  <2>3. Abs(w * H - t * W) < W  BY <1>3, <1>5, <1>6, <1>7, <2>2 DEF Abs
  <2> QED  BY <2>1, <2>3 DEF InAspect, W, H
<1> QED  BY <1>6, <1>7, <1>8, <1>9, <1>10 DEF selection

\* Rounding to whole chroma pixels keeps order.
LEMMA RoundKeeps ==
  ASSUME NEW s \in {0, 1, 2}, NEW a \in Nat, NEW b \in Nat, a <= b
  PROVE  /\ RoundDown(a, s) \in 0..a
         /\ RoundDown(a, s) <= RoundDown(b, s)
<1>1. CASE s = 0  BY <1>1, 2^0 = 1, SMT DEF RoundDown
<1>2. CASE s = 1  BY <1>2, 2^1 = 2, SMT DEF RoundDown
<1>3. CASE s = 2  BY <1>3, 2^2 = 4, SMT DEF RoundDown
<1> QED  BY <1>1, <1>2, <1>3

\* What is empty or within a region can be inserted in a picture of it.
LEMMA WithinInsertable ==
  ASSUME NEW region \in DisplayRegion, NEW selection,
         selection.left \in Nat, selection.right \in 0..720,
         selection.top \in Nat, selection.bottom \in 0..region.bottom,
         Proper(selection),
         rectangle_is_empty(selection) \/ Within(selection, region)
  PROVE  Insertable(selection, region)
<1> DEFINE height == region.bottom
           shift  == IF height = 576 THEN Yuv420 ELSE Yuv411
           h      == shift.horiz
           v      == shift.vert
           picture == [left |-> region.left, top |-> region.top,
                       right |-> region.right, bottom |-> region.bottom]
           d      == Rounded(selection, shift)
           s      == Rounded(picture, shift)
<1>1. /\ height = 576 => h = 1 /\ v = 1
      /\ height # 576 => h = 2 /\ v = 0
  BY DEF Yuv420, Yuv411
<1>2. /\ \/ region.left = 9 /\ region.right = 711 /\ height = 576
         \/ region.left = 4 /\ region.right = 716 /\ height = 480
      /\ region.top = 0
  BY Regions
<1>3. h \in {0, 1, 2} /\ v \in {0, 1, 2} /\ height \in Nat  BY <1>1, <1>2
<1>4. /\ d.left = RoundDown(selection.left, h) /\ d.right = RoundDown(selection.right, h)
      /\ d.top = RoundDown(selection.top, v) /\ d.bottom = RoundDown(selection.bottom, v)
      /\ s.left = RoundDown(region.left, h) /\ s.right = RoundDown(region.right, h)
      /\ s.top = RoundDown(region.top, v) /\ s.bottom = RoundDown(height, v)
  BY DEF Rounded
<1>5. Insertable(selection, region) = RectanglesFit(d, height, s, height, 720)
  BY DEF Insertable
<1> HIDE DEF height, h, v, d, s, shift
<1>6. /\ s.left >= 0 /\ s.left < s.right /\ s.right <= 720
      /\ s.top = 0 /\ s.top < s.bottom /\ s.bottom <= height
      /\ s.left \in Int /\ s.right \in Int /\ s.bottom \in Int
  <2>1. CASE height = 576
    <3>1. h = 1 /\ v = 1 /\ region.left = 9 /\ region.right = 711 /\ region.top = 0
      BY <1>1, <1>2, <2>1
    <3>2. s.left = 8 /\ s.right = 710 /\ s.top = 0 /\ s.bottom = 576
      BY <1>4, <2>1, <3>1, 2^1 = 2, SMT DEF RoundDown
    <3> QED  BY <2>1, <3>2
  <2>2. CASE height # 576
    <3>1. h = 2 /\ v = 0 /\ region.left = 4 /\ region.right = 716 /\ region.top = 0 /\ height = 480
      BY <1>1, <1>2, <2>2
    <3>2. s.left = 4 /\ s.right = 716 /\ s.top = 0 /\ s.bottom = 480
      BY <1>4, <3>1, 2^2 = 4, 2^0 = 1, SMT DEF RoundDown
    <3> QED  BY <3>1, <3>2
  <2> QED  BY <2>1, <2>2
<1>7. /\ selection.left <= selection.right /\ selection.top <= selection.bottom
      /\ selection.bottom \in Nat /\ selection.right \in Nat /\ selection.right <= 720
      /\ selection.bottom <= height
  BY <1>3, SMTT(30) DEF Proper, height
<1>8. /\ d.left \in Nat /\ d.left <= d.right /\ d.right \in 0..selection.right
      /\ d.top \in Nat /\ d.top <= d.bottom /\ d.bottom \in 0..selection.bottom
  BY <1>3, <1>4, <1>7, RoundKeeps
<1>9. rectangle_is_empty(d) \/ /\ d.right - d.left <= s.right - s.left
                               /\ d.bottom - d.top <= s.bottom - s.top
  <2>1. CASE rectangle_is_empty(selection)
    BY <1>4, <2>1 DEF rectangle_is_empty
  <2>2. CASE Within(selection, region)
    <3>1. /\ region.left <= selection.left /\ selection.right <= region.right
          /\ region.top <= selection.top /\ selection.bottom <= height
      BY <2>2 DEF Within, height
    <3>2. region.left \in Nat /\ region.right \in Nat /\ region.top \in Nat  BY <1>2
    <3>3. s.left <= d.left /\ d.right <= s.right /\ s.top <= d.top /\ d.bottom <= s.bottom
      BY <1>3, <1>4, <1>7, <3>1, <3>2, RoundKeeps
    <3> QED  BY <1>6, <1>8, <3>3
  <2> QED  BY <2>1, <2>2
<1>10. RectanglesFit(d, height, s, height, 720)
  BY <1>3, <1>6, <1>7, <1>8, <1>9 DEF RectanglesFit
<1> QED  BY <1>5, <1>10

\* A selection within its region fits there, and what is left of it fits elsewhere.
LEMMA WithinFits ==
  ASSUME NEW region \in DisplayRegion, NEW selection,
         selection.left \in Int, selection.right \in Int,
         selection.top \in Int, selection.bottom \in Int,
         Within(selection, region), InAspect(selection, region)
  PROVE  SelectionFits(selection, region)
<1>1. /\ selection.left \in Nat /\ selection.right \in 0..720
      /\ selection.top \in Nat /\ selection.bottom \in 0..region.bottom
      /\ Proper(selection)
  <2>1. /\ selection.left <= selection.right /\ selection.top <= selection.bottom
        /\ selection.left >= region.left /\ selection.right <= region.right
        /\ selection.top >= region.top /\ selection.bottom <= region.bottom
    BY DEF Within, Proper
  <2>2. region.left \in 0..9 /\ region.right \in 0..716 /\ region.top = 0 /\ region.bottom \in Nat
    BY Regions
  <2>3. region.left >= 0 /\ region.left \in Int /\ region.right <= 720 /\ region.right \in Int
    BY <2>2
  <2>4. selection.left \in Nat /\ selection.right \in 0..720  BY <2>1, <2>3, SMTT(30)
  <2>5. selection.top \in Nat /\ selection.bottom \in 0..region.bottom  BY <2>1, <2>2
  <2>6. Proper(selection)  BY DEF Within
  <2> QED  BY <2>4, <2>5, <2>6
<1>2. Insertable(selection, region)  BY <1>1, WithinInsertable
<1>3. ASSUME NEW other \in DisplayRegion
      PROVE  LET clipped == put_frame_buffer(other, selection)
             IN  /\ Proper(clipped) /\ Insertable(clipped, other)
                 /\ rectangle_is_empty(clipped) \/ Within(clipped, other)
  <2> DEFINE clipped == put_frame_buffer(other, selection)
             right   == Least(selection.right, other.right)
             bottom  == Least(selection.bottom, other.bottom)
             left    == Least(Greatest(selection.left, other.left), right)
             top     == Least(Greatest(selection.top, other.top), bottom)
  <2>1. clipped.left = left /\ clipped.right = right /\ clipped.top = top /\ clipped.bottom = bottom
    BY DEF put_frame_buffer, rectangle_clip
  <2>2. other.left \in Nat /\ other.right \in 0..720 /\ other.top \in Nat /\ other.bottom \in Nat
    BY Regions
  <2>3. /\ right \in 0..720 /\ right <= other.right
        /\ bottom \in 0..other.bottom
        /\ left \in Nat /\ left <= right /\ (left = right \/ left >= other.left)
        /\ top \in Nat /\ top <= bottom /\ (top = bottom \/ top >= other.top)
    <3>1. right \in 0..720 /\ right <= other.right
      <4>1. CASE right = selection.right
        <5>1. selection.right <= other.right  BY <1>1, <2>2, <4>1 DEF Least
        <5> QED  BY <1>1, <4>1, <5>1
      <4>2. CASE right = other.right  BY <2>2, <4>2
      <4> QED  BY <4>1, <4>2 DEF Least
    <3>2. bottom \in 0..other.bottom  BY <1>1, <2>2 DEF Least
    <3> HIDE DEF right, bottom
    <3>3. left \in Nat /\ left <= right /\ (left = right \/ left >= other.left)
      BY <1>1, <2>2, <3>1 DEF Least, Greatest
    <3>4. top \in Nat /\ top <= bottom /\ (top = bottom \/ top >= other.top)
      BY <1>1, <2>2, <3>2 DEF Least, Greatest
    <3> QED  BY <3>1, <3>2, <3>3, <3>4
  <2> HIDE DEF clipped, right, bottom, left, top
  <2>4. Proper(clipped)  BY <2>1, <2>3 DEF Proper
  <2>5. rectangle_is_empty(clipped) \/ Within(clipped, other)
    BY <2>1, <2>2, <2>3, <2>4 DEF rectangle_is_empty, Within
  <2>6. Insertable(clipped, other)
    <3>1. /\ clipped.left \in Nat /\ clipped.right \in 0..720
          /\ clipped.top \in Nat /\ clipped.bottom \in 0..other.bottom
      BY <2>1, <2>3
    <3> QED  BY <2>4, <2>5, <3>1, WithinInsertable
  <2> QED  BY <2>4, <2>5, <2>6 DEF clipped
<1> QED  BY <1>2, <1>3 DEF SelectionFits

\* However the operator drags from a pixel of the picture, the selection fits in it, and what
\* is left of it fits in that of any other video system.
THEOREM DragFits ==
  ASSUME NEW region \in DisplayRegion, NEW start \in Points(region), NEW point \in Int \X Int
  PROVE  SelectionFits(update_selection(region, start, point), region)
<1>1. /\ region.left \in Int /\ region.right \in Int /\ region.top \in Int /\ region.bottom \in Int
      /\ HeightOf(region) \in Nat \ {0} /\ WidthOf(region) \in Nat \ {0}
      /\ HeightOf(region) <= WidthOf(region)
  BY Regions DEF HeightOf, WidthOf
<1> DEFINE selection == update_selection(region, start, point)
<1>2. /\ selection.left \in Int /\ selection.right \in Int
      /\ selection.top \in Int /\ selection.bottom \in Int
      /\ Within(selection, region) /\ InAspect(selection, region)
  BY <1>1, SelectionWithin, Zenon
<1> HIDE DEF selection
<1>3. SelectionFits(selection, region)  BY <1>2, WithinFits
<1> QED  BY <1>3 DEF selection

\* A coordinate of the display is one of the frame, if the display is not less than half as
\* large as the frame.
LEMMA RoundedInside ==
  ASSUME NEW size \in Nat \ {0}, NEW shown \in Nat \ {0}, NEW x \in 0..shown - 1,
         shown \div 2 < size
  PROVE  div_round_nearest(x * size, shown) \in 0..size - 1
<1> DEFINE half  == shown \div 2
           numer == x * size + half
           q     == numer \div shown
<1>1. half \in Nat /\ half < size  BY 2 \in Nat \ {0}, Quotient
<1> HIDE DEF half
<1>2. x * size \in Nat  BY Z3
<1>3. numer \in Nat  BY <1>1, <1>2
<1>4. div_round_nearest(x * size, shown) = q  BY <1>3 DEF div_round_nearest, Quot, half
<1> HIDE DEF numer
<1>5. q \in Nat /\ shown * q <= numer  BY <1>3, Quotient
<1>6. numer < shown * size
  <2>1. x * size <= (shown - 1) * size  BY Z3
  <2>2. (shown - 1) * size = shown * size - size  BY Z3
  <2>3. shown * size \in Int  OBVIOUS
  <2> QED  BY <1>1, <1>2, <2>1, <2>2, <2>3 DEF numer
<1>7. shown * q < shown * size
  <2>1. shown * q \in Int /\ shown * size \in Int  BY <1>5
  <2> QED  BY <1>3, <1>5, <1>6, <2>1
<1>8. q < size  BY <1>5, <1>7, Cancel
<1> QED  BY <1>4, <1>5, <1>8

\* The size of a region as displayed.
LEMMA Shown ==
  ASSUME NEW region \in DisplayRegion
  PROVE  /\ WidthOf(region) \in Nat \ {0} /\ HeightOf(region) \in Nat \ {0}
         /\ region.right = region.left + WidthOf(region)
         /\ region.bottom = region.top + HeightOf(region)
         /\ region.left \in Int /\ region.top \in Int
         /\ dest_width(region) \in Nat \ {0} /\ dest_width(region) \div 2 < WidthOf(region)
         /\ dest_height(region) \in Nat \ {0} /\ dest_height(region) \div 2 < HeightOf(region)
<1> DEFINE dw == dest_width(region)
           dh == dest_height(region)
           W  == WidthOf(region)
           H  == HeightOf(region)
           Goal == /\ W \in Nat \ {0} /\ H \in Nat \ {0}
                   /\ region.right = region.left + W /\ region.bottom = region.top + H
                   /\ region.left \in Int /\ region.top \in Int
                   /\ dw \in Nat \ {0} /\ dw \div 2 < W
                   /\ dh \in Nat \ {0} /\ dh \div 2 < H
<1> SUFFICES Goal  OBVIOUS
<1>1. CASE region.left = 9 /\ region.pixel_width = 59 /\ region.pixel_height = 54
  <2>1. region.right = 711 /\ region.top = 0 /\ region.bottom = 576  BY <1>1, Regions
  <2>2. W = 702 /\ H = 576  BY <1>1, <2>1 DEF WidthOf, HeightOf
  <2>3. dw = 767 /\ dh = 576
    BY <1>1, <2>2, SMT DEF dest_width, dest_height, div_round_nearest, Quot
  <2> QED  BY <1>1, <2>1, <2>2, <2>3, SMT
<1>2. CASE region.left = 9 /\ region.pixel_width = 118 /\ region.pixel_height = 81
  <2>1. region.right = 711 /\ region.top = 0 /\ region.bottom = 576  BY <1>2, Regions
  <2>2. W = 702 /\ H = 576  BY <1>2, <2>1 DEF WidthOf, HeightOf
  <2>3. dw = 1023 /\ dh = 576
    BY <1>2, <2>2, SMT DEF dest_width, dest_height, div_round_nearest, Quot
  <2> QED  BY <1>2, <2>1, <2>2, <2>3, SMT
<1>3. CASE region.left = 4 /\ region.pixel_width = 10 /\ region.pixel_height = 11
  <2>1. region.right = 716 /\ region.top = 0 /\ region.bottom = 480  BY <1>3, Regions
  <2>2. W = 712 /\ H = 480  BY <1>3, <2>1 DEF WidthOf, HeightOf
  <2>3. dw = 712 /\ dh = 528
    BY <1>3, <2>2, SMT DEF dest_width, dest_height, div_round_nearest, Quot
  <2> QED  BY <1>3, <2>1, <2>2, <2>3, SMT
<1>4. CASE region.left = 4 /\ region.pixel_width = 40 /\ region.pixel_height = 33
  <2>1. region.right = 716 /\ region.top = 0 /\ region.bottom = 480  BY <1>4, Regions
  <2>2. W = 712 /\ H = 480  BY <1>4, <2>1 DEF WidthOf, HeightOf
  <2>3. dw = 863 /\ dh = 480
    BY <1>4, <2>2, SMT DEF dest_width, dest_height, div_round_nearest, Quot
  <2> QED  BY <1>4, <2>1, <2>2, <2>3, SMT
<1> HIDE DEF Goal
<1>5. \/ region.left = 9 /\ region.pixel_width = 59 /\ region.pixel_height = 54
      \/ region.left = 9 /\ region.pixel_width = 118 /\ region.pixel_height = 81
      \/ region.left = 4 /\ region.pixel_width = 10 /\ region.pixel_height = 11
      \/ region.left = 4 /\ region.pixel_width = 40 /\ region.pixel_height = 33
  BY Regions
<1> QED  BY <1>1, <1>2, <1>3, <1>4, <1>5

\* The sixths of the display are in the picture.
LEMMA SixthsInside ==
  ASSUME NEW region \in DisplayRegion, NEW sixths \in (0..6) \X (0..6)
  PROVE  AtSixth(region, sixths) \in Points(region)
<1> DEFINE dw == dest_width(region)
           dh == dest_height(region)
           W  == WidthOf(region)
           H  == HeightOf(region)
           x  == Quot(sixths[1] * (dw - 1), 6)
           y  == Quot(sixths[2] * (dh - 1), 6)
<1>1. /\ W \in Nat \ {0} /\ H \in Nat \ {0}
      /\ region.right = region.left + W /\ region.bottom = region.top + H
      /\ region.left \in Int /\ region.top \in Int
      /\ dw \in Nat \ {0} /\ dw \div 2 < W
      /\ dh \in Nat \ {0} /\ dh \div 2 < H
  BY Shown
<1>2. sixths[1] \in 0..6 /\ sixths[2] \in 0..6  OBVIOUS
<1> HIDE DEF dw, dh, W, H
<1>3. ASSUME NEW k \in 0..6, NEW n \in Nat \ {0} PROVE Quot(k * (n - 1), 6) \in 0..n - 1
  <2> DEFINE numer == k * (n - 1)
  <2>1. numer \in Nat /\ numer <= 6 * (n - 1)  BY Z3
  <2> HIDE DEF numer
  <2>2. Quot(numer, 6) = numer \div 6  BY <2>1 DEF Quot
  <2>3. numer \div 6 \in Nat /\ 6 * (numer \div 6) <= numer  BY <2>1, 6 \in Nat \ {0}, Quotient
  <2>4. numer \div 6 <= n - 1  BY <2>1, <2>3
  <2> QED  BY <2>2, <2>3, <2>4 DEF numer
<1>4. x \in 0..dw - 1 /\ y \in 0..dh - 1  BY <1>1, <1>2, <1>3
<1> HIDE DEF x, y
<1>5. /\ div_round_nearest(x * W, dw) \in 0..W - 1
      /\ div_round_nearest(y * H, dh) \in 0..H - 1
  BY <1>1, <1>4, RoundedInside
<1>6. AtSixth(region, sixths) = <<region.left + div_round_nearest(x * W, dw),
                                  region.top + div_round_nearest(y * H, dh)>>
  BY DEF AtSixth, window_to_frame_coords, x, y, W, H, dw, dh
<1> QED  BY <1>1, <1>5, <1>6 DEF Points

\* A display coordinate beyond the display is still a whole number.
LEMMA SixthsWhole ==
  ASSUME NEW region \in DisplayRegion, NEW sixths \in Int \X Int
  PROVE  AtSixth(region, sixths) \in Int \X Int
<1>1. ASSUME NEW n \in Int, NEW d \in Nat \ {0} PROVE Quot(n, d) \in Int
  BY Z3 DEF Quot
<1>2. ASSUME NEW n \in Int, NEW d \in Nat \ {0} PROVE div_round_nearest(n, d) \in Int
  <2>1. n + d \div 2 \in Int  BY 2 \in Nat \ {0}, Quotient
  <2> QED  BY <1>1, <2>1 DEF div_round_nearest
<1>3. /\ region.left \in Int /\ region.top \in Int
      /\ WidthOf(region) \in Int /\ HeightOf(region) \in Int
      /\ region.pixel_width \in Nat \ {0} /\ region.pixel_height \in Nat \ {0}
  BY Regions DEF WidthOf, HeightOf
<1>4. dest_width(region) \in Nat \ {0} /\ dest_height(region) \in Nat \ {0}
  BY Shown
<1>5. \A k \in Int : k * (dest_width(region) - 1) \in Int /\ k * (dest_height(region) - 1) \in Int
  BY <1>4
<1>6. \A k \in Int : k * WidthOf(region) \in Int /\ k * HeightOf(region) \in Int  BY <1>3
<1>7. 6 \in Nat \ {0}  OBVIOUS
<1> DEFINE x == Quot(sixths[1] * (dest_width(region) - 1), 6)
           y == Quot(sixths[2] * (dest_height(region) - 1), 6)
<1>8. x \in Int /\ y \in Int  BY <1>1, <1>5, <1>7
<1> HIDE DEF x, y
<1>9. /\ div_round_nearest(x * WidthOf(region), dest_width(region)) \in Int
      /\ div_round_nearest(y * HeightOf(region), dest_height(region)) \in Int
  BY <1>2, <1>4, <1>6, <1>8
<1> QED  BY <1>3, <1>9 DEF AtSixth, window_to_frame_coords, x, y

\* The presets, worked out for each picture.
LEMMA PresetFits ==
  ASSUME NEW region \in DisplayRegion, NEW sel_type \in SelectionType
  PROVE  SelectionFits(set_selection_type(region, sel_type), region)
<1> DEFINE selection == set_selection_type(region, sel_type)
           W  == WidthOf(region)
           H  == HeightOf(region)
           high == (160 * H) \div W
           low_top == ((region.bottom - 10) * W - 160 * H) \div W
<1>1. /\ selection.left \in {region.left + 10, region.right - 170}
      /\ selection.right = selection.left + 160
      /\ selection.top \in {region.top + 10, low_top}
      /\ selection.bottom = selection.top + high
  <2> DEFINE left == IF sel_type \in {"North_West", "South_West"} THEN 10 + region.left
                     ELSE region.right - 10 - 160
             top  == IF sel_type \in {"North_West", "North_East"} THEN 10 + region.top ELSE low_top
  <2>1. /\ selection.left = left /\ selection.right = left + 160
        /\ selection.top = top /\ selection.bottom = top + high
    BY DEF set_selection_type
  <2>2. region.left \in Int /\ region.right \in Int /\ region.top \in Int  BY Regions
  <2>3. left \in {region.left + 10, region.right - 170}  BY <2>2
  <2>4. top \in {region.top + 10, low_top}  BY <2>2
  <2> HIDE DEF left, top, selection, high, low_top
  <2> QED  BY <2>1, <2>3, <2>4, Zenon
<1> HIDE DEF selection
<1>2. \/ /\ region.left = 9 /\ region.right = 711 /\ region.top = 0 /\ region.bottom = 576
         /\ W = 702 /\ H = 576 /\ high = 131 /\ low_top = 434
      \/ /\ region.left = 4 /\ region.right = 716 /\ region.top = 0 /\ region.bottom = 480
         /\ W = 712 /\ H = 480 /\ high = 107 /\ low_top = 362
  <2>1. CASE region.left = 9 /\ region.right = 711 /\ region.top = 0 /\ region.bottom = 576
    <3>1. W = 702 /\ H = 576  BY <2>1 DEF WidthOf, HeightOf
    <3> HIDE DEF W, H
    <3>2. high = 131 /\ low_top = 434  BY <2>1, <3>1, SMT
    <3> QED  BY <2>1, <3>1, <3>2
  <2>2. CASE region.left = 4 /\ region.right = 716 /\ region.top = 0 /\ region.bottom = 480
    <3>1. W = 712 /\ H = 480  BY <2>2 DEF WidthOf, HeightOf
    <3> HIDE DEF W, H
    <3>2. high = 107 /\ low_top = 362  BY <2>2, <3>1, SMT
    <3> QED  BY <2>2, <3>1, <3>2
  <2>3. \/ region.left = 9 /\ region.right = 711 /\ region.top = 0 /\ region.bottom = 576
        \/ region.left = 4 /\ region.right = 716 /\ region.top = 0 /\ region.bottom = 480
    BY Regions
  <2> HIDE DEF W, H, high, low_top
  <2> QED  BY <2>1, <2>2, <2>3
<1>3. WidthOf(selection) = selection.right - selection.left
      /\ HeightOf(selection) = selection.bottom - selection.top
  BY DEF WidthOf, HeightOf
<1> HIDE DEF W, H, high, low_top
<1>4. CASE region.left = 9
  <2>1. /\ region.right = 711 /\ region.top = 0 /\ region.bottom = 576
        /\ W = 702 /\ H = 576 /\ high = 131 /\ low_top = 434
    BY <1>2, <1>4, SMT
  <2>2. /\ selection.left \in {19, 541} /\ selection.right = selection.left + 160
        /\ selection.top \in {10, 434} /\ selection.bottom = selection.top + 131
    BY <1>1, <1>4, <2>1, SMT
  <2>3. Within(selection, region)  BY <1>4, <2>1, <2>2, SMT DEF Within, Proper
  <2>4. WidthOf(selection) = 160 /\ HeightOf(selection) = 131  BY <1>3, <2>2, SMT
  <2>5. InAspect(selection, region)  BY <2>1, <2>4, SMT DEF InAspect, Abs, W, H
  <2>6. /\ selection.left \in Int /\ selection.right \in Int
        /\ selection.top \in Int /\ selection.bottom \in Int
    BY <2>2, SMT
  <2> QED  BY <2>3, <2>5, <2>6, WithinFits, SMT DEF selection
<1>5. CASE region.left = 4
  <2>1. /\ region.right = 716 /\ region.top = 0 /\ region.bottom = 480
        /\ W = 712 /\ H = 480 /\ high = 107 /\ low_top = 362
    BY <1>2, <1>5, SMT
  <2>2. /\ selection.left \in {14, 546} /\ selection.right = selection.left + 160
        /\ selection.top \in {10, 362} /\ selection.bottom = selection.top + 107
    BY <1>1, <1>5, <2>1, SMT
  <2>3. Within(selection, region)  BY <1>5, <2>1, <2>2, SMT DEF Within, Proper
  <2>4. WidthOf(selection) = 160 /\ HeightOf(selection) = 107  BY <1>3, <2>2, SMT
  <2>5. InAspect(selection, region)  BY <2>1, <2>4, SMT DEF InAspect, Abs, W, H
  <2>6. /\ selection.left \in Int /\ selection.right \in Int
        /\ selection.top \in Int /\ selection.bottom \in Int
    BY <2>2, SMT
  <2> QED  BY <2>3, <2>5, <2>6, WithinFits, SMT DEF selection
<1> QED  BY <1>2, <1>4, <1>5, SMT

\* Bresenham's algorithm scales up evenly, by whole source pixels, from any size to any that
\* is not smaller.
THEOREM ScalesEvenly ==
  ASSUME NEW size \in Nat \ {0}, NEW source_size \in 1..size, NEW d \in 0..size - 1
  PROVE  LET scaling == thumb_scaling(source_size, size)
         IN  scaling[d] \in 0..source_size - 1 /\ Abs(scaling[d] * size - d * source_size) < size
<1> DEFINE half  == source_size \div 2
           numer == half + d * source_size
           c     == numer \div size
<1>1. thumb_scaling(source_size, size)[d] = c  BY DEF thumb_scaling
<1>2. half \in Nat /\ half < source_size  BY 2 \in Nat \ {0}, Quotient
<1> HIDE DEF half
<1>3. d * source_size \in Nat  BY Z3
<1>4. numer \in Nat  BY <1>2, <1>3
<1>5. c \in Nat /\ size * c <= numer /\ numer < size * c + size  BY <1>4, Quotient
<1> HIDE DEF c
<1>6. size * c < size * source_size
  <2>1. d * source_size <= (size - 1) * source_size  BY Z3
  <2>2. (size - 1) * source_size = size * source_size - source_size  BY Z3
  <2>3. size * source_size \in Int /\ size * c \in Int  BY <1>5
  <2> QED  BY <1>2, <1>3, <1>5, <2>1, <2>2, <2>3
<1>7. c < source_size  BY <1>5, <1>6, Cancel
<1>8. Abs(c * size - d * source_size) < size
  <2>1. c * size = size * c /\ size * c \in Int  BY <1>5, Z3
  <2> QED  BY <1>2, <1>3, <1>5, <2>1 DEF Abs
<1> QED  BY <1>1, <1>5, <1>7, <1>8

\* The sizes of thumbnails: they fit in the image, and are larger than what they show.
LEMMA ThumbSizes ==
  ASSUME NEW region \in DisplayRegion, NEW i \in {1, 2}
  PROVE  /\ thumb_size(region)[i] \in Nat \ {0}
         /\ thumb_source_size(region)[i] \in 1..thumb_size(region)[i]
         /\ thumb_size(region)[i] <= thumb_image[i]
<1>1. thumb_image[1] = 262 /\ thumb_image[2] = 144
  BY SMT DEF thumb_image, div_round_nearest, Quot
<1>2. CASE region.left = 9
  <2>1. region.right = 711 /\ region.top = 0 /\ region.bottom = 576  BY <1>2, Regions
  <2>2. WidthOf(region) = 702 /\ HeightOf(region) = 576  BY <1>2, <2>1 DEF WidthOf, HeightOf
  <2>3. thumb_source_size(region)[1] = 87 /\ thumb_source_size(region)[2] = 72
    BY <2>2, SMT DEF thumb_source_size
  <2>4. thumb_size(region)[2] = 144  BY <2>2, SMT DEF thumb_size, div_round_nearest, Quot
  <2>5. thumb_size(region)[1] \in {192, 256}
    <3>1. CASE region.pixel_width = 59 /\ region.pixel_height = 54
      BY <2>2, <3>1, SMT DEF thumb_size, div_round_nearest, Quot
    <3>2. CASE region.pixel_width = 118 /\ region.pixel_height = 81
      BY <2>2, <3>2, SMT DEF thumb_size, div_round_nearest, Quot
    <3>3. region.left # 4  BY <1>2, SMT
    <3> QED  BY <3>1, <3>2, <3>3, Regions, SMT
  <2> QED  BY <1>1, <2>3, <2>4, <2>5, SMT
<1>3. CASE region.left = 4
  <2>1. region.right = 716 /\ region.top = 0 /\ region.bottom = 480  BY <1>3, Regions
  <2>2. WidthOf(region) = 712 /\ HeightOf(region) = 480  BY <1>3, <2>1 DEF WidthOf, HeightOf
  <2>3. thumb_source_size(region)[1] = 89 /\ thumb_source_size(region)[2] = 60
    BY <2>2, SMT DEF thumb_source_size
  <2>4. thumb_size(region)[2] = 120  BY <2>2, SMT DEF thumb_size, div_round_nearest, Quot
  <2>5. thumb_size(region)[1] \in {162, 216}
    <3>1. CASE region.pixel_width = 10 /\ region.pixel_height = 11
      BY <2>2, <3>1, SMT DEF thumb_size, div_round_nearest, Quot
    <3>2. CASE region.pixel_width = 40 /\ region.pixel_height = 33
      BY <2>2, <3>2, SMT DEF thumb_size, div_round_nearest, Quot
    <3>3. region.left # 9  BY <1>3, SMT
    <3> QED  BY <3>1, <3>2, <3>3, Regions, SMT
  <2> QED  BY <1>1, <2>3, <2>4, <2>5, SMT
<1> QED  BY <1>2, <1>3, Regions, ZenonT(30)

\* The thumbnails of every video system fit.
LEMMA ThumbsFit ==
  ASSUME NEW region \in DisplayRegion
  PROVE  ThumbFits(region)
<1> SUFFICES ASSUME NEW i \in {1, 2}
             PROVE  LET size == thumb_size(region)[i]
                        source_size == thumb_source_size(region)[i]
                        scaling == thumb_scaling(source_size, size)
                    IN  /\ source_size <= size /\ size <= thumb_image[i]
                        /\ \A d \in 0..size - 1 :
                             /\ scaling[d] < source_size
                             /\ Abs(scaling[d] * size - d * source_size) < size
  BY DEF ThumbFits
<1> DEFINE size == thumb_size(region)[i]
           source_size == thumb_source_size(region)[i]
           scaling == thumb_scaling(source_size, size)
<1>1. size \in Nat \ {0} /\ source_size \in 1..size /\ size <= thumb_image[i]
  BY ThumbSizes, Zenon
<1> HIDE DEF size, source_size
<1>2. ASSUME NEW d \in 0..size - 1
      PROVE  scaling[d] < source_size /\ Abs(scaling[d] * size - d * source_size) < size
  <2>1. scaling[d] \in 0..source_size - 1 /\ Abs(scaling[d] * size - d * source_size) < size
    BY <1>1, ScalesEvenly, Zenon
  <2> HIDE DEF scaling
  <2> QED  BY <1>1, <2>1
<1>3. source_size <= size  BY <1>1
<1> QED  BY <1>1, <1>2, <1>3, Zenon DEF size, source_size
--------------------------------------------------------------------------------
\* What is known of the subject of a behaviour: the input never changes.
SubjectKnown ==
  /\ input.subject = "audio" => /\ input.system \in System /\ input.rate \in SampleRate
                                /\ input.frame_count \in Counts(input.system, input.rate)
  /\ input.subject = "sample" => input.sample \in Sample16
  /\ input.subject = "silence" => /\ input.system \in System /\ input.rate \in SampleRate
                                  /\ input.serial_num \in Nat
  /\ input.subject = "time" => input.system \in System /\ input.serial_num \in Nat
  /\ input.subject = "sequence" => input.seq_num \in 0..11
  /\ input.subject = "thumb" => input.region \in DisplayRegion
  /\ input.subject = "drag" => /\ input.region \in DisplayRegion
                               /\ input.start \in (0..6) \X (0..6)
                               /\ input.point \in Int \X Int
  /\ input.subject = "preset" => input.region \in DisplayRegion /\ input.sel_type \in SelectionType
  /\ input.subject = "scaling" => input \in Scalings
  /\ input.subject = "blend" => input.d \in 0..255 /\ input.s \in 0..255
  /\ input.subject = "rectangles" => input.rect \in Edges /\ input.other \in Edges
  /\ input.subject = "border" => input.height \in {480, 576} /\ input.shift \in {Yuv420, Yuv411}

\* The input is one of the subjects.
LEMMA SubjectChosen == SignalInit => SubjectKnown
<1> SUFFICES ASSUME SignalInit PROVE SubjectKnown  OBVIOUS
<1> DEFINE Other == input.subject \notin {"audio", "sample", "silence", "time", "sequence", "thumb", "drag", "preset",
                                      "scaling", "blend", "rectangles", "border"}
<1>1. Other => SubjectKnown  BY DEF SubjectKnown
<1>2. CASE input = [subject |-> "fade"]
  <2>1. input.subject = "fade"  BY <1>2
  <2> QED  BY <1>1, <2>1
<1>3. CASE input = [subject |-> "clock"]
  <2>1. input.subject = "clock"  BY <1>3
  <2> QED  BY <1>1, <2>1
<1>4. CASE input \in Samples
  <2>1. input.subject = "sample" /\ input.sample \in Sample16  BY <1>4, Zenon DEF Samples
  <2> QED  BY <2>1 DEF SubjectKnown
<1>16. CASE input \in Silent
  <2> DEFINE N == 0..30
  <2>1. \A n \in N : n \in Nat  OBVIOUS
  <2>2. Silent = [subject : {"silence"}, system : System, rate : SampleRate, serial_num : N]
    BY DEF Silent
  <2> HIDE DEF N
  <2>3. /\ input.subject = "silence" /\ input.system \in System /\ input.rate \in SampleRate
        /\ input.serial_num \in N
    BY <1>16, <2>2
  <2>4. input.serial_num \in Nat  BY <2>1, <2>3
  <2> QED  BY <2>3, <2>4 DEF SubjectKnown
<1>5. CASE input \in Audio
  <2> DEFINE Of(s, r) == [subject : {"audio"}, system : {s}, rate : {r}, frame_count : Counts(s, r)]
  <2>1. Audio = UNION {Of(s, r) : s \in System, r \in SampleRate}  BY DEF Audio
  <2>2. \A s, r : \A x \in Of(s, r) :
          x.subject = "audio" /\ x.system = s /\ x.rate = r /\ x.frame_count \in Counts(s, r)
    OBVIOUS
  <2> HIDE DEF Of
  <2>3. PICK s \in System, r \in SampleRate : input \in Of(s, r)  BY <1>5, <2>1
  <2>4. /\ input.subject = "audio" /\ input.system = s /\ input.rate = r
        /\ input.frame_count \in Counts(s, r)
    BY <2>2, <2>3
  <2>5. input.frame_count \in Counts(input.system, input.rate)  BY <2>4
  <2> QED  BY <2>3, <2>4, <2>5 DEF SubjectKnown
<1>6. CASE input \in Scalings
  <2>1. input.subject = "scaling"  BY <1>6 DEF Scalings
  <2> QED  BY <1>6, <2>1 DEF SubjectKnown
<1>7. CASE input \in Times
  <2>2. \A n \in SerialNum : n \in Nat  BY SMTT(30) DEF SerialNum
  <2>3. input.subject = "time" /\ input.system \in System /\ input.serial_num \in Nat
    BY <1>7, <2>2 DEF Times
  <2> QED  BY <2>3 DEF SubjectKnown
<1>8. CASE input \in Sequences_
  <2>1. input.subject = "sequence" /\ input.seq_num \in 0..11  BY <1>8 DEF Sequences_
  <2> QED  BY <2>1 DEF SubjectKnown
<1>9. CASE input \in Thumbs
  <2>1. input.subject = "thumb" /\ input.region \in DisplayRegion  BY <1>9 DEF Thumbs
  <2> QED  BY <2>1 DEF SubjectKnown
<1>10. CASE input \in Drags
  <2>1. /\ input.subject = "drag" /\ input.region \in DisplayRegion
        /\ input.start \in (0..6) \X (0..6) /\ input.point \in (-2..8) \X (-2..8)
    BY <1>10 DEF Drags
  <2>2. input.point \in Int \X Int  BY <2>1
  <2> QED  BY <2>1, <2>2 DEF SubjectKnown
<1>11. CASE input \in Presets
  <2>1. /\ input.subject = "preset" /\ input.region \in DisplayRegion
        /\ input.sel_type \in SelectionType
    BY <1>11 DEF Presets
  <2> QED  BY <2>1 DEF SubjectKnown
<1>12. CASE input \in Blends
  <2>1. \A k \in 0..15 : 17 * k \in 0..255  OBVIOUS
  <2>2. /\ input.subject = "blend" /\ input.d \in {17 * k : k \in 0..15}
        /\ input.s \in {17 * k : k \in 0..15}
    BY <1>12 DEF Blends
  <2>3. input.d \in 0..255 /\ input.s \in 0..255  BY <2>1, <2>2
  <2> QED  BY <2>2, <2>3 DEF SubjectKnown
<1>13. CASE input \in Rectangles
  <2>1. input.subject = "rectangles" /\ input.rect \in Edges /\ input.other \in Edges
    BY <1>13 DEF Rectangles
  <2> QED  BY <2>1 DEF SubjectKnown
<1>14. CASE input \in Borders
  <2>1. /\ input.subject = "border" /\ input.height \in {480, 576}
        /\ input.shift \in {Yuv420, Yuv411}
    BY <1>14 DEF Borders
  <2> QED  BY <2>1 DEF SubjectKnown
<1>15. \/ input = [subject |-> "fade"] \/ input = [subject |-> "clock"]
       \/ input \in Samples \/ input \in Audio \/ input \in Silent \/ input \in Times
       \/ input \in Sequences_ \/ input \in Blends \/ input \in Scalings
       \/ input \in Rectangles \/ input \in Borders \/ input \in Drags \/ input \in Presets
       \/ input \in Thumbs
  BY Zenon DEF SignalInit
<1> QED  BY <1>1, <1>2, <1>3, <1>4, <1>5, <1>6, <1>7, <1>8, <1>9, <1>10, <1>11,
            <1>12, <1>13, <1>14, <1>15, <1>16, Zenon

\* And it remains so.
LEMMA SubjectInvariance == SignalSpec => []SubjectKnown
<1>1. SignalInit => SubjectKnown  BY SubjectChosen
<1>2. SubjectKnown /\ [SignalNext]_<<input, vars, clock_vars>> => SubjectKnown'
  BY DEF SubjectKnown, SignalNext, FadeStep, ClockStep
<1> QED  BY <1>1, <1>2, PTL DEF SignalSpec

\* What a drag selects.
LEMMA DragsFit ==
  ASSUME NEW region \in DisplayRegion, NEW start \in (0..6) \X (0..6), NEW point \in Int \X Int
  PROVE  SelectionFits(update_selection(region, AtSixth(region, start), AtSixth(region, point)),
                       region)
<1>1. AtSixth(region, start) \in Points(region)  BY SixthsInside
<1>2. AtSixth(region, point) \in Int \X Int  BY SixthsWhole
<1> QED  BY <1>1, <1>2, DragFits

\* Sound that is set in a frame is got from it and from any frame it is dubbed to, every 16-bit
\* sample is kept as nearly as the companding is made for, and silence keeps in step.
THEOREM AudioAlwaysSurvives == SignalSpec => []AudioSurvives
<1>1. SubjectKnown => AudioSurvives
  <2> SUFFICES ASSUME SubjectKnown PROVE AudioSurvives  OBVIOUS
  <2>1. ASSUME input.subject = "audio"
        PROVE  SoundKept(input.system, input.rate, input.frame_count)
    <3>1. /\ input.system \in System /\ input.rate \in SampleRate
          /\ input.frame_count \in Counts(input.system, input.rate)
      BY <2>1 DEF SubjectKnown
    <3>2. input.frame_count \in audio_frame_counts(input.system, input.rate).min
                               ..audio_frame_counts(input.system, input.rate).max
      BY <3>1, CountsWithin
    <3> QED  BY <3>1, <3>2, SoundIsKept
  <2>2. ASSUME input.subject = "sample" PROVE SampleKept(input.sample)
    BY <2>2, Companded DEF SubjectKnown
  <2>3. ASSUME input.subject = "silence"
        PROVE  SilenceInStep(input.system, input.rate, input.serial_num)
    BY <2>3, SilenceKeepsStep DEF SubjectKnown
  <2> QED  BY <2>1, <2>2, <2>3 DEF AudioSurvives
<1> QED  BY <1>1, SubjectInvariance, PTL

\* For every frame that the mixer ever numbers, and each sequence of each video system, the
\* times are recorded as they should be.
THEOREM TimesAlwaysRecorded == SignalSpec => []TimesRecorded
<1>1. SubjectKnown => TimesRecorded
  <2> SUFFICES ASSUME SubjectKnown PROVE TimesRecorded  OBVIOUS
  <2>1. ASSUME input.subject = "time" PROVE TimeKept(input.system, input.serial_num)
    BY <2>1, TimesKept DEF SubjectKnown
  <2>2. ASSUME input.subject = "sequence" PROVE PacksKept(input.seq_num)
    BY <2>2, SequenceKept DEF SubjectKnown
  <2> QED  BY <2>1, <2>2 DEF TimesRecorded
<1> QED  BY <1>1, SubjectInvariance, PTL

\* Rectangles clipped and extended are right.
LEMMA RectanglesAreRight ==
  ASSUME NEW rect \in Edges, NEW other \in Edges
  PROVE  RectanglesRight(rect, other)
<1>1. Edges \subseteq AnyRect  BY DEF Edges, AnyRect
<1>2. rect \in AnyRect /\ other \in AnyRect /\ Proper(rect) /\ Proper(other)
  BY <1>1 DEF Edges, Proper
<1>3. /\ Points(rectangle_clip(rect, other)) = Points(rect) \cap Points(other)
      /\ Proper(rectangle_clip(rect, other))
  BY <1>2, ClipRight
<1>4. /\ Points(rect) \cup Points(other) \subseteq Points(rectangle_extend(rect, other))
      /\ \A r \in AnyRect : Points(rect) \cup Points(other) \subseteq Points(r)
                              => Points(rectangle_extend(rect, other)) \subseteq Points(r)
  BY <1>2, ExtendRight
<1> QED  BY <1>1, <1>3, <1>4 DEF RectanglesRight

\* A picture in a picture is the mean of what it covers, in each plane; a fade stays between
\* the two pictures; rectangles stay proper; and colour is darkened where brightness is.
THEOREM EffectsAlwaysRight == SignalSpec => []EffectsRight
<1>1. SubjectKnown => EffectsRight
  <2> SUFFICES ASSUME SubjectKnown PROVE EffectsRight  OBVIOUS
  <2>1. ASSUME input.subject = "scaling"
        PROVE  ScaledToMeans(input.full, input.shift, input.bright)
    BY <2>1, ScaledRight DEF SubjectKnown
  <2>2. ASSUME input.subject = "blend" PROVE Fades(input.d, input.s)
    <3>1. input.d \in 0..255 /\ input.s \in 0..255  BY <2>2 DEF SubjectKnown
    <3> QED  BY <3>1, FadesBetween
  <2>3. ASSUME input.subject = "rectangles" PROVE RectanglesRight(input.rect, input.other)
    BY <2>3, RectanglesAreRight DEF SubjectKnown
  <2>4. ASSUME input.subject = "border" PROVE SameArea(input.height, input.shift)
    BY <2>4, SameBorder DEF SubjectKnown
  <2> QED  BY <2>1, <2>2, <2>3, <2>4 DEF EffectsRight
<1> QED  BY <1>1, SubjectInvariance, PTL

\* The selection fits after each preset and after any drag that starts on the display, and
\* thumbnails fit in their image.
THEOREM DisplayAlwaysFits == SignalSpec => []DisplayFits
<1>1. SubjectKnown => DisplayFits
  <2> SUFFICES ASSUME SubjectKnown PROVE DisplayFits  OBVIOUS
  <2>1. ASSUME input.subject = "thumb" PROVE ThumbFits(input.region)
    BY <2>1, ThumbsFit DEF SubjectKnown
  <2>2. ASSUME input.subject = "drag"
        PROVE  SelectionFits(update_selection(input.region, AtSixth(input.region, input.start),
                                              AtSixth(input.region, input.point)), input.region)
    <3>1. /\ input.region \in DisplayRegion /\ input.start \in (0..6) \X (0..6)
          /\ input.point \in Int \X Int
      BY <2>2 DEF SubjectKnown
    <3> QED  BY <3>1, DragsFit
  <2>3. ASSUME input.subject = "preset"
        PROVE  SelectionFits(set_selection_type(input.region, input.sel_type), input.region)
    BY <2>3, PresetFits DEF SubjectKnown
  <2> QED  BY <2>1, <2>2, <2>3 DEF DisplayFits
<1> QED  BY <1>1, SubjectInvariance, PTL
--------------------------------------------------------------------------------
\* The clock, as long as the network has not stalled and the audio source has not changed.

\* A number of at most a size.
Bound(w, v) == -w <= v /\ v <= w

\* The average interval, the interval and the delay are near to what the clock aims at. One
\* tick brings them nearer: see ComesNearer. (The bounds on numbers that a tick only scales
\* and turns, in nine directions, and on one that it more than halves.)
Near(w, x, y, z) ==
  /\ Bound(w, -2600 * x +   91 * y + 150 * z)
  /\ Bound(w, -3081 * x +   51 * y + 141 * z)
  /\ Bound(w, -3191 * x +    4 * y + 115 * z)
  /\ Bound(w, -2916 * x -   43 * y +  75 * z)
  /\ Bound(w, -2290 * x -   84 * y +  26 * z)
  /\ Bound(w, -1387 * x -  116 * y -  26 * z)
  /\ Bound(w,  -317 * x -  134 * y -  75 * z)
  /\ Bound(w,   792 * x -  135 * y - 115 * z)
  /\ Bound(w,  1804 * x -  120 * y - 141 * z)
  /\ Bound(w, -2664 * x + 1630 * y + 158 * z)

\* How near they are after each tick, in hundredths of the period of the source's frames.
Levels == <<17400, 16304, 15277, 14315, 13414, 12569, 11778, 11037, 10342, 9691,
             9081,  8509,  7973,  7471,  7001,  6560,  6147,  5760,  5398, 5058,
             4740,  4442,  4163,  3901,  3656,  3426,  3211,  3009,  2820, 2643,
             2477,  2321,  2175,  2038,  1910,  1790,  1678,  1573,  1474, 1382,
             1295,  1214,  1138,  1067,  1000,   938,   879,   824,   773,  725>>

\* They stay at the last of the levels.
Level(n) == Levels[IF n < 50 THEN n ELSE 50]

\* Near after n ticks, for a delay of the frame that is taken next.
NearAfter(n, average, interval, delay, period) ==
  /\ average \in Int /\ interval \in Int /\ delay \in Int
  /\ Near(Level(n) * period, 100 * (average - period), 100 * (interval - period),
          100 * (2 * delay - 3 * period))

\* The period of the frames of a source, in nanoseconds.
PeriodKnown(period) == period \in Int /\ 33000000 <= period /\ period <= 41000000

\* n frames in a queue, one period apart, and the next to come in due.
Spaced(queue, n, due, period) ==
  /\ due \in 1..period
  /\ queue = [i \in 1..n |-> (n + 1 - i) * period - due]

\* One tick brings the clock nearer by more than 6 in a hundred, but for rounding.
LEMMA ComesNearer ==
  ASSUME NEW x \in Int, NEW y \in Int, NEW z \in Int, NEW x1 \in Int, NEW y1 \in Int, NEW z1 \in Int,
         NEW w \in Int, NEW w1 \in Int, Near(w, x, y, z),
         20 * y1 <= 15 * x + 8 * y - z, 20 * y1 >= 15 * x + 8 * y - z - 2500,
         16 * x1 <= 15 * x + y1, 16 * x1 >= 15 * x + y1 - 1600,
         z1 = z + 2 * y1,
         1000 * w1 >= 937 * w + 600000000
  PROVE  Near(w1, x1, y1, z1)
BY SMT DEF Near, Bound

\* A level is low, and falls no faster than the clock comes nearer.
LevelLow(n) ==
  /\ Level(n) \in Int /\ 725 <= Level(n) /\ Level(n) <= 17400
  /\ n >= 50 => Level(n) = 725
  /\ 1000 * Level(n + 1) >= 937 * Level(n) + 20

\* All levels do.
LEMMA LevelFalls ==
  ASSUME NEW n \in Nat \ {0}
  PROVE  LevelLow(n)
<1>1. /\ Levels[1] = 17400 /\ Levels[2] = 16304 /\ Levels[3] = 15277 /\ Levels[4] = 14315 /\ Levels[5] = 13414
      /\ Levels[6] = 12569 /\ Levels[7] = 11778 /\ Levels[8] = 11037 /\ Levels[9] = 10342 /\ Levels[10] = 9691
      /\ Levels[11] = 9081 /\ Levels[12] = 8509 /\ Levels[13] = 7973 /\ Levels[14] = 7471 /\ Levels[15] = 7001
      /\ Levels[16] = 6560 /\ Levels[17] = 6147 /\ Levels[18] = 5760 /\ Levels[19] = 5398 /\ Levels[20] = 5058
      /\ Levels[21] = 4740 /\ Levels[22] = 4442 /\ Levels[23] = 4163 /\ Levels[24] = 3901 /\ Levels[25] = 3656
  BY DEF Levels
<1>2. /\ Levels[26] = 3426 /\ Levels[27] = 3211 /\ Levels[28] = 3009 /\ Levels[29] = 2820 /\ Levels[30] = 2643
      /\ Levels[31] = 2477 /\ Levels[32] = 2321 /\ Levels[33] = 2175 /\ Levels[34] = 2038 /\ Levels[35] = 1910
      /\ Levels[36] = 1790 /\ Levels[37] = 1678 /\ Levels[38] = 1573 /\ Levels[39] = 1474 /\ Levels[40] = 1382
      /\ Levels[41] = 1295 /\ Levels[42] = 1214 /\ Levels[43] = 1138 /\ Levels[44] = 1067 /\ Levels[45] = 1000
      /\ Levels[46] = 938 /\ Levels[47] = 879 /\ Levels[48] = 824 /\ Levels[49] = 773 /\ Levels[50] = 725
  BY DEF Levels
<1>3. CASE n >= 50
  <2>1. Level(n) = Levels[50] /\ Level(n + 1) = Levels[50]  BY <1>3 DEF Level
  <2> QED  BY <1>2, <1>3, <2>1, SMT DEF LevelLow
<1>4. CASE n < 25
  <2>1. Level(n) = Levels[n] /\ Level(n + 1) = Levels[n + 1] /\ n \in 1..24  BY <1>4 DEF Level
  <2>2. ~(n >= 50)  BY <1>4
  <2> QED  BY <1>1, <1>2, <2>1, <2>2, SMT DEF LevelLow
<1>5. CASE n \in 25..49
  <2>1. Level(n) = Levels[n] /\ Level(n + 1) = Levels[n + 1] /\ ~(n >= 50)  BY <1>5 DEF Level
  <2> QED  BY <1>1, <1>2, <1>5, <2>1, SMT DEF LevelLow
<1>6. n >= 50 \/ n < 25 \/ n \in 25..49  OBVIOUS
<1> QED  BY <1>3, <1>4, <1>5, <1>6, Zenon

\* A source is off by at most one part in a hundred from the standard interval of its system.
LEMMA SourceClose ==
  ASSUME NEW src \in Clock!Sources
  PROVE  LET standard == Clock!standard_interval(src.system)
         IN  /\ standard \in Nat /\ PeriodKnown(src.period)
             /\ 99 * (standard - src.period) <= src.period
             /\ 99 * (src.period - standard) <= src.period
             /\ src.system # Clock!NoSystem
<1>1. PICK s \in VideoSystem, d \in Drift :
        src = [system |-> s,
               period |-> Clock!standard_interval(s) + (Clock!standard_interval(s) \div 1000) * d]
  BY SMT DEF Clock!Sources
<1>2. d \in -10..10  BY ClockAssumption, SMT
<1>3. \/ s.frame_rate_numer = 25 /\ s.frame_rate_denom = 1
      \/ s.frame_rate_numer = 30000 /\ s.frame_rate_denom = 1001
  BY SMT DEF VideoSystem, System, dv_system_525_60, dv_system_625_50
<1>4. /\ Clock!standard_interval(s) = 40000000 \/ Clock!standard_interval(s) = 33366333
      /\ s # Clock!NoSystem
  <2>1. CASE s.frame_rate_numer = 25 /\ s.frame_rate_denom = 1
    BY <2>1, SMT DEF Clock!standard_interval, Clock!NoSystem
  <2>2. CASE s.frame_rate_numer = 30000 /\ s.frame_rate_denom = 1001
    BY <2>2, SMT DEF Clock!standard_interval, Clock!NoSystem
  <2> QED  BY <1>3, <2>1, <2>2, SMT
<1>5. /\ src.system = s
      /\ src.period = Clock!standard_interval(s) + (Clock!standard_interval(s) \div 1000) * d
  BY <1>1, SMT
<1>6. CASE Clock!standard_interval(s) = 40000000
  <2>1. src.period = 40000000 + 40000 * d  BY <1>2, <1>5, <1>6, SMT
  <2> QED  BY <1>2, <1>4, <1>5, <1>6, <2>1, SMT DEF PeriodKnown
<1>7. CASE Clock!standard_interval(s) = 33366333
  <2>1. src.period = 33366333 + 33366 * d  BY <1>2, <1>5, <1>7, SMT
  <2> QED  BY <1>2, <1>4, <1>5, <1>7, <2>1, SMT DEF PeriodKnown
<1> QED  BY <1>4, <1>6, <1>7, SMT

\* What is near is within the queue, and in the end on target.
LEMMA NearIsSafe ==
  ASSUME NEW n \in Nat \ {0}, NEW average, NEW interval, NEW delay,
         NEW period, PeriodKnown(period),
         NearAfter(n, average, interval, delay, period)
  PROVE  /\ 0 <= delay /\ delay < 4 * period /\ delay < 4 * interval
         /\ interval \in Nat /\ interval <= 2 * period /\ average \in Nat /\ average <= 2 * period
         /\ n >= 50 => (period \div 100) * 145 <= delay /\ delay <= (period \div 100) * 155
<1> DEFINE w == Level(n) * period
           x == 100 * (average - period)
           y == 100 * (interval - period)
           z == 100 * (2 * delay - 3 * period)
           level == Level(n)
<1>0. LevelLow(n)  BY LevelFalls, Zenon
<1>p. period \in Int /\ 33000000 <= period /\ period <= 41000000  BY SMT DEF PeriodKnown
<1>1. w \in Int /\ w <= 17400 * period
  <2>1. level \in Int /\ 725 <= level /\ level <= 17400  BY <1>0, SMT DEF LevelLow
  <2>3. w = period * level  BY <1>p, <2>1, SMT
  <2> HIDE DEF level
  <2> HIDE DEF w
  <2>2. period * (17400 - level) >= 0  BY <1>p, <2>1, Z3
  <2>4. period * level \in Int /\ period * (17400 - level) = 17400 * period - period * level
    BY <1>p, <2>1, Z3
  <2> QED  BY <1>p, <2>2, <2>3, <2>4, SMT
<1>2. n >= 50 => w = 725 * period  BY <1>0, SMT DEF LevelLow
<1>3. average \in Int /\ interval \in Int /\ delay \in Int /\ Near(w, x, y, z)
  BY SMT DEF NearAfter
<1> HIDE DEF w
<1>4. /\ Bound(100 * period, x) /\ Bound(100 * period, y) /\ Bound(300 * period, z)
      /\ 500 * period > z - 8 * y
  <2> HIDE DEF x, y, z
  <2>1. x \in Int /\ y \in Int /\ z \in Int  BY <1>p, <1>3, SMT DEF x, y, z
  <2> QED  BY <1>p, <1>1, <1>3, <2>1, SMT DEF Near, Bound
<1>5. n >= 50 => Bound(10 * period - 40000, z)
  <2> HIDE DEF x, y, z
  <2>1. x \in Int /\ y \in Int /\ z \in Int  BY <1>p, <1>3, SMT DEF x, y, z
  <2> QED  BY <1>p, <1>2, <1>3, <2>1, SMT DEF Near, Bound
<1>6. average \in Int /\ interval \in Int /\ delay \in Int  BY <1>3
<1>7. /\ 0 <= delay /\ delay < 4 * period /\ delay < 4 * interval
      /\ interval \in Nat /\ interval <= 2 * period /\ average \in Nat /\ average <= 2 * period
  BY <1>p, <1>4, <1>6, SMT DEF x, y, z, Bound
<1>8. ASSUME n >= 50
      PROVE  (period \div 100) * 145 <= delay /\ delay <= (period \div 100) * 155
  <2> DEFINE q == period \div 100
  <2>1. q \in Int /\ 100 * q <= period /\ period - 99 <= 100 * q  BY <1>p, SMT
  <2> HIDE DEF q
  <2>2. 290 * period <= 200 * delay /\ 200 * delay <= 310 * period - 40000
    BY <1>p, <1>5, <1>6, <1>8, SMT DEF z, Bound
  <2>3. q * 145 <= delay /\ delay <= q * 155  BY <1>p, <1>6, <2>1, <2>2, SMT
  <2> QED  BY <2>3 DEF q
<1> QED  BY <1>7, <1>8, SMT

\* The first tick after the source is known.
LEMMA StartsNear ==
  ASSUME NEW standard \in Int, NEW t \in Int, NEW period, PeriodKnown(period),
         99 * (standard - period) <= period, 99 * (period - standard) <= period,
         0 <= t, t < period
  PROVE  NearAfter(1, standard, standard, t + standard, period)
<1> DEFINE w == Level(1) * period
           x == 100 * (standard - period)
           z == 100 * (2 * (t + standard) - 3 * period)
<1>1. period \in Int /\ 33000000 <= period  BY SMT DEF PeriodKnown
<1>2. w = 17400 * period
  <2>1. Level(1) = 17400  BY SMT DEF Level, Levels
  <2> QED  BY <2>1
<1>3. x \in Int /\ z \in Int /\ 99 * x <= 100 * period /\ -100 * period <= 99 * x
      /\ 2 * x - 100 * period <= z /\ z <= 2 * x + 100 * period
  BY <1>1, SMT
<1> HIDE DEF w, x, z
<1>4. Near(w, x, x, z)  BY <1>1, <1>2, <1>3, SMT DEF Near, Bound
<1> QED  BY <1>1, <1>4, SMT DEF NearAfter, w, x, z

\* Each tick brings the clock nearer by a level.
LEMMA StepsNear ==
  ASSUME NEW n \in Nat \ {0}, NEW average, NEW interval, NEW delay, NEW period,
         PeriodKnown(period), NearAfter(n, average, interval, delay, period)
  PROVE  LET next == Clock!next_interval(average, interval, delay)
         IN  NearAfter(n + 1, Clock!next_average(average, next), next,
                       delay - period + next, period)
<1> DEFINE next == Clock!next_interval(average, interval, delay)
           after == Clock!next_average(average, next)
           w  == Level(n) * period
           w1 == Level(n + 1) * period
           x  == 100 * (average - period)
           y  == 100 * (interval - period)
           z  == 100 * (2 * delay - 3 * period)
           x1 == 100 * (after - period)
           y1 == 100 * (next - period)
           z1 == 100 * (2 * (delay - period + next) - 3 * period)
<1>1. period \in Int /\ 33000000 <= period  BY SMT DEF PeriodKnown
<1>2. w \in Int /\ w1 \in Int /\ 1000 * w1 >= 937 * w + 600000000
  <2> DEFINE a == Level(n)
             b == Level(n + 1)
  <2>1. LevelLow(n) /\ LevelLow(n + 1)
    <3>1. n + 1 \in Nat \ {0}  OBVIOUS
    <3> QED  BY <3>1, LevelFalls, Zenon
  <2>2. a \in Int /\ b \in Int /\ 1000 * b >= 937 * a + 20  BY <2>1, SMT DEF LevelLow
  <2>3. w = a * period /\ w1 = b * period  OBVIOUS
  <2> HIDE DEF a, b, w, w1
  <2>4. a * period \in Int /\ b * period \in Int /\ (1000 * b - 937 * a - 20) * period >= 0
    BY <1>1, <2>2, Z3
  <2>5. (1000 * b - 937 * a - 20) * period = 1000 * (b * period) - 937 * (a * period) - 20 * period
    BY <1>1, <2>2, Z3
  <2> QED  BY <1>1, <2>3, <2>4, <2>5, SMT
<1>3. /\ average \in Int /\ interval \in Int /\ delay \in Int /\ Near(w, x, y, z)
      /\ delay < 4 * interval
  <2>1. average \in Int /\ interval \in Int /\ delay \in Int /\ Near(w, x, y, z)
    BY DEF NearAfter
  <2>2. delay < 4 * interval  BY NearIsSafe, Zenon
  <2> QED  BY <2>1, <2>2
<1>4. /\ next \in Int /\ 20 * next <= 15 * average + 8 * interval - 2 * delay
      /\ 20 * next >= 15 * average + 8 * interval - 2 * delay - 25
  BY <1>3, SMT DEF Clock!next_interval, Clock!free_queue_time, Clock!Greatest,
                   Clock!full_queue_len, Clock!target_queue_len
<1> HIDE DEF next
<1>5. /\ after \in Int /\ 16 * after <= 15 * average + next
      /\ 16 * after >= 15 * average + next - 16
  BY <1>3, <1>4, SMT DEF Clock!next_average
<1> HIDE DEF after
<1>6. /\ x \in Int /\ y \in Int /\ z \in Int /\ x1 \in Int /\ y1 \in Int /\ z1 \in Int
      /\ 20 * y1 <= 15 * x + 8 * y - z /\ 20 * y1 >= 15 * x + 8 * y - z - 2500
      /\ 16 * x1 <= 15 * x + y1 /\ 16 * x1 >= 15 * x + y1 - 1600
      /\ z1 = z + 2 * y1
  BY <1>1, <1>3, <1>4, <1>5, SMT
<1> HIDE DEF w, w1, x, y, z, x1, y1, z1
<1>7. Near(w1, x1, y1, z1)  BY <1>2, <1>3, <1>6, ComesNearer
<1> QED  BY <1>1, <1>3, <1>4, <1>5, <1>7, SMT DEF NearAfter, w1, x1, y1, z1, next, after

\* The frames that come while the clock waits, and when the next is due then.
LEMMA Coming ==
  ASSUME source.period \in Nat \ {0}, NEW due \in 1..source.period, NEW dt \in Nat
  PROVE  \E m \in Nat :
           /\ Clock!Come(dt, due, 0) = [k \in 1..m |-> dt - (due + (k - 1) * source.period)]
           /\ due + m * source.period - dt \in 1..source.period
<1> DEFINE period == source.period
           Age(k) == dt - Clock!Greatest(due + (k - 1) * period, 0)
           came(m) == [k \in 1..m |-> dt - (due + (k - 1) * period)]
<1>1. \A m \in Nat : [k \in 1..m |-> Age(k)] = came(m)
  <2> SUFFICES ASSUME NEW m \in Nat, NEW k \in 1..m PROVE Age(k) = dt - (due + (k - 1) * period)
    OBVIOUS
  <2> HIDE DEF period
  <2>1. period \in Nat \ {0} /\ k - 1 \in Nat /\ due \in Nat  BY DEF period
  <2>2. (k - 1) * period \in Nat  BY <2>1, Z3
  <2> QED  BY <2>1, <2>2 DEF Clock!Greatest
<1>2. CASE due > dt
  <2>1. Clock!Come(dt, due, 0) = [k \in 1..0 |-> Age(k)]  BY <1>2 DEF Clock!Come
  <2>2. Clock!Come(dt, due, 0) = came(0)  BY <1>1, <2>1
  <2>3. due + 0 * period - dt \in 1..period  BY <1>2
  <2> QED  BY <2>2, <2>3
<1>3. CASE ~(due > dt)
  <2> DEFINE q == (dt - due) \div period
             m == q + 1
  <2>1. dt - due \in Nat  BY <1>3
  <2>2. q \in Nat /\ period * q <= dt - due /\ dt - due < period * q + period
    BY <2>1, Quotient, Zenon
  <2>3. Clock!Come(dt, due, 0) = [k \in 1..m |-> Age(k)]
    <3>1. ~(0 > dt \/ due > dt)  BY <1>3
    <3> QED  BY <3>1 DEF Clock!Come
  <2> HIDE DEF q
  <2>4. m \in Nat  BY <2>2
  <2>5. Clock!Come(dt, due, 0) = came(m)  BY <1>1, <2>3, <2>4
  <2>6. due + m * period - dt \in 1..period
    <3> HIDE DEF period
    <3>1. period \in Nat \ {0} /\ due \in Nat  BY DEF period
    <3>2. m * period = period * q + period /\ period * q \in Nat  BY <2>2, <3>1, Z3
    <3> HIDE DEF m
    <3> QED  BY <2>2, <3>1, <3>2
  <2> QED  BY <2>4, <2>5, <2>6
<1> QED  BY <1>2, <1>3

\* The queue without its first frame, and with those that come, is spaced as it was.
LEMMA QueueMoves ==
  ASSUME NEW queue, NEW n \in 1..4, NEW due \in Int, NEW period \in Nat, NEW dt \in Int,
         NEW m \in Nat, Spaced(queue, n, due, period), due + m * period - dt \in 1..period
  PROVE  LET came == [k \in 1..m |-> dt - (due + (k - 1) * period)]
             rest == Tail(queue)
         IN  Spaced([i \in DOMAIN rest |-> rest[i] + dt] \o came,
                    n - 1 + m, due + m * period - dt, period)
<1> DEFINE came == [k \in 1..m |-> dt - (due + (k - 1) * period)]
           rest == Tail(queue)
           aged == [i \in DOMAIN rest |-> rest[i] + dt]
           mp   == m * period
           Kept(i) == (n - 1 + m + 1 - i) * period - (due + mp - dt)
<1>1. mp \in Int  OBVIOUS
<1>2. queue = [i \in 1..n |-> (n + 1 - i) * period - due]  BY DEF Spaced
<1>3. aged \in Seq(Int) /\ Len(aged) = n - 1
      /\ \A i \in 1..n - 1 : aged[i] = (n - i) * period - due + dt
  <2>1. queue \in Seq(Int) /\ Len(queue) = n
    <3>1. \A i \in 1..n : (n + 1 - i) * period - due \in Int  OBVIOUS
    <3> QED  BY <1>2, <3>1
  <2>2. rest \in Seq(Int) /\ Len(rest) = n - 1 /\ \A i \in 1..n - 1 : rest[i] = queue[i + 1]
    BY <2>1
  <2>3. \A i \in 1..n - 1 : rest[i] = (n - i) * period - due
    <3> SUFFICES ASSUME NEW i \in 1..n - 1 PROVE rest[i] = (n - i) * period - due  OBVIOUS
    <3>1. i + 1 \in 1..n /\ n + 1 - (i + 1) = n - i  OBVIOUS
    <3>2. queue[i + 1] = (n + 1 - (i + 1)) * period - due  BY <1>2, <3>1
    <3> QED  BY <2>2, <3>1, <3>2
  <2> HIDE DEF rest
  <2>4. DOMAIN rest = 1..n - 1  BY <2>2
  <2>5. \A i \in 1..n - 1 : (n - i) * period \in Int  OBVIOUS
  <2>6. \A i \in 1..n - 1 : rest[i] + dt \in Int  BY <2>3, <2>5
  <2>7. aged \in Seq(Int) /\ Len(aged) = n - 1  BY <2>4, <2>6
  <2> QED  BY <2>3, <2>4, <2>7
<1>4. came \in Seq(Int) /\ Len(came) = m
  <2>1. \A k \in 1..m : dt - (due + (k - 1) * period) \in Int  OBVIOUS
  <2> QED  BY <2>1
<1> HIDE DEF aged, rest, came
<1>5. /\ aged \o came \in Seq(Int) /\ Len(aged \o came) = n - 1 + m
      /\ \A i \in 1..n - 1 : (aged \o came)[i] = aged[i]
      /\ \A i \in n..n - 1 + m : (aged \o came)[i] = came[i - (n - 1)]
  <2>1. n - 1 \in Nat /\ aged \in Seq(Int) /\ Len(aged) = n - 1  BY <1>3
  <2> QED  BY <1>4, <2>1, SMTT(60)
<1> HIDE DEF mp, Kept
<1>6. ASSUME NEW i \in 1..n - 1 + m PROVE (aged \o came)[i] = Kept(i)
  <2>1. CASE i \in 1..n - 1
    <3>1. Kept(i) = (n - i) * period + mp - (due + mp - dt) /\ (n - i) * period \in Int
      <4>1. (n - 1 + m + 1 - i) * period = (n - i) * period + m * period  BY <2>1, Z3
      <4> QED  BY <2>1, <4>1 DEF mp, Kept
    <3>2. (aged \o came)[i] = (n - i) * period - due + dt  BY <1>3, <1>5, <2>1
    <3> QED  BY <1>1, <3>1, <3>2
  <2>2. CASE i \in n..n - 1 + m
    <3> DEFINE k == i - (n - 1)
               kp == (k - 1) * period
    <3>1. k \in 1..m /\ n - 1 + m + 1 - i = m - (k - 1)  BY <2>2
    <3>2. (aged \o came)[i] = dt - (due + kp)  BY <1>5, <2>2, <3>1 DEF came
    <3>3. Kept(i) = mp - kp - (due + mp - dt) /\ kp \in Int
      <4>1. Kept(i) = (m - (k - 1)) * period - (due + mp - dt)  BY <3>1 DEF Kept
      <4> HIDE DEF k
      <4>2. (m - (k - 1)) * period = m * period - kp /\ kp \in Int  BY <3>1, Z3
      <4> HIDE DEF kp
      <4> QED  BY <4>1, <4>2 DEF mp
    <3> HIDE DEF kp
    <3> QED  BY <1>1, <3>2, <3>3
  <2>3. i \in 1..n - 1 \/ i \in n..n - 1 + m  OBVIOUS
  <2> QED  BY <2>1, <2>2, <2>3, Zenon
<1>7. aged \o came = [i \in 1..n - 1 + m |-> Kept(i)]
  <2> DEFINE all == aged \o came
  <2>1. all \in Seq(Int) /\ Len(all) = n - 1 + m  BY <1>5
  <2>2. \A i \in 1..n - 1 + m : all[i] = Kept(i)  BY <1>6
  <2> HIDE DEF all
  <2>3. all = [i \in 1..n - 1 + m |-> all[i]]  BY <2>1
  <2>4. all = [i \in 1..n - 1 + m |-> Kept(i)]  BY <2>2, <2>3
  <2> QED  BY <2>4 DEF all
<1> QED  BY <1>7 DEF Spaced, aged, rest, came, mp, Kept

\* As long as there was no upset, the frames in the queue are a period apart, and the interval,
\* its average and the delay are the nearer to what the clock aims at, the longer it runs.
ClockInv ==
  input.subject = "clock" /\ ~upset =>
    /\ source \in Clock!Sources /\ held = 0 /\ ~missed /\ ~dropped
    /\ ticks \in Nat /\ calm = ticks
    /\ \E n \in 1..4 : Spaced(ages, n, until_next, source.period)
    /\ IF ticks = 0
       THEN /\ audio_source_system = Clock!NoSystem
            /\ frame_interval = 0 /\ average_frame_interval = 0
            /\ Head(ages) = 2 * source.period - until_next
       ELSE /\ audio_source_system = source.system
            /\ NearAfter(ticks, average_frame_interval, frame_interval, Head(ages),
                         source.period)

\* The inputs of the pure functions are not about the clock.
LEMMA PureSubject ==
  ASSUME NEW x \in UNION {Samples, Audio, Silent, Times, Sequences_, Blends, Scalings,
                          Rectangles, Borders, Drags, Presets, Thumbs}
  PROVE  x.subject # "clock"
<1>1. CASE x \in Samples  BY <1>1, Zenon DEF Samples
<1>2. CASE x \in Audio
  <2> DEFINE Of(s, r) == [subject : {"audio"}, system : {s}, rate : {r}, frame_count : Counts(s, r)]
  <2>1. Audio = UNION {Of(s, r) : s \in System, r \in SampleRate}  BY DEF Audio
  <2>2. \A s, r : \A y \in Of(s, r) : y.subject = "audio"  OBVIOUS
  <2> HIDE DEF Of
  <2>3. x.subject = "audio"  BY <1>2, <2>1, <2>2
  <2> QED  BY <2>3
<1>3. CASE x \in Silent  BY <1>3 DEF Silent
<1>4. CASE x \in Times  BY <1>4 DEF Times
<1>5. CASE x \in Sequences_  BY <1>5 DEF Sequences_
<1>6. CASE x \in Blends  BY <1>6 DEF Blends
<1>7. CASE x \in Scalings  BY <1>7 DEF Scalings
<1>8. CASE x \in Rectangles  BY <1>8 DEF Rectangles
<1>9. CASE x \in Borders  BY <1>9 DEF Borders
<1>10. CASE x \in Drags  BY <1>10 DEF Drags
<1>11. CASE x \in Presets  BY <1>11 DEF Presets
<1>12. CASE x \in Thumbs  BY <1>12 DEF Thumbs
<1>13. \/ x \in Samples \/ x \in Audio \/ x \in Silent \/ x \in Times
       \/ x \in Sequences_ \/ x \in Blends \/ x \in Scalings
       \/ x \in Rectangles \/ x \in Borders \/ x \in Drags \/ x \in Presets
       \/ x \in Thumbs
  OBVIOUS
<1> QED  BY <1>1, <1>2, <1>3, <1>4, <1>5, <1>6, <1>7, <1>8, <1>9, <1>10, <1>11, <1>12, <1>13, Zenon

\* The clock starts in the invariant.
LEMMA ClockStarts == SignalInit => ClockInv
<1> SUFFICES ASSUME SignalInit, input.subject = "clock", ~upset PROVE ClockInv
  BY DEF ClockInv
<1>1. Clock!Init
  <2>1. ASSUME input = [subject |-> "fade"] PROVE FALSE
    <3>1. input.subject = "fade"  BY <2>1
    <3> QED  BY <3>1
  <2>2. ASSUME input \in UNION {Samples, Audio, Silent, Times, Sequences_, Blends, Scalings,
                                Rectangles, Borders, Drags, Presets, Thumbs}
        PROVE FALSE
    BY <2>2, PureSubject, Zenon
  <2> QED  BY <2>1, <2>2, Zenon DEF SignalInit
<1> DEFINE period == source.period
<1>2. PICK t \in FirstTick : ages = <<period + t, t>> /\ until_next = period - t
  BY <1>1 DEF Clock!Init
<1>3. /\ source \in Clock!Sources /\ held = 0 /\ ticks = 0 /\ calm = 0 /\ missed = FALSE
      /\ dropped = FALSE /\ audio_source_system = Clock!NoSystem
      /\ frame_interval = 0 /\ average_frame_interval = 0
  BY <1>1 DEF Clock!Init
<1>4. period \in Nat /\ t \in 0..period - 1
  <2>1. PeriodKnown(period)  BY <1>3, SourceClose, Zenon
  <2>2. period \in Nat  BY <2>1, SMT DEF PeriodKnown
  <2>3. t \in 0..period - 1  BY <1>3, ClockAssumption, Zenon
  <2> QED  BY <2>2, <2>3
<1> HIDE DEF period
<1>5. Spaced(ages, 2, until_next, period) /\ Head(ages) = 2 * period - until_next
  <2>1. until_next \in 1..period /\ period + t = 2 * period - until_next /\ t = period - until_next
    BY <1>2, <1>4
  <2>2. ages = [i \in 1..2 |-> (2 + 1 - i) * period - until_next]
    <3>1. ages = [i \in 1..2 |-> IF i = 1 THEN 2 * period - until_next ELSE period - until_next]
      BY <1>2, <2>1
    <3>2. \A i \in 1..2 : (IF i = 1 THEN 2 * period - until_next ELSE period - until_next)
                            = (2 + 1 - i) * period - until_next
      BY <1>4, <2>1
    <3> QED  BY <3>1, <3>2
  <2> QED  BY <1>2, <2>1, <2>2 DEF Spaced
<1>6. \E n \in 1..4 : Spaced(ages, n, until_next, period)
  <2>1. 2 \in 1..4  OBVIOUS
  <2> QED  BY <1>5, <2>1
<1> QED  BY <1>3, <1>5, <1>6 DEF ClockInv, period

\* The delay of the first frame of a queue.
LEMMA HeadSpaced ==
  ASSUME NEW queue, NEW n \in 1..4, NEW due \in Int, NEW period \in Nat,
         Spaced(queue, n, due, period)
  PROVE  queue # <<>> /\ Head(queue) = n * period - due /\ n * period \in Nat
<1>1. queue = [i \in 1..n |-> (n + 1 - i) * period - due]  BY DEF Spaced
<1>2. 1 \in DOMAIN queue  BY <1>1
<1>3. queue[1] = n * period - due
  <2>1. n + 1 - 1 = n /\ 1 \in 1..n  OBVIOUS
  <2>2. queue[1] = (n + 1 - 1) * period - due  BY <1>1, <2>1
  <2> QED  BY <2>1, <2>2
<1>4. queue # <<>>  BY <1>2
<1>5. n * period \in Nat  OBVIOUS
<1> QED  BY <1>3, <1>4, <1>5

\* What a tick without a stall does.
LEMMA TickKeeps ==
  ASSUME ClockInv, input.subject = "clock", ~upset, Clock!Tick(0)
  PROVE  /\ held' = 0 /\ ~missed' /\ ~dropped'
         /\ \E n \in 1..4 : Spaced(ages', n, until_next', source.period)
         /\ audio_source_system' = source.system
         /\ NearAfter(ticks + 1, average_frame_interval', frame_interval', Head(ages'),
                      source.period)
<1> DEFINE period   == source.period
           delay    == Head(ages)
           standard == Clock!standard_interval(source.system)
           first    == audio_source_system # source.system
           interval == frame_interval'
           average  == average_frame_interval'
           later    == delay - period + interval
<1>1. /\ source \in Clock!Sources /\ held = 0 /\ ticks \in Nat
      /\ \E n \in 1..4 : Spaced(ages, n, until_next, period)
      /\ ticks = 0 => audio_source_system = Clock!NoSystem /\ delay = 2 * period - until_next
      /\ ticks # 0 => /\ audio_source_system = source.system
                      /\ NearAfter(ticks, average_frame_interval, frame_interval, delay, period)
  BY DEF ClockInv
<1>2. PICK n \in 1..4 : Spaced(ages, n, until_next, period)  BY <1>1
<1>3. /\ PeriodKnown(period) /\ standard \in Int /\ source.system # Clock!NoSystem
      /\ 99 * (standard - period) <= period /\ 99 * (period - standard) <= period
  <2>1. /\ standard \in Nat /\ PeriodKnown(period) /\ source.system # Clock!NoSystem
        /\ 99 * (standard - period) <= period /\ 99 * (period - standard) <= period
    BY <1>1, SourceClose
  <2> HIDE DEF standard, period
  <2> QED  BY <2>1
<1>4. period \in Nat \ {0}
  <2> HIDE DEF period
  <2> QED  BY <1>3, SMT DEF PeriodKnown
<1>5. until_next \in 1..period  BY <1>2 DEF Spaced
<1>6. ages # <<>> /\ delay = n * period - until_next /\ n * period \in Nat
  <2> HIDE DEF period
  <2> QED  BY <1>2, <1>4, <1>5, HeadSpaced
<1>7. /\ first => interval = standard /\ average = standard
      /\ ~first => /\ interval = Clock!next_interval(average_frame_interval, frame_interval, delay)
                   /\ average = Clock!next_average(average_frame_interval, interval)
      /\ audio_source_system' = source.system
      /\ missed' = (ages = <<>>)
      /\ Clock!Wait(interval, Tail(ages), Clock!Greatest(held, 0))
  BY <1>6 DEF Clock!Tick
<1>8. NearAfter(ticks + 1, average, interval, later, period)
  <2> HIDE DEF period, delay, standard, interval, average
  <2>1. CASE ticks = 0
    <3> DEFINE t == period - until_next
    <3>1. first  BY <1>1, <1>3, <2>1
    <3>2. interval = standard /\ average = standard  BY <1>7, <3>1
    <3>3. later = t + standard /\ t \in Int /\ 0 <= t /\ t < period
      BY <1>1, <1>3, <1>4, <1>5, <2>1, <3>2
    <3> HIDE DEF t, later
    <3>4. NearAfter(1, standard, standard, t + standard, period)  BY <1>3, <3>3, StartsNear
    <3> QED  BY <2>1, <3>2, <3>3, <3>4
  <2>2. CASE ticks # 0
    <3>1. ticks \in Nat \ {0} /\ ~first  BY <1>1, <2>2
    <3>2. NearAfter(ticks, average_frame_interval, frame_interval, delay, period)  BY <1>1, <2>2
    <3> QED  BY <1>3, <1>7, <3>1, <3>2, StepsNear
  <2> QED  BY <2>1, <2>2
<1>9. interval \in Nat /\ 0 <= later /\ later < 4 * period
  <2> HIDE DEF period, later, interval, average
  <2>1. ticks + 1 \in Nat \ {0}  BY <1>1
  <2> QED  BY <1>3, <1>8, <2>1, NearIsSafe
<1> DEFINE rest == Tail(ages)
           came == Clock!Come(interval, until_next, 0)
           all  == [i \in DOMAIN rest |-> rest[i] + interval] \o came
<1>10. /\ held' = 0 /\ ages' = SubSeq(all, 1, Clock!Least(Len(all), 4))
       /\ dropped' = (Len(all) > 4)
       /\ until_next' = until_next + Len(came) * period - interval
  <2>1. Clock!Greatest(held, 0) = 0  BY <1>1 DEF Clock!Greatest
  <2>2. Clock!Greatest(0 - interval, 0) = 0
    <3> HIDE DEF interval
    <3>1. interval \in Nat  BY <1>9
    <3> QED  BY <3>1 DEF Clock!Greatest
  <2> QED  BY <1>7, <2>1, <2>2 DEF Clock!Wait, Clock!full_queue_len
<1>11. PICK m \in Nat : /\ came = [k \in 1..m |-> interval - (until_next + (k - 1) * period)]
                        /\ until_next + m * period - interval \in 1..period
  BY <1>4, <1>5, <1>9, Coming
<1> DEFINE due == until_next + m * period - interval
           len == n - 1 + m
<1>12. Spaced(all, len, due, period)
  <2> HIDE DEF interval, period
  <2>1. until_next \in Int /\ period \in Nat /\ interval \in Int  BY <1>4, <1>5, <1>9
  <2> QED  BY <1>2, <1>11, <2>1, QueueMoves
<1>13. Len(came) = m  BY <1>11
<1>14. until_next' = due  BY <1>10, <1>13
<1>15. due \in 1..period /\ len \in Nat /\ len * period = later + due
  <2> DEFINE mp == m * period
             np == n * period
  <2>1. len * period = np - period + mp /\ mp \in Int /\ np \in Int
    <3> HIDE DEF period
    <3> QED  BY <1>4, Z3
  <2>2. due = until_next + mp - interval /\ due \in 1..period  BY <1>11
  <2>3. delay = np - until_next  BY <1>6
  <2> HIDE DEF mp, np, due, period, delay, interval
  <2>4. len * period = later + due  BY <1>4, <1>5, <1>9, <2>1, <2>2, <2>3
  <2>5. len \in Nat  OBVIOUS
  <2> QED  BY <2>2, <2>4, <2>5
<1> HIDE DEF due, len, period, later, all, interval, average
<1>16. len \in 1..4
  <2> DEFINE lp == len * period
  <2>1. lp = later + due /\ due \in Int /\ 0 < due /\ due <= period  BY <1>4, <1>15
  <2>2. period * len = lp  BY <1>4, <1>15
  <2> HIDE DEF lp
  <2>3. later \in Int  BY <1>8 DEF NearAfter
  <2>4. 0 < lp /\ lp < 5 * period  BY <1>4, <1>9, <2>1, <2>3
  <2>5. period * len < period * 5 /\ period * 0 < period * len  BY <1>4, <2>2, <2>4
  <2>6. len < 5 /\ 0 < len  BY <1>4, <1>15, <2>5, Cancel
  <2> QED  BY <1>15, <2>6
<1>17. all # <<>> /\ Head(all) = later
  <2>1. all # <<>> /\ Head(all) = len * period - due /\ len * period \in Nat
    BY <1>4, <1>12, <1>15, <1>16, HeadSpaced
  <2> DEFINE lp == len * period
  <2>2. lp = later + due /\ due \in Int /\ Head(all) = lp - due  BY <1>15, <2>1
  <2>3. later \in Int  BY <1>8 DEF NearAfter
  <2> HIDE DEF lp
  <2>4. Head(all) = later  BY <2>2, <2>3
  <2> QED  BY <2>1, <2>4
<1>18. all \in Seq(Int) /\ Len(all) = len
  <2>1. all = [i \in 1..len |-> (len + 1 - i) * period - due]  BY <1>12 DEF Spaced
  <2>2. \A i \in 1..len : (len + 1 - i) * period - due \in Int  BY <1>4, <1>15, <1>16
  <2> QED  BY <1>16, <2>1, <2>2
<1>19. ages' = all /\ ~dropped'
  <2>1. Clock!Least(Len(all), 4) = Len(all) /\ ~(Len(all) > 4)
    BY <1>16, <1>18 DEF Clock!Least
  <2>2. SubSeq(all, 1, Len(all)) = all  BY <1>18
  <2> QED  BY <1>10, <2>1, <2>2
<1>20. \E k \in 1..4 : Spaced(ages', k, until_next', period)  BY <1>12, <1>14, <1>16, <1>19
<1>21. NearAfter(ticks + 1, average, interval, Head(ages'), period)  BY <1>8, <1>17, <1>19
<1> QED  BY <1>6, <1>7, <1>10, <1>19, <1>20, <1>21 DEF period, interval, average

\* Each step keeps the invariant.
LEMMA ClockGoesOn == ClockInv /\ [SignalNext]_<<input, vars, clock_vars>> => ClockInv'
<1> SUFFICES ASSUME ClockInv, [SignalNext]_<<input, vars, clock_vars>> PROVE ClockInv'
  OBVIOUS
<1>1. CASE UNCHANGED <<input, vars, clock_vars>>
  BY <1>1 DEF ClockInv, clock_vars
<1>2. CASE FadeStep
  BY <1>2 DEF FadeStep, ClockInv
<1>3. CASE ClockStep
  <2>1. input' = input /\ input.subject = "clock" /\ Clock!Next  BY <1>3 DEF ClockStep
  <2>2. CASE Clock!Stalls \/ Clock!Switch
    <3>1. upset' = TRUE  BY <2>2 DEF Clock!Stalls, Clock!Switch
    <3> QED  BY <3>1 DEF ClockInv
  <2>3. CASE Clock!Regular
    <3> SUFFICES ASSUME ~upset' PROVE ClockInv'  BY DEF ClockInv
    <3>1. Clock!Tick(0) /\ calm' = calm + 1 /\ upset' = upset  BY <2>3 DEF Clock!Regular
    <3>2. ~upset  BY <3>1
    <3>3. ticks' = ticks + 1 /\ source' = source  BY <3>1 DEF Clock!Tick
    <3>4. source \in Clock!Sources /\ ticks \in Nat /\ calm = ticks  BY <2>1, <3>2 DEF ClockInv
    <3>5. ticks' \in Nat /\ ticks' # 0 /\ calm' = ticks'  BY <3>1, <3>3, <3>4
    <3>6. /\ held' = 0 /\ ~missed' /\ ~dropped'
          /\ \E n \in 1..4 : Spaced(ages', n, until_next', source.period)
          /\ audio_source_system' = source.system
          /\ NearAfter(ticks + 1, average_frame_interval', frame_interval', Head(ages'),
                       source.period)
      BY <2>1, <3>1, <3>2, TickKeeps
    <3>7. source' \in Clock!Sources  BY <3>3, <3>4 DEF Clock!Sources
    <3> QED  BY <3>3, <3>5, <3>6, <3>7 DEF ClockInv
  <2> QED  BY <2>1, <2>2, <2>3 DEF Clock!Next
<1> QED  BY <1>1, <1>2, <1>3 DEF SignalNext

\* The invariant of the clock.
LEMMA ClockInvariance == SignalSpec => []ClockInv
<1> QED  BY ClockStarts, ClockGoesOn, PTL DEF SignalSpec

\* Without an upset the clock never misses a frame nor makes the mixer drop one, however long it
\* runs, whatever its phase and the drift of the source, and keeps to the delay from the 50th
\* tick on.
THEOREM ClockSteady == SignalSpec => [](~upset => ClockKeepsStep)
<1>1. ClockInv => (~upset => ClockKeepsStep)
  <2> SUFFICES ASSUME ClockInv, ~upset, input.subject = "clock"
               PROVE  ~missed /\ ~dropped /\ (calm >= 50 => Clock!OnTarget)
    BY DEF ClockKeepsStep
  <2>1. ~missed /\ ~dropped /\ ticks \in Nat /\ calm = ticks /\ source \in Clock!Sources
    BY DEF ClockInv
  <2>2. ASSUME calm >= 50 PROVE Clock!OnTarget
    <3> DEFINE period == source.period
               delay == Head(ages)
    <3>1. PICK n \in 1..4 : Spaced(ages, n, until_next, period)  BY DEF ClockInv
    <3>2. PeriodKnown(period)  BY <2>1, SourceClose
    <3>3. ticks \in Nat \ {0} /\ ticks >= 50  BY <2>1, <2>2
    <3>4. NearAfter(ticks, average_frame_interval, frame_interval, delay, period)
      BY <3>3 DEF ClockInv
    <3> HIDE DEF period, delay
    <3>5. (period \div 100) * 145 <= delay /\ delay <= (period \div 100) * 155
      BY <3>2, <3>3, <3>4, NearIsSafe
    <3>6. delay \in (period \div 100) * 145..(period \div 100) * 155
      <4> DEFINE a == (period \div 100) * 145
                 b == (period \div 100) * 155
      <4>1. a \in Int /\ b \in Int
        <5>1. period \in Int  BY <3>2 DEF PeriodKnown
        <5> QED  BY <5>1
      <4>2. delay \in Int  BY <3>4 DEF NearAfter
      <4>3. a <= delay /\ delay <= b  BY <3>5
      <4> HIDE DEF a, b
      <4>4. delay \in a..b  BY <4>1, <4>2, <4>3
      <4> QED  BY <4>4 DEF a, b
    <3>7. ages # <<>>
      <4>1. period \in Nat /\ until_next \in Int
        <5>1. period \in Nat  BY <3>2, SMT DEF PeriodKnown
        <5>2. until_next \in 1..period  BY <3>1 DEF Spaced
        <5> QED  BY <5>1, <5>2
      <4> QED  BY <3>1, <4>1, HeadSpaced
    <3> QED  BY <3>6, <3>7 DEF Clock!OnTarget, period, delay
  <2> QED  BY <2>1, <2>2
<1> QED  BY <1>1, ClockInvariance, PTL

\* The code computes the intervals in 32 bits, unsigned: nothing is lost.
THEOREM IntervalsFit ==
  SignalSpec => [](input.subject = "clock" /\ ~upset =>
                     /\ frame_interval \in Nat /\ average_frame_interval \in Nat
                     /\ Clock!full_queue_len * frame_interval < 4294967296
                     /\ average_frame_interval * 15 + frame_interval < 4294967296)
<1> DEFINE Fit(interval, average) ==
             /\ interval \in Nat /\ average \in Nat
             /\ Clock!full_queue_len * interval < 4294967296
             /\ average * 15 + interval < 4294967296
<1>1. ClockInv => (input.subject = "clock" /\ ~upset => Fit(frame_interval, average_frame_interval))
  <2> SUFFICES ASSUME ClockInv, ~upset, input.subject = "clock"
               PROVE  Fit(frame_interval, average_frame_interval)
    OBVIOUS
  <2> DEFINE period == source.period
  <2>1. CASE ticks = 0
    <3>1. frame_interval = 0 /\ average_frame_interval = 0  BY <2>1 DEF ClockInv
    <3> QED  BY <3>1, SMT DEF Clock!full_queue_len
  <2>2. CASE ticks # 0
    <3>1. ticks \in Nat \ {0} /\ source \in Clock!Sources  BY <2>2, Zenon DEF ClockInv
    <3>2. PeriodKnown(period)  BY <3>1, SourceClose
    <3>3. NearAfter(ticks, average_frame_interval, frame_interval, Head(ages), period)
      BY <2>2 DEF ClockInv
    <3> HIDE DEF period
    <3>4. /\ frame_interval \in Nat /\ frame_interval <= 2 * period
          /\ average_frame_interval \in Nat /\ average_frame_interval <= 2 * period
      BY <3>1, <3>2, <3>3, NearIsSafe
    <3> QED  BY <3>2, <3>4, SMT DEF PeriodKnown, Clock!full_queue_len
  <2> QED  BY <2>1, <2>2
<1> HIDE DEF Fit
<1>2. SignalSpec => [](input.subject = "clock" /\ ~upset => Fit(frame_interval, average_frame_interval))
  BY <1>1, ClockInvariance, PTL
<1> QED  BY <1>2 DEF Fit
======================================================================================
