----------------------------- MODULE RingBuffer_proofs -----------------------------
(***************************************************************************)
(* Proofs about ring_buffer: a slot index is a counter modulo Capacity, a   *)
(* counter is a number of operations modulo Word, and the first part is     *)
(* about how the two reductions interact.                                   *)
(***************************************************************************)
EXTENDS RingBuffer, SequenceTheorems, TLAPS

\* Division with remainder.
LEMMA DivMod ==
  ASSUME NEW n \in Nat \ {0}, NEW a \in Int
  PROVE  /\ a % n \in 0..n-1
         /\ a \div n \in Int
         /\ a = n * (a \div n) + (a % n)
  BY Z3

\* The quotient and the remainder are unique.
LEMMA DivModUnique ==
  ASSUME NEW n \in Nat \ {0}, NEW q \in Int, NEW r \in 0..n-1,
         NEW p \in Int, NEW s \in 0..n-1, n * q + r = n * p + s
  PROVE  p = q /\ r = s
<1>1. CASE p > q
  <2>1. n * (p - q) >= n  BY <1>1, Z3
  <2>2. n * (p - q) = r - s  BY Z3
  <2> QED  BY <2>1, <2>2, Z3
<1>2. CASE p < q
  <2>1. n * (q - p) >= n  BY <1>2, Z3
  <2>2. n * (q - p) = s - r  BY Z3
  <2> QED  BY <2>1, <2>2, Z3
<1>3. CASE p = q  BY <1>3, Z3
<1> QED  BY <1>1, <1>2, <1>3, Z3

\* A remainder is known by exhibiting it.
LEMMA ModIs ==
  ASSUME NEW n \in Nat \ {0}, NEW a \in Int, NEW q \in Int, NEW r \in 0..n-1,
         a = n * q + r
  PROVE  a % n = r
<1>1. a % n \in 0..n-1 /\ a \div n \in Int /\ a = n * (a \div n) + (a % n)
  BY DivMod
<1> DEFINE d == a \div n
           m == a % n
<1>2. d \in Int /\ m \in 0..n-1 /\ n * q + r = n * d + m  BY <1>1
<1> HIDE DEF d, m
<1>3. r = m  BY <1>2, DivModUnique
<1> QED  BY <1>3 DEF m

\* Reducing what is already reduced.
LEMMA ModSmall ==
  ASSUME NEW n \in Nat \ {0}, NEW a \in 0..n-1
  PROVE  a % n = a
<1>1. a = n * 0 + a  BY Z3
<1> QED  BY <1>1, ModIs

\* Taking away one multiple of the modulus.
LEMMA ModMinus ==
  ASSUME NEW n \in Nat \ {0}, NEW a \in Int, NEW k \in Int
  PROVE  (a - n * k) % n = a % n
<1> DEFINE d == a \div n
           m == a % n
<1>1. d \in Int /\ m \in 0..n-1 /\ a = n * d + m  BY DivMod
<1> HIDE DEF d, m
<1>2. n * (d - k) = n * d - n * k  BY <1>1, Z3
<1>3. a - n * k = n * (d - k) + m  BY <1>1, <1>2, Z3
<1>4. a - n * k \in Int /\ d - k \in Int  BY <1>1, Z3
<1>5. (a - n * k) % n = m  BY <1>1, <1>3, <1>4, ModIs
<1> QED  BY <1>5 DEF m

\* Fewer than n consecutive numbers have different remainders.
LEMMA ModWindow ==
  ASSUME NEW n \in Nat \ {0}, NEW a \in Int, NEW b \in Int, a < b, b < a + n
  PROVE  a % n # b % n
<1> SUFFICES ASSUME a % n = b % n PROVE FALSE
  OBVIOUS
<1> DEFINE p == a \div n
           q == b \div n
           m == a % n
<1>1. p \in Int /\ q \in Int /\ m \in 0..n-1 /\ a = n * p + m /\ b = n * q + m
  BY DivMod
<1> HIDE DEF p, q, m
<1>2. n * (q - p) = b - a  BY <1>1, Z3
<1>3. CASE q - p >= 1
  <2>1. n * (q - p) >= n  BY <1>1, <1>3, Z3
  <2> QED  BY <1>1, <1>2, <2>1, Z3
<1>4. CASE q - p <= 0
  <2>1. n * (q - p) <= 0  BY <1>1, <1>4, Z3
  <2> QED  BY <1>1, <1>2, <2>1, Z3
<1> QED  BY <1>1, <1>3, <1>4, Z3
------------------------------------------------------------------------------------
\* A counter below twice its range wraps once.
LEMMA WrapOnce ==
  ASSUME NEW i \in 0..2 * Word - 1
  PROVE  i % Word = IF i < Word THEN i ELSE i - Word
<1> USE WordAssumption, CapacityAssumption
<1>1. CASE i < Word  BY <1>1, ModSmall
<1>2. CASE i >= Word
  <2>1. i - Word \in 0..Word-1 /\ i = Word * 1 + (i - Word)  BY <1>2, Z3
  <2>2. i % Word = i - Word  BY <2>1, ModIs
  <2> QED  BY <1>2, <2>2
<1> QED  BY <1>1, <1>2

\* The number of elements between two counters.
LEMMA Distance ==
  ASSUME NEW f \in Index, NEW b \in Index
  PROVE  (b - f) % Word = IF f <= b THEN b - f ELSE b - f + Word
<1> USE WordAssumption, CapacityAssumption DEF Index
<1>1. CASE f <= b
  <2>1. b - f \in 0..Word-1  BY <1>1
  <2> QED  BY <1>1, <2>1, ModSmall
<1>2. CASE f > b
  <2>1. b - f + Word \in 0..Word-1 /\ b - f = Word * (-1) + (b - f + Word)  BY <1>2, Z3
  <2>2. (b - f) % Word = b - f + Word  BY <2>1, ModIs
  <2> QED  BY <1>2, <2>2
<1> QED  BY <1>1, <1>2

\* When Capacity divides Word, a counter that wraps does not lose its slot.
LEMMA WrapKeepsSlot ==
  ASSUME Wraps, NEW i \in Int
  PROVE  (i - Word) % Capacity = i % Capacity
<1> USE CapacityAssumption, WordAssumption
<1> DEFINE k == Word \div Capacity
<1>1. k \in Int /\ Word = Capacity * k + 0
  BY DivMod DEF Wraps
<1> HIDE DEF k
<1>2. Word = Capacity * k  BY <1>1, Z3
<1>3. (i - Capacity * k) % Capacity = i % Capacity  BY <1>1, ModMinus
<1> QED  BY <1>2, <1>3
------------------------------------------------------------------------------------
(***************************************************************************)
(* One buffer, as a function of its front_, its back_ and its slots.        *)
(***************************************************************************)
Count(f, e) == (e - f) % Word
Nth(f, k)   == ((f + k) % Word) % Capacity
Live(f, e)  == {Nth(f, k) : k \in 0..Count(f, e) - 1}
Cont(f, e, buf) == [k \in 1..Count(f, e) |-> buf[Nth(f, k - 1)]]

Window(f, e) == /\ Count(f, e) <= Capacity
                /\ Wraps \/ f <= e

Good(f, e, buf) == /\ Window(f, e)
                   /\ {s \in Slots : buf[s] # Raw} = Live(f, e)

\* The count of a buffer is a number, its slots are slots.
LEMMA CountType ==
  ASSUME NEW f \in Index, NEW e \in Index
  PROVE  /\ Count(f, e) \in 0..Word-1
         /\ \A k \in Nat : Nth(f, k) \in Slots
         /\ Live(f, e) \subseteq Slots
<1> USE WordAssumption, CapacityAssumption
<1>1. Count(f, e) \in 0..Word-1  BY Distance DEF Count, Index
<1>2. ASSUME NEW k \in Nat PROVE Nth(f, k) \in Slots
  <2>1. f + k \in Int /\ Word \in Nat \ {0}  BY DEF Index
  <2>2. (f + k) % Word \in Int  BY <2>1, DivMod
  <2> QED  BY <2>2, DivMod DEF Nth, Slots
<1> QED  BY <1>1, <1>2 DEF Live

\* Inside the window a slot is the sum of front_ and the position, modulo Capacity.
LEMMA SlotOf ==
  ASSUME NEW f \in Index, NEW e \in Index, Window(f, e), NEW k \in 0..Count(f, e)
  PROVE  Nth(f, k) = (f + k) % Capacity
<1> USE WordAssumption, CapacityAssumption DEF Index
<1>1. Count(f, e) \in 0..Word-1  BY CountType
<1>2. f + k \in 0..2*Word-1  BY <1>1
<1>3. (f + k) % Word = IF f + k < Word THEN f + k ELSE f + k - Word  BY <1>2, WrapOnce
<1>4. CASE f + k < Word  BY <1>3, <1>4 DEF Nth
<1>5. CASE f + k >= Word
  <2>1. Wraps
    <3> SUFFICES ASSUME f <= e PROVE FALSE  BY DEF Window
    <3> QED  BY <1>5, <1>1, Distance DEF Count
  <2>2. f + k \in Int  BY <1>1
  <2>3. (f + k) % Word = f + k - Word  BY <1>2, <1>3, <1>5
  <2>4. (f + k - Word) % Capacity = (f + k) % Capacity
    <3> DEFINE i == f + k
    <3> HIDE DEF i
    <3>1. i \in Int  BY <2>2 DEF i
    <3>2. (i - Word) % Capacity = i % Capacity  BY <3>1, <2>1, WrapKeepsSlot
    <3> QED  BY <1>1, <3>2 DEF i
  <2> QED  BY <2>3, <2>4 DEF Nth
<1> QED  BY <1>2, <1>4, <1>5

\* The slot after the last element is that of back_.
LEMMA EndSlot ==
  ASSUME NEW f \in Index, NEW e \in Index
  PROVE  Nth(f, Count(f, e)) = e % Capacity
<1> USE WordAssumption, CapacityAssumption DEF Index
<1>1. Count(f, e) = IF f <= e THEN e - f ELSE e - f + Word  BY Distance DEF Count
<1>2. f + Count(f, e) \in 0..2*Word-1  BY <1>1
<1>3. (f + Count(f, e)) % Word = e  BY <1>1, <1>2, WrapOnce
<1> QED  BY <1>3 DEF Nth

\* Different positions of the window have different slots.
LEMMA SlotsDiffer ==
  ASSUME NEW f \in Index, NEW e \in Index, Window(f, e),
         NEW j \in 0..Count(f, e), NEW k \in 0..Count(f, e), j < k, k < j + Capacity
  PROVE  Nth(f, j) # Nth(f, k)
<1> USE WordAssumption, CapacityAssumption DEF Index
<1>1. Count(f, e) \in 0..Word-1  BY CountType
<1>2. f + j \in Int /\ f + k \in Int /\ f + j < f + k /\ f + k < f + j + Capacity
  BY <1>1
<1>3. (f + j) % Capacity # (f + k) % Capacity  BY <1>2, ModWindow
<1> QED  BY <1>3, SlotOf

\* The contents of a buffer are a sequence as long as its count.
LEMMA ContType ==
  ASSUME NEW f \in Index, NEW e \in Index, NEW buf \in [Slots -> T \cup {Raw}]
  PROVE  LET c == Cont(f, e, buf)
         IN  /\ c \in Seq(T \cup {Raw})
             /\ Len(c) = Count(f, e)
             /\ \A k \in 1..Count(f, e) : c[k] = buf[Nth(f, k - 1)]
<1> DEFINE n == Count(f, e)
           c == Cont(f, e, buf)
<1>1. n \in Nat /\ \A k \in Nat : Nth(f, k) \in Slots
  BY CountType, WordAssumption
<1>2. \A k \in 1..n : k - 1 \in Nat  BY <1>1
<1>3. c = [k \in 1..n |-> buf[Nth(f, k - 1)]]  BY DEF Cont
<1> HIDE DEF n, c
<1>4. c \in [1..n -> T \cup {Raw}]  BY <1>1, <1>2, <1>3
<1>5. c \in Seq(T \cup {Raw}) /\ Len(c) = n  BY <1>1, <1>4
<1> QED  BY <1>3, <1>5 DEF n, c

\* What a push does to one buffer.
LEMMA PushOne ==
  ASSUME NEW f \in Index, NEW e \in Index, NEW buf \in [Slots -> T \cup {Raw}], NEW v \in T,
         Good(f, e, buf), Count(f, e) # Capacity, Wraps \/ e + 1 < Word
  PROVE  LET e2   == (e + 1) % Word
             buf2 == [buf EXCEPT ![e % Capacity] = v]
         IN  /\ e2 \in Index
             /\ buf2 \in [Slots -> T \cup {Raw}]
             /\ Good(f, e2, buf2)
             /\ Count(f, e) < Capacity
             /\ Cont(f, e2, buf2) = Append(Cont(f, e, buf), v)
             /\ (e2 - 1) % Word = e
             /\ f # e => f % Capacity # e % Capacity
<1> USE WordAssumption, CapacityAssumption DEF Index
<1> DEFINE e2   == (e + 1) % Word
           s    == e % Capacity
           buf2 == [buf EXCEPT ![s] = v]
           n    == Count(f, e)
<1>0. Window(f, e) /\ {x \in Slots : buf[x] # Raw} = Live(f, e)  BY DEF Good
<1>1. n \in 0..Word-1 /\ n < Capacity
  <2>1. n \in 0..Word-1  BY CountType
  <2>2. n <= Capacity /\ n # Capacity  BY <1>0 DEF Window
  <2> QED  BY <2>1, <2>2
<1>2. n = IF f <= e THEN e - f ELSE e - f + Word  BY Distance DEF Count
<1>3. e2 = IF e + 1 < Word THEN e + 1 ELSE 0
  <2>1. e + 1 \in 0..2*Word-1  OBVIOUS
  <2> QED  BY <2>1, WrapOnce
<1> HIDE DEF e2
<1>4. e2 \in Index  BY <1>3
<1>5. Count(f, e2) = n + 1
  <2>1. Count(f, e2) = IF f <= e2 THEN e2 - f ELSE e2 - f + Word  BY <1>4, Distance DEF Count
  <2> QED  BY <2>1, <1>1, <1>2, <1>3
<1>6. s \in Slots /\ s = Nth(f, n)
  <2>1. s = Nth(f, n)  BY EndSlot
  <2> QED  BY <2>1, CountType, <1>1
<1> HIDE DEF n, s
<1>7. Window(f, e2)
  <2>1. Wraps \/ f <= e2  BY <1>0, <1>3 DEF Window
  <2> QED  BY <2>1, <1>1, <1>5 DEF Window
<1>8. \A k \in 0..n-1 : Nth(f, k) # s
  <2> SUFFICES ASSUME NEW k \in 0..n-1 PROVE Nth(f, k) # s  OBVIOUS
  <2>1. k \in 0..Count(f, e2) /\ n \in 0..Count(f, e2) /\ k < n /\ n < k + Capacity
    BY <1>1, <1>5
  <2> QED  BY <2>1, <1>4, <1>6, <1>7, SlotsDiffer
<1>9. Live(f, e2) = Live(f, e) \cup {s}
  <2>1. \A k : k \in 0..Count(f, e2) - 1 <=> k \in 0..n-1 \/ k = n  BY <1>1, <1>5
  <2>2. n = Count(f, e)  BY DEF n
  <2> QED  BY <2>1, <2>2, <1>6 DEF Live
<1>10. buf2 \in [Slots -> T \cup {Raw}]  BY <1>6
<1>11. {x \in Slots : buf2[x] # Raw} = Live(f, e) \cup {s}
  BY <1>0, <1>6, RawAssumption
<1>12. Good(f, e2, buf2)  BY <1>7, <1>9, <1>11 DEF Good
<1>13. Cont(f, e2, buf2) = Append(Cont(f, e, buf), v)
  <2> DEFINE S == T \cup {Raw}
             c == Cont(f, e, buf)
             d == Cont(f, e2, buf2)
  <2> HIDE DEF buf2
  <2>1. c \in Seq(S) /\ Len(c) = n /\ \A k \in 1..n : c[k] = buf[Nth(f, k - 1)]
    BY ContType DEF n
  <2>2. d \in Seq(S) /\ Len(d) = n + 1 /\ \A k \in 1..n+1 : d[k] = buf2[Nth(f, k - 1)]
    <3>1. d \in Seq(S) /\ Len(d) = Count(f, e2)
            /\ \A k \in 1..Count(f, e2) : d[k] = buf2[Nth(f, k - 1)]
      BY <1>4, <1>10, ContType
    <3> HIDE DEF d
    <3> QED  BY <3>1, <1>5
  <2>3. v \in S  OBVIOUS
  <2> DEFINE a == Append(c, v)
  <2>4. a \in Seq(S) /\ Len(a) = n + 1 /\ a[n+1] = v /\ \A k \in 1..n : a[k] = c[k]
    BY <2>1, <2>3, AppendProperties
  <2>5. ASSUME NEW k \in 1..n PROVE buf2[Nth(f, k - 1)] = buf[Nth(f, k - 1)]
    <3>1. k - 1 \in 0..n-1 /\ k - 1 \in Nat  BY <1>1
    <3>2. Nth(f, k - 1) \in Slots  BY <3>1, CountType
    <3> QED  BY <3>1, <3>2, <1>8 DEF buf2
  <2>6. ASSUME NEW k \in 1..n+1, k = n + 1 PROVE d[k] = v
    <3>1. k - 1 = n  BY <2>6, <1>1
    <3>2. buf2[s] = v  BY <1>6 DEF buf2
    <3> HIDE DEF d
    <3>3. d[k] = buf2[Nth(f, k - 1)]  BY <2>2
    <3> QED  BY <3>1, <3>2, <3>3, <1>6
  <2> HIDE DEF a, c, d, S
  <2>7. \A k \in 1..n+1 : d[k] = a[k]
    <3> SUFFICES ASSUME NEW k \in 1..n+1 PROVE d[k] = a[k]  OBVIOUS
    <3>1. CASE k = n + 1  BY <3>1, <2>4, <2>6
    <3>2. CASE k # n + 1
      <4>1. k \in 1..n  BY <3>2, <1>1
      <4> QED  BY <4>1, <2>1, <2>2, <2>4, <2>5
    <3> QED  BY <3>1, <3>2
  <2>8. d = a  BY <2>2, <2>4, <2>7, SeqEqual
  <2> QED  BY <2>8 DEF a, c, d
<1>14. (e2 - 1) % Word = e
  <2>1. CASE e + 1 < Word  BY <2>1, <1>3, ModSmall
  <2>2. CASE e + 1 >= Word
    <3>1. e2 - 1 = Word * (-1) + e /\ e2 - 1 \in Int  BY <2>2, <1>3, Z3
    <3> QED  BY <3>1, ModIs
  <2> QED  BY <2>1, <2>2
<1>15. ASSUME f # e PROVE f % Capacity # s
  <2>1. n > 0  BY <1>2, <1>15
  <2>2. Nth(f, 0) = f % Capacity
    <3>1. 0 \in 0..Count(f, e2) /\ f + 0 = f  BY <1>1, <1>5
    <3> QED  BY <3>1, <1>4, <1>7, SlotOf
  <2> QED  BY <2>1, <2>2, <1>1, <1>8
<1> QED  BY <1>1, <1>4, <1>10, <1>12, <1>13, <1>14, <1>15 DEF n, s, e2

\* What a pop does to one buffer.
LEMMA PopOne ==
  ASSUME NEW f \in Index, NEW e \in Index, NEW buf \in [Slots -> T \cup {Raw}],
         Good(f, e, buf), f # e
  PROVE  LET f2   == (f + 1) % Word
             buf2 == [buf EXCEPT ![f % Capacity] = Raw]
         IN  /\ f2 \in Index
             /\ buf2 \in [Slots -> T \cup {Raw}]
             /\ Good(f2, e, buf2)
             /\ Cont(f, e, buf) # <<>>
             /\ Cont(f2, e, buf2) = Tail(Cont(f, e, buf))
<1> USE WordAssumption, CapacityAssumption DEF Index
<1> DEFINE f2   == (f + 1) % Word
           s    == f % Capacity
           buf2 == [buf EXCEPT ![s] = Raw]
           n    == Count(f, e)
<1>0. Window(f, e) /\ {x \in Slots : buf[x] # Raw} = Live(f, e)  BY DEF Good
<1>1. n \in 0..Word-1  BY CountType
<1>2. n = IF f <= e THEN e - f ELSE e - f + Word  BY Distance DEF Count
<1>3. n >= 1 /\ n <= Capacity  BY <1>0, <1>2 DEF Window
<1>4. f2 = IF f + 1 < Word THEN f + 1 ELSE 0
  <2>1. f + 1 \in 0..2*Word-1  OBVIOUS
  <2> QED  BY <2>1, WrapOnce
<1> HIDE DEF f2
<1>5. f2 \in Index  BY <1>4
<1>6. Count(f2, e) = n - 1
  <2>1. Count(f2, e) = IF f2 <= e THEN e - f2 ELSE e - f2 + Word  BY <1>5, Distance DEF Count
  <2> QED  BY <2>1, <1>1, <1>2, <1>4
<1>7. Window(f2, e)
  <2>1. Wraps \/ f2 <= e  BY <1>0, <1>4 DEF Window
  <2> QED  BY <2>1, <1>3, <1>6, <1>1 DEF Window
<1>8. ASSUME NEW k \in 0..n-1 PROVE Nth(f2, k) = Nth(f, k + 1)
  <2>1. f2 + k \in 0..2*Word-1 /\ f + (k + 1) \in 0..2*Word-1  BY <1>1, <1>5
  <2>2. (f2 + k) % Word = IF f2 + k < Word THEN f2 + k ELSE f2 + k - Word
    BY <2>1, <1>5, WrapOnce
  <2>3. (f + (k+1)) % Word = IF f + (k+1) < Word THEN f + (k+1) ELSE f + (k+1) - Word
    BY <2>1, WrapOnce
  <2>4. (f2 + k) % Word = (f + (k+1)) % Word  BY <2>2, <2>3, <1>4, <1>1
  <2> QED  BY <2>4 DEF Nth
<1>9. s \in Slots /\ s = Nth(f, 0)
  <2>1. 0 \in 0..Count(f, e) /\ f + 0 = f  BY <1>1
  <2>2. s = Nth(f, 0)  BY <2>1, <1>0, SlotOf
  <2> QED  BY <2>2, CountType
<1> HIDE DEF n, s
<1>10. ASSUME NEW k \in 1..n-1 PROVE Nth(f, k) # s
  <2>1. 0 \in 0..Count(f, e) /\ k \in 0..Count(f, e) /\ 0 < k /\ k < 0 + Capacity
    BY <1>1, <1>3 DEF n
  <2> QED  BY <2>1, <1>0, <1>9, SlotsDiffer
<1>11. Live(f2, e) = Live(f, e) \ {s}
  <2>1. Live(f2, e) = {Nth(f, k + 1) : k \in 0..n-2}
    <3>1. \A k : k \in 0..Count(f2, e) - 1 <=> k \in 0..n-2  BY <1>1, <1>6
    <3>2. \A k \in 0..n-2 : k \in 0..n-1  BY <1>1
    <3> QED  BY <3>1, <3>2, <1>8 DEF Live
  <2>2. Live(f, e) = {Nth(f, k) : k \in 0..n-1}  BY DEF Live, n
  <2>3. \A k \in 0..n-2 : k + 1 \in 1..n-1  BY <1>1
  <2>4. \A k \in 1..n-1 : k - 1 \in 0..n-2 /\ (k - 1) + 1 = k  BY <1>1
  <2>5. \A k \in 0..n-1 : k = 0 \/ k \in 1..n-1  BY <1>1
  <2>6. Live(f2, e) \subseteq Live(f, e) \ {s}
    <3>1. \A k \in 1..n-1 : k \in 0..n-1  BY <1>1
    <3> QED  BY <3>1, <2>1, <2>2, <2>3, <1>10
  <2>7. Live(f, e) \ {s} \subseteq Live(f2, e)
    BY <2>1, <2>2, <2>4, <2>5, <1>9
  <2> QED  BY <2>6, <2>7
<1>12. buf2 \in [Slots -> T \cup {Raw}]  BY <1>9
<1>13. {x \in Slots : buf2[x] # Raw} = Live(f, e) \ {s}  BY <1>0, <1>9
<1>14. Good(f2, e, buf2)  BY <1>7, <1>11, <1>13 DEF Good
<1>15. Cont(f, e, buf) # <<>> /\ Cont(f2, e, buf2) = Tail(Cont(f, e, buf))
  <2> DEFINE S == T \cup {Raw}
             c == Cont(f, e, buf)
             d == Cont(f2, e, buf2)
             t == Tail(c)
  <2> HIDE DEF buf2
  <2>1. c \in Seq(S) /\ Len(c) = n /\ \A k \in 1..n : c[k] = buf[Nth(f, k - 1)]
    BY ContType DEF n
  <2>2. d \in Seq(S) /\ Len(d) = n - 1 /\ \A k \in 1..n-1 : d[k] = buf2[Nth(f2, k - 1)]
    <3>1. d \in Seq(S) /\ Len(d) = Count(f2, e)
            /\ \A k \in 1..Count(f2, e) : d[k] = buf2[Nth(f2, k - 1)]
      BY <1>5, <1>12, ContType
    <3> HIDE DEF d
    <3> QED  BY <3>1, <1>6
  <2> HIDE DEF c, d
  <2>3. c # <<>>  BY <2>1, <1>3, EmptySeq
  <2>4. t \in Seq(S) /\ Len(t) = n - 1 /\ \A k \in 1..n-1 : t[k] = c[k+1]
    BY <2>1, <2>3, HeadTailProperties
  <2> HIDE DEF t, S
  <2>5. \A k \in 1..n-1 : d[k] = t[k]
    <3> SUFFICES ASSUME NEW k \in 1..n-1 PROVE d[k] = t[k]  OBVIOUS
    <3>1. k - 1 \in 0..n-1 /\ (k - 1) + 1 = k /\ k + 1 \in 1..n /\ k + 1 - 1 = k /\ k \in Nat
      BY <1>1
    <3>2. Nth(f2, k - 1) = Nth(f, k)  BY <3>1, <1>8
    <3>3. Nth(f, k) \in Slots /\ Nth(f, k) # s  BY <3>1, <1>10, CountType
    <3>4. buf2[Nth(f, k)] = buf[Nth(f, k)]  BY <3>3 DEF buf2
    <3>5. d[k] = buf2[Nth(f2, k - 1)] /\ t[k] = c[k+1]  BY <2>2, <2>4
    <3>6. c[k+1] = buf[Nth(f, k)]  BY <3>1, <2>1
    <3> QED  BY <3>2, <3>4, <3>5, <3>6
  <2>6. d = t  BY <2>2, <2>4, <2>5, SeqEqual
  <2> QED  BY <2>3, <2>6 DEF c, d, t
<1> QED  BY <1>5, <1>12, <1>14, <1>15 DEF f2, s

\* An empty buffer.
LEMMA EmptyOne ==
  ASSUME NEW f \in Index
  PROVE  /\ Count(f, f) = 0
         /\ Live(f, f) = {}
         /\ Window(f, f)
         /\ \A buf : Cont(f, f, buf) = <<>>
<1> USE WordAssumption, CapacityAssumption DEF Index
<1>1. Count(f, f) = 0  BY Distance DEF Count
<1>2. Live(f, f) = {}  BY <1>1 DEF Live
<1>3. Window(f, f)  BY <1>1 DEF Window
<1>4. \A buf : Cont(f, f, buf) = <<>>  BY <1>1 DEF Cont
<1> QED  BY <1>1, <1>2, <1>3, <1>4

\* What a reset does to one buffer.
LEMMA ResetOne ==
  ASSUME NEW f \in Index, NEW e \in Index, NEW buf \in [Slots -> T \cup {Raw}],
         Good(f, e, buf)
  PROVE  LET buf2 == [x \in Slots |-> IF x \in Live(f, e) THEN Raw ELSE buf[x]]
         IN  /\ buf2 \in [Slots -> T \cup {Raw}]
             /\ Good(e, e, buf2)
             /\ Cont(e, e, buf2) = <<>>
<1> DEFINE buf2 == [x \in Slots |-> IF x \in Live(f, e) THEN Raw ELSE buf[x]]
<1>1. {x \in Slots : buf2[x] # Raw} = {}  BY DEF Good
<1>2. Window(e, e) /\ Live(e, e) = {} /\ Cont(e, e, buf2) = <<>>  BY EmptyOne
<1> QED  BY <1>1, <1>2 DEF Good

\* Every element of a buffer is an element of T.
LEMMA ElementType ==
  ASSUME NEW f \in Index, NEW e \in Index, NEW buf \in [Slots -> T \cup {Raw}],
         Good(f, e, buf), NEW k \in 0..Count(f, e) - 1
  PROVE  buf[Nth(f, k)] \in T
<1>1. Nth(f, k) \in Live(f, e)  BY DEF Live
<1>2. Live(f, e) \subseteq Slots  BY CountType
<1> QED  BY <1>1, <1>2 DEF Good

\* What writing the n elements of one buffer from index g on makes of another,
\* whose other slots hold no object.
LEMMA CopyOne ==
  ASSUME NEW f \in Index, NEW e \in Index, NEW buf \in [Slots -> T \cup {Raw}],
         Good(f, e, buf),
         NEW g \in Index, Wraps \/ g + Count(f, e) < Word,
         NEW buf2 \in [Slots -> T \cup {Raw}],
         \A k \in 0..Count(f, e) - 1 : buf2[Nth(g, k)] = buf[Nth(f, k)],
         \A x \in Slots : (\A k \in 0..Count(f, e) - 1 : x # Nth(g, k)) => buf2[x] = Raw
  PROVE  LET e2 == (g + Count(f, e)) % Word
         IN  /\ e2 \in Index
             /\ Window(g, e2)
             /\ Count(g, e2) = Count(f, e)
             /\ Good(g, e2, buf2)
             /\ Cont(g, e2, buf2) = Cont(f, e, buf)
<1> USE WordAssumption, CapacityAssumption DEF Index
<1> DEFINE n  == Count(f, e)
           e2 == (g + n) % Word
<1>1. n \in 0..Word-1 /\ n <= Capacity
  <2>1. n \in 0..Word-1  BY CountType
  <2>2. n <= Capacity  BY DEF Good, Window
  <2> QED  BY <2>1, <2>2
<1> HIDE DEF n
<1>2. e2 = IF g + n < Word THEN g + n ELSE g + n - Word
  <2> DEFINE i == g + n
  <2>1. i \in 0..2*Word-1  BY <1>1
  <2> HIDE DEF i
  <2>2. i % Word = IF i < Word THEN i ELSE i - Word  BY <2>1, WrapOnce
  <2> QED  BY <1>1, <2>2 DEF i
<1> HIDE DEF e2
<1>3. e2 \in Index  BY <1>1, <1>2
<1>4. Count(g, e2) = n
  <2>1. Count(g, e2) = IF g <= e2 THEN e2 - g ELSE e2 - g + Word  BY <1>3, Distance DEF Count
  <2> QED  BY <2>1, <1>1, <1>2
<1>5. Window(g, e2)
  <2>1. Wraps \/ g + n < Word  BY DEF n
  <2>2. Wraps \/ g <= e2  BY <2>1, <1>1, <1>2
  <2> QED  BY <2>2, <1>1, <1>4 DEF Window
<1>6. Live(g, e2) = {Nth(g, k) : k \in 0..n-1}  BY <1>4 DEF Live
<1>7. \A k \in 0..n-1 : Nth(g, k) \in Slots /\ buf2[Nth(g, k)] # Raw
  <2> SUFFICES ASSUME NEW k \in 0..n-1
               PROVE  Nth(g, k) \in Slots /\ buf2[Nth(g, k)] # Raw
    OBVIOUS
  <2>1. k \in Nat  BY <1>1
  <2>2. buf[Nth(f, k)] \in T  BY ElementType DEF n
  <2>3. buf2[Nth(g, k)] = buf[Nth(f, k)]  BY DEF n
  <2> QED  BY <2>1, <2>2, <2>3, CountType, RawAssumption
<1>8. \A x \in Slots : (\A k \in 0..n-1 : x # Nth(g, k)) => buf2[x] = Raw  BY DEF n
<1>9. {x \in Slots : buf2[x] # Raw} = Live(g, e2)  BY <1>6, <1>7, <1>8
<1>10. Good(g, e2, buf2)  BY <1>5, <1>9 DEF Good
<1>11. Cont(g, e2, buf2) = Cont(f, e, buf)
  <2>1. \A k \in 1..n : buf2[Nth(g, k - 1)] = buf[Nth(f, k - 1)]
    <3> SUFFICES ASSUME NEW k \in 1..n PROVE buf2[Nth(g, k - 1)] = buf[Nth(f, k - 1)]
      OBVIOUS
    <3>1. k - 1 \in 0..n-1  BY <1>1
    <3> QED  BY <3>1 DEF n
  <2>2. Cont(g, e2, buf2) = [k \in 1..n |-> buf2[Nth(g, k - 1)]]  BY <1>4 DEF Cont
  <2>3. Cont(f, e, buf) = [k \in 1..n |-> buf[Nth(f, k - 1)]]  BY DEF Cont, n
  <2> QED  BY <2>1, <2>2, <2>3
<1> QED  BY <1>3, <1>4, <1>5, <1>10, <1>11 DEF n, e2

\* What the copy constructor makes: the elements from slot 0 on.
LEMMA ConstructOne ==
  ASSUME NEW f \in Index, NEW e \in Index, NEW buf \in [Slots -> T \cup {Raw}],
         Good(f, e, buf)
  PROVE  LET n    == Count(f, e)
             buf2 == [x \in Slots |-> IF x < n THEN buf[Nth(f, x)] ELSE Raw]
         IN  /\ 0 \in Index /\ n \in Index
             /\ buf2 \in [Slots -> T \cup {Raw}]
             /\ Good(0, n, buf2)
             /\ Cont(0, n, buf2) = Cont(f, e, buf)
<1> USE WordAssumption, CapacityAssumption DEF Index
<1> DEFINE n    == Count(f, e)
           buf2 == [x \in Slots |-> IF x < n THEN buf[Nth(f, x)] ELSE Raw]
<1>1. n \in 0..Word-1 /\ n <= Capacity
  <2>1. n \in 0..Word-1  BY CountType
  <2>2. n <= Capacity  BY DEF Good, Window
  <2> QED  BY <2>1, <2>2
<1>2. \A k \in 0..n-1 : k \in Slots /\ buf[Nth(f, k)] \in T
  <2>1. \A k \in 0..n-1 : buf[Nth(f, k)] \in T  BY ElementType
  <2> HIDE DEF n
  <2> QED  BY <2>1, <1>1 DEF Slots
<1> HIDE DEF n
<1>3. \A x \in Slots : x < n => x \in 0..n-1  BY <1>1 DEF Slots
<1>4. buf2 \in [Slots -> T \cup {Raw}]  BY <1>2, <1>3
<1>5. ASSUME NEW k \in 0..n-1 PROVE Nth(0, k) = k
  <2>1. k \in 0..Word-1 /\ k \in 0..Capacity-1 /\ 0 + k = k /\ Word \in Nat \ {0}  BY <1>1
  <2>2. k % Word = k /\ k % Capacity = k  BY <2>1, ModSmall
  <2> QED  BY <2>1, <2>2 DEF Nth
<1>6. \A k \in 0..n-1 : buf2[Nth(0, k)] = buf[Nth(f, k)]
  <2> SUFFICES ASSUME NEW k \in 0..n-1 PROVE buf2[Nth(0, k)] = buf[Nth(f, k)]  OBVIOUS
  <2>1. k < n  BY <1>1
  <2> QED  BY <2>1, <1>2, <1>5
<1>7. ASSUME NEW x \in Slots, \A k \in 0..n-1 : x # Nth(0, k) PROVE buf2[x] = Raw
  <2>1. ~(x < n)  BY <1>3, <1>5, <1>7
  <2> QED  BY <2>1
<1>8. 0 + n = n /\ n % Word = n
  <2>1. n \in 0..Word-1 /\ Word \in Nat \ {0} /\ 0 + n = n  BY <1>1
  <2> QED  BY <2>1, ModSmall
<1>9. 0 \in Index /\ (Wraps \/ 0 + n < Word)  BY <1>1
<1> HIDE DEF buf2
<1>10. Good(0, n, buf2) /\ Cont(0, n, buf2) = Cont(f, e, buf)
  <2>1. LET e2 == (0 + Count(f, e)) % Word
        IN  Good(0, e2, buf2) /\ Cont(0, e2, buf2) = Cont(f, e, buf)
    BY <1>4, <1>6, <1>7, <1>9, CopyOne DEF n
  <2> QED  BY <2>1, <1>8 DEF n
<1> QED  BY <1>1, <1>4, <1>9, <1>10 DEF n, buf2

\* What an assignment from (f, e, buf) makes of (f1, e1, buf1).
LEMMA AssignOne ==
  ASSUME NEW f1 \in Index, NEW e1 \in Index, NEW buf1 \in [Slots -> T \cup {Raw}],
         Good(f1, e1, buf1),
         NEW f \in Index, NEW e \in Index, NEW buf \in [Slots -> T \cup {Raw}],
         Good(f, e, buf), Wraps \/ e1 + Count(f, e) < Word
  PROVE  LET K    == 0..Count(f, e) - 1
             e2   == (e1 + Count(f, e)) % Word
             buf2 == [x \in Slots |->
                        IF \E k \in K : x = Nth(e1, k)
                        THEN buf[Nth(f, CHOOSE k \in K : x = Nth(e1, k))]
                        ELSE IF x \in Live(f1, e1) THEN Raw ELSE buf1[x]]
         IN  /\ e2 \in Index
             /\ buf2 \in [Slots -> T \cup {Raw}]
             /\ Good(e1, e2, buf2)
             /\ Cont(e1, e2, buf2) = Cont(f, e, buf)
<1> USE WordAssumption, CapacityAssumption DEF Index
<1> DEFINE n    == Count(f, e)
           K    == 0..n - 1
           e2   == (e1 + n) % Word
           pos(x) == CHOOSE k \in K : x = Nth(e1, k)
           buf2 == [x \in Slots |->
                        IF \E k \in K : x = Nth(e1, k)
                        THEN buf[Nth(f, pos(x))]
                        ELSE IF x \in Live(f1, e1) THEN Raw ELSE buf1[x]]
<1>1. n \in 0..Word-1 /\ n <= Capacity
  <2>1. n \in 0..Word-1  BY CountType
  <2>2. n <= Capacity  BY DEF Good, Window
  <2> QED  BY <2>1, <2>2
<1>2. \A k \in K : buf[Nth(f, k)] \in T  BY ElementType
<1>3. \A k \in K : Nth(e1, k) \in Slots
  <2>1. \A k \in K : k \in Nat  BY <1>1
  <2> QED  BY <2>1, CountType
<1>4. \A j \in K, k \in K : Nth(e1, j) = Nth(e1, k) => j = k
  <2> SUFFICES ASSUME NEW j \in K, NEW k \in K, j < k PROVE Nth(e1, j) # Nth(e1, k)
    BY <1>1
  <2> HIDE DEF n
  <2>1. e2 = IF e1 + n < Word THEN e1 + n ELSE e1 + n - Word
    <3> DEFINE i == e1 + n
    <3>1. i \in 0..2*Word-1  BY <1>1
    <3> HIDE DEF i
    <3>2. i % Word = IF i < Word THEN i ELSE i - Word  BY <3>1, WrapOnce
    <3> QED  BY <1>1, <3>2 DEF i
  <2> HIDE DEF e2
  <2>2. e2 \in Index  BY <1>1, <2>1
  <2>3. Count(e1, e2) = n
    <3>1. Count(e1, e2) = IF e1 <= e2 THEN e2 - e1 ELSE e2 - e1 + Word
      BY <2>2, Distance DEF Count
    <3> QED  BY <3>1, <1>1, <2>1
  <2>4. Window(e1, e2)
    <3>1. Wraps \/ e1 + n < Word  BY DEF n
    <3>2. Wraps \/ e1 <= e2  BY <3>1, <1>1, <2>1
    <3> QED  BY <3>2, <1>1, <2>3 DEF Window
  <2>5. j \in 0..Count(e1, e2) /\ k \in 0..Count(e1, e2) /\ k < j + Capacity
    BY <1>1, <2>3
  <2> QED  BY <2>2, <2>4, <2>5, SlotsDiffer
<1> HIDE DEF n, K
<1>5. \A k \in K : pos(Nth(e1, k)) = k
  <2> SUFFICES ASSUME NEW k \in K PROVE pos(Nth(e1, k)) = k  OBVIOUS
  <2>1. pos(Nth(e1, k)) \in K /\ Nth(e1, k) = Nth(e1, pos(Nth(e1, k)))  OBVIOUS
  <2> HIDE DEF pos
  <2> QED  BY <2>1, <1>4
<1>6. \A x \in Slots : (\E k \in K : x = Nth(e1, k)) => pos(x) \in K  OBVIOUS
<1> HIDE DEF pos
<1>7. buf2 \in [Slots -> T \cup {Raw}]  BY <1>2, <1>6
<1>8. \A k \in K : buf2[Nth(e1, k)] = buf[Nth(f, k)]  BY <1>3, <1>5
<1>9. \A x \in Slots : (\A k \in K : x # Nth(e1, k)) => buf2[x] = Raw  BY DEF Good
<1> HIDE DEF buf2
<1>10. /\ e2 \in Index
       /\ Good(e1, e2, buf2)
       /\ Cont(e1, e2, buf2) = Cont(f, e, buf)
  BY <1>7, <1>8, <1>9, CopyOne DEF n, K
<1> QED  BY <1>7, <1>10 DEF n, K, pos, buf2
------------------------------------------------------------------------------------
(***************************************************************************)
(* The specification.                                                       *)
(***************************************************************************)
BufferInv(b) == Good(front_[b], back_[b], buffer_[b])

IInv == TypeOK /\ \A b \in Buffers : BufferInv(b)

\* The inductive invariant gives the two invariants that the runs check.
LEMMA InvImplied == IInv => TypeOK /\ LiveExact
<1> SUFFICES ASSUME IInv, NEW b \in Buffers
             PROVE  /\ size(b) <= Capacity
                    /\ {s \in Slots : buffer_[b][s] # Raw} = LiveSlots(b)
  BY DEF IInv, LiveExact
<1>1. Good(front_[b], back_[b], buffer_[b])  BY DEF IInv, BufferInv
<1>2. size(b) = Count(front_[b], back_[b])  BY DEF size, Count
<1>3. LiveSlots(b) = Live(front_[b], back_[b])
  BY DEF LiveSlots, Live, Slot, At, Nth, size, Count
<1> QED  BY <1>1, <1>2, <1>3 DEF Good, Window

\* Every buffer starts empty.
LEMMA InitInv == Init => IInv /\ Fifo!Init
<1> USE WordAssumption, CapacityAssumption
<1> SUFFICES ASSUME Init PROVE IInv /\ Fifo!Init
  OBVIOUS
<1>1. 0 \in Index  BY DEF Index
<1>2. TypeOK  BY <1>1 DEF Init, TypeOK
<1>3. \A b \in Buffers : Good(front_[b], back_[b], buffer_[b])
  BY <1>1, EmptyOne DEF Init, Good
<1>4. contents = [b \in Buffers |-> Cont(front_[b], back_[b], buffer_[b])]
  BY DEF contents, Element, Cont, Slot, At, Nth, size, Count
<1>5. \A b \in Buffers : Cont(front_[b], back_[b], buffer_[b]) = <<>>
  BY <1>1, EmptyOne DEF Init
<1>6. contents = [b \in Buffers |-> <<>>]  BY <1>4, <1>5
<1> QED  BY <1>2, <1>3, <1>6 DEF IInv, BufferInv, Fifo!Init

\* The contents as a function of the three variables.
LEMMA ContentsAre ==
  contents = [b \in Buffers |-> Cont(front_[b], back_[b], buffer_[b])]
  BY DEF contents, Element, Cont, Slot, At, Nth, size, Count

\* A step that gives one buffer a good front_, back_ and slots.
LEMMA OneBuffer ==
  ASSUME IInv, NEW p \in Buffers,
         NEW f2 \in Index, NEW e2 \in Index, NEW buf2 \in [Slots -> T \cup {Raw}],
         Good(f2, e2, buf2),
         front_'  = [front_ EXCEPT ![p] = f2],
         back_'   = [back_ EXCEPT ![p] = e2],
         buffer_' = [buffer_ EXCEPT ![p] = buf2]
  PROVE  IInv' /\ contents' = [contents EXCEPT ![p] = Cont(f2, e2, buf2)]
<1>1. TypeOK'  BY DEF IInv, TypeOK
<1>2. ASSUME NEW b \in Buffers PROVE Good(front_'[b], back_'[b], buffer_'[b])
  <2>1. CASE b = p
    <3>1. front_'[b] = f2 /\ back_'[b] = e2 /\ buffer_'[b] = buf2
      BY <2>1 DEF IInv, TypeOK
    <3> QED  BY <3>1
  <2>2. CASE b # p
    <3>1. front_'[b] = front_[b] /\ back_'[b] = back_[b] /\ buffer_'[b] = buffer_[b]
      BY <2>2 DEF IInv, TypeOK
    <3>2. Good(front_[b], back_[b], buffer_[b])  BY DEF IInv, BufferInv
    <3> QED  BY <3>1, <3>2
  <2> QED  BY <2>1, <2>2
<1>3. IInv'  BY <1>1, <1>2 DEF IInv, BufferInv
<1>4. contents' = [b \in Buffers |-> Cont(front_'[b], back_'[b], buffer_'[b])]
  BY DEF contents, Element, Cont, Slot, At, Nth, size, Count
<1>5. ASSUME NEW b \in Buffers
      PROVE  Cont(front_'[b], back_'[b], buffer_'[b])
               = IF b = p THEN Cont(f2, e2, buf2) ELSE Cont(front_[b], back_[b], buffer_[b])
  <2>1. CASE b = p
    <3>1. front_'[b] = f2 /\ back_'[b] = e2 /\ buffer_'[b] = buf2
      BY <2>1 DEF IInv, TypeOK
    <3> QED  BY <3>1, <2>1
  <2>2. CASE b # p
    <3>1. front_'[b] = front_[b] /\ back_'[b] = back_[b] /\ buffer_'[b] = buffer_[b]
      BY <2>2 DEF IInv, TypeOK
    <3> QED  BY <3>1, <2>2
  <2> QED  BY <2>1, <2>2
<1>6. contents' = [contents EXCEPT ![p] = Cont(f2, e2, buf2)]
  BY <1>4, <1>5, ContentsAre
<1> QED  BY <1>3, <1>6

\* What the invariant says of the parts of one buffer.
LEMMA PartsOf ==
  ASSUME IInv, NEW b \in Buffers
  PROVE  /\ front_[b] \in Index /\ back_[b] \in Index
         /\ buffer_[b] \in [Slots -> T \cup {Raw}]
         /\ Good(front_[b], back_[b], buffer_[b])
         /\ contents[b] = Cont(front_[b], back_[b], buffer_[b])
         /\ Len(contents[b]) = Count(front_[b], back_[b])
         /\ front_ = [front_ EXCEPT ![b] = front_[b]]
         /\ back_ = [back_ EXCEPT ![b] = back_[b]]
<1>1. /\ front_[b] \in Index /\ back_[b] \in Index
      /\ buffer_[b] \in [Slots -> T \cup {Raw}]
      /\ front_ = [front_ EXCEPT ![b] = front_[b]]
      /\ back_ = [back_ EXCEPT ![b] = back_[b]]
  BY DEF IInv, TypeOK
<1>2. Good(front_[b], back_[b], buffer_[b])  BY DEF IInv, BufferInv
<1>3. contents[b] = Cont(front_[b], back_[b], buffer_[b])  BY ContentsAre
<1>4. Len(Cont(front_[b], back_[b], buffer_[b])) = Count(front_[b], back_[b])
  BY <1>1, ContType
<1> QED  BY <1>1, <1>2, <1>3, <1>4

\* A push of the program is a push of the queue.
LEMMA PushStep ==
  ASSUME IInv, NEW p \in Buffers, NEW v \in T, Push(p, v)
  PROVE  /\ IInv'
         /\ Fifo!Push(p, v)
         /\ back(p)' = v
         /\ ~empty(p) => front(p)' = front(p)
<1> DEFINE f == front_[p]
           e == back_[p]
           buf == buffer_[p]
           e2 == (e + 1) % Word
           buf2 == [buf EXCEPT ![e % Capacity] = v]
<1>1. /\ f \in Index /\ e \in Index /\ buf \in [Slots -> T \cup {Raw}]
      /\ Good(f, e, buf) /\ contents[p] = Cont(f, e, buf)
      /\ Len(contents[p]) = Count(f, e)
      /\ front_ = [front_ EXCEPT ![p] = f]
  BY PartsOf
<1>2. Count(f, e) # Capacity /\ (Wraps \/ e + 1 < Word)
  BY DEF Push, full, size, Count, Room
<1>3. front_' = [front_ EXCEPT ![p] = f] /\ back_' = [back_ EXCEPT ![p] = e2]
        /\ buffer_' = [buffer_ EXCEPT ![p] = buf2]
  BY <1>1 DEF Push, Slot, IInv, TypeOK
<1>4. /\ e2 \in Index
      /\ buf2 \in [Slots -> T \cup {Raw}]
      /\ Good(f, e2, buf2)
      /\ Count(f, e) < Capacity
      /\ Cont(f, e2, buf2) = Append(Cont(f, e, buf), v)
      /\ (e2 - 1) % Word = e
      /\ f # e => f % Capacity # e % Capacity
  BY <1>1, <1>2, PushOne
<1>5. front_'[p] = f /\ back_'[p] = e2 /\ buffer_'[p] = buf2
  BY <1>3 DEF IInv, TypeOK
<1>6. e % Capacity \in Slots /\ f % Capacity \in Slots
  <2>1. e \in Int /\ f \in Int  BY <1>1, WordAssumption DEF Index
  <2> QED  BY <2>1, DivMod, CapacityAssumption DEF Slots
<1> HIDE DEF f, e, e2, buf, buf2
<1>7. IInv' /\ contents' = [contents EXCEPT ![p] = Cont(f, e2, buf2)]
  <2>1. f \in Index /\ e2 \in Index /\ buf2 \in [Slots -> T \cup {Raw}] /\ Good(f, e2, buf2)
    BY <1>1, <1>4
  <2> QED  BY <2>1, <1>3, OneBuffer, Zenon
<1>8. Fifo!Push(p, v)
  <2>1. contents' = [contents EXCEPT ![p] = Append(contents[p], v)]
    BY <1>1, <1>4, <1>7
  <2>2. Len(contents[p]) < Capacity  BY <1>1, <1>4
  <2> QED  BY <2>1, <2>2 DEF Fifo!Push
<1>9. back(p)' = v
  <2>1. back(p)' = buf2[e % Capacity]  BY <1>4, <1>5 DEF back, Slot
  <2> QED  BY <2>1, <1>1, <1>6 DEF buf2
<1>10. ASSUME ~empty(p) PROVE front(p)' = front(p)
  <2>1. f # e  BY <1>10 DEF empty, f, e
  <2>2. front(p)' = buf2[f % Capacity]  BY <1>5 DEF front, Slot
  <2>3. front(p) = buf[f % Capacity]  BY DEF front, Slot, f, buf
  <2> QED  BY <2>1, <2>2, <2>3, <1>1, <1>4, <1>6 DEF buf2
<1> QED  BY <1>7, <1>8, <1>9, <1>10

\* A pop of the program is a pop of the queue.
LEMMA PopStep ==
  ASSUME IInv, NEW p \in Buffers, Pop(p)
  PROVE  IInv' /\ Fifo!Pop(p)
<1> DEFINE f == front_[p]
           e == back_[p]
           buf == buffer_[p]
           f2 == (f + 1) % Word
           buf2 == [buf EXCEPT ![f % Capacity] = Raw]
<1>1. /\ f \in Index /\ e \in Index /\ buf \in [Slots -> T \cup {Raw}]
      /\ Good(f, e, buf) /\ contents[p] = Cont(f, e, buf)
      /\ back_ = [back_ EXCEPT ![p] = e]
  BY PartsOf
<1>2. f # e  BY DEF Pop, empty
<1>3. front_' = [front_ EXCEPT ![p] = f2] /\ back_' = [back_ EXCEPT ![p] = e]
        /\ buffer_' = [buffer_ EXCEPT ![p] = buf2]
  BY <1>1 DEF Pop, Slot, IInv, TypeOK
<1>4. /\ f2 \in Index
      /\ buf2 \in [Slots -> T \cup {Raw}]
      /\ Good(f2, e, buf2)
      /\ Cont(f, e, buf) # <<>>
      /\ Cont(f2, e, buf2) = Tail(Cont(f, e, buf))
  BY <1>1, <1>2, PopOne
<1> HIDE DEF f, e, f2, buf, buf2
<1>5. IInv' /\ contents' = [contents EXCEPT ![p] = Cont(f2, e, buf2)]
  <2>1. f2 \in Index /\ e \in Index /\ buf2 \in [Slots -> T \cup {Raw}] /\ Good(f2, e, buf2)
    BY <1>1, <1>4
  <2> QED  BY <2>1, <1>3, OneBuffer, Zenon
<1>6. contents' = [contents EXCEPT ![p] = Tail(contents[p])] /\ contents[p] # <<>>
  BY <1>1, <1>4, <1>5
<1> QED  BY <1>5, <1>6 DEF Fifo!Pop

\* A reset of the program is a reset of the queue.
LEMMA ResetStep ==
  ASSUME IInv, NEW p \in Buffers, Reset(p)
  PROVE  IInv' /\ Fifo!Reset(p)
<1> DEFINE f == front_[p]
           e == back_[p]
           buf == buffer_[p]
           buf2 == [x \in Slots |-> IF x \in Live(f, e) THEN Raw ELSE buf[x]]
<1>1. /\ f \in Index /\ e \in Index /\ buf \in [Slots -> T \cup {Raw}]
      /\ Good(f, e, buf) /\ back_ = [back_ EXCEPT ![p] = e]
  BY PartsOf
<1>2. LiveSlots(p) = Live(f, e)
  BY DEF LiveSlots, Live, Slot, At, Nth, size, Count
<1>3. front_' = [front_ EXCEPT ![p] = e] /\ back_' = [back_ EXCEPT ![p] = e]
        /\ buffer_' = [buffer_ EXCEPT ![p] = buf2]
  BY <1>1, <1>2 DEF Reset, IInv, TypeOK
<1>4. /\ buf2 \in [Slots -> T \cup {Raw}]
      /\ Good(e, e, buf2)
      /\ Cont(e, e, buf2) = <<>>
  BY <1>1, ResetOne
<1> HIDE DEF f, e, buf, buf2
<1>5. IInv' /\ contents' = [contents EXCEPT ![p] = Cont(e, e, buf2)]
  <2>1. e \in Index /\ buf2 \in [Slots -> T \cup {Raw}] /\ Good(e, e, buf2)
    BY <1>1, <1>4
  <2> QED  BY <2>1, <1>3, OneBuffer, Zenon
<1> QED  BY <1>4, <1>5 DEF Fifo!Reset

\* A copy construction of the program is a copy of the queue.
LEMMA ConstructStep ==
  ASSUME IInv, NEW p \in Buffers, NEW q \in Buffers, CopyConstruct(p, q)
  PROVE  IInv' /\ Fifo!Copy(p, q)
<1> DEFINE f == front_[q]
           e == back_[q]
           buf == buffer_[q]
           n == Count(f, e)
           buf2 == [x \in Slots |-> IF x < n THEN buf[Nth(f, x)] ELSE Raw]
<1>1. /\ f \in Index /\ e \in Index /\ buf \in [Slots -> T \cup {Raw}]
      /\ Good(f, e, buf) /\ contents[q] = Cont(f, e, buf)
  BY PartsOf
<1>2. size(q) = n /\ \A x \in Slots : Element(q, x) = buf[Nth(f, x)]
  BY DEF Element, Slot, At, Nth, size, Count
<1>3. front_' = [front_ EXCEPT ![p] = 0] /\ back_' = [back_ EXCEPT ![p] = n]
        /\ buffer_' = [buffer_ EXCEPT ![p] = buf2]
  BY <1>2 DEF CopyConstruct
<1>4. /\ 0 \in Index /\ n \in Index
      /\ buf2 \in [Slots -> T \cup {Raw}]
      /\ Good(0, n, buf2)
      /\ Cont(0, n, buf2) = Cont(f, e, buf)
  BY <1>1, ConstructOne
<1> HIDE DEF f, e, buf, n, buf2
<1>5. IInv' /\ contents' = [contents EXCEPT ![p] = Cont(0, n, buf2)]
  <2>1. 0 \in Index /\ n \in Index /\ buf2 \in [Slots -> T \cup {Raw}] /\ Good(0, n, buf2)
    BY <1>4
  <2> QED  BY <2>1, <1>3, OneBuffer, Zenon
<1>6. contents' = [contents EXCEPT ![p] = contents[q]]  BY <1>1, <1>4, <1>5, Zenon
<1> QED  BY <1>5, <1>6 DEF Fifo!Copy

\* An assignment of the program is a copy of the queue.
LEMMA AssignStep ==
  ASSUME IInv, NEW p \in Buffers, NEW q \in Buffers, Assign(p, q)
  PROVE  IInv' /\ Fifo!Copy(p, q)
<1> DEFINE f1 == front_[p]
           e1 == back_[p]
           buf1 == buffer_[p]
           f == front_[q]
           e == back_[q]
           buf == buffer_[q]
           K == 0..Count(f, e) - 1
           e2 == (e1 + Count(f, e)) % Word
           buf2 == [x \in Slots |->
                      IF \E k \in K : x = Nth(e1, k)
                      THEN buf[Nth(f, CHOOSE k \in K : x = Nth(e1, k))]
                      ELSE IF x \in Live(f1, e1) THEN Raw ELSE buf1[x]]
<1>1. /\ f \in Index /\ e \in Index /\ buf \in [Slots -> T \cup {Raw}]
      /\ Good(f, e, buf) /\ contents[q] = Cont(f, e, buf)
  BY PartsOf
<1>2. /\ f1 \in Index /\ e1 \in Index /\ buf1 \in [Slots -> T \cup {Raw}]
      /\ Good(f1, e1, buf1)
  BY PartsOf
<1>3. size(q) = Count(f, e) /\ (Wraps \/ e1 + Count(f, e) < Word)
  BY DEF Assign, Room, size, Count
<1>4. /\ front_' = [front_ EXCEPT ![p] = e1]
      /\ back_' = [back_ EXCEPT ![p] = e2]
      /\ buffer_' = [buffer_ EXCEPT ![p] = buf2]
  <2>1. LiveSlots(p) = Live(f1, e1)
    BY DEF LiveSlots, Live, Slot, At, Nth, size, Count
  <2>2. \A k : Element(q, k) = buf[Nth(f, k)] /\ Slot((e1 + k) % Word) = Nth(e1, k)
    BY DEF Element, Slot, At, Nth
  <2>3. back_' = [back_ EXCEPT ![p] = e2] /\ front_' = [front_ EXCEPT ![p] = e1]
    BY <1>3 DEF Assign
  <2>4. buffer_' = [buffer_ EXCEPT ![p] = [s \in Slots |->
           IF \E k \in K : s = Slot((e1 + k) % Word)
           THEN Element(q, CHOOSE k \in K : s = Slot((e1 + k) % Word))
           ELSE IF s \in LiveSlots(p) THEN Raw ELSE buf1[s]]]
    BY <1>3 DEF Assign
  <2> QED  BY <2>1, <2>3, <2>4 DEF Element, Slot, At, Nth
<1>5. /\ e2 \in Index
      /\ buf2 \in [Slots -> T \cup {Raw}]
      /\ Good(e1, e2, buf2)
      /\ Cont(e1, e2, buf2) = Cont(f, e, buf)
  <2> HIDE DEF f1, e1, buf1, f, e, buf
  <2> QED  BY <1>1, <1>2, <1>3, AssignOne
<1> HIDE DEF f1, e1, buf1, f, e, buf, e2, buf2
<1>6. IInv' /\ contents' = [contents EXCEPT ![p] = Cont(e1, e2, buf2)]
  <2>1. e1 \in Index /\ e2 \in Index /\ buf2 \in [Slots -> T \cup {Raw}] /\ Good(e1, e2, buf2)
    BY <1>2, <1>5
  <2> QED  BY <2>1, <1>4, OneBuffer, Zenon
<1>7. contents' = [contents EXCEPT ![p] = contents[q]]  BY <1>1, <1>5, <1>6, Zenon
<1> QED  BY <1>6, <1>7 DEF Fifo!Copy

\* An exchange of two buffers is an exchange of two queues.
LEMMA SwapStep ==
  ASSUME IInv, NEW p \in Buffers, NEW q \in Buffers, swap(p, q)
  PROVE  IInv' /\ Fifo!Swap(p, q)
<1> DEFINE sw(b) == IF b = q THEN p ELSE IF b = p THEN q ELSE b
<1>1. \A b \in Buffers : sw(b) \in Buffers  OBVIOUS
<1>2. \A b \in Buffers : /\ front_'[b] = front_[sw(b)]
                         /\ back_'[b] = back_[sw(b)]
                         /\ buffer_'[b] = buffer_[sw(b)]
  BY DEF swap, Exchange, IInv, TypeOK
<1>3. TypeOK'  BY DEF swap, Exchange, IInv, TypeOK
<1>4. IInv'
  <2> SUFFICES ASSUME NEW b \in Buffers PROVE Good(front_'[b], back_'[b], buffer_'[b])
    BY <1>3 DEF IInv, BufferInv
  <2>1. Good(front_[sw(b)], back_[sw(b)], buffer_[sw(b)])
    BY <1>1 DEF IInv, BufferInv
  <2> QED  BY <1>2, <2>1
<1>5. contents' = [b \in Buffers |-> Cont(front_'[b], back_'[b], buffer_'[b])]
  BY DEF contents, Element, Cont, Slot, At, Nth, size, Count
<1>6. \A b \in Buffers : Cont(front_'[b], back_'[b], buffer_'[b]) = contents[sw(b)]
  BY <1>1, <1>2, ContentsAre
<1>7. contents' = [contents EXCEPT ![p] = contents[q], ![q] = contents[p]]
  BY <1>5, <1>6, ContentsAre
<1> QED  BY <1>4, <1>7 DEF Fifo!Swap

\* Every step keeps the invariant and is a step of the queue, or leaves it as it is.
LEMMA NextStep == IInv /\ [Next]_vars => IInv' /\ [Fifo!Next]_contents
<1> SUFFICES ASSUME IInv, [Next]_vars PROVE IInv' /\ [Fifo!Next]_contents
  OBVIOUS
<1>1. ASSUME NEW p \in Buffers, NEW v \in T, Push(p, v)
      PROVE  IInv' /\ Fifo!Next
  BY <1>1, PushStep DEF Fifo!Next
<1>2. ASSUME NEW p \in Buffers, Pop(p) PROVE IInv' /\ Fifo!Next
  BY <1>2, PopStep DEF Fifo!Next
<1>3. ASSUME NEW p \in Buffers, Reset(p) PROVE IInv' /\ Fifo!Next
  BY <1>3, ResetStep DEF Fifo!Next
<1>4. ASSUME NEW p \in Buffers, NEW q \in Buffers, CopyConstruct(p, q)
      PROVE  IInv' /\ Fifo!Next
  BY <1>4, ConstructStep DEF Fifo!Next
<1>5. ASSUME NEW p \in Buffers, NEW q \in Buffers, Assign(p, q)
      PROVE  IInv' /\ Fifo!Next
  BY <1>5, AssignStep DEF Fifo!Next
<1>6. ASSUME NEW p \in Buffers, NEW q \in Buffers, swap(p, q)
      PROVE  IInv' /\ Fifo!Next
  BY <1>6, SwapStep DEF Fifo!Next
<1>7. CASE UNCHANGED vars
  <2>1. contents' = contents
    BY <1>7 DEF vars, contents, Element, Slot, At, size
  <2>2. IInv'
    BY <1>7 DEF vars, IInv, TypeOK, BufferInv
  <2> QED  BY <2>1, <2>2
<1> QED  BY <1>1, <1>2, <1>3, <1>4, <1>5, <1>6, <1>7 DEF Next

\* The inductive invariant holds throughout.
LEMMA Invariance == Spec => []IInv
<1>1. Init => IInv  BY InitInv
<1>2. IInv /\ [Next]_vars => IInv'  BY NextStep
<1> QED  BY <1>1, <1>2, PTL DEF Spec

\* The counters stay words and the slots hold elements or nothing.
THEOREM TypeCorrect == Spec => []TypeOK
<1>1. IInv => TypeOK  BY DEF IInv
<1> QED  BY <1>1, Invariance, PTL

\* For every capacity, word size and number of buffers: the constructed slots are exactly
\* the window from front_ to back_, so no frame is leaked and none is destroyed twice.
THEOREM SlotsExact == Spec => []LiveExact
<1>1. IInv => LiveExact  BY InvImplied
<1> QED  BY <1>1, Invariance, PTL

\* A push is seen by back() and never disturbs what front() refers to.
THEOREM PushKeepsFront == Spec => PushEnds
<1>1. IInv /\ [Next]_vars =>
        [\A b \in Buffers, v \in T : Push(b, v) =>
           /\ back(b)' = v
           /\ ~empty(b) => front(b)' = front(b)]_vars
  BY PushStep
<1> QED  BY <1>1, Invariance, PTL DEF Spec, PushEnds

\* A ring_buffer implements a bounded first-in first-out queue.
THEOREM Refinement == Spec => ImplementsFifo
<1>1. Init => Fifo!Init  BY InitInv
<1>2. IInv /\ [Next]_vars => [Fifo!Next]_contents  BY NextStep
<1> QED  BY <1>1, <1>2, Invariance, PTL DEF Spec, ImplementsFifo, Fifo!Spec
====
