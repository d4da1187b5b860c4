---- MODULE Rings_proofs ----
(***************************************************************************)
(* Proofs about the two rings that DMA and interrupts fill: the debug ring, *)
(* for a ring, positions and batches of any size and any set of tails, and *)
(* the ring of ROM3 samples, for a ring of any size and any threshold.     *)
(***************************************************************************)
EXTENDS DebugRing, CaptureRing, TLAPS

----------------------------------------------------------------------------
(* Remainders.                                                             *)

LEMMA ModRange == ASSUME NEW m \in Nat \ {0}, NEW a \in Int PROVE a % m \in 0..(m - 1)
BY Z3

LEMMA Euclid ==
    ASSUME NEW m \in Nat \ {0}, NEW a \in Int
    PROVE  a \div m \in Int /\ a = m * (a \div m) + (a % m)
BY Z3

LEMMA ModUnique ==
    ASSUME NEW m \in Nat \ {0}, NEW q \in Int, NEW r \in 0..(m - 1)
    PROVE  (m * q + r) % m = r
BY Z3

\* A number below the divisor is its own remainder.
LEMMA ModSmall ==
    ASSUME NEW m \in Nat \ {0}, NEW r \in 0..(m - 1)
    PROVE  r % m = r
BY Z3

LEMMA MultipleIsLarge ==
    ASSUME NEW m \in Nat \ {0}, NEW d \in Int
    PROVE  (d >= 1 => m * d >= m) /\ (d <= 0 => m * d <= 0)
BY Z3

\* Adding to a remainder.
LEMMA ModAdd ==
    ASSUME NEW m \in Nat \ {0}, NEW a \in Int, NEW b \in Int
    PROVE  ((a % m) + b) % m = (a + b) % m
<1> DEFINE q == a \div m
           s == (a % m) + b
           p == s \div m
           r == s % m
<1>1. q \in Int /\ a = m * q + (a % m) /\ a % m \in Int
  BY Euclid, ModRange
<1>2. s \in Int
  BY <1>1
<1>3. p \in Int /\ s = m * p + r /\ r \in 0..(m - 1)
  BY <1>2, Euclid, ModRange
<1>4. m * q + m * p = m * (q + p) /\ q + p \in Int
  BY <1>1, <1>3, Z3
<1>5. a + b = m * q + s
  BY <1>1, <1>2
<1>6. a + b = m * (q + p) + r
  BY <1>1, <1>3, <1>4, <1>5
<1> HIDE DEF q, p, r, s
<1>7. (m * (q + p) + r) % m = r
  BY <1>3, <1>4, ModUnique
<1>8. QED BY <1>6, <1>7 DEF r, s

\* A remainder of a remainder, when one divisor divides the other.
LEMMA ModOfMod ==
    ASSUME NEW m \in Nat \ {0}, NEW k \in Nat \ {0}, m % k = 0, NEW a \in Int
    PROVE  (a % m) % k = a % k
<1> DEFINE q == a \div m
           h == m \div k
           p == (a % m) \div k
           r == (a % m) % k
<1>1. q \in Int /\ a = m * q + (a % m) /\ a % m \in Int
  BY Euclid, ModRange
<1>2. h \in Int /\ m = k * h + 0
  BY Euclid
<1>3. p \in Int /\ a % m = k * p + r /\ r \in 0..(k - 1)
  BY <1>1, Euclid, ModRange
<1> HIDE DEF q, h, p, r
<1>4. m * q = k * (h * q) /\ h * q \in Int
  BY <1>1, <1>2, Z3
<1>5. k * (h * q) + k * p = k * (h * q + p) /\ h * q + p \in Int
  BY <1>3, <1>4, Z3
<1>6. a = k * (h * q + p) + r
  BY <1>1, <1>3, <1>4, <1>5, Z3
<1>7. (k * (h * q + p) + r) % k = r
  BY <1>3, <1>5, ModUnique
<1>8. QED BY <1>6, <1>7 DEF r

\* Numbers that are less than the divisor apart.
LEMMA ModDistinct ==
    ASSUME NEW m \in Nat \ {0}, NEW a \in Int, NEW b \in Int, a < b, b < a + m
    PROVE  a % m # b % m
<1> SUFFICES ASSUME a % m = b % m PROVE FALSE
  OBVIOUS
<1> DEFINE p == a \div m
           q == b \div m
<1>1. p \in Int /\ q \in Int /\ a = m * p + (a % m) /\ b = m * q + (b % m) /\ a % m \in Int
  BY Euclid, ModRange
<1> HIDE DEF p, q
<1>2. b - a = m * (q - p) /\ q - p \in Int
  BY <1>1, Z3
<1>3. m * (q - p) > 0 /\ m * (q - p) < m
  BY <1>2
<1>4. q - p >= 1 \/ q - p <= 0
  BY <1>2
<1>5. QED BY <1>2, <1>3, <1>4, MultipleIsLarge

----------------------------------------------------------------------------
(* The debug ring and its cursors.                                         *)

\* The bytes a cursor has got behind it, handed out or dropped.
Reached(c) == started[c] + Len(out[c]) + dropped[c]

\* The byte handed out last.
Last(c) == IF Len(out[c]) = 0 THEN started[c] ELSE out[c][Len(out[c])]

\* The producer: its position, and the newest bytes in their places.
Written ==
    /\ writePos = emitted % Modulus
    /\ \A n \in 1..emitted : n > emitted - RingBytes => debugRing[(n - 1) % RingBytes] = n

\* A cursor: its position, and why it is there.  What it has passed without
\* handing it out was emitted before an attach or has left the ring.
Follows(c) ==
    /\ readPos[c] = Reached(c) % Modulus
    /\ Lag(c) \in 0..LagLimit
    /\ since[c] <= Reached(c) /\ Last(c) <= Reached(c)
    /\ Reached(c) \in {since[c], Last(c)} \/ Reached(c) <= emitted - RingBytes

RingInv ==
    /\ DebugTypeOK /\ Written
    /\ open[Usb]
    /\ \A c \in Cursor : open[c] => Follows(c)

----------------------------------------------------------------------------
(* What the invariant says of a live cursor.                               *)

LEMMA Constants ==
    /\ RingBytes \in Nat \ {0} /\ Modulus \in Nat \ {0} /\ Batch \in Nat
    /\ MaxEmitted \in Nat /\ LagLimit \in 1..(Modulus - 1)
    /\ Modulus % RingBytes = 0 /\ Usb \in Cursor /\ Tails \subseteq Cursor
BY RingAssumption DEF Cursor

LEMMA CursorFacts ==
    ASSUME RingInv, NEW c \in Cursor
    PROVE  /\ started[c] \in Nat /\ since[c] \in Nat /\ dropped[c] \in Nat /\ emitted \in Nat
           /\ out[c] \in Seq(1..MaxEmitted) /\ Len(out[c]) \in Nat
           /\ Reached(c) \in Nat /\ Lag(c) = emitted - Reached(c)
           /\ open[c] => Follows(c)
<1>1. /\ started[c] \in Nat /\ since[c] \in Nat /\ dropped[c] \in Nat /\ emitted \in Nat
      /\ out[c] \in Seq(1..MaxEmitted) /\ Len(out[c]) \in Nat
  BY Constants DEF RingInv, DebugTypeOK
<1>2. Reached(c) \in Nat /\ Lag(c) = emitted - Reached(c)
  <2> DEFINE s == started[c]
             l == Len(out[c])
             d == dropped[c]
  <2>1. Reached(c) = s + l + d /\ Lag(c) = emitted - s - l - d
    BY DEF Reached, Lag
  <2>2. s \in Nat /\ l \in Nat /\ d \in Nat /\ emitted \in Nat
    BY <1>1
  <2> HIDE DEF s, l, d
  <2>3. QED BY <2>1, <2>2
<1>3. QED BY <1>1, <1>2 DEF RingInv

\* The 32-bit view of a live cursor is the true one.
LEMMA BehindIsLag ==
    ASSUME RingInv, NEW c \in Cursor, open[c]
    PROVE  Behind(c) = Lag(c)
<1> DEFINE p == emitted \div Modulus
           q == Reached(c) \div Modulus
<1>1. /\ emitted \in Nat /\ Reached(c) \in Nat /\ Lag(c) = emitted - Reached(c)
      /\ Lag(c) \in 0..(Modulus - 1)
      /\ readPos[c] = Reached(c) % Modulus /\ writePos = emitted % Modulus
  BY CursorFacts, Constants DEF Follows, RingInv, Written
<1>2. /\ p \in Int /\ emitted = Modulus * p + writePos /\ writePos \in Int
      /\ q \in Int /\ Reached(c) = Modulus * q + readPos[c] /\ readPos[c] \in Int
  <2>1. emitted \in Int /\ Reached(c) \in Int /\ Modulus \in Nat \ {0}
    BY <1>1, Constants
  <2>2. p \in Int /\ emitted = Modulus * p + (emitted % Modulus) /\ emitted % Modulus \in Int
    BY <2>1, Euclid, ModRange
  <2>3. /\ q \in Int /\ Reached(c) = Modulus * q + (Reached(c) % Modulus)
        /\ Reached(c) % Modulus \in Int
    <3> DEFINE x == Reached(c)
    <3>1. x \in Int /\ q = x \div Modulus
      BY <2>1
    <3> HIDE DEF x
    <3>2. /\ x \div Modulus \in Int /\ x = Modulus * (x \div Modulus) + (x % Modulus)
          /\ x % Modulus \in Int
      BY <2>1, <3>1, Euclid, ModRange
    <3>3. QED BY <3>1, <3>2 DEF x
  <2> HIDE DEF p, q
  <2>4. QED BY <1>1, <2>2, <2>3
<1> HIDE DEF p, q
<1>3. /\ q - p \in Int
      /\ writePos - readPos[c] = Modulus * (q - p) + Lag(c)
  BY <1>1, <1>2, Constants, Z3
<1>4. (Modulus * (q - p) + Lag(c)) % Modulus = Lag(c)
  BY <1>1, <1>3, ModUnique, Constants
<1>5. QED BY <1>3, <1>4 DEF Behind

\* What a pull does: it passes `lost` bytes that left the ring and hands out the
\* next ones.
LEMMA Pulled ==
    ASSUME RingInv, NEW c \in Cursor, open[c], NEW max \in Nat, Pull(c, max)
    PROVE  \E lost \in Nat, bytes \in Seq(1..MaxEmitted) :
              /\ lost + Len(bytes) <= Lag(c)
              /\ Reached(c) + lost >= emitted - RingBytes
              /\ lost = 0 \/ Reached(c) + lost = emitted - RingBytes
              /\ \A i \in 1..Len(bytes) : bytes[i] = Reached(c) + lost + i
              /\ dropped' = [dropped EXCEPT ![c] = @ + lost]
              /\ readPos' = [readPos EXCEPT ![c] = (Reached(c) + lost + Len(bytes)) % Modulus]
              /\ out' = [out EXCEPT ![c] = @ \o bytes]
              /\ UNCHANGED <<open, since, started>>
<1> DEFINE lost == Lost(c)
           first == (readPos[c] + lost) % Modulus
           take == Lesser(Behind(c) - lost, max)
           bytes == [i \in 1..take |-> debugRing[(first + i - 1) % RingBytes]]
<1>1. /\ Reached(c) \in Nat /\ emitted \in Nat /\ Lag(c) = emitted - Reached(c) /\ Lag(c) \in Nat
      /\ Behind(c) = Lag(c) /\ readPos[c] = Reached(c) % Modulus /\ emitted <= MaxEmitted
  <2>1. /\ Reached(c) \in Nat /\ emitted \in Nat /\ Lag(c) = emitted - Reached(c)
        /\ Follows(c)
    BY CursorFacts
  <2>2. Behind(c) = Lag(c)
    BY BehindIsLag
  <2>3. Lag(c) \in Nat /\ readPos[c] = Reached(c) % Modulus
    BY <2>1, Constants DEF Follows
  <2>4. emitted <= MaxEmitted
    BY Constants DEF RingInv, DebugTypeOK
  <2>5. QED BY <2>1, <2>2, <2>3, <2>4
<1>2. /\ lost \in Nat /\ lost <= Lag(c)
      /\ lost = 0 \/ Reached(c) + lost = emitted - RingBytes
      /\ Reached(c) + lost >= emitted - RingBytes
  BY <1>1, Constants DEF Lost
<1>3. take \in Nat /\ lost + take <= Lag(c)
  BY <1>1, <1>2 DEF Lesser
<1>4. /\ dropped' = [dropped EXCEPT ![c] = @ + lost]
      /\ readPos' = [readPos EXCEPT ![c] = (first + take) % Modulus]
      /\ out' = [out EXCEPT ![c] = @ \o bytes]
      /\ UNCHANGED <<open, since, started>>
  BY DEF Pull, Take
<1> HIDE DEF lost, take
<1>5. first = (Reached(c) + lost) % Modulus
  <2>1. Reached(c) \in Int /\ lost \in Int /\ Modulus \in Nat \ {0}
    BY <1>1, <1>2, Constants
  <2>2. ((Reached(c) % Modulus) + lost) % Modulus = (Reached(c) + lost) % Modulus
    BY <2>1, ModAdd
  <2>3. QED BY <1>1, <2>2
<1>6. (first + take) % Modulus = (Reached(c) + lost + take) % Modulus
  <2>1. Reached(c) + lost \in Int /\ take \in Int
    BY <1>1, <1>2, <1>3
  <2>2. QED BY <1>5, <2>1, ModAdd, Constants
<1>7. ASSUME NEW i \in 1..take
      PROVE  debugRing[(first + i - 1) % RingBytes] = Reached(c) + lost + i
  <2> DEFINE n == Reached(c) + lost + i
  <2>1. n \in 1..emitted /\ n > emitted - RingBytes
    BY <1>1, <1>2, <1>3, Constants
  <2>2. debugRing[(n - 1) % RingBytes] = n
    BY <2>1 DEF RingInv, Written
  <2>3. /\ Reached(c) + lost \in Int /\ i - 1 \in Int /\ first \in Int
        /\ first + i - 1 = first + (i - 1) /\ n - 1 = (Reached(c) + lost) + (i - 1)
    <3>1. Reached(c) \in Int /\ lost \in Int /\ i \in Int /\ Modulus \in Nat \ {0}
      BY <1>1, <1>2, <1>3, Constants
    <3>2. first \in Int
      BY <1>5, <3>1, ModRange
    <3> HIDE DEF first
    <3>3. QED BY <3>1, <3>2
  <2>4. first % RingBytes = (Reached(c) + lost) % RingBytes
    <3>1. /\ Reached(c) + lost \in Int
          /\ Modulus \in Nat \ {0} /\ RingBytes \in Nat \ {0} /\ Modulus % RingBytes = 0
      BY <2>3, Constants
    <3>2. ((Reached(c) + lost) % Modulus) % RingBytes = (Reached(c) + lost) % RingBytes
      BY ONLY <3>1, ModOfMod
    <3> HIDE DEF first
    <3>3. QED BY <1>5, <3>2
  <2>5. /\ (first + (i - 1)) % RingBytes = ((first % RingBytes) + (i - 1)) % RingBytes
        /\ ((Reached(c) + lost) + (i - 1)) % RingBytes
              = (((Reached(c) + lost) % RingBytes) + (i - 1)) % RingBytes
    BY <2>3, ModAdd, Constants
  <2>6. (first + i - 1) % RingBytes = (n - 1) % RingBytes
    BY <2>3, <2>4, <2>5
  <2>7. QED BY <2>2, <2>6
<1>8. ASSUME NEW i \in 1..take PROVE Reached(c) + lost + i \in 1..MaxEmitted
  BY <1>1, <1>2, <1>3, Constants
<1>9. bytes = [i \in 1..take |-> Reached(c) + lost + i]
  BY <1>7
<1>10. /\ bytes \in Seq(1..MaxEmitted) /\ Len(bytes) = take
       /\ \A i \in 1..Len(bytes) : bytes[i] = Reached(c) + lost + i
  BY <1>3, <1>8, <1>9
<1> HIDE DEF bytes, first
<1>11. readPos' = [readPos EXCEPT ![c] = (Reached(c) + lost + Len(bytes)) % Modulus]
  BY <1>4, <1>6, <1>10
<1>12. QED BY <1>2, <1>3, <1>4, <1>10, <1>11

----------------------------------------------------------------------------
(* The steps.                                                              *)

\* An element of a sequence.
LEMMA ElementOf == ASSUME NEW S, NEW x \in Seq(S), NEW i \in 1..Len(x) PROVE x[i] \in S
OBVIOUS

LEMMA LastIsInt == ASSUME RingInv, NEW c \in Cursor PROVE Last(c) \in Int
<1>1. started[c] \in Nat /\ out[c] \in Seq(1..MaxEmitted) /\ Len(out[c]) \in Nat
  BY CursorFacts
<1>2. CASE Len(out[c]) = 0
  BY <1>1, <1>2 DEF Last
<1>3. CASE Len(out[c]) # 0
  <2>1. Len(out[c]) \in 1..Len(out[c])
    BY <1>1, <1>3
  <2>2. out[c][Len(out[c])] \in 1..MaxEmitted
    BY <1>1, <2>1, ElementOf
  <2>3. QED BY <1>3, <2>2 DEF Last
<1>4. QED BY <1>2, <1>3

\* A cursor that a step leaves alone, while nothing is emitted.
LEMMA Undisturbed ==
    ASSUME NEW c \in Cursor, Follows(c), emitted' = emitted,
           readPos'[c] = readPos[c], dropped'[c] = dropped[c], since'[c] = since[c],
           started'[c] = started[c], out'[c] = out[c]
    PROVE  Follows(c)'
BY DEF Follows, Reached, Last, Lag

LEMMA PullKeeps ==
    ASSUME RingInv, NEW c \in Cursor, open[c], NEW max \in Nat, Pull(c, max),
           UNCHANGED <<firmwareMode, debugRing, writePos, emitted>>,
           connected' \in BOOLEAN, lastConnected' \in BOOLEAN
    PROVE  RingInv'
<1>1. PICK lost \in Nat, bytes \in Seq(1..MaxEmitted) :
              /\ lost + Len(bytes) <= Lag(c)
              /\ Reached(c) + lost >= emitted - RingBytes
              /\ lost = 0 \/ Reached(c) + lost = emitted - RingBytes
              /\ \A i \in 1..Len(bytes) : bytes[i] = Reached(c) + lost + i
              /\ dropped' = [dropped EXCEPT ![c] = @ + lost]
              /\ readPos' = [readPos EXCEPT ![c] = (Reached(c) + lost + Len(bytes)) % Modulus]
              /\ out' = [out EXCEPT ![c] = @ \o bytes]
              /\ UNCHANGED <<open, since, started>>
  BY Pulled
<1>2. /\ started[c] \in Nat /\ since[c] \in Nat /\ dropped[c] \in Nat /\ emitted \in Nat
      /\ out[c] \in Seq(1..MaxEmitted) /\ Len(out[c]) \in Nat
      /\ Reached(c) \in Nat /\ Lag(c) = emitted - Reached(c) /\ Follows(c)
      /\ emitted <= MaxEmitted
  BY CursorFacts, Constants, SMTT(30) DEF RingInv, DebugTypeOK
<1>3. DebugTypeOK
  BY DEF RingInv
<1>4. /\ Len(bytes) \in Nat /\ out[c] \o bytes \in Seq(1..MaxEmitted)
      /\ Len(out[c] \o bytes) = Len(out[c]) + Len(bytes)
  BY <1>2
<1>5. /\ dropped'[c] = dropped[c] + lost /\ out'[c] = out[c] \o bytes
      /\ readPos'[c] = (Reached(c) + lost + Len(bytes)) % Modulus
      /\ started'[c] = started[c] /\ since'[c] = since[c] /\ emitted' = emitted
  BY <1>1, <1>3 DEF DebugTypeOK
<1>6. Reached(c)' = Reached(c) + lost + Len(bytes) /\ Lag(c)' = Lag(c) - lost - Len(bytes)
  <2> DEFINE s == started[c]
             l == Len(out[c])
             k == Len(bytes)
             d == dropped[c]
  <2>1. /\ Reached(c) = s + l + d /\ Reached(c)' = s + (l + k) + (d + lost)
        /\ Lag(c) = emitted - s - l - d /\ Lag(c)' = emitted - s - (l + k) - (d + lost)
    BY <1>4, <1>5 DEF Reached, Lag
  <2>2. s \in Nat /\ l \in Nat /\ k \in Nat /\ d \in Nat /\ lost \in Nat /\ emitted \in Nat
    BY <1>2, <1>4
  <2> HIDE DEF s, l, k, d
  <2>3. QED BY <2>1, <2>2 DEF k
<1>7. dropped[c] <= Reached(c)
  BY <1>2 DEF Reached
<1>8. Lag(c) \in 0..LagLimit /\ Lag(c)' \in 0..LagLimit
  <2> DEFINE g == Lag(c)
             k == Len(bytes)
  <2>1. g \in 0..LagLimit /\ k \in Nat /\ lost \in Nat /\ LagLimit \in Nat
    BY <1>2, <1>4, Constants DEF Follows
  <2>2. lost + k <= g /\ Lag(c)' = g - lost - k
    BY <1>1, <1>6
  <2> HIDE DEF g, k
  <2>3. g - lost - k \in 0..LagLimit
    BY <2>1, <2>2
  <2>4. QED BY <2>1, <2>2, <2>3 DEF g
<1>9. DebugTypeOK'
  <2>1. dropped[c] + lost \in 0..MaxEmitted
    <3> DEFINE r == Reached(c)
               k == Len(bytes)
               d == dropped[c]
    <3>1. /\ d \in Nat /\ r \in Nat /\ k \in Nat /\ lost \in Nat /\ d <= r
          /\ emitted \in Nat /\ emitted <= MaxEmitted /\ MaxEmitted \in Nat
      BY <1>2, <1>4, <1>7, Constants
    <3>2. lost + k <= emitted - r
      BY <1>1, <1>2
    <3> HIDE DEF r, k, d
    <3>3. d + lost \in 0..MaxEmitted
      BY <3>1, <3>2
    <3>4. QED BY <3>3 DEF d
  <2>2. (Reached(c) + lost + Len(bytes)) % Modulus \in Position
    <3> DEFINE x == Reached(c) + lost + Len(bytes)
    <3>1. x \in Int
      BY <1>2, <1>4
    <3> HIDE DEF x
    <3>2. x % Modulus \in Position
      BY <3>1, ModRange, Constants DEF Position
    <3>3. QED BY <3>2 DEF x
  <2>3. /\ dropped' \in [Cursor -> 0..MaxEmitted] /\ readPos' \in [Cursor -> Position]
        /\ out' \in [Cursor -> Seq(1..MaxEmitted)]
    BY <1>1, <1>3, <1>4, <2>1, <2>2 DEF DebugTypeOK
  <2>4. QED BY <1>1, <1>3, <2>3 DEF DebugTypeOK
<1>10. Follows(c)'
  <2>1. since[c] <= Reached(c) /\ Last(c) <= Reached(c) /\ Last(c) \in Int
    BY <1>2, LastIsInt DEF Follows
  <2>2. CASE Len(bytes) = 0
    <3>1. bytes = << >> /\ out'[c] = out[c]
      BY <1>2, <1>5, <2>2
    <3>2. Last(c)' = Last(c) /\ Reached(c)' = Reached(c) + lost
      BY <1>2, <1>5, <1>6, <2>2, <3>1 DEF Last
    <3>3. CASE lost = 0
      BY <1>2, <1>5, <1>6, <1>8, <2>1, <2>2, <3>2, <3>3 DEF Follows
    <3>4. CASE Reached(c) + lost = emitted - RingBytes
      <4>1. /\ Reached(c)' = Reached(c) + lost /\ Reached(c)' = emitted' - RingBytes
            /\ Reached(c) <= Reached(c)' /\ Reached(c)' \in Nat
        <5> DEFINE r == Reached(c)
        <5>1. /\ r \in Nat /\ lost \in Nat /\ r + lost = emitted - RingBytes
              /\ Reached(c)' = r + lost /\ emitted' = emitted
          BY <1>2, <1>5, <3>2, <3>4
        <5> HIDE DEF r
        <5>2. Reached(c)' = emitted' - RingBytes /\ r <= Reached(c)' /\ Reached(c)' \in Nat
          BY <5>1
        <5>3. QED BY <3>2, <5>2 DEF r
      <4>2. since'[c] <= Reached(c)' /\ Last(c)' <= Reached(c)'
        <5> DEFINE r == Reached(c)
        <5>1. /\ r \in Int /\ since[c] \in Int /\ Last(c) \in Int /\ Reached(c)' \in Int
              /\ since[c] <= r /\ Last(c) <= r /\ r <= Reached(c)'
              /\ since'[c] = since[c] /\ Last(c)' = Last(c)
          BY <1>2, <1>5, <2>1, <3>2, <4>1
        <5> HIDE DEF r
        <5>2. since[c] <= Reached(c)' /\ Last(c) <= Reached(c)'
          BY <5>1
        <5>3. QED BY <5>1, <5>2
      <4>3. Reached(c)' <= emitted' - RingBytes
        BY <4>1
      <4>4. readPos'[c] = Reached(c)' % Modulus
        BY <1>5, <2>2, <3>2, <1>6
      <4>5. QED BY <1>8, <4>2, <4>3, <4>4 DEF Follows
    <3>5. QED BY <1>1, <3>3, <3>4
  <2>3. CASE Len(bytes) # 0
    <3>1. Last(c)' = bytes[Len(bytes)]
      <4> DEFINE l == Len(out[c])
                 k == Len(bytes)
      <4>1. l \in Nat /\ k \in Nat \ {0} /\ l + k # 0 /\ Len(out'[c]) = l + k
        BY <1>2, <1>4, <1>5, <2>3
      <4>2. (out[c] \o bytes)[l + k] = bytes[k]
        BY <1>2, <2>3
      <4>3. QED BY <1>5, <4>1, <4>2 DEF Last
    <3>2. Last(c)' = Reached(c)'
      BY <1>1, <1>4, <1>6, <2>3, <3>1
    <3>3. since'[c] <= Reached(c)' /\ Reached(c)' \in Nat
      <4> DEFINE r == Reached(c)
                 k == Len(bytes)
                 b == since[c]
      <4>1. /\ r \in Nat /\ k \in Nat /\ lost \in Nat /\ b \in Nat /\ b <= r
            /\ since'[c] = b /\ Reached(c)' = r + lost + k
        BY <1>2, <1>4, <1>5, <1>6, <2>1
      <4> HIDE DEF r, k, b
      <4>2. QED BY <4>1
    <3>4. readPos'[c] = Reached(c)' % Modulus
      BY <1>5, <1>6
    <3>5. QED BY <1>8, <3>2, <3>3, <3>4 DEF Follows
  <2>4. QED BY <2>2, <2>3
<1>11. ASSUME NEW d \in Cursor, open'[d] PROVE Follows(d)'
  <2>1. CASE d = c
    BY <1>10, <2>1
  <2>2. CASE d # c
    <3>1. open[d] /\ Follows(d)
      BY <1>1, <1>11 DEF RingInv
    <3>2. /\ readPos'[d] = readPos[d] /\ dropped'[d] = dropped[d] /\ since'[d] = since[d]
          /\ started'[d] = started[d] /\ out'[d] = out[d]
      BY <1>1, <1>3, <2>2 DEF DebugTypeOK
    <3>3. QED BY <3>1, <3>2, Undisturbed
  <2>3. QED BY <2>1, <2>2
<1>12. Written' /\ open'[Usb]
  BY <1>1 DEF RingInv, Written
<1>13. QED BY <1>9, <1>11, <1>12 DEF RingInv

LEMMA EmitKeeps == ASSUME RingInv, Emit PROVE RingInv'
<1>1. /\ DebugTypeOK /\ Written /\ emitted \in Nat /\ emitted + 1 \in 0..MaxEmitted
      /\ writePos = emitted % Modulus /\ writePos \in Int
  <2>1. DebugTypeOK /\ Written /\ writePos = emitted % Modulus
    BY DEF RingInv, Written
  <2>2. emitted \in Nat /\ emitted + 1 \in 0..MaxEmitted
    BY <2>1, Constants DEF DebugTypeOK, Emit
  <2>3. emitted % Modulus \in Int
    BY <2>2, ModRange, Constants
  <2>4. QED BY <2>1, <2>2, <2>3
<1>2. /\ debugRing' = [debugRing EXCEPT ![writePos % RingBytes] = emitted + 1]
      /\ writePos' = (writePos + 1) % Modulus /\ emitted' = emitted + 1
      /\ UNCHANGED <<firmwareMode, cursors, usbLink>>
      /\ \A c \in Cursor : open[c] => Lag(c) < LagLimit
  BY DEF Emit
<1>3. writePos' = emitted' % Modulus
  <2>1. emitted \in Int /\ 1 \in Int /\ Modulus \in Nat \ {0}
    BY <1>1, Constants
  <2>2. ((emitted % Modulus) + 1) % Modulus = (emitted + 1) % Modulus
    BY <2>1, ModAdd
  <2>3. QED BY <1>1, <1>2, <2>2
<1>4. writePos % RingBytes = emitted % RingBytes
  <2>1. /\ emitted \in Int /\ Modulus \in Nat \ {0} /\ RingBytes \in Nat \ {0}
        /\ Modulus % RingBytes = 0
    BY <1>1, Constants
  <2>2. (emitted % Modulus) % RingBytes = emitted % RingBytes
    BY <2>1, ModOfMod
  <2>3. QED BY <1>1, <2>2
<1>5. writePos % RingBytes \in Index /\ writePos' \in Position
  <2>1. /\ writePos \in Int /\ emitted + 1 \in Int /\ Modulus \in Nat \ {0}
        /\ RingBytes \in Nat \ {0}
    BY <1>1, Constants
  <2>2. writePos % RingBytes \in 0..(RingBytes - 1) /\ (emitted + 1) % Modulus \in 0..(Modulus - 1)
    BY <2>1, ModRange
  <2>3. QED BY <1>2, <1>3, <2>2 DEF Index, Position
<1>6. DebugTypeOK'
  BY <1>1, <1>2, <1>5 DEF DebugTypeOK, cursors, usbLink
<1>7. ASSUME NEW n \in 1..emitted', n > emitted' - RingBytes
      PROVE  debugRing'[(n - 1) % RingBytes] = n
  <2>1. n \in Int /\ n - 1 \in Int /\ n >= 1 /\ (n - 1) % RingBytes \in Index
    BY <1>1, <1>2, ModRange, Constants DEF Index
  <2>2. CASE n = emitted + 1
    <3>1. n - 1 = emitted
      BY <1>1, <2>2
    <3>2. (n - 1) % RingBytes = writePos % RingBytes
      BY <1>4, <3>1
    <3>3. QED BY <1>1, <1>2, <1>5, <2>2, <3>2 DEF DebugTypeOK
  <2>3. CASE n # emitted + 1
    <3>1. n \in 1..emitted /\ n > emitted - RingBytes /\ n - 1 < emitted
          /\ emitted < (n - 1) + RingBytes
      BY <1>1, <1>2, <1>7, <2>1, <2>3, Constants
    <3>2. (n - 1) % RingBytes # emitted % RingBytes
      <4>1. emitted \in Int /\ n - 1 \in Int /\ RingBytes \in Nat \ {0}
        BY <1>1, <2>1, Constants
      <4>2. QED BY <3>1, <4>1, ModDistinct
    <3>3. debugRing'[(n - 1) % RingBytes] = debugRing[(n - 1) % RingBytes]
      BY <1>1, <1>2, <1>4, <2>1, <3>2 DEF DebugTypeOK
    <3>4. QED BY <1>1, <3>1, <3>3 DEF Written
  <2>4. QED BY <2>2, <2>3
<1>8. ASSUME NEW c \in Cursor, open'[c] PROVE Follows(c)'
  <2> DEFINE r == Reached(c)
             g == Lag(c)
  <2>1. /\ open[c] /\ Follows(c) /\ g < LagLimit /\ r \in Nat /\ g = emitted - r
    BY <1>2, <1>8, CursorFacts DEF cursors
  <2>2. g \in 0..LagLimit /\ LagLimit \in Nat
    BY <2>1, Constants DEF Follows
  <2>3. /\ Reached(c)' = r /\ Last(c)' = Last(c) /\ since'[c] = since[c]
        /\ readPos'[c] = readPos[c]
    BY <1>2 DEF Reached, Last, cursors
  <2>4. Lag(c)' = g + 1
    <3> DEFINE s == started[c]
               l == Len(out[c])
               d == dropped[c]
    <3>1. g = emitted - s - l - d /\ Lag(c)' = (emitted + 1) - s - l - d
      BY <1>2 DEF Lag, cursors
    <3>2. s \in Nat /\ l \in Nat /\ d \in Nat
      BY CursorFacts
    <3> HIDE DEF s, l, d, g
    <3>3. QED BY <1>1, <3>1, <3>2
  <2>5. Lag(c)' \in 0..LagLimit
    <3> HIDE DEF g
    <3>1. QED BY <2>1, <2>2, <2>4
  <2>6. r <= emitted - RingBytes => r <= emitted' - RingBytes
    <3> HIDE DEF r
    <3>1. QED BY <1>1, <1>2, <2>1, Constants
  <2>7. /\ readPos[c] = r % Modulus /\ since[c] <= r /\ Last(c) <= r
        /\ r \in {since[c], Last(c)} \/ r <= emitted - RingBytes
    BY <2>1 DEF Follows
  <2> HIDE DEF r, g
  <2>8. QED BY <2>3, <2>5, <2>6, <2>7 DEF Follows
<1>9. Written' /\ open'[Usb]
  BY <1>2, <1>3, <1>7 DEF Written, RingInv, cursors
<1>10. QED BY <1>6, <1>8, <1>9 DEF RingInv

LEMMA OpenKeeps == ASSUME RingInv, NEW c \in Tails, OpenTail(c) PROVE RingInv'
<1>1. /\ DebugTypeOK /\ Written /\ c \in Cursor /\ c # Usb
      /\ emitted \in 0..MaxEmitted /\ writePos \in Position /\ MaxEmitted \in Nat
  BY Constants, TailsAssumption DEF RingInv, DebugTypeOK
<1>2. /\ open' = [open EXCEPT ![c] = TRUE] /\ readPos' = [readPos EXCEPT ![c] = writePos]
      /\ dropped' = [dropped EXCEPT ![c] = 0] /\ since' = [since EXCEPT ![c] = emitted]
      /\ started' = [started EXCEPT ![c] = emitted] /\ out' = [out EXCEPT ![c] = <<>>]
      /\ UNCHANGED <<firmwareMode, debugRing, writePos, usbLink, emitted>>
  BY DEF OpenTail
<1>3. << >> \in Seq(1..MaxEmitted) /\ 0 \in 0..MaxEmitted
  BY <1>1
<1>4. DebugTypeOK'
  <2>1. /\ open' \in [Cursor -> BOOLEAN] /\ readPos' \in [Cursor -> Position]
        /\ dropped' \in [Cursor -> 0..MaxEmitted] /\ since' \in [Cursor -> 0..MaxEmitted]
        /\ started' \in [Cursor -> 0..MaxEmitted]
    BY <1>1, <1>2, <1>3 DEF DebugTypeOK
  <2>2. out' \in [Cursor -> Seq(1..MaxEmitted)]
    BY <1>1, <1>2, <1>3 DEF DebugTypeOK
  <2>3. QED BY <1>1, <1>2, <2>1, <2>2 DEF DebugTypeOK, usbLink
<1>5. Follows(c)'
  <2>1. /\ readPos'[c] = writePos /\ dropped'[c] = 0 /\ since'[c] = emitted
        /\ started'[c] = emitted /\ out'[c] = << >> /\ emitted' = emitted
    BY <1>1, <1>2 DEF DebugTypeOK
  <2>2. Reached(c)' = emitted /\ Last(c)' = emitted /\ Lag(c)' = 0
    <3>1. Len(out'[c]) = 0
      BY <2>1
    <3>2. /\ Reached(c)' = emitted + 0 + 0 /\ Lag(c)' = emitted - emitted - 0 - 0
          /\ Last(c)' = emitted
      BY <2>1, <3>1 DEF Reached, Last, Lag
    <3>3. QED BY <1>1, <3>2
  <2>3. readPos'[c] = emitted % Modulus /\ 0 \in 0..LagLimit
    BY <1>1, <2>1, Constants DEF Written
  <2>4. QED BY <1>1, <2>1, <2>2, <2>3 DEF Follows
<1>6. ASSUME NEW d \in Cursor, d # c, open'[d] PROVE Follows(d)'
  <2>1. /\ open[d] /\ readPos'[d] = readPos[d] /\ dropped'[d] = dropped[d]
        /\ since'[d] = since[d] /\ started'[d] = started[d] /\ out'[d] = out[d]
        /\ emitted' = emitted
    BY <1>1, <1>2, <1>6 DEF DebugTypeOK
  <2>2. QED BY <2>1, Undisturbed DEF RingInv
<1>7. Written' /\ open'[Usb]
  BY <1>1, <1>2, Constants DEF RingInv, Written, DebugTypeOK
<1>8. QED BY <1>4, <1>5, <1>6, <1>7 DEF RingInv

LEMMA SkipKeeps ==
    ASSUME RingInv, SkipToNow(Usb), since' = [since EXCEPT ![Usb] = emitted],
           UNCHANGED <<firmwareMode, debugRing, writePos, emitted>>,
           connected' \in BOOLEAN, lastConnected' \in BOOLEAN
    PROVE  RingInv'
<1> DEFINE r == Reached(Usb)
           d == dropped[Usb]
<1>1. /\ DebugTypeOK /\ Written /\ Usb \in Cursor /\ open[Usb] /\ Follows(Usb)
      /\ emitted \in Nat /\ emitted <= MaxEmitted /\ MaxEmitted \in Nat /\ writePos \in Position
      /\ r \in Nat /\ d \in Nat /\ Behind(Usb) = emitted - r /\ r <= emitted
  <2>1. Usb \in Cursor /\ open[Usb]
    BY Constants DEF RingInv
  <2>2. Follows(Usb) /\ r \in Nat /\ d \in Nat /\ Lag(Usb) = emitted - r /\ Lag(Usb) >= 0
    BY <2>1, CursorFacts, Constants DEF Follows
  <2>3. Behind(Usb) = Lag(Usb)
    BY <2>1, BehindIsLag
  <2>4. emitted \in Nat /\ emitted <= MaxEmitted /\ MaxEmitted \in Nat /\ writePos \in Position
    BY Constants DEF RingInv, DebugTypeOK
  <2> HIDE DEF r, d
  <2>5. r <= emitted
    BY <2>2, <2>4
  <2>6. QED BY <2>1, <2>2, <2>3, <2>4, <2>5 DEF RingInv
<1>2. /\ dropped' = [dropped EXCEPT ![Usb] = @ + Behind(Usb)]
      /\ readPos' = [readPos EXCEPT ![Usb] = writePos]
      /\ UNCHANGED <<open, started, out>>
  BY DEF SkipToNow
<1>3. d <= r
  BY <1>1, CursorFacts DEF Reached
<1>4. d + Behind(Usb) \in 0..MaxEmitted
  <2> HIDE DEF r, d
  <2>1. QED BY <1>1, <1>3
<1>5. DebugTypeOK'
  <2>1. /\ readPos' \in [Cursor -> Position] /\ dropped' \in [Cursor -> 0..MaxEmitted]
        /\ since' \in [Cursor -> 0..MaxEmitted]
    BY <1>1, <1>2, <1>4 DEF DebugTypeOK
  <2>2. QED BY <1>1, <1>2, <2>1 DEF DebugTypeOK
<1>6. /\ readPos'[Usb] = writePos /\ dropped'[Usb] = d + Behind(Usb) /\ since'[Usb] = emitted
      /\ started'[Usb] = started[Usb] /\ out'[Usb] = out[Usb] /\ emitted' = emitted
  BY <1>1, <1>2 DEF DebugTypeOK
<1>7. Reached(Usb)' = emitted /\ Lag(Usb)' = 0 /\ Last(Usb)' = Last(Usb)
  <2> DEFINE s == started[Usb]
             l == Len(out[Usb])
  <2>1. /\ r = s + l + d /\ Reached(Usb)' = s + l + (d + Behind(Usb))
        /\ Lag(Usb)' = emitted - s - l - (d + Behind(Usb)) /\ Last(Usb)' = Last(Usb)
    BY <1>6 DEF Reached, Lag, Last
  <2>2. s \in Nat /\ l \in Nat
    BY <1>1, CursorFacts
  <2> HIDE DEF s, l, r, d
  <2>3. QED BY <1>1, <2>1, <2>2
<1>8. Last(Usb) <= emitted
  <2>1. Last(Usb) <= r /\ Last(Usb) \in Int
    BY <1>1, LastIsInt DEF Follows
  <2> HIDE DEF r, d
  <2>2. QED BY <1>1, <2>1
<1>9. Follows(Usb)'
  BY <1>1, <1>6, <1>7, <1>8, Constants DEF Follows, Written
<1>10. ASSUME NEW c \in Cursor, c # Usb, open'[c] PROVE Follows(c)'
  <2>1. /\ open[c] /\ readPos'[c] = readPos[c] /\ dropped'[c] = dropped[c]
        /\ since'[c] = since[c] /\ started'[c] = started[c] /\ out'[c] = out[c]
    BY <1>1, <1>2, <1>10 DEF DebugTypeOK
  <2>2. QED BY <1>6, <2>1, Undisturbed DEF RingInv
<1>11. Written' /\ open'[Usb]
  BY <1>1, <1>2 DEF Written
<1>12. QED BY <1>5, <1>9, <1>10, <1>11 DEF RingInv

----------------------------------------------------------------------------
(* The theorems.                                                           *)

LEMMA DebugInitInv == DebugInit => RingInv
<1> SUFFICES ASSUME DebugInit PROVE RingInv
  OBVIOUS
<1>1. 0 \in Position /\ 0 \in 0..MaxEmitted /\ << >> \in Seq(1..MaxEmitted) /\ 0 % Modulus = 0
  <2>1. 0 \in 0..(Modulus - 1)
    BY Constants
  <2>2. (Modulus * 0 + 0) % Modulus = 0 /\ Modulus * 0 + 0 = 0
    BY <2>1, ModUnique, Constants
  <2>3. QED BY <2>1, <2>2, Constants DEF Position
<1>2. DebugTypeOK
  BY <1>1 DEF DebugInit, DebugTypeOK
<1>3. ASSUME NEW c \in Cursor PROVE Follows(c)
  <2>1. /\ readPos[c] = 0 /\ started[c] = 0 /\ since[c] = 0 /\ dropped[c] = 0
        /\ out[c] = << >> /\ Len(out[c]) = 0 /\ emitted = 0
    BY DEF DebugInit
  <2>2. Reached(c) = 0 /\ Lag(c) = 0 /\ Last(c) = 0
    <3>1. Reached(c) = 0 + 0 + 0 /\ Lag(c) = 0 - 0 - 0 - 0 /\ Last(c) = 0
      BY <2>1 DEF Reached, Lag, Last
    <3>2. QED BY <3>1
  <2>3. QED BY <1>1, <2>1, <2>2, Constants DEF Follows
<1>4. Written /\ open[Usb]
  <2>1. writePos = 0 /\ emitted = 0
    BY DEF DebugInit
  <2>2. open[Usb]
    BY Constants DEF DebugInit
  <2>3. 1..0 = {}
    OBVIOUS
  <2>4. QED BY <1>1, <2>1, <2>2, <2>3 DEF Written
<1>5. QED BY <1>2, <1>3, <1>4 DEF RingInv

LEMMA DebugStepInv == RingInv /\ [DebugNext]_debugVars => RingInv'
<1> SUFFICES ASSUME RingInv, [DebugNext]_debugVars PROVE RingInv'
  OBVIOUS
<1>0. /\ connected \in BOOLEAN /\ lastConnected \in BOOLEAN /\ firmwareMode \in BOOLEAN
      /\ Usb \in Cursor /\ open[Usb] /\ Tails \subseteq Cursor /\ Usb \notin Tails
  BY Constants, TailsAssumption DEF RingInv, DebugTypeOK
<1>1. CASE EnterFirmwareMode \/ HostToggles \/ UNCHANGED debugVars
  <2>1. /\ UNCHANGED <<debugRing, writePos, cursors, emitted>>
        /\ connected' \in BOOLEAN /\ lastConnected' \in BOOLEAN /\ firmwareMode' \in BOOLEAN
    BY <1>0, <1>1 DEF EnterFirmwareMode, HostToggles, debugVars, usbLink
  <2>2. DebugTypeOK' /\ Written' /\ open'[Usb]
    BY <2>1 DEF RingInv, DebugTypeOK, Written, cursors
  <2>3. ASSUME NEW c \in Cursor, open'[c] PROVE Follows(c)'
    BY <2>1, <2>3, Undisturbed DEF RingInv, cursors
  <2>4. QED BY <2>2, <2>3 DEF RingInv
<1>2. CASE Emit
  BY <1>2, EmitKeeps
<1>3. CASE UsbDrain
  <2>1. /\ UNCHANGED <<firmwareMode, debugRing, writePos, connected, emitted>>
        /\ lastConnected' = connected
    BY <1>3 DEF UsbDrain
  <2>2. CASE connected /\ ~lastConnected
    BY <1>0, <1>3, <2>1, <2>2, SkipKeeps DEF UsbDrain
  <2>3. CASE connected /\ lastConnected
    <3>1. PICK avail \in 0..Batch : Pull(Usb, avail)
      BY <1>3, <2>3 DEF UsbDrain
    <3>2. avail \in Nat
      BY <3>1, Constants
    <3>3. QED BY <1>0, <2>1, <3>1, <3>2, PullKeeps
  <2>4. CASE ~connected
    <3>1. UNCHANGED cursors
      BY <1>3, <2>4 DEF UsbDrain
    <3>2. DebugTypeOK' /\ Written' /\ open'[Usb]
      BY <1>0, <2>1, <3>1 DEF RingInv, DebugTypeOK, Written, cursors
    <3>3. ASSUME NEW c \in Cursor, open'[c] PROVE Follows(c)'
      BY <2>1, <3>1, <3>3, Undisturbed DEF RingInv, cursors
    <3>4. QED BY <3>2, <3>3 DEF RingInv
  <2>5. QED BY <2>2, <2>3, <2>4
<1>4. ASSUME NEW c \in Tails, OpenTail(c) PROVE RingInv'
  BY <1>4, OpenKeeps
<1>5. ASSUME NEW c \in Tails, DriveTail(c) PROVE RingInv'
  <2>1. /\ c \in Cursor /\ open[c] /\ Pull(c, Batch) /\ Batch \in Nat
        /\ UNCHANGED <<firmwareMode, debugRing, writePos, usbLink, emitted>>
    BY <1>0, <1>5, Constants DEF DriveTail
  <2>2. QED BY <1>0, <2>1, PullKeeps DEF usbLink
<1>6. ASSUME NEW c \in Tails, CloseTail(c) PROVE RingInv'
  <2>1. /\ open' = [open EXCEPT ![c] = FALSE]
        /\ UNCHANGED <<firmwareMode, debugRing, writePos, readPos, dropped, since,
                       started, out, usbLink, emitted>>
    BY <1>6 DEF CloseTail
  <2>2. DebugTypeOK' /\ Written' /\ open'[Usb]
    BY <1>0, <2>1 DEF RingInv, DebugTypeOK, Written, usbLink
  <2>3. ASSUME NEW d \in Cursor, open'[d] PROVE Follows(d)'
    <3>1. open[d]
      BY <2>1, <2>3 DEF RingInv, DebugTypeOK
    <3>2. QED BY <2>1, <3>1, Undisturbed DEF RingInv
  <2>4. QED BY <2>2, <2>3 DEF RingInv
<1>7. QED BY <1>1, <1>2, <1>3, <1>4, <1>5, <1>6 DEF DebugNext

LEMMA DebugInvariant == DebugSpec => []RingInv
BY DebugInitInv, DebugStepInv, PTL DEF DebugSpec

\* What EachByteIsDue says of one consumer.
ByteIsDue(c) ==
    LET had == Len(out[c])
        due == {since[c], emitted - RingBytes,
                IF had = 0 THEN started[c] ELSE out[c][had]}
    IN  open'[c] /\ started'[c] = started[c] =>
           \A i \in (had + 1)..Len(out'[c]) :
               out'[c][i] = (CHOOSE d \in due : \A e \in due : d >= e) + i - had

LEMMA NothingHandedOut ==
    ASSUME RingInv, NEW c \in Cursor,
           open'[c] /\ started'[c] = started[c] => out'[c] \in {out[c], << >>}
    PROVE  ByteIsDue(c)
<1>1. Len(out[c]) \in Nat
  BY CursorFacts
<1>2. CASE out'[c] = out[c]
  <2>1. (Len(out[c]) + 1)..Len(out'[c]) = {}
    BY <1>1, <1>2
  <2>2. QED BY <2>1 DEF ByteIsDue
<1>3. CASE out'[c] = << >>
  <2>1. (Len(out[c]) + 1)..Len(out'[c]) = {}
    BY <1>1, <1>3
  <2>2. QED BY <2>1 DEF ByteIsDue
<1>4. CASE ~(open'[c] /\ started'[c] = started[c])
  BY <1>4 DEF ByteIsDue
<1>5. QED BY <1>2, <1>3, <1>4

\* A choice with one candidate.
LEMMA GreatestIs ==
    ASSUME NEW S, S \subseteq Int, NEW x \in S, \A e \in S : x >= e
    PROVE  (CHOOSE d \in S : \A e \in S : d >= e) = x
<1> DEFINE y == CHOOSE d \in S : \A e \in S : d >= e
<1>1. y \in S /\ \A e \in S : y >= e
  OBVIOUS
<1> HIDE DEF y
<1>2. y = x
  BY <1>1
<1>3. QED BY <1>2 DEF y

LEMMA PullHandsOutDue ==
    ASSUME RingInv, NEW c \in Cursor, open[c], NEW max \in Nat, Pull(c, max)
    PROVE  \A d \in Cursor : ByteIsDue(d)
<1>1. PICK lost \in Nat, bytes \in Seq(1..MaxEmitted) :
              /\ lost + Len(bytes) <= Lag(c)
              /\ Reached(c) + lost >= emitted - RingBytes
              /\ lost = 0 \/ Reached(c) + lost = emitted - RingBytes
              /\ \A i \in 1..Len(bytes) : bytes[i] = Reached(c) + lost + i
              /\ dropped' = [dropped EXCEPT ![c] = @ + lost]
              /\ readPos' = [readPos EXCEPT ![c] = (Reached(c) + lost + Len(bytes)) % Modulus]
              /\ out' = [out EXCEPT ![c] = @ \o bytes]
              /\ UNCHANGED <<open, since, started>>
  BY Pulled
<1>2. out \in [Cursor -> Seq(1..MaxEmitted)]
  BY DEF RingInv, DebugTypeOK
<1>3. ASSUME NEW d \in Cursor, d # c PROVE ByteIsDue(d)
  BY <1>1, <1>2, <1>3, NothingHandedOut
<1> DEFINE r == Reached(c)
           l == Len(out[c])
           due == {since[c], emitted - RingBytes, Last(c)}
<1>4. /\ r \in Nat /\ l \in Nat /\ Len(bytes) \in Nat /\ emitted \in Nat
      /\ since[c] \in Int /\ Last(c) \in Int /\ out[c] \in Seq(1..MaxEmitted)
      /\ since[c] <= r /\ Last(c) <= r
      /\ r \in {since[c], Last(c)} \/ r <= emitted - RingBytes
  BY CursorFacts, LastIsInt DEF Follows
<1>5. due \subseteq Int /\ r + lost \in due /\ \A e \in due : r + lost >= e
  <2> HIDE DEF r
  <2>1. /\ r + lost >= since[c] /\ r + lost >= Last(c) /\ r + lost >= emitted - RingBytes
        /\ emitted - RingBytes \in Int
    BY <1>1, <1>4, Constants, SMTT(30) DEF r
  <2>2. r + lost \in due
    <3>1. CASE lost = 0
      <4>1. r + lost = r /\ r >= emitted - RingBytes
        BY <1>4, <2>1, <3>1
      <4>2. CASE r \in {since[c], Last(c)}
        BY <4>1, <4>2
      <4>3. CASE r <= emitted - RingBytes
        <5>1. r = emitted - RingBytes
          BY <1>4, <2>1, <4>1, <4>3
        <5>2. QED BY <4>1, <5>1
      <4>4. QED BY <1>4, <4>2, <4>3
    <3>2. CASE r + lost = emitted - RingBytes
      BY <3>2
    <3>3. QED BY <1>1, <3>1, <3>2 DEF r
  <2>3. QED BY <1>4, <2>1, <2>2
<1>6. (CHOOSE d \in due : \A e \in due : d >= e) = r + lost
  BY <1>5, GreatestIs
<1>7. ASSUME NEW i \in (l + 1)..Len(out'[c])
      PROVE  out'[c][i] = (r + lost) + i - l
  <2>1. out'[c] = out[c] \o bytes /\ Len(out'[c]) = l + Len(bytes)
    BY <1>1, <1>2, <1>4
  <2>2. i \in Int /\ i - l \in 1..Len(bytes)
    BY <1>4, <1>7, <2>1
  <2>3. out'[c][i] = bytes[i - l]
    BY <1>4, <1>7, <2>1, <2>2
  <2>4. bytes[i - l] = r + lost + (i - l)
    BY <1>1, <2>2
  <2> HIDE DEF r, l
  <2>5. QED BY <1>4, <2>2, <2>3, <2>4
<1>8. ByteIsDue(c)
  BY <1>6, <1>7 DEF ByteIsDue, Last
<1>9. QED BY <1>3, <1>8

LEMMA StepHandsOutDue ==
    RingInv /\ [DebugNext]_debugVars => [\A c \in Cursor : ByteIsDue(c)]_debugVars
<1> SUFFICES ASSUME RingInv, DebugNext PROVE \A c \in Cursor : ByteIsDue(c)
  OBVIOUS
<1>0. /\ Usb \in Cursor /\ open[Usb] /\ Tails \subseteq Cursor
      /\ out \in [Cursor -> Seq(1..MaxEmitted)]
  BY Constants DEF RingInv, DebugTypeOK
<1>1. CASE UNCHANGED out
  BY <1>1, NothingHandedOut
<1>2. CASE EnterFirmwareMode \/ HostToggles \/ Emit
  BY <1>1, <1>2 DEF EnterFirmwareMode, HostToggles, Emit, cursors
<1>3. CASE UsbDrain
  <2>1. CASE connected /\ ~lastConnected
    BY <1>1, <1>3, <2>1 DEF UsbDrain, SkipToNow
  <2>2. CASE connected /\ lastConnected
    <3>1. PICK avail \in 0..Batch : Pull(Usb, avail)
      BY <1>3, <2>2 DEF UsbDrain
    <3>2. avail \in Nat
      BY <3>1, Constants
    <3>3. QED BY <1>0, <3>1, <3>2, PullHandsOutDue
  <2>3. CASE ~connected
    BY <1>1, <1>3, <2>3 DEF UsbDrain, cursors
  <2>4. QED BY <2>1, <2>2, <2>3
<1>4. ASSUME NEW c \in Tails, OpenTail(c) PROVE \A d \in Cursor : ByteIsDue(d)
  <2>1. \A d \in Cursor : out'[d] \in {out[d], << >>}
    BY <1>0, <1>4 DEF OpenTail
  <2>2. QED BY <2>1, NothingHandedOut
<1>5. ASSUME NEW c \in Tails, DriveTail(c) PROVE \A d \in Cursor : ByteIsDue(d)
  BY <1>0, <1>5, PullHandsOutDue, Constants DEF DriveTail
<1>6. ASSUME NEW c \in Tails, CloseTail(c) PROVE \A d \in Cursor : ByteIsDue(d)
  BY <1>1, <1>6 DEF CloseTail
<1>7. QED BY <1>2, <1>3, <1>4, <1>5, <1>6 DEF DebugNext

\* The ring, its cursors and their counters keep to their types
\* (debugcap.c, usbcdc.c).
THEOREM DebugTypeCorrect == DebugSpec => []DebugTypeOK
<1>1. RingInv => DebugTypeOK
  BY DEF RingInv
<1>2. QED BY <1>1, DebugInvariant, PTL

\* No byte vanishes, for a ring and positions of any size: the unsigned distance
\* of a cursor is what was emitted less what it got and what it is told it lost
\* (debugcap_cursor_pull).
THEOREM BytesAreAccounted == DebugSpec => []Accounted
<1>1. RingInv => Accounted
  BY BehindIsLag DEF Accounted, Lag
<1>2. QED BY <1>1, DebugInvariant, PTL

\* Every consumer gets exactly the bytes that are due, through every wrap of
\* ring and positions, for a ring, batches and tails of any size
\* (debugcap_cursor_pull, usbcdc_drain).
THEOREM BytesAreDue == DebugSpec => EachByteIsDue
<1>1. DebugSpec => [][\A c \in Cursor : ByteIsDue(c)]_debugVars
  BY DebugInvariant, StepHandsOutDue, PTL DEF DebugSpec
<1>2. QED BY <1>1, PTL DEF EachByteIsDue, ByteIsDue

----------------------------------------------------------------------------
(* The ring of samples.                                                    *)

\* The DMA: the word it writes next, and the newest samples in their words.
Stored ==
    /\ NextWord = captured % RingWords
    /\ \A n \in 1..captured : captured - n < RingWords => commRing[(n - 1) % RingWords] = n

\* The reader: its index, and how far it is behind.  Between two polls that is
\* what a re-arm left out of the count and what came since; during a drain it
\* is less than a ring, unless the count slipped.
Reading ==
    /\ commReadIdx = (expected - 1) % RingWords
    /\ commOverruns < expected
    /\ poll = "idle" => uncounted + Unread = captured + 1 - expected
    /\ poll = "drain" =>
          /\ uncounted = 0 /\ Unread = captured + 1 - upTo
          /\ writeIdx = (upTo - 1) % RingWords
          /\ expected <= upTo
          /\ slipped \/ upTo - expected < RingWords

CaptureInv == CaptureTypeOK /\ Stored /\ Reading

\* What the assumption says of the constants.
LEMMA CaptureConstants ==
    RingWords \in Nat \ {0} /\ RearmThreshold \in Nat \ {0} /\ MaxSamples \in Nat
BY CaptureAssumption

\* What the types say of the counters.
LEMMA CaptureNumbers ==
    ASSUME CaptureTypeOK
    PROVE  /\ captured \in Nat /\ transfers \in Nat /\ commLastWritten \in Nat
           /\ commOverruns \in Nat /\ uncounted \in Nat
           /\ expected \in Nat \ {0} /\ upTo \in Nat \ {0}
           /\ expected <= captured + 1 /\ upTo <= captured + 1
           /\ captured <= MaxSamples /\ transfers <= captured
           /\ commLastWritten <= transfers
           /\ commArmIdx \in Int /\ commReadIdx \in Int /\ writeIdx \in Int
           /\ NextWord \in Words
<1>1. captured \in Nat /\ transfers \in Nat /\ commArmIdx \in Int
  BY CaptureConstants DEF CaptureTypeOK, Words
<1>2. NextWord \in Words
  BY <1>1, CaptureConstants, ModRange DEF NextWord, Words
<1>3. QED BY <1>1, <1>2, CaptureConstants DEF CaptureTypeOK, Words

\* The armed ring is empty.
LEMMA CaptureInitInv == CaptureInit => CaptureInv
<1> SUFFICES ASSUME CaptureInit PROVE CaptureInv
  OBVIOUS
<1>1. 0 % RingWords = 0 /\ 0 \in Words
  <2>1. RingWords * 0 + 0 = 0 /\ 0 \in 0..(RingWords - 1)
    BY CaptureConstants
  <2>2. (RingWords * 0 + 0) % RingWords = 0
    BY ONLY <2>1, CaptureConstants, ModUnique
  <2>3. QED BY <2>1, <2>2 DEF Words
<1>2. CaptureTypeOK
  <2>1. /\ 0 \in 0..MaxSamples /\ transfers \in 0..captured /\ commLastWritten \in 0..transfers
        /\ expected \in 1..(captured + 1) /\ upTo \in 1..(captured + 1)
    BY CaptureConstants DEF CaptureInit
  <2>2. commRing \in [Words -> 0..MaxSamples]
    BY <2>1 DEF CaptureInit
  <2>3. QED BY <1>1, <2>1, <2>2 DEF CaptureInit, CaptureTypeOK
<1>3. Stored
  BY <1>1 DEF CaptureInit, Stored, NextWord
<1>4. Reading
  BY <1>1 DEF CaptureInit, Reading, Unread
<1>5. QED BY <1>2, <1>3, <1>4 DEF CaptureInv

\* A sample is stored in the word after the one before it, and the samples that
\* are less than a ring behind keep theirs.
LEMMA SampleKeeps == ASSUME CaptureInv, Sample PROVE CaptureInv'
<1>0. CaptureTypeOK /\ Stored /\ Reading
  BY DEF CaptureInv
<1>1. captured < MaxSamples /\ captured' = captured + 1 /\ transfers' = transfers + 1
      /\ commRing' = [commRing EXCEPT ![NextWord] = captured + 1]
      /\ UNCHANGED <<commArmIdx, commReadIdx, commLastWritten, commOverruns, poll, writeIdx,
                     expected, upTo, uncounted, slipped>>
  BY DEF Sample
<1>2. CaptureTypeOK'
  BY <1>0, <1>1, CaptureNumbers, CaptureConstants DEF CaptureTypeOK
<1>3. NextWord' = captured' % RingWords
  <2>1. (commArmIdx + transfers) % RingWords = captured % RingWords
    BY <1>0 DEF Stored, NextWord
  <2>2. (((commArmIdx + transfers) % RingWords) + 1) % RingWords
            = (commArmIdx + transfers + 1) % RingWords
    <3> DEFINE p == commArmIdx + transfers
    <3>1. p \in Int /\ 1 \in Int /\ RingWords \in Nat \ {0}
      BY <1>0, CaptureNumbers, CaptureConstants
    <3> HIDE DEF p
    <3>2. ((p % RingWords) + 1) % RingWords = (p + 1) % RingWords
      BY <3>1, ModAdd
    <3>3. QED BY <3>2 DEF p
  <2>3. ((captured % RingWords) + 1) % RingWords = (captured + 1) % RingWords
    <3>1. captured \in Int /\ 1 \in Int /\ RingWords \in Nat \ {0}
      BY <1>0, CaptureNumbers, CaptureConstants
    <3>2. QED BY <3>1, ModAdd
  <2>4. NextWord' = (commArmIdx + transfers + 1) % RingWords
    <3>1. commArmIdx + (transfers + 1) = commArmIdx + transfers + 1
      BY <1>0, CaptureNumbers
    <3>2. QED BY <1>1, <3>1 DEF NextWord
  <2>5. QED BY ONLY <1>1, <2>1, <2>2, <2>3, <2>4
<1>4. ASSUME NEW n \in 1..captured', captured' - n < RingWords
      PROVE  commRing'[(n - 1) % RingWords] = n
  <2>1. captured \in Nat /\ commRing \in [Words -> 0..MaxSamples] /\ NextWord \in Words
    BY <1>0, CaptureNumbers DEF CaptureTypeOK
  <2>2. CASE n = captured + 1
    <3>1. n - 1 = captured
      BY <2>1, <2>2
    <3>2. (n - 1) % RingWords = NextWord
      BY <1>0, <3>1 DEF Stored
    <3>3. QED BY <1>1, <2>1, <2>2, <3>2
  <2>3. CASE n # captured + 1
    <3>1. n \in 1..captured /\ captured - n < RingWords
      BY <1>1, <1>4, <2>1, <2>3, CaptureConstants
    <3>2. (n - 1) % RingWords # captured % RingWords
      <4> DEFINE k == n - 1
      <4>1. /\ k \in Int /\ captured \in Int /\ RingWords \in Nat \ {0}
            /\ k < captured /\ captured < k + RingWords
        BY <1>1, <1>4, <2>1, <3>1, CaptureConstants
      <4> HIDE DEF k
      <4>2. k % RingWords # captured % RingWords
        BY <4>1, ModDistinct
      <4>3. QED BY <4>2 DEF k
    <3>3. n - 1 \in Int /\ (n - 1) % RingWords \in Words
      BY <3>1, CaptureConstants, ModRange DEF Words
    <3>4. (n - 1) % RingWords # NextWord /\ commRing[(n - 1) % RingWords] = n
      BY <1>0, <3>1, <3>2 DEF Stored
    <3>5. QED BY <1>1, <2>1, <3>3, <3>4
  <2>4. QED BY <2>2, <2>3
<1>5. Stored'
  <2>1. \A n \in 1..captured' :
            captured' - n < RingWords => commRing'[(n - 1) % RingWords] = n
    BY <1>4
  <2>2. QED BY <1>3, <2>1 DEF Stored
<1>6. Reading'
  <2>1. Unread' = Unread + 1 /\ Unread \in Int
    BY <1>0, <1>1, CaptureNumbers DEF Unread
  <2>2. QED BY <1>0, <1>1, <2>1, CaptureNumbers DEF Reading
<1>7. QED BY <1>2, <1>5, <1>6 DEF CaptureInv

\* A poll: the count it reads is what the DMA has written since the last one.
LEMMA PollKeeps == ASSUME CaptureInv, PollStarts PROVE CaptureInv'
<1>0. CaptureTypeOK /\ Stored /\ Reading
  BY DEF CaptureInv
<1>1. /\ poll = "idle" /\ commLastWritten' = transfers
      /\ upTo' = captured + 1 /\ uncounted' = 0
      /\ UNCHANGED <<commRing, captured, transfers, commArmIdx>>
  BY DEF PollStarts, PollWith
<1>2. Stored'
  BY <1>0, <1>1 DEF Stored, NextWord
<1>3. /\ uncounted + Unread = captured + 1 - expected
      /\ Unread \in Int /\ Unread' = 0 /\ captured + 1 - 1 = captured
  BY <1>0, <1>1, CaptureNumbers DEF Reading, Unread
<1>4. CASE Unread >= RingWords
  <2>1. /\ commOverruns' = commOverruns + 1
        /\ commReadIdx' = NextWord /\ expected' = captured + 1
        /\ UNCHANGED <<poll, writeIdx, slipped>>
    BY <1>4 DEF PollStarts, PollWith
  <2>2. expected <= captured /\ commOverruns < expected
    BY <1>0, <1>3, <1>4, CaptureNumbers, CaptureConstants DEF Reading
  <2>3. /\ commOverruns' < expected' /\ commOverruns' \in 0..MaxSamples
        /\ expected' \in 1..(captured + 1)
    <3>1. expected \in Nat /\ commOverruns \in Nat /\ captured \in 0..MaxSamples
      BY <1>0, CaptureNumbers DEF CaptureTypeOK
    <3>2. QED BY <2>1, <2>2, <3>1, CaptureConstants
  <2>4. CaptureTypeOK'
    <3>1. /\ commLastWritten' \in 0..transfers' /\ upTo' \in 1..(captured' + 1)
          /\ uncounted' \in 0..MaxSamples /\ NextWord \in Words
      BY <1>0, <1>1, CaptureNumbers, CaptureConstants
    <3>2. QED BY <1>0, <1>1, <2>1, <2>3, <3>1 DEF CaptureTypeOK
  <2>5. commReadIdx' = (expected' - 1) % RingWords
    <3>1. expected' - 1 = captured
      BY <1>0, <2>1, CaptureNumbers
    <3>2. QED BY <1>0, <2>1, <3>1 DEF Stored
  <2>6. uncounted' + Unread' = captured' + 1 - expected'
    BY <1>0, <1>1, <1>3, <2>1, CaptureNumbers
  <2>7. Reading'
    BY <1>1, <2>1, <2>3, <2>5, <2>6 DEF Reading
  <2>8. QED BY <1>2, <2>4, <2>7 DEF CaptureInv
<1>5. CASE ~(Unread >= RingWords)
  <2>1. /\ poll' = "drain" /\ writeIdx' = NextWord
        /\ slipped' = (Unread < RingWords /\ uncounted + Unread >= RingWords)
        /\ UNCHANGED <<commOverruns, commReadIdx, expected>>
    BY <1>5 DEF PollStarts, PollWith
  <2>2. CaptureTypeOK'
    <3>1. /\ commLastWritten' \in 0..transfers' /\ upTo' \in 1..(captured' + 1)
          /\ uncounted' \in 0..MaxSamples /\ NextWord \in Words
      BY <1>0, <1>1, CaptureNumbers, CaptureConstants
    <3>2. slipped' \in BOOLEAN
      BY <2>1
    <3>3. QED BY <1>0, <1>1, <2>1, <3>1, <3>2 DEF CaptureTypeOK
  <2>3. writeIdx' = (upTo' - 1) % RingWords
    <3>1. upTo' - 1 = captured
      BY <1>0, <1>1, CaptureNumbers
    <3>2. QED BY <1>0, <2>1, <3>1 DEF Stored
  <2>4. expected <= captured + 1 /\ Unread' = captured' + 1 - upTo'
    BY <1>0, <1>1, <1>3, CaptureNumbers
  <2>5. slipped' \/ upTo' - expected' < RingWords
    <3>1. CASE uncounted + Unread >= RingWords
      <4>1. Unread < RingWords
        BY <1>3, <1>5, CaptureConstants
      <4>2. QED BY <2>1, <3>1, <4>1
    <3>2. CASE ~(uncounted + Unread >= RingWords)
      <4>1. upTo' - expected' = uncounted + Unread
        BY <1>0, <1>1, <1>3, <2>1, CaptureNumbers
      <4>2. QED BY <1>0, <1>3, <3>2, <4>1, CaptureNumbers, CaptureConstants
    <3>3. QED BY <3>1, <3>2
  <2>6. Reading'
    BY <1>0, <1>1, <2>1, <2>3, <2>4, <2>5 DEF Reading
  <2>7. QED BY <1>2, <2>2, <2>6 DEF CaptureInv
<1>6. QED BY <1>4, <1>5

\* One sample handed on.
LEMMA DrainKeeps == ASSUME CaptureInv, Drain PROVE CaptureInv'
<1>0. CaptureTypeOK /\ Stored /\ Reading
  BY DEF CaptureInv
<1>1. /\ poll = "drain" /\ commReadIdx # writeIdx
      /\ commReadIdx' = (commReadIdx + 1) % RingWords /\ expected' = expected + 1
      /\ UNCHANGED <<commRing, captured, transfers, commArmIdx, commLastWritten,
                     commOverruns, poll, writeIdx, upTo, uncounted, slipped>>
  BY DEF Drain
<1>2. Stored'
  BY <1>0, <1>1 DEF Stored, NextWord
<1>3. expected < upTo
  <2>1. expected # upTo /\ expected <= upTo
    BY <1>0, <1>1 DEF Reading
  <2>2. QED BY <1>0, <2>1, CaptureNumbers
<1>4. commReadIdx' = (expected' - 1) % RingWords
  <2>1. expected - 1 \in Int /\ expected - 1 + 1 = expected' - 1
    BY <1>0, <1>1, CaptureNumbers
  <2>2. (((expected - 1) % RingWords) + 1) % RingWords = (expected - 1 + 1) % RingWords
    BY ONLY <2>1, CaptureConstants, ModAdd
  <2>3. QED BY <1>0, <1>1, <2>1, <2>2 DEF Reading
<1>5. CaptureTypeOK'
  <2>1. commReadIdx' \in Words
    <3>1. commReadIdx + 1 \in Int
      BY <1>0, CaptureNumbers
    <3>2. QED BY <1>1, <3>1, CaptureConstants, ModRange DEF Words
  <2>2. expected' \in 1..(captured + 1)
    BY <1>0, <1>1, <1>3, CaptureNumbers
  <2>3. QED BY <1>0, <1>1, <2>1, <2>2 DEF CaptureTypeOK
<1>6. Reading'
  <2>1. Unread' = Unread
    BY <1>1 DEF Unread
  <2>2. commOverruns < expected' /\ expected' <= upTo
        /\ (upTo - expected < RingWords => upTo - expected' < RingWords)
    BY <1>0, <1>1, <1>3, CaptureNumbers, CaptureConstants DEF Reading
  <2>3. QED BY <1>0, <1>1, <1>4, <2>1, <2>2 DEF Reading
<1>7. QED BY <1>2, <1>5, <1>6 DEF CaptureInv

\* The end of a drain, at the index or at an overrun.
LEMMA DrainedKeeps == ASSUME CaptureInv, Drained PROVE CaptureInv'
<1>0. CaptureTypeOK /\ Stored /\ Reading
  BY DEF CaptureInv
<1>1. /\ poll = "drain" /\ commReadIdx = writeIdx
      /\ poll' = "idle" /\ expected' = upTo /\ slipped' = FALSE
      /\ UNCHANGED <<commRing, captured, commReadIdx, commOverruns, writeIdx, upTo>>
  BY DEF Drained
<1>2. /\ uncounted = 0 /\ Unread = captured + 1 - upTo
      /\ commReadIdx = (upTo - 1) % RingWords /\ expected <= upTo
      /\ commOverruns < expected
  BY <1>0, <1>1 DEF Reading
<1>3. commOverruns < upTo
  BY <1>0, <1>2, CaptureNumbers
<1>4. CASE UNCHANGED <<commArmIdx, transfers, commLastWritten, uncounted>>
  <2>1. CaptureTypeOK'
    BY <1>0, <1>1, <1>4 DEF CaptureTypeOK
  <2>2. Stored'
    BY <1>0, <1>1, <1>4 DEF Stored, NextWord
  <2>3. Unread' = Unread /\ 0 + Unread = captured + 1 - upTo
    BY <1>0, <1>2, <1>4, CaptureNumbers DEF Unread
  <2>4. Reading'
    BY <1>1, <1>2, <1>3, <1>4, <2>3 DEF Reading
  <2>5. QED BY <2>1, <2>2, <2>4 DEF CaptureInv
<1>5. CASE /\ commArmIdx' = NextWord /\ transfers' = 0 /\ commLastWritten' = 0
           /\ uncounted' = Unread
  <2>1. Unread \in 0..MaxSamples /\ NextWord \in Words
    BY <1>0, CaptureNumbers, CaptureConstants DEF Unread
  <2>2. CaptureTypeOK'
    <3>1. transfers' \in 0..captured' /\ commLastWritten' \in 0..transfers'
          /\ expected' \in 1..(captured' + 1)
      BY <1>0, <1>1, <1>5, CaptureNumbers DEF CaptureTypeOK
    <3>2. QED BY <1>0, <1>1, <1>5, <2>1, <3>1 DEF CaptureTypeOK
  <2>3. NextWord' = NextWord
    <3> DEFINE w == NextWord
    <3>1. w \in 0..(RingWords - 1)
      BY <2>1 DEF Words
    <3>2. NextWord' = (w + 0) % RingWords
      BY <1>5 DEF NextWord
    <3> HIDE DEF w
    <3>3. w + 0 = w /\ w % RingWords = w
      BY ONLY <3>1, CaptureConstants, ModSmall
    <3>4. QED BY <3>2, <3>3 DEF w
  <2>4. Stored'
    BY <1>0, <1>1, <2>3 DEF Stored
  <2>5. Unread' = 0 /\ uncounted' + Unread' = captured + 1 - upTo
    BY <1>0, <1>2, <1>5, CaptureNumbers DEF Unread
  <2>6. Reading'
    BY <1>1, <1>2, <1>3, <2>5 DEF Reading
  <2>7. QED BY <2>2, <2>4, <2>6 DEF CaptureInv
<1>6. QED BY <1>4, <1>5 DEF Drained

\* One case for each step of the DMA and the poll.
LEMMA CaptureStepInv == CaptureInv /\ [CaptureNext]_captureVars => CaptureInv'
<1> SUFFICES ASSUME CaptureInv, [CaptureNext]_captureVars PROVE CaptureInv'
  OBVIOUS
<1>1. CASE UNCHANGED captureVars
  BY <1>1 DEF captureVars, CaptureInv, CaptureTypeOK, Stored, Reading, NextWord, Unread
<1>2. QED BY <1>1, SampleKeeps, PollKeeps, DrainKeeps, DrainedKeeps DEF CaptureNext

\* What the invariant says of a drain that did not slip.
LEMMA DrainInOrder == CaptureInv => SamplesInOrder
<1> SUFFICES ASSUME CaptureInv, poll = "drain", ~slipped
             PROVE  /\ (writeIdx - commReadIdx) % RingWords = upTo - expected
                    /\ \A n \in expected..(upTo - 1) :
                          \/ commRing[(commReadIdx + n - expected) % RingWords] = n
                          \/ Overwritten(n)
  BY DEF SamplesInOrder
<1>0. CaptureTypeOK /\ Stored /\ Reading
  BY DEF CaptureInv
<1>1. /\ commReadIdx = (expected - 1) % RingWords
      /\ writeIdx = (upTo - 1) % RingWords
      /\ upTo - expected \in 0..(RingWords - 1)
      /\ expected \in Nat \ {0} /\ upTo \in Nat \ {0} /\ captured \in Nat
      /\ upTo <= captured + 1
  BY <1>0, CaptureNumbers, CaptureConstants DEF Reading
<1>2. (writeIdx - commReadIdx) % RingWords = upTo - expected
  <2> DEFINE e == expected - 1
             u == upTo - 1
             r == e % RingWords
             d == u - e
  <2>1. /\ e \in Int /\ u \in Int /\ r \in Int
        /\ d \in 0..(RingWords - 1) /\ d = upTo - expected
        /\ u + (-r) = u - r /\ e + (d - r) = u - r /\ -r \in Int /\ d - r \in Int
    <3>1. e \in Int /\ u \in Int /\ u - e = upTo - expected
      BY <1>1
    <3>2. r \in Int
      BY <3>1, CaptureConstants, ModRange
    <3>3. d = upTo - expected /\ d \in 0..(RingWords - 1)
      BY <1>1, <3>1
    <3> HIDE DEF e, u, r
    <3>4. QED BY <3>1, <3>2, <3>3, CaptureConstants
  <2>2. ((u % RingWords) + (-r)) % RingWords = (u + (-r)) % RingWords
    BY <2>1, CaptureConstants, ModAdd
  <2>3. ((e % RingWords) + (d - r)) % RingWords = (e + (d - r)) % RingWords
    BY <2>1, CaptureConstants, ModAdd
  <2>4. (e % RingWords) + (d - r) = RingWords * 0 + d
    BY <2>1, CaptureConstants
  <2>5. (RingWords * 0 + d) % RingWords = d
    BY <2>1, CaptureConstants, ModUnique
  <2>6. writeIdx - commReadIdx = (u % RingWords) + (-r)
    BY <1>1, <2>1, CaptureConstants, ModRange
  <2> HIDE DEF e, u, r, d
  <2>7. QED BY <2>1, <2>2, <2>3, <2>4, <2>5, <2>6
<1>3. ASSUME NEW n \in expected..(upTo - 1), ~Overwritten(n)
      PROVE  commRing[(commReadIdx + n - expected) % RingWords] = n
  <2>1. n \in 1..captured /\ captured - n < RingWords
    BY <1>1, <1>3, CaptureConstants DEF Overwritten
  <2>2. /\ expected - 1 \in Int /\ n - expected \in Int
        /\ expected - 1 + (n - expected) = n - 1
    BY <1>1, <2>1
  <2>3. (((expected - 1) % RingWords) + (n - expected)) % RingWords
            = (expected - 1 + (n - expected)) % RingWords
    BY ONLY <2>2, CaptureConstants, ModAdd
  <2>4. commReadIdx + n - expected = ((expected - 1) % RingWords) + (n - expected)
    <3>1. commReadIdx \in Int
      BY <1>0, CaptureNumbers
    <3>2. commReadIdx + n - expected = commReadIdx + (n - expected)
      BY <1>1, <2>1, <3>1
    <3>3. QED BY <1>1, <3>2
  <2>5. (commReadIdx + n - expected) % RingWords = (n - 1) % RingWords
    BY <2>2, <2>3, <2>4
  <2>6. QED BY <1>0, <2>1, <2>5 DEF Stored
<1>4. QED BY <1>2, <1>3

(* Every variable keeps its type; in particular the reader is never ahead  *)
(* of the DMA, and an overrun is counted at most once per sample.          *)
THEOREM CaptureTypeCorrect == CaptureSpec => []CaptureTypeOK
<1>1. CaptureInv => CaptureTypeOK
  BY DEF CaptureInv
<1>2. QED BY <1>1, CaptureInitInv, CaptureStepInv, PTL DEF CaptureSpec

(* For a ring and a threshold of any size: through every wrap of the index *)
(* and every re-arm a drain hands the parser the samples captured since    *)
(* the last one, in order, but for those the DMA overwrote meanwhile and   *)
(* for a ring that is full only with what a re-arm left out of its count.  *)
THEOREM SamplesInOrderHolds == CaptureSpec => []SamplesInOrder
<1>1. QED BY DrainInOrder, CaptureInitInv, CaptureStepInv, PTL DEF CaptureSpec

============================================================================
