---------------------------- MODULE CodecProofs ----------------------------
(***************************************************************************)
(* The two codecs, for every command, every message and every datagram:    *)
(* for integers of any width, bytes of any size and lists of any length.   *)
(***************************************************************************)
EXTENDS MCCodecs, FiniteSetTheorems, SequenceTheorems, TLAPS

(* Induction and recursion over numbers *)

\* Induction as a statement about a set of numbers: one outside it would map the
\* numbers below it into themselves without 0, one to one.  What the codec does
\* byte by byte and entry by entry is proved with it.
LEMMA NatInd ==
  ASSUME NEW S \in SUBSET Nat, 0 \in S, \A n \in S : n + 1 \in S
  PROVE  S = Nat
<1>1. SUFFICES ASSUME NEW n \in Nat, n \notin S PROVE FALSE
  OBVIOUS
<1>2. PICK Z \in SUBSET (0 .. n) : Z = S \cap (0 .. n)
  OBVIOUS
<1>3. IsFiniteSet(Z)
  <2>1. IsFiniteSet(0 .. n)
    BY 0 \in Int, n \in Int, FS_Interval
  <2>2. QED
    BY <2>1, FS_Subset
<1>4. PICK Y : Y = Z \ {0}
  OBVIOUS
<1>5. 0 \in Z
  BY <1>2
<1>6. IsFiniteSet(Y) /\ Cardinality(Y) = Cardinality(Z) - 1
  BY <1>3, <1>4, <1>5, FS_RemoveElement
<1>7. PICK f : f = [k \in Z |-> k + 1]
  OBVIOUS
<1>8. f \in [Z -> Y]
  <2>1. ASSUME NEW k \in Z PROVE k + 1 \in Y
    <3>1. k \in S /\ k \in 0 .. n /\ k # n
      BY <1>1, <1>2, <2>1
    <3>2. QED
      BY <1>2, <1>4, <3>1
  <2>2. QED
    BY <1>7, <2>1
<1>9. Cardinality(Y) < Cardinality(Z)
  BY <1>3, <1>6, FS_CardinalityType
<1>10. \E x, y \in Z : x # y /\ f[x] = f[y]
  BY <1>3, <1>6, <1>8, <1>9, FS_PigeonHole
<1>11. QED
  BY <1>7, <1>10

\* Induction up to n (a loop of n turns).
LEMMA UpTo ==
  ASSUME NEW n \in Nat, NEW S, 0 \in S, \A m \in 1 .. n : m - 1 \in S => m \in S
  PROVE  0 .. n \subseteq S
<1> DEFINE R == {k \in Nat : k <= n => k \in S}
<1>1. 0 \in R
  OBVIOUS
<1>2. ASSUME NEW k \in R PROVE k + 1 \in R
  <2>1. k + 1 \in Nat
    OBVIOUS
  <2>2. ASSUME k + 1 <= n PROVE k + 1 \in S
    <3>1. k \in S /\ k + 1 \in 1 .. n /\ (k + 1) - 1 = k
      BY <2>2
    <3>2. QED
      BY <3>1
  <2>3. QED
    BY <2>1, <2>2
<1>3. R \in SUBSET Nat
  OBVIOUS
<1>4. R = Nat
  <2> HIDE DEF R
  <2>1. QED
    BY <1>1, <1>2, <1>3, NatInd
<1>5. QED
  BY <1>4

\* x after n turns, of which the m-th is turn[m].
Loops(T, x, n, turn) ==
  \E g \in [0 .. n -> T] :
    g[0] = x /\ \A m \in 1 .. n : g[m] = turn[m][g[m - 1]]

\* A loop that changes a value n times has a value after every turn (the loops of
\* encode_message and decode_message).
LEMMA Loop ==
  ASSUME NEW T, NEW x \in T, NEW n \in Nat, NEW turn \in [1 .. n -> [T -> T]]
  PROVE  Loops(T, x, n, turn)
<1> DEFINE After(g, k) ==
             /\ g \in [0 .. k -> T] /\ g[0] = x
             /\ \A m \in 1 .. k : g[m] = turn[m][g[m - 1]]
           S == {k \in 0 .. n : \E g : After(g, k)}
<1>1. 0 \in S
  <2>1. After([m \in 0 .. 0 |-> x], 0)
    OBVIOUS
  <2>2. 0 \in 0 .. n
    OBVIOUS
  <2>3. QED
    <3> HIDE DEF After
    <3>1. QED
      BY <2>1, <2>2
<1>2. ASSUME NEW k \in 1 .. n, k - 1 \in S PROVE k \in S
  <2>1. PICK g : After(g, k - 1)
    BY <1>2
  <2>2. PICK y \in T : y = turn[k][g[k - 1]]
    BY <2>1
  <2>3. PICK h : h = [m \in 0 .. k |-> IF m = k THEN y ELSE g[m]]
    OBVIOUS
  <2>4. h \in [0 .. k -> T]
    BY <2>1, <2>2, <2>3
  <2>5. h[0] = x /\ h[k - 1] = g[k - 1] /\ h[k] = y
    BY <2>1, <2>3
  <2>6. ASSUME NEW m \in 1 .. k PROVE h[m] = turn[m][h[m - 1]]
    <3>1. CASE m = k
      BY <2>2, <2>5, <3>1
    <3>2. CASE m # k
      <4>1. m \in 1 .. k - 1 /\ m - 1 \in 0 .. k - 1
        BY <2>6, <3>2
      <4>2. h[m] = g[m] /\ h[m - 1] = g[m - 1]
        BY <2>3, <4>1
      <4>3. QED
        BY <2>1, <4>1, <4>2
    <3>3. QED
      BY <3>1, <3>2
  <2>7. After(h, k)
    BY <2>4, <2>5, <2>6
  <2>8. k \in 0 .. n
    OBVIOUS
  <2>9. QED
    <3> HIDE DEF After
    <3>1. QED
      BY <2>7, <2>8
<1>3. 0 .. n \subseteq S
  <2> HIDE DEF S
  <2>1. QED
    BY <1>1, <1>2, UpTo
<1>4. \E g : After(g, n)
  BY <1>3
<1>5. QED
  BY <1>4 DEF Loops

\* A value that no turn takes out of T is in T after every turn.
LEMMA LoopStays ==
  ASSUME NEW T, NEW n \in Nat, NEW h, h[0] \in T,
         \A m \in 1 .. n : h[m - 1] \in T => h[m] \in T
  PROVE  \A m \in 0 .. n : h[m] \in T
<1> DEFINE S == {m \in 0 .. n : h[m] \in T}
<1>1. 0 \in S
  OBVIOUS
<1>2. \A m \in 1 .. n : m - 1 \in S => m \in S
  OBVIOUS
<1>3. 0 .. n \subseteq S
  <2> HIDE DEF S
  <2>1. QED
    BY <1>1, <1>2, UpTo
<1>4. QED
  BY <1>3

-----------------------------------------------------------------------------
(* Numbers and their bytes *)

\* A number is its lowest byte and the rest (to_le_bytes, from_le_bytes).
LEMMA DivFacts ==
  ASSUME NEW n \in Nat
  PROVE  /\ n \div Base \in Nat /\ n % Base \in Byte
         /\ n = (n % Base) + Base * (n \div Base)
         /\ \A b \in Byte :
              /\ b + Base * n \in Nat
              /\ (b + Base * n) \div Base = n /\ (b + Base * n) % Base = b
<1>1. PICK B \in Nat \ {0} : B = Base
  BY WidthAssumption
<1>2. n \div B \in Nat /\ n % B \in 0 .. B - 1 /\ n = (n % B) + B * (n \div B)
  OBVIOUS
<1>3. ASSUME NEW b \in 0 .. B - 1
      PROVE  b + B * n \in Nat /\ (b + B * n) \div B = n /\ (b + B * n) % B = b
  OBVIOUS
<1>4. QED
  BY <1>1, <1>2, <1>3 DEF Byte

\* What to_le_bytes writes, byte by byte.
LEMMA ShiftedFacts ==
  ASSUME NEW n \in Nat, NEW w \in Nat
  PROVE  /\ Shifted(n, w) \in [0 .. w -> Nat]
         /\ Shifted(n, w)[0] = n
         /\ \A k \in 1 .. w : Shifted(n, w)[k] = Shifted(n, w)[k - 1] \div Base
<1> DEFINE IsHigh(g) == g = [k \in 0 .. w |-> IF k = 0 THEN n ELSE g[k - 1] \div Base]
<1>1. PICK half \in [Nat -> Nat] : \A y \in Nat : half[y] = y \div Base
  <2>1. \A y \in Nat : y \div Base \in Nat
    BY DivFacts
  <2>2. [y \in Nat |-> y \div Base] \in [Nat -> Nat]
    BY <2>1
  <2>3. QED
    BY <2>2
<1>2. PICK turn \in [1 .. w -> [Nat -> Nat]] : \A m \in 1 .. w : turn[m] = half
  <2>1. [m \in 1 .. w |-> half] \in [1 .. w -> [Nat -> Nat]]
    OBVIOUS
  <2>2. QED
    BY <2>1
<1>3. Loops(Nat, n, w, turn)
  BY Loop
<1>4. PICK g \in [0 .. w -> Nat] : g[0] = n /\ \A m \in 1 .. w : g[m] = turn[m][g[m - 1]]
  BY <1>3 DEF Loops
<1>5. ASSUME NEW m \in 1 .. w PROVE g[m] = g[m - 1] \div Base
  <2>1. m - 1 \in 0 .. w
    OBVIOUS
  <2>2. g[m - 1] \in Nat
    BY <2>1
  <2>3. QED
    BY <1>1, <1>2, <1>4, <2>2
<1>6. IsHigh(g)
  <2>1. \A k \in 0 .. w : g[k] = IF k = 0 THEN n ELSE g[k - 1] \div Base
    BY <1>4, <1>5
  <2>2. QED
    BY <2>1
<1>7. Shifted(n, w) = CHOOSE h : IsHigh(h)
  BY DEF Shifted
<1>8. PICK h : h = Shifted(n, w)
  OBVIOUS
<1>9. IsHigh(h)
  BY <1>6, <1>7, <1>8
<1>10. h[0] = n
  BY <1>9
<1>11. ASSUME NEW k \in 1 .. w PROVE h[k] = h[k - 1] \div Base
  <2>1. k \in 0 .. w /\ k # 0
    OBVIOUS
  <2>2. QED
    BY <1>9, <2>1
<1>12. h \in [0 .. w -> Nat]
  <2>1. \A k \in 1 .. w : h[k - 1] \in Nat => h[k] \in Nat
    BY <1>11, DivFacts
  <2>2. \A k \in 0 .. w : h[k] \in Nat
    BY <1>10, <2>1, LoopStays
  <2>3. h = [k \in 0 .. w |-> h[k]]
    BY <1>9
  <2>4. QED
    BY <2>2, <2>3
<1>13. QED
  BY <1>8, <1>10, <1>11, <1>12

\* What from_le_bytes makes of the last bytes, one more at a time.
LEMMA ValuesFacts ==
  ASSUME NEW s \in Seq(Byte)
  PROVE  /\ Len(s) \in Nat
         /\ Values(s) \in [0 .. Len(s) -> Nat]
         /\ Values(s)[0] = 0
         /\ \A k \in 1 .. Len(s) :
              Values(s)[k] = s[Len(s) - k + 1] + Base * Values(s)[k - 1]
<1>1. PICK w \in Nat : w = Len(s)
  BY LenProperties
<1> DEFINE IsLast(g) ==
             g = [k \in 0 .. w |-> IF k = 0 THEN 0 ELSE s[w - k + 1] + Base * g[k - 1]]
<1>2. ASSUME NEW k \in 1 .. w PROVE s[w - k + 1] \in Byte
  <2>1. w - k + 1 \in 1 .. Len(s)
    BY <1>1
  <2>2. QED
    BY <2>1, ElementOfSeq
<1>3. PICK turn \in [1 .. w -> [Nat -> Nat]] :
        \A m \in 1 .. w : \A y \in Nat : turn[m][y] = s[w - m + 1] + Base * y
  <2>1. \A m \in 1 .. w : \A y \in Nat : s[w - m + 1] + Base * y \in Nat
    BY <1>2, DivFacts
  <2>2. \A m \in 1 .. w : [y \in Nat |-> s[w - m + 1] + Base * y] \in [Nat -> Nat]
    BY <2>1
  <2>3. [m \in 1 .. w |-> [y \in Nat |-> s[w - m + 1] + Base * y]]
          \in [1 .. w -> [Nat -> Nat]]
    BY <2>2
  <2>4. QED
    BY <2>3
<1>4. Loops(Nat, 0, w, turn)
  BY Loop
<1>5. PICK g \in [0 .. w -> Nat] : g[0] = 0 /\ \A m \in 1 .. w : g[m] = turn[m][g[m - 1]]
  BY <1>4 DEF Loops
<1>6. ASSUME NEW m \in 1 .. w PROVE g[m] = s[w - m + 1] + Base * g[m - 1]
  <2>1. m - 1 \in 0 .. w
    OBVIOUS
  <2>2. g[m - 1] \in Nat
    BY <2>1
  <2>3. QED
    BY <1>3, <1>5, <2>2
<1>7. IsLast(g)
  <2>1. \A k \in 0 .. w : g[k] = IF k = 0 THEN 0 ELSE s[w - k + 1] + Base * g[k - 1]
    BY <1>5, <1>6
  <2>2. QED
    BY <2>1
<1>8. Values(s) = CHOOSE h : IsLast(h)
  BY <1>1 DEF Values
<1>9. PICK h : h = Values(s)
  OBVIOUS
<1>10. IsLast(h)
  BY <1>7, <1>8, <1>9
<1>11. h[0] = 0
  BY <1>10
<1>12. ASSUME NEW k \in 1 .. w PROVE h[k] = s[w - k + 1] + Base * h[k - 1]
  <2>1. k \in 0 .. w /\ k # 0
    OBVIOUS
  <2>2. QED
    BY <1>10, <2>1
<1>13. h \in [0 .. w -> Nat]
  <2>1. ASSUME NEW k \in 1 .. w, h[k - 1] \in Nat PROVE h[k] \in Nat
    <3>1. PICK y \in Nat, b \in Byte : y = h[k - 1] /\ b = s[w - k + 1]
      BY <1>2, <2>1
    <3>2. h[k] = b + Base * y
      BY <1>12, <3>1
    <3>3. QED
      BY <3>2, DivFacts
  <2>2. \A k \in 0 .. w : h[k] \in Nat
    <3>1. h[0] \in Nat
      BY <1>11
    <3>2. QED
      BY <2>1, <3>1, LoopStays
  <2>3. h = [k \in 0 .. w |-> h[k]]
    BY <1>10
  <2>4. QED
    BY <2>2, <2>3
<1>14. QED
  BY <1>1, <1>9, <1>11, <1>12, <1>13

\* The numbers that a field of w bytes holds.
Numerals(w) == {n \in Nat : Fits(n, w)}

\* to_le_bytes writes w bytes.
LEMMA NumberIsBytes ==
  ASSUME NEW n \in Nat, NEW w \in Nat
  PROVE  /\ Number(n, w) \in Seq(Byte) /\ Len(Number(n, w)) = w
         /\ \A k \in 1 .. w : Number(n, w)[k] = Shifted(n, w)[k - 1] % Base
<1>1. \A k \in 1 .. w : Shifted(n, w)[k - 1] \in Nat
  BY ShiftedFacts
<1>2. \A k \in 1 .. w : Shifted(n, w)[k - 1] % Base \in Byte
  BY <1>1, DivFacts
<1>3. QED
  BY <1>2 DEF Number

\* from_le_bytes reads what to_le_bytes wrote, if the number fits the field.
LEMMA ValueOfNumber ==
  ASSUME NEW w \in Nat, NEW n \in Numerals(w)
  PROVE  Value(Number(n, w)) = n
<1>1. n \in Nat /\ Fits(n, w)
  BY DEF Numerals
<1>2. PICK s \in Seq(Byte) : s = Number(n, w)
  BY <1>1, NumberIsBytes
<1>3. PICK h \in [0 .. w -> Nat] : h = Shifted(n, w)
  BY <1>1, ShiftedFacts
<1>4. PICK v \in [0 .. w -> Nat] : v = Values(s)
  BY <1>1, <1>2, NumberIsBytes, ValuesFacts
<1>5. /\ h[0] = n /\ h[w] = 0
      /\ \A k \in 1 .. w : h[k] = h[k - 1] \div Base
  <2>1. Shifted(n, w)[w] = 0
    BY <1>1 DEF Fits
  <2>2. h[w] = 0
    BY <1>3, <2>1
  <2>3. n \in Nat
    BY <1>1
  <2>4. h[0] = n /\ \A k \in 1 .. w : h[k] = h[k - 1] \div Base
    BY <1>3, <2>3, ShiftedFacts
  <2>5. QED
    BY <2>2, <2>4
<1>6. Len(s) = w /\ \A k \in 1 .. w : s[k] = h[k - 1] % Base
  BY <1>1, <1>2, <1>3, NumberIsBytes
<1>7. v[0] = 0 /\ \A k \in 1 .. w : v[k] = s[w - k + 1] + Base * v[k - 1]
  BY <1>2, <1>4, <1>6, ValuesFacts
<1> DEFINE S == {k \in 0 .. w : v[k] = h[w - k]}
<1>8. 0 \in S
  BY <1>5, <1>7
<1>9. ASSUME NEW k \in 1 .. w, k - 1 \in S PROVE k \in S
  <2>1. PICK j \in 1 .. w : j = w - k + 1
    <3>1. w - k + 1 \in 1 .. w
      OBVIOUS
    <3>2. QED
      BY <3>1
  <2>2. w - (k - 1) = j /\ w - k = j - 1 /\ k \in 0 .. w /\ j - 1 \in 0 .. w
    BY <2>1
  <2>3. v[k - 1] = h[j]
    BY <1>9, <2>2
  <2>4. v[k] = s[j] + Base * v[k - 1]
    BY <1>7, <2>1
  <2>5. h[j - 1] \in Nat /\ h[j] = h[j - 1] \div Base /\ s[j] = h[j - 1] % Base
    BY <1>5, <1>6, <2>1, <2>2
  <2>6. v[k] = h[j - 1]
    BY <2>3, <2>4, <2>5, DivFacts
  <2>7. QED
    BY <2>2, <2>6
<1>10. 0 .. w \subseteq S
  <2> HIDE DEF S
  <2>1. QED
    BY <1>8, <1>9, UpTo
<1>11. v[w] = h[0]
  <2>1. w \in S /\ w - w = 0
    BY <1>10
  <2>2. QED
    BY <2>1
<1>12. QED
  BY <1>2, <1>4, <1>5, <1>6, <1>11 DEF Value

\* Whatever bytes from_le_bytes reads, to_le_bytes writes them back.
LEMMA NumberOfValue ==
  ASSUME NEW s \in Seq(Byte)
  PROVE  Value(s) \in Numerals(Len(s)) /\ Number(Value(s), Len(s)) = s
<1>1. PICK w \in Nat : w = Len(s)
  BY LenProperties
<1>2. PICK v \in [0 .. w -> Nat] : v = Values(s)
  BY <1>1, ValuesFacts
<1>3. v[0] = 0 /\ \A k \in 1 .. w : v[k] = s[w - k + 1] + Base * v[k - 1]
  BY <1>1, <1>2, ValuesFacts
<1>4. PICK n \in Nat : n = v[w] /\ n = Value(s)
  BY <1>1, <1>2 DEF Value
<1>5. PICK h \in [0 .. w -> Nat] : h = Shifted(n, w)
  BY ShiftedFacts
<1>6. h[0] = n /\ \A k \in 1 .. w : h[k] = h[k - 1] \div Base
  BY <1>5, ShiftedFacts
<1>7. ASSUME NEW j \in 1 .. w
      PROVE  /\ s[j] \in Byte /\ v[w - j] \in Nat
             /\ v[w - (j - 1)] = s[j] + Base * v[w - j]
  <2>1. PICK k \in 1 .. w : k = w - (j - 1)
    <3>1. w - (j - 1) \in 1 .. w
      OBVIOUS
    <3>2. QED
      BY <3>1
  <2>2. w - k + 1 = j /\ k - 1 = w - j /\ w - j \in 0 .. w
    BY <2>1
  <2>3. s[j] \in Byte
    BY <1>1, ElementOfSeq
  <2>4. QED
    BY <1>3, <2>1, <2>2, <2>3
<1> DEFINE S == {j \in 0 .. w : h[j] = v[w - j]}
<1>8. 0 \in S
  BY <1>4, <1>6
<1>9. ASSUME NEW j \in 1 .. w, j - 1 \in S PROVE j \in S
  <2>1. h[j - 1] = v[w - (j - 1)] /\ j \in 0 .. w
    BY <1>9
  <2>2. h[j] = (s[j] + Base * v[w - j]) \div Base
    BY <1>6, <1>7, <2>1
  <2>3. h[j] = v[w - j]
    BY <1>7, <2>2, DivFacts
  <2>4. QED
    BY <2>1, <2>3
<1>10. \A j \in 0 .. w : h[j] = v[w - j]
  <2>1. 0 .. w \subseteq S
    <3> HIDE DEF S
    <3>1. QED
      BY <1>8, <1>9, UpTo
  <2>2. QED
    BY <2>1
<1>11. Fits(n, w)
  <2>1. w - w = 0 /\ w \in 0 .. w
    OBVIOUS
  <2>2. h[w] = 0
    BY <1>3, <1>10, <2>1
  <2>3. QED
    BY <1>5, <2>2 DEF Fits
<1>12. ASSUME NEW j \in 1 .. w PROVE Number(n, w)[j] = s[j]
  <2>1. j - 1 \in 0 .. w
    OBVIOUS
  <2>2. h[j - 1] = s[j] + Base * v[w - j]
    BY <1>7, <1>10, <2>1
  <2>3. h[j - 1] % Base = s[j]
    <3>1. PICK y \in Nat, b \in Byte : y = v[w - j] /\ b = s[j]
      BY <1>7
    <3>2. h[j - 1] = b + Base * y /\ (b + Base * y) % Base = b
      BY <2>2, <3>1, DivFacts
    <3>3. QED
      BY <3>1, <3>2
  <2>4. QED
    BY <1>5, <2>3, NumberIsBytes
<1>13. Number(n, w) = s
  BY <1>1, <1>12, NumberIsBytes, SeqEqual
<1>14. QED
  BY <1>1, <1>4, <1>11, <1>13 DEF Numerals

-----------------------------------------------------------------------------
(* A field is read *)

\* A reader that has failed nowhere: s is left, v was read last.
At(s, v) == [rest |-> s, value |-> v, error |-> "none"]

\* split_at(n): two pieces that make up the whole.
LEMMA Split ==
  ASSUME NEW s \in Seq(Byte), NEW n \in Nat, n <= Len(s)
  PROVE  /\ SubSeq(s, 1, n) \in Seq(Byte) /\ SubSeq(s, n + 1, Len(s)) \in Seq(Byte)
         /\ Len(SubSeq(s, 1, n)) = n
         /\ s = SubSeq(s, 1, n) \o SubSeq(s, n + 1, Len(s))
<1>1. Len(s) \in Nat /\ \A k \in 1 .. Len(s) : s[k] \in Byte
  BY LenProperties, ElementOfSeq
<1>2. SubSeq(s, 1, n) \in Seq(Byte) /\ Len(SubSeq(s, 1, n)) = n
  <2>1. \A k \in 1 .. n : s[k] \in Byte
    BY <1>1
  <2>2. 1 \in Int /\ n \in Int /\ (1 <= n => n - 1 + 1 = n) /\ (~(1 <= n) => n = 0)
    OBVIOUS
  <2>3. QED
    BY <2>1, <2>2, SubSeqProperties
<1>3. SubSeq(s, n + 1, Len(s)) \in Seq(Byte)
  <2>1. \A k \in n + 1 .. Len(s) : s[k] \in Byte
    BY <1>1
  <2>2. n + 1 \in Int /\ Len(s) \in Int
    BY <1>1
  <2>3. QED
    BY <2>1, <2>2, SubSeqProperties
<1>4. SubSeq(s, 1, n) \o SubSeq(s, n + 1, Len(s)) = SubSeq(s, 1, Len(s))
  <2>1. 1 \in 1 .. Len(s) + 1 /\ n \in 1 - 1 .. Len(s) /\ Len(s) \in n .. Len(s)
    BY <1>1
  <2>2. QED
    BY <2>1, ConcatAdjacentSubSeq
<1>5. QED
  BY <1>2, <1>3, <1>4, SubSeqFull

\* What was put together from two pieces is split into them.
LEMMA Pieces ==
  ASSUME NEW s \in Seq(Byte), NEW a \in Seq(Byte), NEW b \in Seq(Byte),
         Len(s) = Len(a) + Len(b),
         \A k \in 1 .. Len(a) + Len(b) : s[k] = IF k <= Len(a) THEN a[k] ELSE b[k - Len(a)]
  PROVE  SubSeq(s, 1, Len(a)) = a /\ SubSeq(s, Len(a) + 1, Len(s)) = b
<1>1. PICK m \in Nat, n \in Nat : m = Len(a) /\ n = Len(b)
  BY LenProperties
<1>2. Len(s) = m + n /\ m + n \in Nat
  BY <1>1
<1>3. \A k \in 1 .. m + n : s[k] = IF k <= m THEN a[k] ELSE b[k - m]
  BY <1>1
<1>4. \A k \in 1 .. m + n : s[k] \in Byte
  BY <1>2, ElementOfSeq
<1>5. PICK x : x = SubSeq(s, 1, m)
  OBVIOUS
<1>6. x \in Seq(Byte) /\ Len(x) = m /\ \A k \in 1 .. m : x[k] = s[k]
  <2>1. \A k \in 1 .. m : s[k] \in Byte
    BY <1>4
  <2>2. LET y == SubSeq(s, 1, m)
        IN /\ y \in Seq(Byte) /\ Len(y) = IF 1 <= m THEN m - 1 + 1 ELSE 0
           /\ \A k \in 1 .. m - 1 + 1 : y[k] = s[1 + k - 1]
    BY <2>1, 1 \in Int, m \in Int, SubSeqProperties
  <2>3. m - 1 + 1 = m /\ (~(1 <= m) => m = 0) /\ \A k \in 1 .. m : 1 + k - 1 = k
    OBVIOUS
  <2>4. QED
    BY <1>5, <2>2, <2>3
<1>7. PICK y : y = SubSeq(s, m + 1, m + n)
  OBVIOUS
<1>8. y \in Seq(Byte) /\ Len(y) = n /\ \A k \in 1 .. n : y[k] = s[m + k]
  <2>1. \A k \in m + 1 .. m + n : s[k] \in Byte
    BY <1>4
  <2>2. LET z == SubSeq(s, m + 1, m + n)
        IN /\ z \in Seq(Byte)
           /\ Len(z) = IF m + 1 <= m + n THEN (m + n) - (m + 1) + 1 ELSE 0
           /\ \A k \in 1 .. (m + n) - (m + 1) + 1 : z[k] = s[(m + 1) + k - 1]
    BY <2>1, m + 1 \in Int, m + n \in Int, SubSeqProperties
  <2>3. /\ (m + n) - (m + 1) + 1 = n /\ (~(m + 1 <= m + n) => n = 0)
        /\ \A k \in 1 .. n : (m + 1) + k - 1 = m + k
    OBVIOUS
  <2>4. QED
    BY <1>7, <2>2, <2>3
<1>9. x = a
  <2>1. \A k \in 1 .. m : x[k] = a[k]
    BY <1>3, <1>6
  <2>2. QED
    BY <1>1, <1>6, <2>1, SeqEqual
<1>10. y = b
  <2>1. ASSUME NEW k \in 1 .. n PROVE y[k] = b[k]
    <3>1. m + k \in 1 .. m + n /\ ~(m + k <= m) /\ (m + k) - m = k
      OBVIOUS
    <3>2. QED
      BY <1>3, <1>8, <3>1
  <2>2. QED
    BY <1>1, <1>8, <2>1, SeqEqual
<1>11. QED
  BY <1>1, <1>2, <1>5, <1>7, <1>9, <1>10

\* The same, of a concatenation.
LEMMA Unsplit ==
  ASSUME NEW a \in Seq(Byte), NEW b \in Seq(Byte)
  PROVE  /\ a \o b \in Seq(Byte) /\ Len(a) \in Nat /\ Len(a) <= Len(a \o b)
         /\ SubSeq(a \o b, 1, Len(a)) = a
         /\ SubSeq(a \o b, Len(a) + 1, Len(a \o b)) = b
<1>1. Len(a) \in Nat /\ Len(b) \in Nat
  BY LenProperties
<1>2. /\ a \o b \in Seq(Byte) /\ Len(a \o b) = Len(a) + Len(b)
      /\ \A k \in 1 .. Len(a) + Len(b) :
           (a \o b)[k] = IF k <= Len(a) THEN a[k] ELSE b[k - Len(a)]
  BY ConcatProperties
<1>3. /\ SubSeq(a \o b, 1, Len(a)) = a
      /\ SubSeq(a \o b, Len(a) + 1, Len(a \o b)) = b
  BY <1>2, Pieces
<1>4. QED
  BY <1>1, <1>2, <1>3

\* Reader::take, when the bytes are there.
LEMMA TakeThere ==
  ASSUME NEW s \in Seq(Byte), NEW n \in Nat, n <= Len(s), NEW v, NEW x
  PROVE  Take(At(s, x), n, v) = At(SubSeq(s, n + 1, Len(s)), v)
<1>1. Len(s) \in Nat /\ ~(Len(s) < n)
  BY LenProperties
<1>2. At(s, x).error = "none" /\ At(s, x).rest = s
  BY DEF At
<1>3. QED
  BY <1>1, <1>2 DEF Take, At

\* Reader::take reads the piece that is there.
LEMMA TakeOn ==
  ASSUME NEW a \in Seq(Byte), NEW b \in Seq(Byte), NEW v, NEW x
  PROVE  Take(At(a \o b, x), Len(a), v) = At(b, v)
<1>1. a \o b \in Seq(Byte) /\ Len(a) \in Nat /\ Len(a) <= Len(a \o b)
  BY Unsplit
<1>2. Take(At(a \o b, x), Len(a), v) = At(SubSeq(a \o b, Len(a) + 1, Len(a \o b)), v)
  BY <1>1, TakeThere
<1>3. QED
  BY <1>2, Unsplit

\* u64 and u32 read the number that was written.
LEMMA NumberRead ==
  ASSUME NEW w \in Nat, NEW n \in Numerals(w), NEW b \in Seq(Byte), NEW x
  PROVE  TakeNumber(At(Number(n, w) \o b, x), w) = At(b, n)
<1>1. n \in Nat
  BY DEF Numerals
<1>2. PICK a \in Seq(Byte) : a = Number(n, w) /\ Len(a) = w
  BY <1>1, NumberIsBytes
<1>3. SubSeq(a \o b, 1, w) = a
  BY <1>2, Unsplit
<1>4. Take(At(a \o b, x), w, n) = At(b, n)
  BY <1>2, TakeOn
<1>5. Value(a) = n
  BY <1>2, ValueOfNumber
<1>6. TakeNumber(At(a \o b, x), w) = Take(At(a \o b, x), w, Value(SubSeq(a \o b, 1, w)))
  BY DEF TakeNumber, At
<1>7. QED
  BY <1>2, <1>3, <1>4, <1>5, <1>6

\* take reads the bytes that were written.
LEMMA BytesRead ==
  ASSUME NEW a \in Seq(Byte), NEW b \in Seq(Byte), NEW x
  PROVE  TakeBytes(At(a \o b, x), Len(a)) = At(b, a)
<1>1. SubSeq(a \o b, 1, Len(a)) = a
  BY Unsplit
<1>2. Take(At(a \o b, x), Len(a), a) = At(b, a)
  BY TakeOn
<1>3. TakeBytes(At(a \o b, x), Len(a))
        = Take(At(a \o b, x), Len(a), SubSeq(a \o b, 1, Len(a)))
  BY DEF TakeBytes, At
<1>4. QED
  BY <1>1, <1>2, <1>3

\* A boolean is one byte, 0 or 1.
LEMMA BoolIsByte ==
  ASSUME NEW g \in BOOLEAN
  PROVE  /\ Bool(g) \in Seq(Byte) /\ Len(Bool(g)) = 1
         /\ Bool(g)[1] \in 0 .. 1 /\ (Bool(g)[1] = 1 <=> g)
<1>1. 0 \in Byte /\ 1 \in Byte
  BY WidthAssumption DEF Byte
<1>2. QED
  BY <1>1 DEF Bool

\* bool reads the boolean that was written.
LEMMA BoolRead ==
  ASSUME NEW g \in BOOLEAN, NEW b \in Seq(Byte), NEW x
  PROVE  TakeBool(At(Bool(g) \o b, x)) = At(b, g)
<1>1. PICK a \in Seq(Byte) : a = Bool(g) /\ Len(a) = 1 /\ a[1] \in 0 .. 1 /\ (a[1] = 1 <=> g)
  BY BoolIsByte
<1>2. PICK s : s = a \o b
  OBVIOUS
<1>3. s[1] = a[1]
  <2>1. Len(b) \in Nat
    BY LenProperties
  <2>2. 1 \in 1 .. Len(a) + Len(b) /\ 1 <= Len(a)
    BY <1>1, <2>1
  <2>3. QED
    BY <1>2, <2>2, ConcatProperties
<1>4. (s[1] = 1) = g
  BY <1>1, <1>3
<1>5. Take(At(s, x), 1, g) = At(b, g)
  <2>1. Take(At(a \o b, x), Len(a), g) = At(b, g)
    BY TakeOn
  <2>2. QED
    BY <1>1, <1>2, <2>1
<1>6. ~(s[1] > 1)
  BY <1>1, <1>3
<1>7. TakeBool(At(s, x)) = At(b, g)
  BY <1>4, <1>5, <1>6 DEF TakeBool, At
<1>8. QED
  BY <1>1, <1>2, <1>7

-----------------------------------------------------------------------------
(* What was read was written *)

\* After an error nothing is read.
LEMMA FailedStays ==
  ASSUME NEW r, r.error # "none", NEW n, NEW v
  PROVE  Take(r, n, v) = r
BY DEF Take

\* What is cut short is reported as truncated, and anything else is read.
LEMMA TakeFrom ==
  ASSUME NEW s \in Seq(Byte), NEW n \in Nat, NEW v, NEW x
  PROVE  LET t == Take(At(s, x), n, v)
         IN /\ n <= Len(s) => t = At(SubSeq(s, n + 1, Len(s)), v)
            /\ ~(n <= Len(s)) => t.error = "Truncated"
<1>1. n <= Len(s) => Take(At(s, x), n, v) = At(SubSeq(s, n + 1, Len(s)), v)
  BY TakeThere
<1>2. ASSUME ~(n <= Len(s)) PROVE Take(At(s, x), n, v).error = "Truncated"
  <2>1. Len(s) < n
    BY <1>2, LenProperties
  <2>2. QED
    BY <2>1 DEF Take, At, Failed
<1>3. QED
  BY <1>1, <1>2

\* Reading s gave t: what a field is written as, and the rest.
NumberTook(s, w, t) ==
  \E n \in Numerals(w), b \in Seq(Byte) : s = Number(n, w) \o b /\ t = At(b, n)
BytesTook(s, n, t) ==
  \E a \in Seq(Byte), b \in Seq(Byte) : Len(a) = n /\ s = a \o b /\ t = At(b, a)
BoolTook(s, t) ==
  \E g \in BOOLEAN, b \in Seq(Byte) : s = Bool(g) \o b /\ t = At(b, g)

\* A number that was read is what its bytes were written for.
LEMMA NumberTaken ==
  ASSUME NEW s \in Seq(Byte), NEW x, NEW w \in Nat,
         TakeNumber(At(s, x), w).error = "none"
  PROVE  NumberTook(s, w, TakeNumber(At(s, x), w))
<1>1. TakeNumber(At(s, x), w) = Take(At(s, x), w, Value(SubSeq(s, 1, w)))
  BY DEF TakeNumber, At
<1>2. w <= Len(s)
  BY <1>1, TakeFrom
<1>3. /\ SubSeq(s, 1, w) \in Seq(Byte) /\ SubSeq(s, w + 1, Len(s)) \in Seq(Byte)
      /\ Len(SubSeq(s, 1, w)) = w
      /\ s = SubSeq(s, 1, w) \o SubSeq(s, w + 1, Len(s))
  BY <1>2, Split
<1>4. /\ Value(SubSeq(s, 1, w)) \in Numerals(w)
      /\ Number(Value(SubSeq(s, 1, w)), w) = SubSeq(s, 1, w)
  BY <1>3, NumberOfValue
<1>5. TakeNumber(At(s, x), w) = At(SubSeq(s, w + 1, Len(s)), Value(SubSeq(s, 1, w)))
  BY <1>1, <1>2, TakeFrom
<1>6. QED
  BY <1>3, <1>4, <1>5 DEF NumberTook

\* Bytes that were read are the bytes that were written.
LEMMA BytesTaken ==
  ASSUME NEW s \in Seq(Byte), NEW x, NEW n \in Nat,
         TakeBytes(At(s, x), n).error = "none"
  PROVE  BytesTook(s, n, TakeBytes(At(s, x), n))
<1>1. TakeBytes(At(s, x), n) = Take(At(s, x), n, SubSeq(s, 1, n))
  BY DEF TakeBytes, At
<1>2. n <= Len(s)
  BY <1>1, TakeFrom
<1>3. /\ SubSeq(s, 1, n) \in Seq(Byte) /\ SubSeq(s, n + 1, Len(s)) \in Seq(Byte)
      /\ Len(SubSeq(s, 1, n)) = n
      /\ s = SubSeq(s, 1, n) \o SubSeq(s, n + 1, Len(s))
  BY <1>2, Split
<1>4. TakeBytes(At(s, x), n) = At(SubSeq(s, n + 1, Len(s)), SubSeq(s, 1, n))
  BY <1>1, <1>2, TakeFrom
<1>5. QED
  BY <1>3, <1>4 DEF BytesTook

\* A boolean that was read was written as 0 or 1.
LEMMA BoolTaken ==
  ASSUME NEW s \in Seq(Byte), NEW x, TakeBool(At(s, x)).error = "none"
  PROVE  BoolTook(s, TakeBool(At(s, x)))
<1>1. PICK t : t = Take(At(s, x), 1, s[1] = 1)
  OBVIOUS
<1>2. TakeBool(At(s, x)) = IF t.error = "none" /\ s[1] > 1 THEN Failed(t, "BadBool") ELSE t
  BY <1>1 DEF TakeBool, At
<1>3. 1 <= Len(s) /\ t = At(SubSeq(s, 2, Len(s)), s[1] = 1)
  <2>1. CASE 1 <= Len(s)
    <3>1. t = At(SubSeq(s, 1 + 1, Len(s)), s[1] = 1)
      BY <1>1, <2>1, TakeFrom
    <3>2. 1 + 1 = 2
      OBVIOUS
    <3>3. QED
      BY <2>1, <3>1, <3>2
  <2>2. CASE ~(1 <= Len(s))
    <3>1. t.error = "Truncated"
      BY <1>1, <2>2, TakeFrom
    <3>2. TakeBool(At(s, x)) = t
      BY <1>2, <3>1
    <3>3. QED
      BY <3>1, <3>2
  <2>3. QED
    BY <2>1, <2>2
<1>4. t.error = "none"
  BY <1>3 DEF At
<1>5. ~(s[1] > 1) /\ TakeBool(At(s, x)) = t
  <2>1. CASE s[1] > 1
    <3>1. TakeBool(At(s, x)).error = "BadBool"
      BY <1>2, <1>3, <1>4, <2>1 DEF Failed, At
    <3>2. QED
      BY <3>1
  <2>2. CASE ~(s[1] > 1)
    BY <1>2, <2>2
  <2>3. QED
    BY <2>1, <2>2
<1>6. PICK g \in BOOLEAN : g = (s[1] = 1)
  OBVIOUS
<1>7. s[1] \in Byte /\ Len(s) \in Nat
  BY <1>3, ElementOfSeq, LenProperties
<1>8. s[1] = IF g THEN 1 ELSE 0
  <2>1. s[1] \in Nat
    BY <1>7, WidthAssumption DEF Byte
  <2>2. s[1] = 0 \/ s[1] = 1
    BY <1>5, <2>1
  <2>3. CASE g
    BY <1>6, <2>3
  <2>4. CASE ~g
    BY <1>6, <2>2, <2>4
  <2>5. QED
    BY <2>3, <2>4
<1>9. /\ SubSeq(s, 1, 1) \in Seq(Byte) /\ SubSeq(s, 1 + 1, Len(s)) \in Seq(Byte)
      /\ Len(SubSeq(s, 1, 1)) = 1
      /\ s = SubSeq(s, 1, 1) \o SubSeq(s, 1 + 1, Len(s))
  BY <1>3, Split
<1>10. SubSeq(s, 1, 1) = Bool(g)
  <2>1. SubSeq(s, 1, 1)[1] = s[1]
    OBVIOUS
  <2>2. Bool(g)[1] = s[1]
    BY <1>8 DEF Bool
  <2>3. \A k \in 1 .. 1 : SubSeq(s, 1, 1)[k] = Bool(g)[k]
    BY <2>1, <2>2
  <2>4. QED
    BY <1>9, <2>3, BoolIsByte, SeqEqual
<1>11. TakeBool(At(s, x)) = At(SubSeq(s, 1 + 1, Len(s)), g)
  <2>1. 1 + 1 = 2
    OBVIOUS
  <2>2. QED
    BY <1>3, <1>5, <1>6, <2>1
<1>12. QED
  BY <1>9, <1>10, <1>11 DEF BoolTook

-----------------------------------------------------------------------------
(* What is cut short is reported as truncated *)

\* t reads a beginning of what a reader at s, with v read last, has before it, and
\* not all of it; or has found that something is missing.
Missing(t) == \E s, v : t = [rest |-> s, value |-> v, error |-> "Truncated"]

Shorter(t, s, v) ==
  \/ Missing(t)
  \/ \E p \in Seq(Byte), x \in Seq(Byte) : x # <<>> /\ s = p \o x /\ t = At(p, v)

\* Concatenation is associative, on bytes.
LEMMA Joined ==
  ASSUME NEW a \in Seq(Byte), NEW b \in Seq(Byte), NEW c \in Seq(Byte)
  PROVE  (a \o b) \o c = a \o (b \o c)
BY ConcatAssociative

\* The same, for a place with many pieces around.
Joins(a, b, c) == (a \o b) \o c = a \o (b \o c)

\* So it is there.
LEMMA AllJoin ==
  \A a, b, c \in Seq(Byte) : Joins(a, b, c)
BY Joined DEF Joins

\* Two ways to cut the same bytes, and the bytes between the cuts.
SameBytes(p, x, a, b) == p \o x = a \o b

\* p begins with a, and b is what p has after it with x behind.
Between(p, x, a, b)   == \E q \in Seq(Byte) : p = a \o q /\ b = q \o x

\* Where the pieces of a datagram and of its beginning are the same.
LEMMA Overlap ==
  ASSUME NEW p \in Seq(Byte), NEW x \in Seq(Byte), NEW a \in Seq(Byte), NEW b \in Seq(Byte),
         SameBytes(p, x, a, b), Len(a) <= Len(p)
  PROVE  Between(p, x, a, b)
<1>1. p \o x = a \o b
  BY DEF SameBytes
<1>2. PICK n \in Nat : n = Len(a)
  BY LenProperties
<1>3. \E h \in Seq(Byte), q \in Seq(Byte) : Len(h) = n /\ p = h \o q
  <2>1. n <= Len(p)
    BY <1>2
  <2>2. /\ SubSeq(p, 1, n) \in Seq(Byte) /\ SubSeq(p, n + 1, Len(p)) \in Seq(Byte)
        /\ Len(SubSeq(p, 1, n)) = n
        /\ p = SubSeq(p, 1, n) \o SubSeq(p, n + 1, Len(p))
    BY <2>1, Split
  <2>3. QED
    BY <2>2, Zenon
<1>4. PICK h \in Seq(Byte), q \in Seq(Byte) : Len(h) = n /\ p = h \o q
  BY <1>3
<1>5. h \o (q \o x) = a \o b /\ q \o x \in Seq(Byte)
  <2>1. (h \o q) \o x = h \o (q \o x)
    BY Joined
  <2>2. h \o (q \o x) = a \o b
    BY <1>1, <1>4, <2>1
  <2>3. QED
    BY <2>2, Unsplit
<1>6. h = SubSeq(h \o (q \o x), 1, n)
  <2>1. SubSeq(h \o (q \o x), 1, Len(h)) = h
    BY <1>5, Unsplit
  <2>2. Len(h) = n
    BY <1>4
  <2>3. QED
    BY <2>1, <2>2
<1>7. a = SubSeq(a \o b, 1, n)
  BY <1>2, Unsplit
<1>8. h = a
  BY <1>5, <1>6, <1>7
<1>9. q \o x = b
  <2>1. a \o (q \o x) = a \o b
    BY <1>5, <1>8
  <2>2. QED
    BY <1>5, <2>1, ConcatSimplifications
<1>10. QED
  BY <1>4, <1>8, <1>9 DEF Between

\* Where a reader is does not depend on what it read last.
LEMMA ShorterAnyValue ==
  ASSUME NEW q, NEW b, NEW e, NEW f, Shorter(At(q, e), b, e)
  PROVE  Shorter(At(q, f), b, f)
<1>1. ~Missing(At(q, e))
  BY DEF Missing, At
<1>2. PICK p \in Seq(Byte), x \in Seq(Byte) : x # <<>> /\ b = p \o x /\ At(q, e) = At(p, e)
  BY <1>1 DEF Shorter
<1>3. q = p
  <2>1. At(q, e).rest = q /\ At(p, e).rest = p
    BY DEF At
  <2>2. QED
    BY <1>2, <2>1
<1>4. QED
  BY <1>2, <1>3 DEF Shorter

\* Reader::take, of the beginning of what would be there: either too short for
\* the next piece, or cut somewhere behind it.
LEMMA TakeShorter ==
  ASSUME NEW a \in Seq(Byte), NEW b \in Seq(Byte), NEW v, NEW t,
         Shorter(t, a \o b, v), NEW e
  PROVE  \/ Missing(Take(t, Len(a), e))
         \/ \E q \in Seq(Byte) : t = At(a \o q, v) /\ Shorter(At(q, e), b, e)
<1>1. CASE Missing(t)
  <2>1. t.error # "none"
    BY <1>1 DEF Missing
  <2>2. Take(t, Len(a), e) = t
    BY <2>1, FailedStays
  <2>3. QED
    BY <1>1, <2>2
<1>2. CASE \E p \in Seq(Byte), x \in Seq(Byte) : x # <<>> /\ a \o b = p \o x /\ t = At(p, v)
  <2>1. PICK p \in Seq(Byte), x \in Seq(Byte) : x # <<>> /\ a \o b = p \o x /\ t = At(p, v)
    BY <1>2
  <2>2. Len(a) \in Nat /\ Len(p) \in Nat
    BY LenProperties
  <2>3. CASE Len(a) <= Len(p)
    <3>1. SameBytes(p, x, a, b)
      BY <2>1 DEF SameBytes
    <3>2. Between(p, x, a, b)
      BY <2>3, <3>1, Overlap
    <3>3. PICK q \in Seq(Byte) : p = a \o q /\ b = q \o x
      BY <3>2 DEF Between
    <3>4. Shorter(At(q, e), b, e)
      BY <2>1, <3>3 DEF Shorter
    <3>5. QED
      BY <2>1, <3>3, <3>4
  <2>4. CASE ~(Len(a) <= Len(p))
    <3>1. Len(p) < Len(a)
      BY <2>2, <2>4
    <3>2. Take(At(p, v), Len(a), e) = [rest |-> p, value |-> v, error |-> "Truncated"]
      BY <3>1 DEF Take, At, Failed
    <3>3. QED
      BY <2>1, <3>2 DEF Missing
  <2>5. QED
    BY <2>3, <2>4
<1>3. QED
  BY <1>1, <1>2 DEF Shorter

\* u64 and u32 of a datagram that is cut short.
LEMMA NumberShorter ==
  ASSUME NEW w \in Nat, NEW n \in Numerals(w), NEW b \in Seq(Byte), NEW v, NEW t,
         Shorter(t, Number(n, w) \o b, v)
  PROVE  Shorter(TakeNumber(t, w), b, n)
<1>1. n \in Nat
  BY DEF Numerals
<1>2. Number(n, w) \in Seq(Byte) /\ Len(Number(n, w)) = w
  BY <1>1, NumberIsBytes
<1>3. PICK e : e = Value(SubSeq(t.rest, 1, w))
  OBVIOUS
<1>4. TakeNumber(t, w) = Take(t, w, e)
  BY <1>3 DEF TakeNumber
<1>5. \/ Missing(Take(t, w, e))
      \/ \E q \in Seq(Byte) : t = At(Number(n, w) \o q, v) /\ Shorter(At(q, e), b, e)
  BY <1>2, TakeShorter
<1>6. CASE Missing(Take(t, w, e))
  BY <1>4, <1>6 DEF Shorter
<1>7. ASSUME NEW q \in Seq(Byte), t = At(Number(n, w) \o q, v), Shorter(At(q, e), b, e)
      PROVE  Shorter(TakeNumber(t, w), b, n)
  <2>1. TakeNumber(t, w) = At(q, n)
    BY <1>7, NumberRead
  <2>2. QED
    BY <1>7, <2>1, ShorterAnyValue
<1>8. QED
  BY <1>5, <1>6, <1>7

\* take of a datagram that is cut short.
LEMMA BytesShorter ==
  ASSUME NEW a \in Seq(Byte), NEW b \in Seq(Byte), NEW v, NEW t, Shorter(t, a \o b, v)
  PROVE  Shorter(TakeBytes(t, Len(a)), b, a)
<1>1. PICK e : e = SubSeq(t.rest, 1, Len(a))
  OBVIOUS
<1>2. TakeBytes(t, Len(a)) = Take(t, Len(a), e)
  BY <1>1 DEF TakeBytes
<1>3. \/ Missing(Take(t, Len(a), e))
      \/ \E q \in Seq(Byte) : t = At(a \o q, v) /\ Shorter(At(q, e), b, e)
  BY TakeShorter
<1>4. CASE Missing(Take(t, Len(a), e))
  BY <1>2, <1>4 DEF Shorter
<1>5. ASSUME NEW q \in Seq(Byte), t = At(a \o q, v), Shorter(At(q, e), b, e)
      PROVE  Shorter(TakeBytes(t, Len(a)), b, a)
  <2>1. TakeBytes(t, Len(a)) = At(q, a)
    BY <1>5, BytesRead
  <2>2. QED
    BY <1>5, <2>1, ShorterAnyValue
<1>6. QED
  BY <1>3, <1>4, <1>5

\* bool of a datagram that is cut short.
LEMMA BoolShorter ==
  ASSUME NEW g \in BOOLEAN, NEW b \in Seq(Byte), NEW v, NEW t, Shorter(t, Bool(g) \o b, v)
  PROVE  Shorter(TakeBool(t), b, g)
<1>1. PICK e : e = (t.rest[1] = 1)
  OBVIOUS
<1>2. PICK u : u = Take(t, 1, e)
  OBVIOUS
<1>3. TakeBool(t) = IF u.error = "none" /\ t.rest[1] > 1 THEN Failed(u, "BadBool") ELSE u
  BY <1>1, <1>2 DEF TakeBool
<1>4. \/ Missing(u)
      \/ \E q \in Seq(Byte) : t = At(Bool(g) \o q, v) /\ Shorter(At(q, e), b, e)
  <2>1. PICK a \in Seq(Byte) : a = Bool(g) /\ Len(a) = 1
    BY BoolIsByte
  <2>2. Shorter(t, a \o b, v)
    BY <2>1
  <2>3. \/ Missing(Take(t, Len(a), e))
        \/ \E q \in Seq(Byte) : t = At(a \o q, v) /\ Shorter(At(q, e), b, e)
    BY <2>2, TakeShorter
  <2>4. Take(t, Len(a), e) = u
    BY <1>2, <2>1
  <2>5. QED
    BY <2>1, <2>3, <2>4
<1>5. CASE Missing(u)
  <2>1. u.error # "none"
    BY <1>5 DEF Missing
  <2>2. TakeBool(t) = u
    BY <1>3, <2>1
  <2>3. QED
    BY <1>5, <2>2 DEF Shorter
<1>6. ASSUME NEW q \in Seq(Byte), t = At(Bool(g) \o q, v), Shorter(At(q, e), b, e)
      PROVE  Shorter(TakeBool(t), b, g)
  <2>1. TakeBool(t) = At(q, g)
    BY <1>6, BoolRead
  <2>2. QED
    BY <1>6, <2>1, ShorterAnyValue
<1>7. QED
  BY <1>4, <1>5, <1>6

-----------------------------------------------------------------------------
(* After an error nothing is read *)

\* A number that was read came after no error.
LEMMA NumberSound ==
  ASSUME NEW r, NEW w, TakeNumber(r, w).error = "none"
  PROVE  r.error = "none"
<1>1. TakeNumber(r, w) = Take(r, w, Value(SubSeq(r.rest, 1, w)))
  BY DEF TakeNumber
<1>2. r.error # "none" => TakeNumber(r, w) = r
  BY <1>1, FailedStays
<1>3. QED
  BY <1>2

\* So did bytes.
LEMMA BytesSound ==
  ASSUME NEW r, NEW n, TakeBytes(r, n).error = "none"
  PROVE  r.error = "none"
<1>1. TakeBytes(r, n) = Take(r, n, SubSeq(r.rest, 1, n))
  BY DEF TakeBytes
<1>2. r.error # "none" => TakeBytes(r, n) = r
  BY <1>1, FailedStays
<1>3. QED
  BY <1>2

\* So did a boolean.
LEMMA BoolSound ==
  ASSUME NEW r, TakeBool(r).error = "none"
  PROVE  r.error = "none"
<1>1. SUFFICES ASSUME r.error # "none" PROVE FALSE
  OBVIOUS
<1>2. PICK v : v = (r.rest[1] = 1)
  OBVIOUS
<1>3. Take(r, 1, v) = r
  BY <1>1, FailedStays
<1>4. TakeBool(r) = r
  BY <1>1, <1>2, <1>3 DEF TakeBool
<1>5. QED
  BY <1>1, <1>4

-----------------------------------------------------------------------------
(* Entries *)

\* What the fields of an entry can hold: a term of eight bytes, a command whose
\* length fits its four.
WireEntry ==
  [term : Numerals(Wide), command : {c \in Seq(Byte) : Fits(Len(c), Narrow)}]

\* encode_message, one entry.
LEMMA EntryIsBytes ==
  ASSUME NEW e \in WireEntry
  PROVE  /\ EncodeEntry(e) \in Seq(Byte)
         /\ Len(EncodeEntry(e)) \in Nat /\ Wide + Narrow <= Len(EncodeEntry(e))
         /\ e.term \in Numerals(Wide) /\ e.command \in Seq(Byte)
         /\ Len(e.command) \in Numerals(Narrow)
         /\ \A b \in Seq(Byte) :
              EncodeEntry(e) \o b
                = U64(e.term) \o (U32(Len(e.command)) \o (e.command \o b))
<1>1. /\ e.term \in Nat /\ e.term \in Numerals(Wide) /\ e.command \in Seq(Byte)
      /\ Len(e.command) \in Nat /\ Len(e.command) \in Numerals(Narrow)
  BY LenProperties DEF WireEntry, Numerals
<1>2. Wide \in Nat /\ Narrow \in Nat
  BY WidthAssumption
<1>3. PICK t \in Seq(Byte) : t = U64(e.term) /\ Len(t) = Wide
  BY <1>1, <1>2, NumberIsBytes DEF U64
<1>4. PICK l \in Seq(Byte) : l = U32(Len(e.command)) /\ Len(l) = Narrow
  BY <1>1, <1>2, NumberIsBytes DEF U32
<1>5. PICK c \in Seq(Byte) : c = e.command
  BY <1>1
<1>6. EncodeEntry(e) = (t \o l) \o c
  BY <1>3, <1>4, <1>5 DEF EncodeEntry
<1>7. t \o l \in Seq(Byte) /\ Len(t \o l) = Wide + Narrow
  BY <1>3, <1>4, ConcatProperties
<1>8. (t \o l) \o c \in Seq(Byte) /\ Len((t \o l) \o c) = Wide + Narrow + Len(c)
  BY <1>7, ConcatProperties
<1>9. Len(c) \in Nat
  BY LenProperties
<1>10. ASSUME NEW b \in Seq(Byte)
       PROVE  ((t \o l) \o c) \o b = t \o (l \o (c \o b))
  <2>1. ((t \o l) \o c) \o b = (t \o l) \o (c \o b)
    BY <1>7, Joined
  <2>2. c \o b \in Seq(Byte)
    BY Unsplit
  <2>3. (t \o l) \o (c \o b) = t \o (l \o (c \o b))
    BY <2>2, Joined
  <2>4. QED
    BY <2>1, <2>3
<1>11. EncodeEntry(e) \in Seq(Byte)
  BY <1>6, <1>8
<1>12. Len(EncodeEntry(e)) \in Nat /\ Wide + Narrow <= Len(EncodeEntry(e))
  BY <1>2, <1>6, <1>8, <1>9
<1>13. QED
  BY <1>1, <1>3, <1>4, <1>5, <1>6, <1>10, <1>11, <1>12

\* What encode_message writes, entry by entry.
LEMMA EncodedFacts ==
  ASSUME NEW e \in Seq(WireEntry)
  PROVE  /\ Len(e) \in Nat
         /\ Encoded(e) \in [0 .. Len(e) -> Seq(Byte)]
         /\ Encoded(e)[0] = <<>>
         /\ \A k \in 1 .. Len(e) :
              /\ e[k] \in WireEntry
              /\ Encoded(e)[k] = Encoded(e)[k - 1] \o EncodeEntry(e[k])
<1>1. PICK n \in Nat : n = Len(e)
  BY LenProperties
<1> DEFINE IsBytes(g) ==
             g = [k \in 0 .. n |-> IF k = 0 THEN <<>> ELSE g[k - 1] \o EncodeEntry(e[k])]
<1>2. ASSUME NEW k \in 1 .. n PROVE e[k] \in WireEntry /\ EncodeEntry(e[k]) \in Seq(Byte)
  <2>1. e[k] \in WireEntry
    BY <1>1, ElementOfSeq
  <2>2. QED
    BY <2>1, EntryIsBytes
<1>3. PICK turn \in [1 .. n -> [Seq(Byte) -> Seq(Byte)]] :
        \A m \in 1 .. n : \A y \in Seq(Byte) : turn[m][y] = y \o EncodeEntry(e[m])
  <2>1. \A m \in 1 .. n : \A y \in Seq(Byte) : y \o EncodeEntry(e[m]) \in Seq(Byte)
    BY <1>2, Unsplit
  <2>2. \A m \in 1 .. n :
          [y \in Seq(Byte) |-> y \o EncodeEntry(e[m])] \in [Seq(Byte) -> Seq(Byte)]
    BY <2>1
  <2>3. [m \in 1 .. n |-> [y \in Seq(Byte) |-> y \o EncodeEntry(e[m])]]
          \in [1 .. n -> [Seq(Byte) -> Seq(Byte)]]
    BY <2>2
  <2>4. QED
    BY <2>3
<1>4. PICK none \in Seq(Byte) : none = <<>>
  <2>1. <<>> \in Seq(Byte)
    OBVIOUS
  <2>2. QED
    BY <2>1, Zenon
<1>5. Loops(Seq(Byte), none, n, turn)
  BY Loop
<1>6. PICK g \in [0 .. n -> Seq(Byte)] :
        g[0] = none /\ \A m \in 1 .. n : g[m] = turn[m][g[m - 1]]
  BY <1>5 DEF Loops
<1>7. ASSUME NEW m \in 1 .. n PROVE g[m] = g[m - 1] \o EncodeEntry(e[m])
  <2>1. m - 1 \in 0 .. n
    OBVIOUS
  <2>2. g[m - 1] \in Seq(Byte)
    BY <2>1
  <2>3. QED
    BY <1>3, <1>6, <2>2
<1>8. IsBytes(g)
  <2>1. ASSUME NEW k \in 0 .. n
        PROVE  g[k] = IF k = 0 THEN <<>> ELSE g[k - 1] \o EncodeEntry(e[k])
    <3>1. CASE k = 0
      BY <1>4, <1>6, <3>1
    <3>2. CASE k # 0
      <4>1. k \in 1 .. n
        BY <3>2
      <4>2. g[k] = g[k - 1] \o EncodeEntry(e[k])
        BY <1>7, <4>1
      <4>3. QED
        BY <3>2, <4>2
    <3>3. QED
      BY <3>1, <3>2
  <2>2. QED
    BY <2>1
<1>9. Encoded(e) = CHOOSE h : IsBytes(h)
  BY <1>1 DEF Encoded
<1>10. PICK h : h = Encoded(e)
  OBVIOUS
<1>11. IsBytes(h)
  BY <1>8, <1>9, <1>10
<1>12. h[0] = <<>>
  BY <1>11
<1>13. ASSUME NEW k \in 1 .. n PROVE h[k] = h[k - 1] \o EncodeEntry(e[k])
  <2>1. k \in 0 .. n /\ k # 0
    OBVIOUS
  <2>2. QED
    BY <1>11, <2>1
<1>14. h \in [0 .. n -> Seq(Byte)]
  <2>1. ASSUME NEW k \in 1 .. n, h[k - 1] \in Seq(Byte) PROVE h[k] \in Seq(Byte)
    BY <1>2, <1>13, <2>1, Unsplit
  <2>2. \A k \in 0 .. n : h[k] \in Seq(Byte)
    <3>1. h[0] \in Seq(Byte)
      BY <1>12
    <3>2. QED
      BY <2>1, <3>1, LoopStays
  <2>3. h = [k \in 0 .. n |-> h[k]]
    BY <1>11
  <2>4. QED
    BY <2>2, <2>3
<1>15. QED
  BY <1>1, <1>2, <1>10, <1>12, <1>13, <1>14

\* No entry is shorter than its two numbers, which is what a count is judged by.
LEMMA EncodedLength ==
  ASSUME NEW e \in Seq(WireEntry)
  PROVE  /\ EncodeEntries(e) \in Seq(Byte) /\ Len(EncodeEntries(e)) \in Nat
         /\ Len(e) * (Wide + Narrow) <= Len(EncodeEntries(e))
<1>1. PICK n \in Nat : n = Len(e)
  BY LenProperties
<1>2. PICK g \in [0 .. n -> Seq(Byte)] : g = Encoded(e)
  BY <1>1, EncodedFacts
<1>3. g[0] = <<>> /\ \A k \in 1 .. n : e[k] \in WireEntry /\ g[k] = g[k - 1] \o EncodeEntry(e[k])
  BY <1>1, <1>2, EncodedFacts
<1>4. PICK h \in Nat : h = Wide + Narrow
  BY WidthAssumption
<1> DEFINE S == {k \in 0 .. n : k * h <= Len(g[k])}
<1>5. 0 \in S
  BY <1>3
<1>6. ASSUME NEW k \in 1 .. n, k - 1 \in S PROVE k \in S
  <2>1. k - 1 \in 0 .. n /\ k \in 0 .. n /\ (k - 1) * h <= Len(g[k - 1])
    BY <1>6
  <2>2. PICK p \in Seq(Byte), x \in Seq(Byte) : p = g[k - 1] /\ x = EncodeEntry(e[k])
    BY <1>3, <2>1, EntryIsBytes
  <2>3. Len(p) \in Nat /\ Len(x) \in Nat /\ h <= Len(x)
    BY <1>3, <1>4, <2>2, EntryIsBytes, LenProperties
  <2>4. Len(g[k]) = Len(p) + Len(x)
    <3>1. Len(p \o x) = Len(p) + Len(x)
      BY ConcatProperties
    <3>2. g[k] = p \o x
      BY <1>3, <2>2
    <3>3. QED
      BY <3>1, <3>2
  <2>5. k * h = (k - 1) * h + h
    OBVIOUS
  <2>6. (k - 1) * h \in Nat /\ (k - 1) * h <= Len(p)
    BY <2>1, <2>2
  <2>7. k * h <= Len(g[k])
    BY <2>3, <2>4, <2>5, <2>6
  <2>8. QED
    BY <2>1, <2>7
<1>7. 0 .. n \subseteq S
  <2> HIDE DEF S
  <2>1. QED
    BY <1>5, <1>6, UpTo
<1>8. n \in 0 .. n
  OBVIOUS
<1>9. n * h <= Len(g[n])
  BY <1>7, <1>8
<1>10. EncodeEntries(e) = g[n]
  BY <1>1, <1>2 DEF EncodeEntries
<1>11. g[n] \in Seq(Byte) /\ Len(g[n]) \in Nat
  BY <1>8, LenProperties
<1>12. QED
  BY <1>1, <1>4, <1>9, <1>10, <1>11

\* An encoded list is one entry after the other, with b behind the last one.
EntryPieces(e, b, rest) ==
  /\ rest \in [0 .. Len(e) -> Seq(Byte)]
  /\ rest[0] = EncodeEntries(e) \o b /\ rest[Len(e)] = b
  /\ \A k \in 1 .. Len(e) : rest[k - 1] = EncodeEntry(e[k]) \o rest[k]

\* Every encoded list is.
LEMMA EntriesInPieces ==
  ASSUME NEW e \in Seq(WireEntry), NEW b \in Seq(Byte)
  PROVE  \E rest : EntryPieces(e, b, rest)
<1>1. PICK n \in Nat : n = Len(e)
  BY LenProperties
<1>2. PICK g \in [0 .. n -> Seq(Byte)] : g = Encoded(e)
  BY <1>1, EncodedFacts
<1>3. g[0] = <<>> /\ \A k \in 1 .. n : e[k] \in WireEntry /\ g[k] = g[k - 1] \o EncodeEntry(e[k])
  BY <1>1, <1>2, EncodedFacts
<1>4. \A k \in 1 .. n : EncodeEntry(e[k]) \in Seq(Byte)
  BY <1>3, EntryIsBytes
<1>5. PICK turn \in [1 .. n -> [Seq(Byte) -> Seq(Byte)]] :
        \A m \in 1 .. n : \A y \in Seq(Byte) : turn[m][y] = EncodeEntry(e[n - m + 1]) \o y
  <2>1. ASSUME NEW m \in 1 .. n, NEW y \in Seq(Byte)
        PROVE  EncodeEntry(e[n - m + 1]) \o y \in Seq(Byte)
    <3>1. n - m + 1 \in 1 .. n
      OBVIOUS
    <3>2. QED
      BY <1>4, <3>1, Unsplit
  <2>2. \A m \in 1 .. n :
          [y \in Seq(Byte) |-> EncodeEntry(e[n - m + 1]) \o y] \in [Seq(Byte) -> Seq(Byte)]
    BY <2>1
  <2>3. [m \in 1 .. n |-> [y \in Seq(Byte) |-> EncodeEntry(e[n - m + 1]) \o y]]
          \in [1 .. n -> [Seq(Byte) -> Seq(Byte)]]
    BY <2>2
  <2>4. QED
    BY <2>3
<1>6. Loops(Seq(Byte), b, n, turn)
  BY Loop
<1>7. PICK q \in [0 .. n -> Seq(Byte)] :
        q[0] = b /\ \A m \in 1 .. n : q[m] = turn[m][q[m - 1]]
  BY <1>6 DEF Loops
<1>8. PICK r : r = [k \in 0 .. n |-> q[n - k]]
  OBVIOUS
<1>9. r \in [0 .. n -> Seq(Byte)]
  <2>1. \A k \in 0 .. n : q[n - k] \in Seq(Byte)
    <3>1. \A k \in 0 .. n : n - k \in 0 .. n
      OBVIOUS
    <3>2. QED
      BY <3>1
  <2>2. QED
    BY <1>8, <2>1
<1>10. r[n] = b
  <2>1. n \in 0 .. n /\ n - n = 0
    OBVIOUS
  <2>2. QED
    BY <1>7, <1>8, <2>1
<1>11. ASSUME NEW k \in 1 .. n PROVE r[k - 1] = EncodeEntry(e[k]) \o r[k]
  <2>1. PICK m \in 1 .. n : m = n - k + 1
    <3>1. n - k + 1 \in 1 .. n
      OBVIOUS
    <3>2. QED
      BY <3>1
  <2>2. n - (k - 1) = m /\ n - k = m - 1 /\ n - m + 1 = k
    BY <2>1
  <2>3. k - 1 \in 0 .. n /\ k \in 0 .. n /\ m - 1 \in 0 .. n
    BY <2>1
  <2>4. r[k - 1] = q[m] /\ r[k] = q[m - 1]
    BY <1>8, <2>2, <2>3
  <2>5. q[m - 1] \in Seq(Byte)
    BY <2>3
  <2>6. q[m] = EncodeEntry(e[n - m + 1]) \o q[m - 1]
    BY <1>5, <1>7, <2>5
  <2>7. QED
    BY <2>2, <2>4, <2>6
<1>12. PICK whole : whole = [k \in 0 .. n |-> g[k] \o r[k]]
  OBVIOUS
<1> DEFINE S == {k \in 0 .. n : whole[k] = r[0]}
<1>13. 0 \in S
  <2>1. PICK y \in Seq(Byte) : y = r[0]
    BY <1>9
  <2>2. whole[0] = g[0] \o r[0]
    BY <1>12
  <2>3. <<>> \o y = y
    BY ConcatEmptySeq
  <2>4. g[0] \o r[0] = y
    BY <1>3, <2>1, <2>3
  <2>5. QED
    BY <2>1, <2>2, <2>4
<1>14. ASSUME NEW k \in 1 .. n, k - 1 \in S PROVE k \in S
  <2>1. whole[k - 1] = r[0] /\ k - 1 \in 0 .. n /\ k \in 0 .. n
    BY <1>14
  <2>2. PICK p \in Seq(Byte), x \in Seq(Byte), y \in Seq(Byte) :
          p = g[k - 1] /\ x = EncodeEntry(e[k]) /\ y = r[k]
    BY <1>4, <1>9, <2>1
  <2>3. (p \o x) \o y = p \o (x \o y)
    BY Joined
  <2>4. g[k] = p \o x /\ r[k - 1] = x \o y
    BY <1>3, <1>11, <2>2
  <2>5. whole[k] = (p \o x) \o y /\ whole[k - 1] = p \o (x \o y)
    BY <1>12, <2>1, <2>2, <2>4
  <2>6. whole[k] = r[0]
    BY <2>1, <2>3, <2>5
  <2>7. QED
    BY <2>1, <2>6
<1>15. g[n] \o b = r[0]
  <2>1. 0 .. n \subseteq S
    <3> HIDE DEF S
    <3>1. QED
      BY <1>13, <1>14, UpTo
  <2>2. n \in 0 .. n /\ n \in S
    BY <2>1
  <2>3. whole[n] = g[n] \o r[n]
    BY <1>12, <2>2
  <2>4. QED
    BY <1>10, <2>2, <2>3
<1>16. EncodeEntries(e) = g[n]
  BY <1>1, <1>2 DEF EncodeEntries
<1>17. EntryPieces(e, b, r)
  BY <1>1, <1>9, <1>10, <1>11, <1>15, <1>16 DEF EntryPieces
<1>18. QED
  BY <1>17, Zenon

\* One more entry is written behind the others.
LEMMA EncodeAppend ==
  ASSUME NEW v \in Seq(WireEntry), NEW e \in WireEntry
  PROVE  EncodeEntries(Append(v, e)) = EncodeEntries(v) \o EncodeEntry(e)
<1>1. PICK n \in Nat : n = Len(v)
  BY LenProperties
<1>2. PICK a \in Seq(WireEntry) : a = Append(v, e)
  BY AppendProperties
<1>3. Len(a) = n + 1 /\ a[n + 1] = e /\ \A k \in 1 .. n : a[k] = v[k]
  BY <1>1, <1>2, AppendProperties
<1>4. PICK g \in [0 .. n -> Seq(Byte)] : g = Encoded(v)
  BY <1>1, EncodedFacts
<1>5. PICK h \in [0 .. n + 1 -> Seq(Byte)] : h = Encoded(a)
  BY <1>3, EncodedFacts
<1>6. g[0] = <<>> /\ \A k \in 1 .. n : g[k] = g[k - 1] \o EncodeEntry(v[k])
  BY <1>1, <1>4, EncodedFacts
<1>7. h[0] = <<>> /\ \A k \in 1 .. n + 1 : h[k] = h[k - 1] \o EncodeEntry(a[k])
  BY <1>3, <1>5, EncodedFacts
<1> DEFINE S == {k \in 0 .. n : h[k] = g[k]}
<1>8. 0 \in S
  BY <1>6, <1>7
<1>9. ASSUME NEW k \in 1 .. n, k - 1 \in S PROVE k \in S
  <2>1. k \in 0 .. n /\ k \in 1 .. n + 1 /\ h[k - 1] = g[k - 1]
    BY <1>9
  <2>2. h[k] = h[k - 1] \o EncodeEntry(a[k]) /\ g[k] = g[k - 1] \o EncodeEntry(v[k])
    BY <1>6, <1>7, <2>1
  <2>3. h[k] = g[k]
    BY <1>3, <2>1, <2>2
  <2>4. QED
    BY <2>1, <2>3
<1>10. h[n] = g[n]
  <2>1. 0 .. n \subseteq S
    <3> HIDE DEF S
    <3>1. QED
      BY <1>8, <1>9, UpTo
  <2>2. QED
    BY <2>1
<1>11. h[n + 1] = g[n] \o EncodeEntry(e)
  <2>1. n + 1 \in 1 .. n + 1 /\ (n + 1) - 1 = n
    OBVIOUS
  <2>2. QED
    BY <1>3, <1>7, <1>10, <2>1
<1>12. EncodeEntries(a) = h[n + 1] /\ EncodeEntries(v) = g[n]
  BY <1>1, <1>3, <1>4, <1>5 DEF EncodeEntries
<1>13. QED
  BY <1>2, <1>11, <1>12

\* A number and bytes are read, or there are too few bytes left for them.
LEMMA NumberTried ==
  ASSUME NEW s \in Seq(Byte), NEW x, NEW w \in Nat
  PROVE  \/ NumberTook(s, w, TakeNumber(At(s, x), w))
         \/ TakeNumber(At(s, x), w).error = "Truncated"
<1>1. PICK e : e = Value(SubSeq(s, 1, w))
  OBVIOUS
<1>2. TakeNumber(At(s, x), w) = Take(At(s, x), w, e)
  BY <1>1 DEF TakeNumber, At
<1>3. CASE w <= Len(s)
  <2>1. Take(At(s, x), w, e) = At(SubSeq(s, w + 1, Len(s)), e)
    BY <1>3, TakeFrom
  <2>2. TakeNumber(At(s, x), w).error = "none"
    BY <1>2, <2>1 DEF At
  <2>3. QED
    BY <2>2, NumberTaken
<1>4. CASE ~(w <= Len(s))
  BY <1>2, <1>4, TakeFrom
<1>5. QED
  BY <1>3, <1>4

\* So it is with bytes.
LEMMA BytesTried ==
  ASSUME NEW s \in Seq(Byte), NEW x, NEW n \in Nat
  PROVE  \/ BytesTook(s, n, TakeBytes(At(s, x), n))
         \/ TakeBytes(At(s, x), n).error = "Truncated"
<1>1. PICK e : e = SubSeq(s, 1, n)
  OBVIOUS
<1>2. TakeBytes(At(s, x), n) = Take(At(s, x), n, e)
  BY <1>1 DEF TakeBytes, At
<1>3. CASE n <= Len(s)
  <2>1. Take(At(s, x), n, e) = At(SubSeq(s, n + 1, Len(s)), e)
    BY <1>3, TakeFrom
  <2>2. TakeBytes(At(s, x), n).error = "none"
    BY <1>2, <2>1 DEF At
  <2>3. QED
    BY <2>2, BytesTaken
<1>4. CASE ~(n <= Len(s))
  BY <1>2, <1>4, TakeFrom
<1>5. QED
  BY <1>3, <1>4

\* The entry that decode_message pushes.
LEMMA EntryOf ==
  ASSUME NEW e \in WireEntry
  PROVE  [term |-> e.term, command |-> e.command] = e
BY DEF WireEntry

\* The fields of a reader, and what is left of it when one is replaced.
LEMMA ReaderFields ==
  ASSUME NEW s, NEW v
  PROVE  /\ At(s, v).rest = s /\ At(s, v).value = v /\ At(s, v).error = "none"
         /\ \A u : [At(s, v) EXCEPT !.value = u] = At(s, u)
         /\ Failed(At(s, v), "Truncated") = [rest |-> s, value |-> v, error |-> "Truncated"]
<1>1. At(s, v).rest = s /\ At(s, v).value = v /\ At(s, v).error = "none"
  BY DEF At
<1>2. ASSUME NEW u PROVE [At(s, v) EXCEPT !.value = u] = At(s, u)
  BY DEF At
<1>3. Failed(At(s, v), "Truncated") = [rest |-> s, value |-> v, error |-> "Truncated"]
  BY DEF At, Failed
<1>4. QED
  BY <1>1, <1>2, <1>3

\* The three fields that a turn of the loop reads.
Turn(r, term, length, got) ==
  /\ term = TakeU64(r)
  /\ length = TakeU32(term)
  /\ got = TakeBytes(length, length.value)

\* The turn fails with its first error, and otherwise pushes what it has read.
LEMMA EntryFails ==
  ASSUME NEW r, NEW term, NEW length, NEW got, Turn(r, term, length, got),
         got.error # "none"
  PROVE  TakeEntry(r) = Failed(r, got.error)
BY DEF Turn, TakeEntry

\* What a turn without errors pushes.
LEMMA EntryPushed ==
  ASSUME NEW r, NEW term, NEW length, NEW got, Turn(r, term, length, got),
         NEW y, NEW n, term = At(y, n), NEW b, NEW c, got = At(b, c),
         NEW e, e = [term |-> n, command |-> c]
  PROVE  TakeEntry(r) = At(b, Append(r.value, e))
<1>1. got.error = "none" /\ got.value = c /\ term.value = n
  BY ReaderFields
<1>2. PICK u : u = Append(r.value, e)
  OBVIOUS
<1>3. e = [term |-> term.value, command |-> got.value]
  BY <1>1
<1>4. TakeEntry(r) = [got EXCEPT !.value = Append(r.value, [term    |-> term.value,
                                                            command |-> got.value])]
  BY <1>1 DEF Turn, TakeEntry
<1>5. TakeEntry(r) = [got EXCEPT !.value = u]
  BY <1>2, <1>3, <1>4
<1>6. [got EXCEPT !.value = u] = At(b, u)
  BY ReaderFields
<1>7. QED
  BY <1>2, <1>5, <1>6

\* One turn of decode_message's loop reads the entry that was written.
LEMMA EntryRead ==
  ASSUME NEW e \in WireEntry, NEW b \in Seq(Byte), NEW v
  PROVE  TakeEntry(At(EncodeEntry(e) \o b, v)) = At(b, Append(v, e))
<1>1. PICK c \in Seq(Byte) : c = e.command
  BY EntryIsBytes
<1>2. e.term \in Numerals(Wide) /\ Len(c) \in Numerals(Narrow)
  BY <1>1, EntryIsBytes
<1>3. Wide \in Nat /\ Narrow \in Nat
  BY WidthAssumption
<1>4. PICK x \in Seq(Byte) : x = c \o b
  BY Unsplit
<1>5. PICK y \in Seq(Byte) : y = U32(Len(c)) \o x
  <2>1. Len(c) \in Nat
    BY LenProperties
  <2>2. U32(Len(c)) \in Seq(Byte)
    BY <1>3, <2>1, NumberIsBytes DEF U32
  <2>3. U32(Len(c)) \o x \in Seq(Byte)
    BY <2>2, Unsplit
  <2>4. QED
    BY <2>3
<1>6. EncodeEntry(e) \o b = U64(e.term) \o y
  BY <1>1, <1>4, <1>5, EntryIsBytes
<1>7. TakeU64(At(EncodeEntry(e) \o b, v)) = At(y, e.term)
  <2>1. TakeNumber(At(Number(e.term, Wide) \o y, v), Wide) = At(y, e.term)
    BY <1>2, <1>3, NumberRead
  <2>2. QED
    BY <1>6, <2>1 DEF TakeU64, U64
<1>8. TakeU32(At(y, e.term)) = At(x, Len(c))
  <2>1. TakeNumber(At(Number(Len(c), Narrow) \o x, e.term), Narrow) = At(x, Len(c))
    BY <1>2, <1>3, NumberRead
  <2>2. QED
    BY <1>5, <2>1 DEF TakeU32, U32
<1>9. TakeBytes(At(x, Len(c)), Len(c)) = At(b, c)
  BY <1>4, BytesRead
<1>10. PICK r : r = At(EncodeEntry(e) \o b, v)
  OBVIOUS
<1>11. r.value = v
  BY <1>10, ReaderFields
<1>12. At(x, Len(c)).value = Len(c)
  BY ReaderFields
<1>13. TakeEntry(r) = At(b, Append(r.value, e))
  <2>1. PICK term, length, got :
          term = At(y, e.term) /\ length = At(x, Len(c)) /\ got = At(b, c)
    OBVIOUS
  <2>2. Turn(r, term, length, got)
    BY <1>7, <1>8, <1>9, <1>10, <1>12, <2>1 DEF Turn
  <2>3. PICK n : n = e.term
    OBVIOUS
  <2>4. term = At(y, n) /\ e = [term |-> n, command |-> c]
    BY <1>1, <2>1, <2>3, EntryOf
  <2>5. QED
    BY <2>1, <2>2, <2>4, EntryPushed
<1>14. QED
  BY <1>10, <1>11, <1>13

\* Reading s, after the entries v, gave t: the entry that was written, and the rest.
EntryTook(s, v, t) ==
  \E e \in WireEntry, b \in Seq(Byte) : s = EncodeEntry(e) \o b /\ t = At(b, Append(v, e))

\* One turn of decode_message's loop reads what some entry is written as, or finds
\* too few bytes.
LEMMA EntryTaken ==
  ASSUME NEW s \in Seq(Byte), NEW v
  PROVE  \/ EntryTook(s, v, TakeEntry(At(s, v)))
         \/ TakeEntry(At(s, v)) = [rest |-> s, value |-> v, error |-> "Truncated"]
<1>1. Wide \in Nat /\ Narrow \in Nat
  BY WidthAssumption
<1>2. PICK term : term = TakeU64(At(s, v))
  OBVIOUS
<1>3. PICK length : length = TakeU32(term)
  OBVIOUS
<1>4. PICK got : got = TakeBytes(length, length.value)
  OBVIOUS
<1>5. Turn(At(s, v), term, length, got)
  BY <1>2, <1>3, <1>4 DEF Turn
<1>6. CASE got.error = "Truncated"
  <2>1. TakeEntry(At(s, v)) = Failed(At(s, v), got.error)
    BY <1>5, <1>6, EntryFails
  <2>2. QED
    BY <1>6, <2>1, ReaderFields
<1>7. CASE term.error = "Truncated"
  <2>1. length = term
    BY <1>3, <1>7, FailedStays DEF TakeU32, TakeNumber
  <2>2. got = length
    BY <1>4, <1>7, <2>1, FailedStays DEF TakeBytes
  <2>3. QED
    BY <1>6, <1>7, <2>1, <2>2
<1>8. CASE NumberTook(s, Wide, term)
  <2>1. PICK n \in Numerals(Wide), y \in Seq(Byte) : s = Number(n, Wide) \o y /\ term = At(y, n)
    BY <1>8 DEF NumberTook
  <2>2. CASE length.error = "Truncated"
    <3>1. got = length
      BY <1>4, <2>2, FailedStays DEF TakeBytes
    <3>2. QED
      BY <1>6, <2>2, <3>1
  <2>3. CASE NumberTook(y, Narrow, length)
    <3>1. PICK l \in Numerals(Narrow), x \in Seq(Byte) :
            y = Number(l, Narrow) \o x /\ length = At(x, l)
      BY <2>3 DEF NumberTook
    <3>2. l \in Nat /\ Fits(l, Narrow)
      BY DEF Numerals
    <3>3. got = TakeBytes(At(x, l), l)
      BY <1>4, <3>1, ReaderFields
    <3>4. CASE BytesTook(x, l, got)
      <4>1. PICK c \in Seq(Byte), b \in Seq(Byte) : Len(c) = l /\ x = c \o b /\ got = At(b, c)
        BY <3>4 DEF BytesTook
      <4>2. PICK e : e = [term |-> n, command |-> c]
        OBVIOUS
      <4>3. e \in WireEntry /\ e.term = n /\ e.command = c
        BY <3>2, <4>1, <4>2 DEF WireEntry
      <4>4. TakeEntry(At(s, v)) = At(b, Append(v, e))
        <5>1. PICK r : r = At(s, v)
          OBVIOUS
        <5>2. r.value = v
          BY <5>1, ReaderFields
        <5>3. Turn(r, term, length, got)
          BY <1>5, <5>1
        <5>4. TakeEntry(r) = At(b, Append(r.value, e))
          BY <2>1, <4>1, <4>2, <5>3, EntryPushed
        <5>5. QED
          BY <5>1, <5>2, <5>4
      <4>5. EncodeEntry(e) \o b = U64(n) \o (U32(Len(c)) \o (c \o b))
        BY <4>3, EntryIsBytes
      <4>6. s = EncodeEntry(e) \o b
        BY <2>1, <3>1, <4>1, <4>5 DEF U64, U32
      <4>7. QED
        BY <4>3, <4>4, <4>6 DEF EntryTook
    <3>5. BytesTook(x, l, got) \/ got.error = "Truncated"
      BY <3>2, <3>3, BytesTried
    <3>6. QED
      BY <1>6, <3>4, <3>5
  <2>4. NumberTook(y, Narrow, length) \/ length.error = "Truncated"
    BY <1>1, <1>3, <2>1, NumberTried DEF TakeU32
  <2>5. QED
    BY <2>2, <2>3, <2>4
<1>9. NumberTook(s, Wide, term) \/ term.error = "Truncated"
  BY <1>1, <1>2, NumberTried DEF TakeU64
<1>10. QED
  BY <1>7, <1>8, <1>9

\* A reader that has found too few bytes stays where it is.
LEMMA MissingStays ==
  ASSUME NEW t, Missing(t)
  PROVE  /\ t.error = "Truncated" /\ Failed(t, "Truncated") = t
         /\ \A n : TakeNumber(t, n) = t /\ TakeBytes(t, n) = t
         /\ TakeBool(t) = t
<1>1. t.error = "Truncated" /\ Failed(t, "Truncated") = t
  BY DEF Missing, Failed
<1>2. \A n, v : Take(t, n, v) = t
  BY <1>1, FailedStays
<1>3. \A n : TakeNumber(t, n) = t /\ TakeBytes(t, n) = t
  BY <1>2 DEF TakeNumber, TakeBytes
<1>4. TakeBool(t) = t
  BY <1>1, <1>2 DEF TakeBool
<1>5. QED
  BY <1>1, <1>3, <1>4

\* Of a reader that is cut short: something is missing already, or nothing is yet.
LEMMA ShorterCases ==
  ASSUME NEW t, NEW s, NEW v, Shorter(t, s, v)
  PROVE  \/ Missing(t)
         \/ t.value = v /\ t.error = "none" /\ t = At(t.rest, v)
<1>1. SUFFICES ASSUME ~Missing(t)
               PROVE  t.value = v /\ t.error = "none" /\ t = At(t.rest, v)
  OBVIOUS
<1>2. PICK p, x : x # <<>> /\ s = p \o x /\ t = At(p, v)
  BY <1>1 DEF Shorter
<1>3. QED
  BY <1>2, ReaderFields

\* What is missing stays so, wherever the whole datagram is read.
LEMMA MissingOrNot ==
  ASSUME NEW t, Missing(t)
  PROVE  \A s, v : Shorter(t, s, v)
BY DEF Shorter

\* One turn of the loop, in a datagram that is cut short.
LEMMA EntryShorter ==
  ASSUME NEW e \in WireEntry, NEW b \in Seq(Byte), NEW v, NEW t,
         Shorter(t, EncodeEntry(e) \o b, v)
  PROVE  Shorter(TakeEntry(t), b, Append(v, e))
<1>1. PICK c \in Seq(Byte) : c = e.command
  BY EntryIsBytes
<1>2. e.term \in Numerals(Wide) /\ Len(c) \in Numerals(Narrow)
  BY <1>1, EntryIsBytes
<1>3. Wide \in Nat /\ Narrow \in Nat
  BY WidthAssumption
<1>4. PICK x \in Seq(Byte) : x = c \o b
  BY Unsplit
<1>5. PICK y \in Seq(Byte) : y = U32(Len(c)) \o x
  <2>1. Len(c) \in Nat
    BY LenProperties
  <2>2. U32(Len(c)) \in Seq(Byte)
    BY <1>3, <2>1, NumberIsBytes DEF U32
  <2>3. U32(Len(c)) \o x \in Seq(Byte)
    BY <2>2, Unsplit
  <2>4. QED
    BY <2>3
<1>6. EncodeEntry(e) \o b = U64(e.term) \o y
  BY <1>1, <1>4, <1>5, EntryIsBytes
<1>7. PICK term, length, got : Turn(t, term, length, got)
  BY DEF Turn
<1>8. Shorter(term, y, e.term)
  <2>1. Shorter(t, Number(e.term, Wide) \o y, v)
    BY <1>6 DEF U64
  <2>2. Shorter(TakeNumber(t, Wide), y, e.term)
    BY <1>2, <1>3, <2>1, NumberShorter
  <2>3. QED
    BY <1>7, <2>2 DEF Turn, TakeU64
<1>9. Shorter(length, x, Len(c))
  <2>1. Shorter(term, Number(Len(c), Narrow) \o x, e.term)
    BY <1>5, <1>8 DEF U32
  <2>2. Shorter(TakeNumber(term, Narrow), x, Len(c))
    BY <1>2, <1>3, <2>1, NumberShorter
  <2>3. QED
    BY <1>7, <2>2 DEF Turn, TakeU32
<1>10. got = TakeBytes(length, length.value)
  BY <1>7 DEF Turn
<1>11. Shorter(got, b, c)
  <2>1. CASE Missing(length)
    <3>1. got = length
      BY <1>10, <2>1, MissingStays
    <3>2. QED
      BY <2>1, <3>1, MissingOrNot
  <2>2. CASE ~Missing(length)
    <3>1. got = TakeBytes(length, Len(c))
      BY <1>9, <1>10, <2>2, ShorterCases
    <3>2. Shorter(length, c \o b, Len(c))
      BY <1>4, <1>9
    <3>3. Shorter(TakeBytes(length, Len(c)), b, c)
      BY <3>2, BytesShorter
    <3>4. QED
      BY <3>1, <3>3
  <2>3. QED
    BY <2>1, <2>2
<1>12. CASE Missing(got)
  <2>1. TakeEntry(t) = Failed(t, "Truncated")
    <3>1. got.error = "Truncated"
      BY <1>12, MissingStays
    <3>2. QED
      BY <1>7, <3>1, EntryFails
  <2>2. CASE Missing(t)
    BY <2>1, <2>2, MissingStays, MissingOrNot
  <2>3. CASE ~Missing(t)
    <3>1. t = At(t.rest, v)
      BY <2>3, ShorterCases
    <3>2. PICK p : p = t.rest
      OBVIOUS
    <3>3. Failed(At(p, v), "Truncated") = [rest |-> p, value |-> v, error |-> "Truncated"]
      BY ReaderFields
    <3>4. Missing(TakeEntry(t))
      BY <2>1, <3>1, <3>2, <3>3 DEF Missing
    <3>5. QED
      BY <3>4, MissingOrNot
  <2>4. QED
    BY <2>2, <2>3
<1>13. CASE ~Missing(got)
  <2>1. ~Missing(length)
    <3>1. Missing(length) => got = length
      BY <1>10, MissingStays
    <3>2. QED
      BY <1>13, <3>1
  <2>2. ~Missing(term)
    <3>1. Missing(term) => length = term
      BY <1>7, MissingStays DEF Turn, TakeU32
    <3>2. QED
      BY <2>1, <3>1
  <2>3. ~Missing(t)
    <3>1. Missing(t) => term = t
      BY <1>7, MissingStays DEF Turn, TakeU64
    <3>2. QED
      BY <2>2, <3>1
  <2>4. term = At(term.rest, e.term) /\ t.value = v /\ got = At(got.rest, c)
    BY <1>8, <1>11, <1>13, <2>2, <2>3, ShorterCases
  <2>5. PICK n, p, q : n = e.term /\ p = term.rest /\ q = got.rest
    OBVIOUS
  <2>6. e = [term |-> n, command |-> c]
    BY <1>1, <2>5, EntryOf
  <2>7. TakeEntry(t) = At(q, Append(t.value, e))
    <3>1. term = At(p, n) /\ got = At(q, c)
      BY <2>4, <2>5
    <3>2. QED
      BY <1>7, <2>6, <3>1, EntryPushed
  <2>8. Shorter(At(q, c), b, c)
    BY <1>11, <2>4, <2>5
  <2>9. PICK u : u = Append(v, e)
    OBVIOUS
  <2>10. Shorter(At(q, u), b, u)
    BY <2>8, ShorterAnyValue
  <2>11. QED
    BY <2>4, <2>7, <2>9, <2>10
<1>14. QED
  BY <1>12, <1>13

\* The states of decode_message's loop over entries.
EntryReader ==
  [rest : Seq(Byte), value : Seq(WireEntry), error : {"none", "Truncated"}]

\* Such a reader has failed nowhere, or found too few bytes.
LEMMA EntryReaderCases ==
  ASSUME NEW r \in EntryReader
  PROVE  /\ r.rest \in Seq(Byte) /\ r.value \in Seq(WireEntry)
         /\ r.error = "none" => r = At(r.rest, r.value)
         /\ r.error # "none" => Missing(r)
<1>1. r.rest \in Seq(Byte) /\ r.value \in Seq(WireEntry) /\ r.error \in {"none", "Truncated"}
  BY DEF EntryReader
<1>2. r = [rest |-> r.rest, value |-> r.value, error |-> r.error]
  BY DEF EntryReader
<1>3. r.error = "none" => r = At(r.rest, r.value)
  BY <1>2 DEF At
<1>4. ASSUME r.error # "none" PROVE Missing(r)
  <2>1. r.error = "Truncated"
    BY <1>1, <1>4
  <2>2. QED
    BY <1>2, <2>1 DEF Missing
<1>5. QED
  BY <1>1, <1>3, <1>4

\* Both are such readers.
LEMMA AtIsEntryReader ==
  ASSUME NEW s \in Seq(Byte), NEW v \in Seq(WireEntry)
  PROVE  /\ At(s, v) \in EntryReader
         /\ [rest |-> s, value |-> v, error |-> "Truncated"] \in EntryReader
BY DEF At, EntryReader

\* After an error the loop reads no further entry.
LEMMA EntryStays ==
  ASSUME NEW r, Missing(r)
  PROVE  TakeEntry(r) = r
<1>1. PICK term, length, got : Turn(r, term, length, got)
  BY DEF Turn
<1>2. term = r
  BY <1>1, MissingStays DEF Turn, TakeU64
<1>3. length = r
  BY <1>1, <1>2, MissingStays DEF Turn, TakeU32
<1>4. got = r
  BY <1>1, <1>3, MissingStays DEF Turn
<1>5. TakeEntry(r) = Failed(r, got.error)
  BY <1>1, <1>4, MissingStays, EntryFails
<1>6. QED
  BY <1>4, <1>5, MissingStays

\* A turn of the loop leaves such a reader.
LEMMA TakeEntryType ==
  ASSUME NEW r \in EntryReader
  PROVE  /\ TakeEntry(r) \in EntryReader
         /\ TakeEntry(r).error = "none" =>
              r.error = "none" /\ EntryTook(r.rest, r.value, TakeEntry(r))
<1>1. CASE r.error # "none"
  <2>1. TakeEntry(r) = r
    BY <1>1, EntryReaderCases, EntryStays
  <2>2. QED
    BY <1>1, <2>1
<1>2. CASE r.error = "none"
  <2>1. PICK s \in Seq(Byte), v \in Seq(WireEntry) : s = r.rest /\ v = r.value
    BY EntryReaderCases
  <2>2. r = At(s, v)
    BY <1>2, <2>1, EntryReaderCases
  <2>3. CASE EntryTook(s, v, TakeEntry(At(s, v)))
    <3>1. PICK e \in WireEntry, b \in Seq(Byte) :
            s = EncodeEntry(e) \o b /\ TakeEntry(At(s, v)) = At(b, Append(v, e))
      BY <2>3 DEF EntryTook
    <3>2. PICK u \in Seq(WireEntry) : u = Append(v, e)
      BY AppendProperties
    <3>3. TakeEntry(At(s, v)) \in EntryReader
      BY <3>1, <3>2, AtIsEntryReader
    <3>4. QED
      BY <1>2, <2>1, <2>2, <2>3, <3>3
  <2>4. CASE TakeEntry(At(s, v)) = [rest |-> s, value |-> v, error |-> "Truncated"]
    <3>1. TakeEntry(At(s, v)) \in EntryReader
      BY <2>4, AtIsEntryReader
    <3>2. TakeEntry(At(s, v)).error = "Truncated"
      BY <2>4
    <3>3. QED
      BY <2>2, <3>1, <3>2
  <2>5. QED
    BY <2>3, <2>4, EntryTaken
<1>3. QED
  BY <1>1, <1>2

\* decode_message's loop over entries, turn by turn.
LEMMA EntriesFacts ==
  ASSUME NEW s \in Seq(Byte), NEW x, NEW n \in Nat
  PROVE  /\ EntriesTaken(At(s, x), n) \in [0 .. n -> EntryReader]
         /\ EntriesTaken(At(s, x), n)[0] = At(s, <<>>)
         /\ \A k \in 1 .. n :
              EntriesTaken(At(s, x), n)[k] = TakeEntry(EntriesTaken(At(s, x), n)[k - 1])
<1>1. PICK start \in EntryReader : start = At(s, <<>>)
  <2>1. <<>> \in Seq(WireEntry)
    OBVIOUS
  <2>2. At(s, <<>>) \in EntryReader
    BY <2>1, AtIsEntryReader
  <2>3. QED
    BY <2>2, Zenon
<1>2. [At(s, x) EXCEPT !.value = <<>>] = start
  BY <1>1, ReaderFields
<1> DEFINE IsAfter(g) ==
             g = [k \in 0 .. n |-> IF k = 0 THEN start ELSE TakeEntry(g[k - 1])]
<1>3. PICK step \in [EntryReader -> EntryReader] : \A r \in EntryReader : step[r] = TakeEntry(r)
  <2>1. [r \in EntryReader |-> TakeEntry(r)] \in [EntryReader -> EntryReader]
    BY TakeEntryType
  <2>2. QED
    BY <2>1
<1>4. PICK turn \in [1 .. n -> [EntryReader -> EntryReader]] : \A m \in 1 .. n : turn[m] = step
  <2>1. [m \in 1 .. n |-> step] \in [1 .. n -> [EntryReader -> EntryReader]]
    OBVIOUS
  <2>2. QED
    BY <2>1
<1>5. Loops(EntryReader, start, n, turn)
  BY Loop
<1>6. PICK g \in [0 .. n -> EntryReader] :
        g[0] = start /\ \A m \in 1 .. n : g[m] = turn[m][g[m - 1]]
  BY <1>5 DEF Loops
<1>7. ASSUME NEW m \in 1 .. n PROVE g[m] = TakeEntry(g[m - 1])
  <2>1. m - 1 \in 0 .. n
    OBVIOUS
  <2>2. g[m - 1] \in EntryReader
    BY <2>1
  <2>3. QED
    BY <1>3, <1>4, <1>6, <2>2
<1>8. IsAfter(g)
  <2>1. ASSUME NEW k \in 0 .. n PROVE g[k] = IF k = 0 THEN start ELSE TakeEntry(g[k - 1])
    <3>1. CASE k = 0
      BY <1>6, <3>1
    <3>2. CASE k # 0
      <4>1. k \in 1 .. n
        BY <3>2
      <4>2. g[k] = TakeEntry(g[k - 1])
        BY <1>7, <4>1
      <4>3. QED
        BY <3>2, <4>2
    <3>3. QED
      BY <3>1, <3>2
  <2>2. QED
    BY <2>1
<1>9. EntriesTaken(At(s, x), n) = CHOOSE h : IsAfter(h)
  BY <1>2 DEF EntriesTaken
<1>10. PICK h : h = EntriesTaken(At(s, x), n)
  OBVIOUS
<1>11. IsAfter(h)
  BY <1>8, <1>9, <1>10
<1>12. h[0] = start
  BY <1>11
<1>13. ASSUME NEW k \in 1 .. n PROVE h[k] = TakeEntry(h[k - 1])
  <2>1. k \in 0 .. n /\ k # 0
    OBVIOUS
  <2>2. QED
    BY <1>11, <2>1
<1>14. h \in [0 .. n -> EntryReader]
  <2>1. ASSUME NEW k \in 1 .. n, h[k - 1] \in EntryReader PROVE h[k] \in EntryReader
    BY <1>13, <2>1, TakeEntryType
  <2>2. \A k \in 0 .. n : h[k] \in EntryReader
    BY <1>12, <2>1, LoopStays
  <2>3. h = [k \in 0 .. n |-> h[k]]
    BY <1>11
  <2>4. QED
    BY <2>2, <2>3
<1>15. QED
  BY <1>1, <1>10, <1>12, <1>13, <1>14

\* A list grows to its next beginning.
LEMMA Beginnings ==
  ASSUME NEW e \in Seq(WireEntry)
  PROVE  /\ Len(e) \in Nat
         /\ SubSeq(e, 1, 0) = <<>> /\ SubSeq(e, 1, Len(e)) = e
         /\ \A k \in 1 .. Len(e) : Append(SubSeq(e, 1, k - 1), e[k]) = SubSeq(e, 1, k)
<1>1. PICK n \in Nat : n = Len(e)
  BY LenProperties
<1>2. \A k \in 1 .. n : e[k] \in WireEntry
  BY <1>1, ElementOfSeq
<1>3. ASSUME NEW k \in 0 .. n
      PROVE  /\ SubSeq(e, 1, k) \in Seq(WireEntry) /\ Len(SubSeq(e, 1, k)) = k
             /\ \A j \in 1 .. k : SubSeq(e, 1, k)[j] = e[j]
  <2>1. \A j \in 1 .. k : e[j] \in WireEntry
    BY <1>2
  <2>2. 1 \in Int /\ k \in Int
    OBVIOUS
  <2>3. LET y == SubSeq(e, 1, k)
        IN /\ y \in Seq(WireEntry) /\ Len(y) = IF 1 <= k THEN k - 1 + 1 ELSE 0
           /\ \A j \in 1 .. k - 1 + 1 : y[j] = e[1 + j - 1]
    BY <2>1, <2>2, SubSeqProperties
  <2>4. k - 1 + 1 = k /\ (~(1 <= k) => k = 0) /\ \A j \in 1 .. k : 1 + j - 1 = j
    OBVIOUS
  <2>5. QED
    BY <2>3, <2>4
<1>4. SubSeq(e, 1, 0) = <<>>
  BY <1>3
<1>5. ASSUME NEW k \in 1 .. n PROVE Append(SubSeq(e, 1, k - 1), e[k]) = SubSeq(e, 1, k)
  <2>1. k - 1 \in 0 .. n /\ k \in 0 .. n
    OBVIOUS
  <2>2. PICK p \in Seq(WireEntry) : p = SubSeq(e, 1, k - 1)
    BY <1>3, <2>1
  <2>3. Len(p) = k - 1 /\ \A j \in 1 .. k - 1 : p[j] = e[j]
    BY <1>3, <2>1, <2>2
  <2>4. PICK a \in Seq(WireEntry) : a = Append(p, e[k])
    BY <1>2, AppendProperties
  <2>5. Len(a) = k /\ a[k] = e[k] /\ \A j \in 1 .. k - 1 : a[j] = p[j]
    <3>1. /\ Len(a) = Len(p) + 1 /\ a[Len(p) + 1] = e[k]
          /\ \A j \in 1 .. Len(p) : a[j] = p[j]
      BY <1>2, <2>4, AppendProperties
    <3>2. (k - 1) + 1 = k
      OBVIOUS
    <3>3. QED
      BY <2>3, <3>1, <3>2
  <2>6. PICK q \in Seq(WireEntry) : q = SubSeq(e, 1, k)
    BY <1>3, <2>1
  <2>7. Len(q) = k /\ \A j \in 1 .. k : q[j] = e[j]
    BY <1>3, <2>1, <2>6
  <2>8. ASSUME NEW j \in 1 .. k PROVE a[j] = q[j]
    <3>1. j = k \/ j \in 1 .. k - 1
      OBVIOUS
    <3>2. QED
      BY <2>3, <2>5, <2>7, <3>1
  <2>9. a = q
    BY <2>5, <2>7, <2>8, SeqEqual
  <2>10. QED
    BY <2>2, <2>4, <2>6, <2>9
<1>6. QED
  BY <1>1, <1>4, <1>5, SubSeqFull

\* A count that the bytes left cannot justify: the comparison of decode_message.
LEMMA CountJustified ==
  ASSUME NEW e \in Seq(WireEntry), NEW b \in Seq(Byte)
  PROVE  ~(Len(e) > Len(EncodeEntries(e) \o b) \div (Wide + Narrow))
<1>1. PICK n \in Nat, h \in Nat \ {0} : n = Len(e) /\ h = Wide + Narrow
  BY WidthAssumption, LenProperties
<1>2. PICK x \in Seq(Byte) : x = EncodeEntries(e)
  BY EncodedLength
<1>3. n * h <= Len(x)
  BY <1>1, <1>2, EncodedLength
<1>4. Len(x) \in Nat /\ Len(b) \in Nat /\ Len(x \o b) = Len(x) + Len(b)
  BY LenProperties, ConcatProperties
<1>5. PICK l \in Nat : l = Len(x \o b)
  BY <1>4
<1>6. n * h <= l
  BY <1>3, <1>4, <1>5
<1>7. n <= l \div h
  BY <1>6
<1>8. ~(n > l \div h)
  BY <1>7
<1>9. QED
  BY <1>1, <1>2, <1>5, <1>8

\* decode_message reads the entries that were written, all of them and no more.
LEMMA EntriesRead ==
  ASSUME NEW e \in Seq(WireEntry), NEW b \in Seq(Byte)
  PROVE  TakeEntries(At(EncodeEntries(e) \o b, Len(e))) = At(b, e)
<1>1. PICK n \in Nat : n = Len(e)
  BY LenProperties
<1>2. PICK s \in Seq(Byte) : s = EncodeEntries(e) \o b
  BY EncodedLength, Unsplit
<1>3. PICK rest : EntryPieces(e, b, rest)
  BY EntriesInPieces
<1>4. /\ rest \in [0 .. n -> Seq(Byte)] /\ rest[0] = s /\ rest[n] = b
      /\ \A k \in 1 .. n : rest[k - 1] = EncodeEntry(e[k]) \o rest[k]
  BY <1>1, <1>2, <1>3 DEF EntryPieces
<1>5. PICK after \in [0 .. n -> EntryReader] : after = EntriesTaken(At(s, n), n)
  BY EntriesFacts
<1>6. after[0] = At(s, <<>>) /\ \A k \in 1 .. n : after[k] = TakeEntry(after[k - 1])
  BY <1>5, EntriesFacts
<1> DEFINE S == {k \in 0 .. n : after[k] = At(rest[k], SubSeq(e, 1, k))}
<1>7. 0 \in S
  <2>1. PICK none : none = SubSeq(e, 1, 0)
    OBVIOUS
  <2>2. after[0] = At(s, none)
    BY <1>6, <2>1, Beginnings
  <2>3. after[0] = At(rest[0], SubSeq(e, 1, 0))
    BY <1>4, <2>1, <2>2
  <2>4. 0 \in 0 .. n
    OBVIOUS
  <2>5. QED
    BY <2>3, <2>4
<1>8. ASSUME NEW k \in 1 .. n, k - 1 \in S PROVE k \in S
  <2>1. k - 1 \in 0 .. n /\ k \in 0 .. n /\ after[k - 1] = At(rest[k - 1], SubSeq(e, 1, k - 1))
    BY <1>8
  <2>2. e[k] \in WireEntry
    BY <1>1, ElementOfSeq
  <2>3. PICK v : v = SubSeq(e, 1, k - 1)
    OBVIOUS
  <2>4. PICK q \in Seq(Byte) : q = rest[k]
    BY <1>4, <2>1
  <2>5. TakeEntry(At(EncodeEntry(e[k]) \o q, v)) = At(q, Append(v, e[k]))
    BY <2>2, EntryRead
  <2>6. rest[k - 1] = EncodeEntry(e[k]) \o q
    BY <1>4, <2>4
  <2>7. Append(v, e[k]) = SubSeq(e, 1, k)
    BY <1>1, <2>3, Beginnings
  <2>8. after[k] = At(q, SubSeq(e, 1, k))
    BY <1>6, <2>1, <2>3, <2>5, <2>6, <2>7
  <2>9. QED
    BY <2>1, <2>4, <2>8
<1>9. after[n] = At(b, e)
  <2>1. 0 .. n \subseteq S
    <3> HIDE DEF S
    <3>1. QED
      BY <1>7, <1>8, UpTo
  <2>2. n \in 0 .. n
    OBVIOUS
  <2>3. after[n] = At(rest[n], SubSeq(e, 1, n))
    BY <2>1, <2>2
  <2>4. QED
    BY <1>1, <1>4, <2>3, Beginnings
<1>10. ~(n > Len(s) \div (Wide + Narrow))
  BY <1>1, <1>2, CountJustified
<1>11. PICK t : t = At(s, n)
  OBVIOUS
<1>12. t.error = "none" /\ t.value = n /\ t.rest = s
  BY <1>11, ReaderFields
<1>13. TakeEntries(t) = EntriesTaken(t, n)[n]
  BY <1>10, <1>12 DEF TakeEntries
<1>14. QED
  BY <1>1, <1>2, <1>5, <1>9, <1>11, <1>13

\* The loop, in a datagram that is cut short.
LEMMA EntriesShorter ==
  ASSUME NEW e \in Seq(WireEntry), NEW b \in Seq(Byte), NEW t,
         Shorter(t, EncodeEntries(e) \o b, Len(e))
  PROVE  Shorter(TakeEntries(t), b, e)
<1>1. PICK n \in Nat : n = Len(e)
  BY LenProperties
<1>2. PICK s \in Seq(Byte) : s = EncodeEntries(e) \o b
  BY EncodedLength, Unsplit
<1>3. Shorter(t, s, n)
  BY <1>1, <1>2
<1>4. CASE Missing(t)
  <2>1. TakeEntries(t) = t
    BY <1>4, MissingStays DEF TakeEntries
  <2>2. QED
    BY <1>4, <2>1, MissingOrNot
<1>5. CASE ~Missing(t)
  <2>1. PICK p \in Seq(Byte), x \in Seq(Byte) : x # <<>> /\ s = p \o x /\ t = At(p, n)
    BY <1>3, <1>5 DEF Shorter
  <2>2. t.error = "none" /\ t.value = n /\ t.rest = p
    BY <2>1, ReaderFields
  <2>3. CASE n > Len(p) \div (Wide + Narrow)
    <3>1. TakeEntries(t) = Failed(t, "Truncated")
      BY <2>2, <2>3 DEF TakeEntries
    <3>2. Failed(At(p, n), "Truncated") = [rest |-> p, value |-> n, error |-> "Truncated"]
      BY ReaderFields
    <3>3. Missing(TakeEntries(t))
      BY <2>1, <3>1, <3>2 DEF Missing
    <3>4. QED
      BY <3>3, MissingOrNot
  <2>4. CASE ~(n > Len(p) \div (Wide + Narrow))
    <3>1. TakeEntries(t) = EntriesTaken(t, n)[n]
      BY <2>2, <2>4 DEF TakeEntries
    <3>2. PICK rest : EntryPieces(e, b, rest)
      BY EntriesInPieces
    <3>3. /\ rest \in [0 .. n -> Seq(Byte)] /\ rest[0] = s /\ rest[n] = b
          /\ \A k \in 1 .. n : rest[k - 1] = EncodeEntry(e[k]) \o rest[k]
      BY <1>1, <1>2, <3>2 DEF EntryPieces
    <3>4. PICK after \in [0 .. n -> EntryReader] : after = EntriesTaken(At(p, n), n)
      BY EntriesFacts
    <3>5. after[0] = At(p, <<>>) /\ \A k \in 1 .. n : after[k] = TakeEntry(after[k - 1])
      BY <3>4, EntriesFacts
    <3> DEFINE S == {k \in 0 .. n : Shorter(after[k], rest[k], SubSeq(e, 1, k))}
    <3>6. 0 \in S
      <4>1. PICK none : none = SubSeq(e, 1, 0)
        OBVIOUS
      <4>2. Shorter(At(p, n), s, n)
        BY <1>3, <2>1
      <4>3. Shorter(At(p, none), s, none)
        BY <4>2, ShorterAnyValue
      <4>4. after[0] = At(p, none)
        BY <3>5, <4>1, Beginnings
      <4>5. Shorter(after[0], rest[0], SubSeq(e, 1, 0))
        BY <3>3, <4>1, <4>3, <4>4
      <4>6. 0 \in 0 .. n
        OBVIOUS
      <4>7. QED
        BY <4>5, <4>6
    <3>7. ASSUME NEW k \in 1 .. n, k - 1 \in S PROVE k \in S
      <4>1. /\ k - 1 \in 0 .. n /\ k \in 0 .. n
            /\ Shorter(after[k - 1], rest[k - 1], SubSeq(e, 1, k - 1))
        BY <3>7
      <4>2. e[k] \in WireEntry
        BY <1>1, ElementOfSeq
      <4>3. PICK v : v = SubSeq(e, 1, k - 1)
        OBVIOUS
      <4>4. PICK q \in Seq(Byte) : q = rest[k]
        BY <3>3, <4>1
      <4>5. rest[k - 1] = EncodeEntry(e[k]) \o q
        BY <3>3, <4>4
      <4>6. Shorter(after[k - 1], EncodeEntry(e[k]) \o q, v)
        BY <4>1, <4>3, <4>5
      <4>7. Shorter(TakeEntry(after[k - 1]), q, Append(v, e[k]))
        BY <4>2, <4>6, EntryShorter
      <4>8. Append(v, e[k]) = SubSeq(e, 1, k)
        BY <1>1, <4>3, Beginnings
      <4>9. Shorter(after[k], rest[k], SubSeq(e, 1, k))
        BY <3>5, <4>4, <4>7, <4>8
      <4>10. QED
        BY <4>1, <4>9
    <3>8. Shorter(after[n], rest[n], SubSeq(e, 1, n))
      <4>1. 0 .. n \subseteq S
        <5> HIDE DEF S
        <5>1. QED
          BY <3>6, <3>7, UpTo
      <4>2. n \in 0 .. n
        OBVIOUS
      <4>3. QED
        BY <4>1, <4>2
    <3>9. QED
      BY <1>1, <2>1, <3>1, <3>3, <3>4, <3>8, Beginnings
  <2>5. QED
    BY <2>3, <2>4
<1>6. QED
  BY <1>4, <1>5

\* Reading n entries from s gave t.
EntriesTook(s, n, t) ==
  \E e \in Seq(WireEntry), b \in Seq(Byte) :
    Len(e) = n /\ s = EncodeEntries(e) \o b /\ t = At(b, e)

\* After k turns without an error, what has been read of s was written for the k
\* entries collected so far.
Collected(s, k, r) == Len(r.value) = k /\ s = EncodeEntries(r.value) \o r.rest

\* What the loop has read was written as the entries that it returns.
LEMMA EntriesTakenBack ==
  ASSUME NEW s \in Seq(Byte), NEW n \in Nat, TakeEntries(At(s, n)).error = "none"
  PROVE  EntriesTook(s, n, TakeEntries(At(s, n)))
<1>1. PICK t : t = At(s, n)
  OBVIOUS
<1>2. t.error = "none" /\ t.value = n /\ t.rest = s
  BY <1>1, ReaderFields
<1>3. TakeEntries(t) = EntriesTaken(t, n)[n]
  <2>1. CASE n > Len(s) \div (Wide + Narrow)
    <3>1. TakeEntries(t) = Failed(t, "Truncated")
      BY <1>2, <2>1 DEF TakeEntries
    <3>2. Failed(At(s, n), "Truncated") = [rest |-> s, value |-> n, error |-> "Truncated"]
      BY ReaderFields
    <3>3. TakeEntries(t).error = "Truncated"
      BY <1>1, <3>1, <3>2
    <3>4. QED
      BY <1>1, <3>3
  <2>2. CASE ~(n > Len(s) \div (Wide + Narrow))
    BY <1>2, <2>2 DEF TakeEntries
  <2>3. QED
    BY <2>1, <2>2
<1>4. PICK after \in [0 .. n -> EntryReader] : after = EntriesTaken(At(s, n), n)
  BY EntriesFacts
<1>5. after[0] = At(s, <<>>) /\ \A k \in 1 .. n : after[k] = TakeEntry(after[k - 1])
  BY <1>4, EntriesFacts
<1> DEFINE S == {k \in 0 .. n : after[k].error = "none" => Collected(s, k, after[k])}
<1>6. 0 \in S
  <2>1. PICK none \in Seq(WireEntry) : none = <<>>
    <3>1. <<>> \in Seq(WireEntry)
      OBVIOUS
    <3>2. QED
      BY <3>1, Zenon
  <2>2. Len(none) = 0 /\ EncodeEntries(none) = <<>>
    <3>1. Len(none) = 0
      BY <2>1
    <3>2. QED
      BY <3>1, EncodedFacts DEF EncodeEntries
  <2>3. <<>> \o s = s
    BY ConcatEmptySeq
  <2>4. after[0].value = none /\ after[0].rest = s
    BY <1>5, <2>1, ReaderFields
  <2>5. Collected(s, 0, after[0])
    BY <2>2, <2>3, <2>4 DEF Collected
  <2>6. 0 \in 0 .. n
    OBVIOUS
  <2>7. QED
    BY <2>5, <2>6
<1>7. ASSUME NEW k \in 1 .. n, k - 1 \in S PROVE k \in S
  <2>1. /\ k - 1 \in 0 .. n /\ k \in 0 .. n
        /\ after[k - 1].error = "none" => Collected(s, k - 1, after[k - 1])
    BY <1>7
  <2>2. PICK r \in EntryReader : r = after[k - 1]
    BY <1>4, <2>1
  <2>3. ASSUME after[k].error = "none" PROVE Collected(s, k, after[k])
    <3>1. TakeEntry(r).error = "none"
      BY <1>5, <2>2, <2>3
    <3>2. r.error = "none" /\ EntryTook(r.rest, r.value, TakeEntry(r))
      BY <3>1, TakeEntryType
    <3>3. PICK p \in Seq(Byte), v \in Seq(WireEntry) : p = r.rest /\ v = r.value
      BY EntryReaderCases
    <3>4. EntryTook(p, v, TakeEntry(r))
      BY <3>2, <3>3
    <3>5. PICK e \in WireEntry, b \in Seq(Byte) :
            p = EncodeEntry(e) \o b /\ TakeEntry(r) = At(b, Append(v, e))
      BY <3>4 DEF EntryTook
    <3>6. Len(v) = k - 1 /\ s = EncodeEntries(v) \o p
      BY <2>1, <2>2, <3>2, <3>3 DEF Collected
    <3>7. PICK x \in Seq(Byte), y \in Seq(Byte) : x = EncodeEntries(v) /\ y = EncodeEntry(e)
      BY EncodedLength, EntryIsBytes
    <3>8. (x \o y) \o b = x \o (y \o b)
      BY Joined
    <3>9. EncodeEntries(Append(v, e)) = x \o y
      BY <3>7, EncodeAppend
    <3>10. PICK u : u = Append(v, e)
      OBVIOUS
    <3>11. s = EncodeEntries(u) \o b
      BY <3>5, <3>6, <3>7, <3>8, <3>9, <3>10
    <3>12. Len(u) = k
      <4>1. Len(u) = Len(v) + 1
        BY <3>10, AppendProperties
      <4>2. (k - 1) + 1 = k
        OBVIOUS
      <4>3. QED
        BY <3>6, <4>1, <4>2
    <3>13. after[k].value = u /\ after[k].rest = b
      <4>1. after[k] = TakeEntry(r)
        BY <1>5, <2>2
      <4>2. TakeEntry(r) = At(b, u)
        BY <3>5, <3>10
      <4>3. QED
        BY <4>1, <4>2, ReaderFields
    <3>14. QED
      BY <3>11, <3>12, <3>13 DEF Collected
  <2>4. QED
    BY <2>1, <2>3
<1>8. after[n].error = "none" => Collected(s, n, after[n])
  <2>1. 0 .. n \subseteq S
    <3> HIDE DEF S
    <3>1. QED
      BY <1>6, <1>7, UpTo
  <2>2. n \in 0 .. n
    OBVIOUS
  <2>3. QED
    BY <2>1, <2>2
<1>9. PICK r \in EntryReader : r = after[n] /\ r = TakeEntries(At(s, n))
  <2>1. n \in 0 .. n
    OBVIOUS
  <2>2. after[n] \in EntryReader
    BY <1>4, <2>1
  <2>3. QED
    BY <1>1, <1>3, <1>4, <2>2
<1>10. r.error = "none" /\ Collected(s, n, r)
  BY <1>8, <1>9
<1>11. PICK e \in Seq(WireEntry), b \in Seq(Byte) : e = r.value /\ b = r.rest
  BY EntryReaderCases
<1>12. Len(e) = n /\ s = EncodeEntries(e) \o b /\ r = At(b, e)
  BY <1>10, <1>11, EntryReaderCases DEF Collected
<1>13. QED
  BY <1>9, <1>12 DEF EntriesTook

\* Entries that were read came after no error.
LEMMA EntriesSound ==
  ASSUME NEW r, TakeEntries(r).error = "none"
  PROVE  r.error = "none"
<1>1. r.error # "none" => TakeEntries(r) = r
  BY DEF TakeEntries
<1>2. QED
  BY <1>1

-----------------------------------------------------------------------------
(* Messages *)

\* Everything that reading makes of a reader is one.
Shape(r) == r = [rest |-> r.rest, value |-> r.value, error |-> r.error]

\* What has the three fields is one.
LEMMA ShapeOf ==
  ASSUME NEW s, NEW v, NEW e
  PROVE  Shape([rest |-> s, value |-> v, error |-> e])
BY DEF Shape

\* A reader without an error is one.
LEMMA AtShape ==
  ASSUME NEW s, NEW v
  PROVE  Shape(At(s, v))
BY ShapeOf DEF At

\* So is a reader with one.
LEMMA FailedShape ==
  ASSUME NEW r, Shape(r), NEW e
  PROVE  Shape(Failed(r, e))
<1>1. PICK s, v, f : s = r.rest /\ v = r.value /\ f = r.error
  OBVIOUS
<1>2. r = [rest |-> s, value |-> v, error |-> f]
  BY <1>1 DEF Shape
<1>3. Failed(r, e) = [rest |-> s, value |-> v, error |-> e]
  BY <1>2 DEF Failed
<1>4. QED
  BY <1>3, ShapeOf

\* So is what Reader::take leaves.
LEMMA TakeShape ==
  ASSUME NEW r, Shape(r), NEW n, NEW v
  PROVE  Shape(Take(r, n, v))
<1>1. \/ Take(r, n, v) = r
      \/ Take(r, n, v) = Failed(r, "Truncated")
      \/ Take(r, n, v) = At(SubSeq(r.rest, n + 1, Len(r.rest)), v)
  BY DEF Take, At
<1>2. Shape(Failed(r, "Truncated")) /\ Shape(At(SubSeq(r.rest, n + 1, Len(r.rest)), v))
  BY FailedShape, AtShape
<1>3. QED
  BY <1>1, <1>2

\* So is what the readings of a u64, a u32 and a bool leave.
LEMMA ReadersShape ==
  ASSUME NEW r, Shape(r)
  PROVE  Shape(TakeU64(r)) /\ Shape(TakeU32(r)) /\ Shape(TakeBool(r))
<1>1. Shape(TakeU64(r)) /\ Shape(TakeU32(r))
  BY TakeShape DEF TakeU64, TakeU32, TakeNumber
<1>2. PICK v : v = (r.rest[1] = 1)
  OBVIOUS
<1>3. PICK b : b = Take(r, 1, v)
  OBVIOUS
<1>4. Shape(b) /\ Shape(Failed(b, "BadBool"))
  BY <1>3, TakeShape, FailedShape
<1>5. TakeBool(r) = b \/ TakeBool(r) = Failed(b, "BadBool")
  BY <1>2, <1>3 DEF TakeBool
<1>6. QED
  BY <1>1, <1>4, <1>5

\* The message that is built last hides no error.
LEMMA BuiltError ==
  ASSUME NEW r, Shape(r), NEW u
  PROVE  [r EXCEPT !.value = u].error = r.error
<1>1. PICK s, v, f : s = r.rest /\ v = r.value /\ f = r.error
  OBVIOUS
<1>2. r = [rest |-> s, value |-> v, error |-> f]
  BY <1>1 DEF Shape
<1>3. [r EXCEPT !.value = u] = [rest |-> s, value |-> u, error |-> f]
  BY <1>2
<1>4. QED
  BY <1>1, <1>3

\* u64 and u32: what was written is read, what was read was written, and what is
\* cut short is missed.
LEMMA U64Field ==
  ASSUME NEW n \in Numerals(Wide), NEW b \in Seq(Byte)
  PROVE  /\ U64(n) \in Seq(Byte) /\ U64(n) \o b \in Seq(Byte)
         /\ \A x : TakeU64(At(U64(n) \o b, x)) = At(b, n)
         /\ \A t, v : Shorter(t, U64(n) \o b, v) => Shorter(TakeU64(t), b, n)
<1>1. Wide \in Nat /\ n \in Nat
  BY WidthAssumption DEF Numerals
<1>2. U64(n) \in Seq(Byte)
  BY <1>1, NumberIsBytes DEF U64
<1>3. U64(n) \o b \in Seq(Byte)
  BY <1>2, Unsplit
<1>4. \A x : TakeU64(At(U64(n) \o b, x)) = At(b, n)
  BY <1>1, NumberRead DEF TakeU64, U64
<1>5. ASSUME NEW t, NEW v, Shorter(t, U64(n) \o b, v) PROVE Shorter(TakeU64(t), b, n)
  <2>1. Shorter(t, Number(n, Wide) \o b, v)
    BY <1>5 DEF U64
  <2>2. Shorter(TakeNumber(t, Wide), b, n)
    BY <1>1, <2>1, NumberShorter
  <2>3. QED
    BY <2>2 DEF TakeU64
<1>6. QED
  BY <1>2, <1>3, <1>4, <1>5

\* The same of a u32.
LEMMA U32Field ==
  ASSUME NEW n \in Numerals(Narrow), NEW b \in Seq(Byte)
  PROVE  /\ U32(n) \in Seq(Byte) /\ U32(n) \o b \in Seq(Byte)
         /\ \A x : TakeU32(At(U32(n) \o b, x)) = At(b, n)
         /\ \A t, v : Shorter(t, U32(n) \o b, v) => Shorter(TakeU32(t), b, n)
<1>1. Narrow \in Nat /\ n \in Nat
  BY WidthAssumption DEF Numerals
<1>2. U32(n) \in Seq(Byte)
  BY <1>1, NumberIsBytes DEF U32
<1>3. U32(n) \o b \in Seq(Byte)
  BY <1>2, Unsplit
<1>4. \A x : TakeU32(At(U32(n) \o b, x)) = At(b, n)
  BY <1>1, NumberRead DEF TakeU32, U32
<1>5. ASSUME NEW t, NEW v, Shorter(t, U32(n) \o b, v) PROVE Shorter(TakeU32(t), b, n)
  <2>1. Shorter(t, Number(n, Narrow) \o b, v)
    BY <1>5 DEF U32
  <2>2. Shorter(TakeNumber(t, Narrow), b, n)
    BY <1>1, <2>1, NumberShorter
  <2>3. QED
    BY <2>2 DEF TakeU32
<1>6. QED
  BY <1>2, <1>3, <1>4, <1>5

\* The same of a bool.
LEMMA BoolField ==
  ASSUME NEW g \in BOOLEAN, NEW b \in Seq(Byte)
  PROVE  /\ Bool(g) \in Seq(Byte) /\ Bool(g) \o b \in Seq(Byte)
         /\ \A x : TakeBool(At(Bool(g) \o b, x)) = At(b, g)
         /\ \A t, v : Shorter(t, Bool(g) \o b, v) => Shorter(TakeBool(t), b, g)
<1>1. PICK a \in Seq(Byte) : a = Bool(g)
  BY BoolIsByte
<1>2. a \o b \in Seq(Byte)
  BY Unsplit
<1>3. \A x : TakeBool(At(Bool(g) \o b, x)) = At(b, g)
  BY BoolRead
<1>4. \A t, v : Shorter(t, Bool(g) \o b, v) => Shorter(TakeBool(t), b, g)
  BY BoolShorter
<1>5. QED
  BY <1>1, <1>2, <1>3, <1>4

\* A u64 was written as its number; s is what was left, b what is left now.
LEMMA U64Back ==
  ASSUME NEW s \in Seq(Byte), NEW x, TakeU64(At(s, x)).error = "none"
  PROVE  NumberTook(s, Wide, TakeU64(At(s, x)))
BY WidthAssumption, NumberTaken DEF TakeU64

\* The same of a u32.
LEMMA U32Back ==
  ASSUME NEW s \in Seq(Byte), NEW x, TakeU32(At(s, x)).error = "none"
  PROVE  NumberTook(s, Narrow, TakeU32(At(s, x)))
BY WidthAssumption, NumberTaken DEF TakeU32

\* A u64 that was read came after no error.
LEMMA U64Sound ==
  ASSUME NEW r, TakeU64(r).error = "none"
  PROVE  r.error = "none"
BY NumberSound DEF TakeU64

\* So did a u32.
LEMMA U32Sound ==
  ASSUME NEW r, TakeU32(r).error = "none"
  PROVE  r.error = "none"
BY NumberSound DEF TakeU32

\* A datagram that is cut short is not one that is left with nothing to read.
LEMMA NothingShorter ==
  ASSUME NEW t, NEW v, Shorter(t, <<>>, v)
  PROVE  Missing(t)
<1>1. SUFFICES ASSUME NEW p \in Seq(Byte), NEW x \in Seq(Byte), x # <<>>, <<>> = p \o x
               PROVE  FALSE
  BY DEF Shorter
<1>2. p \o x = <<>>
  BY <1>1
<1>3. Len(p \o x) = Len(p) + Len(x) /\ Len(p) \in Nat /\ Len(x) \in Nat
  BY ConcatProperties, LenProperties
<1>4. Len(p) + Len(x) = 0
  BY <1>2, <1>3
<1>5. Len(x) = 0
  BY <1>3, <1>4
<1>6. QED
  BY <1>1, <1>5, EmptySeq

\* What the fields of a RequestVote can hold.
WireRequestVote ==
  [kind : {"RequestVote"}, term : Numerals(Wide), last_log_index : Numerals(Wide),
   last_log_term : Numerals(Wide)]

\* What the fields of a VoteResponse can hold.
WireVoteResponse ==
  [kind : {"VoteResponse"}, term : Numerals(Wide), granted : BOOLEAN]

\* What the fields of a AppendEntries can hold.
WireAppendEntries ==
  [kind : {"AppendEntries"}, term : Numerals(Wide), prev_index : Numerals(Wide),
   prev_term : Numerals(Wide), leader_commit : Numerals(Wide),
   entries : {e \in Seq(WireEntry) : Fits(Len(e), Narrow)}]

\* What the fields of a AppendResponse can hold.
WireAppendResponse ==
  [kind : {"AppendResponse"}, term : Numerals(Wide), success : BOOLEAN,
   match_index : Numerals(Wide)]

\* What the fields of a message can hold.
WireMessage ==
  WireRequestVote \cup WireVoteResponse \cup WireAppendEntries \cup WireAppendResponse

\* What a reading of s as one kind of message comes to: m, with b left.
Took(kind, s, r) ==
  \E m \in kind, b \in Seq(Byte) : s = Payload(m) \o b /\ r = At(b, m)

\* The readings of decode_message, field by field.
VoteSteps(s, term, index, last) ==
  term = TakeU64(At(s, 0)) /\ index = TakeU64(term) /\ last = TakeU64(index)

\* The RequestVote of these steps is what they read.
LEMMA VoteStepsRead ==
  ASSUME NEW s, NEW term, NEW index, NEW last, VoteSteps(s, term, index, last)
  PROVE  ReadRequestVote(s) =
           [last EXCEPT !.value = [kind |-> "RequestVote", term |-> term.value,
                                   last_log_index |-> index.value,
                                   last_log_term |-> last.value]]
BY DEF VoteSteps, ReadRequestVote, Reader, At

\* Its error is the last one.
LEMMA VoteError ==
  ASSUME NEW s, NEW term, NEW index, NEW last, VoteSteps(s, term, index, last)
  PROVE  ReadRequestVote(s).error = last.error
<1>1. Shape(last)
  BY AtShape, ReadersShape DEF VoteSteps
<1>2. PICK u : u = [kind |-> "RequestVote", term |-> term.value,
                    last_log_index |-> index.value, last_log_term |-> last.value]
  OBVIOUS
<1>3. ReadRequestVote(s) = [last EXCEPT !.value = u]
  BY <1>2, VoteStepsRead
<1>4. QED
  BY <1>1, <1>3, BuiltError

\* The message that is built is all there is to a reading without errors.
LEMMA BuiltAt ==
  ASSUME NEW r, Shape(r), r.error = "none", NEW u
  PROVE  [r EXCEPT !.value = u] = At(r.rest, u)
<1>1. PICK b, v : b = r.rest /\ v = r.value
  OBVIOUS
<1>2. r = At(b, v)
  BY <1>1 DEF Shape, At
<1>3. [At(b, v) EXCEPT !.value = u] = At(b, u)
  BY ReaderFields
<1>4. QED
  BY <1>1, <1>2, <1>3

\* Without an error it is the message of the values read.
LEMMA VoteBuilt ==
  ASSUME NEW s, NEW term, NEW index, NEW last, VoteSteps(s, term, index, last),
         last.error = "none", NEW m \in WireRequestVote,
         term.value = m.term, index.value = m.last_log_index,
         last.value = m.last_log_term
  PROVE  ReadRequestVote(s) = At(last.rest, m)
<1>1. m = [kind |-> "RequestVote", term |-> m.term, last_log_index |-> m.last_log_index,
           last_log_term |-> m.last_log_term]
  BY DEF WireRequestVote
<1>2. PICK u : u = [kind |-> "RequestVote", term |-> term.value,
                    last_log_index |-> index.value, last_log_term |-> last.value]
  OBVIOUS
<1>3. u = m
  BY <1>1, <1>2
<1>4. ReadRequestVote(s) = [last EXCEPT !.value = u]
  BY <1>2, VoteStepsRead
<1>5. Shape(last)
  BY AtShape, ReadersShape DEF VoteSteps
<1>6. [last EXCEPT !.value = m] = At(last.rest, m)
  BY <1>5, BuiltAt
<1>7. QED
  BY <1>3, <1>4, <1>6

\* A vote request is written as its three numbers.
LEMMA VotePieces ==
  ASSUME NEW m \in WireRequestVote, NEW b \in Seq(Byte)
  PROVE  /\ m.term \in Numerals(Wide) /\ m.last_log_index \in Numerals(Wide)
         /\ m.last_log_term \in Numerals(Wide)
         /\ Payload(m) \in Seq(Byte)
         /\ Payload(m) \o b
              = U64(m.term) \o (U64(m.last_log_index) \o (U64(m.last_log_term) \o b))
<1>1. /\ m.kind = "RequestVote" /\ m.term \in Numerals(Wide)
      /\ m.last_log_index \in Numerals(Wide) /\ m.last_log_term \in Numerals(Wide)
  BY DEF WireRequestVote
<1>2. PICK x \in Seq(Byte), y \in Seq(Byte), z \in Seq(Byte) :
        x = U64(m.term) /\ y = U64(m.last_log_index) /\ z = U64(m.last_log_term)
  BY <1>1, U64Field
<1>3. Payload(m) = (x \o y) \o z
  BY <1>1, <1>2 DEF Payload
<1>4. x \o y \in Seq(Byte) /\ (x \o y) \o z \in Seq(Byte) /\ z \o b \in Seq(Byte)
  BY Unsplit
<1>5. ((x \o y) \o z) \o b = (x \o y) \o (z \o b)
  BY <1>4, Joined
<1>6. (x \o y) \o (z \o b) = x \o (y \o (z \o b))
  <2>1. PICK w \in Seq(Byte) : w = z \o b
    BY <1>4
  <2>2. (x \o y) \o w = x \o (y \o w)
    BY Joined
  <2>3. QED
    BY <2>1, <2>2
<1>7. QED
  BY <1>1, <1>2, <1>3, <1>4, <1>5, <1>6

\* What was written as a RequestVote is read as it.
LEMMA VoteRead ==
  ASSUME NEW m \in WireRequestVote, NEW b \in Seq(Byte)
  PROVE  ReadRequestVote(Payload(m) \o b) = At(b, m)
<1>1. /\ m.term \in Numerals(Wide) /\ m.last_log_index \in Numerals(Wide)
      /\ m.last_log_term \in Numerals(Wide)
  BY VotePieces
<1>2. PICK z \in Seq(Byte) : z = U64(m.last_log_term) \o b
  BY <1>1, U64Field
<1>3. PICK y \in Seq(Byte) : y = U64(m.last_log_index) \o z
  BY <1>1, U64Field
<1>4. PICK s \in Seq(Byte) : s = U64(m.term) \o y
  BY <1>1, U64Field
<1>5. Payload(m) \o b = s
  BY <1>2, <1>3, <1>4, VotePieces
<1>6. PICK term, index, last : VoteSteps(s, term, index, last)
  BY DEF VoteSteps
<1>7. term = At(y, m.term)
  BY <1>1, <1>4, <1>6, U64Field DEF VoteSteps
<1>8. index = At(z, m.last_log_index)
  BY <1>1, <1>3, <1>6, <1>7, U64Field DEF VoteSteps
<1>9. last = At(b, m.last_log_term)
  BY <1>1, <1>2, <1>6, <1>8, U64Field DEF VoteSteps
<1>10. /\ term.value = m.term /\ index.value = m.last_log_index
       /\ last.value = m.last_log_term /\ last.error = "none" /\ last.rest = b
  BY <1>7, <1>8, <1>9, ReaderFields
<1>11. ReadRequestVote(s) = At(last.rest, m)
  BY <1>6, <1>10, VoteBuilt
<1>12. QED
  BY <1>5, <1>10, <1>11

\* A RequestVote that is cut short is truncated.
LEMMA VoteShorter ==
  ASSUME NEW m \in WireRequestVote, NEW p, Shorter(At(p, 0), Payload(m), 0)
  PROVE  ReadRequestVote(p).error = "Truncated"
<1>1. /\ m.term \in Numerals(Wide) /\ m.last_log_index \in Numerals(Wide)
      /\ m.last_log_term \in Numerals(Wide)
  BY <<>> \in Seq(Byte), VotePieces
<1>2. PICK b \in Seq(Byte) : b = <<>>
  BY <<>> \in Seq(Byte), Zenon
<1>3. PICK z \in Seq(Byte) : z = U64(m.last_log_term) \o b
  BY <1>1, U64Field
<1>4. PICK y \in Seq(Byte) : y = U64(m.last_log_index) \o z
  BY <1>1, U64Field
<1>5. Payload(m) = U64(m.term) \o y
  <2>1. Payload(m) \o b = U64(m.term) \o y
    BY <1>3, <1>4, VotePieces
  <2>2. Payload(m) \o <<>> = Payload(m)
    BY VotePieces, ConcatEmptySeq
  <2>3. QED
    BY <1>2, <2>1, <2>2
<1>6. PICK term, index, last : VoteSteps(p, term, index, last)
  BY DEF VoteSteps
<1>7. Shorter(term, y, m.term)
  BY <1>1, <1>5, <1>6, U64Field DEF VoteSteps
<1>8. Shorter(index, z, m.last_log_index)
  BY <1>1, <1>4, <1>6, <1>7, U64Field DEF VoteSteps
<1>9. Shorter(last, b, m.last_log_term)
  BY <1>1, <1>3, <1>6, <1>8, U64Field DEF VoteSteps
<1>10. last.error = "Truncated"
  BY <1>2, <1>9, NothingShorter, MissingStays
<1>11. QED
  BY <1>6, <1>10, VoteError

\* What is read as a RequestVote was written as one.
LEMMA VoteTaken ==
  ASSUME NEW s \in Seq(Byte), ReadRequestVote(s).error = "none"
  PROVE  Took(WireRequestVote, s, ReadRequestVote(s))
<1>1. PICK term, index, last : VoteSteps(s, term, index, last)
  BY DEF VoteSteps
<1>2. term = TakeU64(At(s, 0)) /\ index = TakeU64(term) /\ last = TakeU64(index)
  BY <1>1 DEF VoteSteps
<1>3. last.error = "none" /\ index.error = "none" /\ term.error = "none"
  <2>1. last.error = "none"
    BY <1>1, VoteError
  <2>2. index.error = "none"
    BY <1>2, <2>1, U64Sound
  <2>3. QED
    BY <1>2, <2>1, <2>2, U64Sound
<1>4. PICK n \in Numerals(Wide), y \in Seq(Byte) : s = Number(n, Wide) \o y /\ term = At(y, n)
  <2>1. NumberTook(s, Wide, term)
    BY <1>2, <1>3, U64Back
  <2>2. QED
    BY <2>1 DEF NumberTook
<1>5. PICK i \in Numerals(Wide), z \in Seq(Byte) : y = Number(i, Wide) \o z /\ index = At(z, i)
  <2>1. NumberTook(y, Wide, index)
    BY <1>2, <1>3, <1>4, U64Back
  <2>2. QED
    BY <2>1 DEF NumberTook
<1>6. PICK l \in Numerals(Wide), b \in Seq(Byte) : z = Number(l, Wide) \o b /\ last = At(b, l)
  <2>1. NumberTook(z, Wide, last)
    BY <1>2, <1>3, <1>5, U64Back
  <2>2. QED
    BY <2>1 DEF NumberTook
<1>7. PICK m \in WireRequestVote : m.term = n /\ m.last_log_index = i /\ m.last_log_term = l
  <2>1. [kind |-> "RequestVote", term |-> n, last_log_index |-> i, last_log_term |-> l]
          \in WireRequestVote
    BY DEF WireRequestVote
  <2>2. QED
    BY <2>1
<1>8. s = Payload(m) \o b
  BY <1>4, <1>5, <1>6, <1>7, VotePieces DEF U64
<1>9. ReadRequestVote(s) = At(b, m)
  <2>1. /\ term.value = m.term /\ index.value = m.last_log_index
        /\ last.value = m.last_log_term /\ last.rest = b
    BY <1>4, <1>5, <1>6, <1>7, ReaderFields
  <2>2. ReadRequestVote(s) = At(last.rest, m)
    BY <1>1, <1>3, <2>1, VoteBuilt
  <2>3. QED
    BY <2>1, <2>2
<1>10. QED
  BY <1>8, <1>9 DEF Took

\* The steps of decode_message that read a VoteResponse.
AnswerSteps(s, term, granted) ==
  term = TakeU64(At(s, 0)) /\ granted = TakeBool(term)

\* The VoteResponse of these steps is what they read.
LEMMA AnswerStepsRead ==
  ASSUME NEW s, NEW term, NEW granted, AnswerSteps(s, term, granted)
  PROVE  ReadVoteResponse(s) =
           [granted EXCEPT !.value = [kind |-> "VoteResponse", term |-> term.value,
                                      granted |-> granted.value]]
BY DEF AnswerSteps, ReadVoteResponse, Reader, At

\* Its error is the last one.
LEMMA AnswerError ==
  ASSUME NEW s, NEW term, NEW granted, AnswerSteps(s, term, granted)
  PROVE  ReadVoteResponse(s).error = granted.error
<1>1. Shape(granted)
  BY AtShape, ReadersShape DEF AnswerSteps
<1>2. PICK u : u = [kind |-> "VoteResponse", term |-> term.value, granted |-> granted.value]
  OBVIOUS
<1>3. ReadVoteResponse(s) = [granted EXCEPT !.value = u]
  BY <1>2, AnswerStepsRead
<1>4. QED
  BY <1>1, <1>3, BuiltError

\* Without an error it is the message of the values read.
LEMMA AnswerBuilt ==
  ASSUME NEW s, NEW term, NEW granted, AnswerSteps(s, term, granted),
         granted.error = "none", NEW m \in WireVoteResponse,
         term.value = m.term, granted.value = m.granted
  PROVE  ReadVoteResponse(s) = At(granted.rest, m)
<1>1. m = [kind |-> "VoteResponse", term |-> m.term, granted |-> m.granted]
  BY DEF WireVoteResponse
<1>2. PICK u : u = [kind |-> "VoteResponse", term |-> term.value, granted |-> granted.value]
  OBVIOUS
<1>3. u = m
  BY <1>1, <1>2
<1>4. ReadVoteResponse(s) = [granted EXCEPT !.value = u]
  BY <1>2, AnswerStepsRead
<1>5. Shape(granted)
  BY AtShape, ReadersShape DEF AnswerSteps
<1>6. [granted EXCEPT !.value = m] = At(granted.rest, m)
  BY <1>5, BuiltAt
<1>7. QED
  BY <1>3, <1>4, <1>6

\* An answer to a vote request is written as a number and a boolean.
LEMMA AnswerPieces ==
  ASSUME NEW m \in WireVoteResponse, NEW b \in Seq(Byte)
  PROVE  /\ m.term \in Numerals(Wide) /\ m.granted \in BOOLEAN
         /\ Payload(m) \in Seq(Byte)
         /\ Payload(m) \o b = U64(m.term) \o (Bool(m.granted) \o b)
<1>1. m.kind = "VoteResponse" /\ m.term \in Numerals(Wide) /\ m.granted \in BOOLEAN
  BY DEF WireVoteResponse
<1>2. PICK x \in Seq(Byte) : x = U64(m.term)
  BY <1>1, U64Field
<1>3. PICK y \in Seq(Byte) : y = Bool(m.granted)
  BY <1>1, BoolField
<1>4. Payload(m) = x \o y
  BY <1>1, <1>2, <1>3 DEF Payload
<1>5. x \o y \in Seq(Byte)
  BY Unsplit
<1>6. (x \o y) \o b = x \o (y \o b)
  BY Joined
<1>7. QED
  BY <1>1, <1>2, <1>3, <1>4, <1>5, <1>6

\* What was written as a VoteResponse is read as it.
LEMMA AnswerRead ==
  ASSUME NEW m \in WireVoteResponse, NEW b \in Seq(Byte)
  PROVE  ReadVoteResponse(Payload(m) \o b) = At(b, m)
<1>1. m.term \in Numerals(Wide) /\ m.granted \in BOOLEAN
  BY AnswerPieces
<1>2. PICK y \in Seq(Byte) : y = Bool(m.granted) \o b
  BY <1>1, BoolField
<1>3. PICK s \in Seq(Byte) : s = U64(m.term) \o y
  BY <1>1, U64Field
<1>4. Payload(m) \o b = s
  BY <1>2, <1>3, AnswerPieces
<1>5. PICK term, granted : AnswerSteps(s, term, granted)
  BY DEF AnswerSteps
<1>6. term = At(y, m.term)
  BY <1>1, <1>3, <1>5, U64Field DEF AnswerSteps
<1>7. granted = At(b, m.granted)
  BY <1>1, <1>2, <1>5, <1>6, BoolField DEF AnswerSteps
<1>8. /\ term.value = m.term /\ granted.value = m.granted
      /\ granted.error = "none" /\ granted.rest = b
  BY <1>6, <1>7, ReaderFields
<1>9. ReadVoteResponse(s) = At(granted.rest, m)
  BY <1>5, <1>8, AnswerBuilt
<1>10. QED
  BY <1>4, <1>8, <1>9

\* A VoteResponse that is cut short is truncated.
LEMMA AnswerShorter ==
  ASSUME NEW m \in WireVoteResponse, NEW p, Shorter(At(p, 0), Payload(m), 0)
  PROVE  ReadVoteResponse(p).error = "Truncated"
<1>1. m.term \in Numerals(Wide) /\ m.granted \in BOOLEAN
  BY <<>> \in Seq(Byte), AnswerPieces
<1>2. PICK b \in Seq(Byte) : b = <<>>
  BY <<>> \in Seq(Byte), Zenon
<1>3. PICK y \in Seq(Byte) : y = Bool(m.granted) \o b
  BY <1>1, BoolField
<1>4. Payload(m) = U64(m.term) \o y
  <2>1. Payload(m) \o b = U64(m.term) \o y
    BY <1>3, AnswerPieces
  <2>2. Payload(m) \o <<>> = Payload(m)
    BY AnswerPieces, ConcatEmptySeq
  <2>3. QED
    BY <1>2, <2>1, <2>2
<1>5. PICK term, granted : AnswerSteps(p, term, granted)
  BY DEF AnswerSteps
<1>6. Shorter(term, y, m.term)
  BY <1>1, <1>4, <1>5, U64Field DEF AnswerSteps
<1>7. Shorter(granted, b, m.granted)
  BY <1>1, <1>3, <1>5, <1>6, BoolField DEF AnswerSteps
<1>8. granted.error = "Truncated"
  BY <1>2, <1>7, NothingShorter, MissingStays
<1>9. QED
  BY <1>5, <1>8, AnswerError

\* What is read as a VoteResponse was written as one.
LEMMA AnswerTaken ==
  ASSUME NEW s \in Seq(Byte), ReadVoteResponse(s).error = "none"
  PROVE  Took(WireVoteResponse, s, ReadVoteResponse(s))
<1>1. PICK term, granted : AnswerSteps(s, term, granted)
  BY DEF AnswerSteps
<1>2. term = TakeU64(At(s, 0)) /\ granted = TakeBool(term)
  BY <1>1 DEF AnswerSteps
<1>3. granted.error = "none" /\ term.error = "none"
  <2>1. granted.error = "none"
    BY <1>1, AnswerError
  <2>2. QED
    BY <1>2, <2>1, BoolSound
<1>4. PICK n \in Numerals(Wide), y \in Seq(Byte) : s = Number(n, Wide) \o y /\ term = At(y, n)
  <2>1. NumberTook(s, Wide, term)
    BY <1>2, <1>3, U64Back
  <2>2. QED
    BY <2>1 DEF NumberTook
<1>5. PICK g \in BOOLEAN, b \in Seq(Byte) : y = Bool(g) \o b /\ granted = At(b, g)
  <2>1. BoolTook(y, granted)
    BY <1>2, <1>3, <1>4, BoolTaken
  <2>2. QED
    BY <2>1 DEF BoolTook
<1>6. PICK m \in WireVoteResponse : m.term = n /\ m.granted = g
  <2>1. [kind |-> "VoteResponse", term |-> n, granted |-> g] \in WireVoteResponse
    BY DEF WireVoteResponse
  <2>2. QED
    BY <2>1
<1>7. s = Payload(m) \o b
  BY <1>4, <1>5, <1>6, AnswerPieces DEF U64
<1>8. ReadVoteResponse(s) = At(b, m)
  <2>1. term.value = m.term /\ granted.value = m.granted /\ granted.rest = b
    BY <1>4, <1>5, <1>6, ReaderFields
  <2>2. ReadVoteResponse(s) = At(granted.rest, m)
    BY <1>1, <1>3, <2>1, AnswerBuilt
  <2>3. QED
    BY <2>1, <2>2
<1>9. QED
  BY <1>7, <1>8 DEF Took

\* The steps of decode_message that read a AppendResponse.
AckSteps(s, term, success, match) ==
  term = TakeU64(At(s, 0)) /\ success = TakeBool(term) /\ match = TakeU64(success)

\* The AppendResponse of these steps is what they read.
LEMMA AckStepsRead ==
  ASSUME NEW s, NEW term, NEW success, NEW match, AckSteps(s, term, success, match)
  PROVE  ReadAppendResponse(s) =
           [match EXCEPT !.value = [kind |-> "AppendResponse", term |-> term.value,
                                    success |-> success.value,
                                    match_index |-> match.value]]
BY DEF AckSteps, ReadAppendResponse, Reader, At

\* Its error is the last one.
LEMMA AckError ==
  ASSUME NEW s, NEW term, NEW success, NEW match, AckSteps(s, term, success, match)
  PROVE  ReadAppendResponse(s).error = match.error
<1>1. Shape(match)
  BY AtShape, ReadersShape DEF AckSteps
<1>2. PICK u : u = [kind |-> "AppendResponse", term |-> term.value,
                    success |-> success.value, match_index |-> match.value]
  OBVIOUS
<1>3. ReadAppendResponse(s) = [match EXCEPT !.value = u]
  BY <1>2, AckStepsRead
<1>4. QED
  BY <1>1, <1>3, BuiltError

\* Without an error it is the message of the values read.
LEMMA AckBuilt ==
  ASSUME NEW s, NEW term, NEW success, NEW match, AckSteps(s, term, success, match),
         match.error = "none", NEW m \in WireAppendResponse,
         term.value = m.term, success.value = m.success, match.value = m.match_index
  PROVE  ReadAppendResponse(s) = At(match.rest, m)
<1>1. m = [kind |-> "AppendResponse", term |-> m.term, success |-> m.success,
           match_index |-> m.match_index]
  BY DEF WireAppendResponse
<1>2. PICK u : u = [kind |-> "AppendResponse", term |-> term.value,
                    success |-> success.value, match_index |-> match.value]
  OBVIOUS
<1>3. u = m
  BY <1>1, <1>2
<1>4. ReadAppendResponse(s) = [match EXCEPT !.value = u]
  BY <1>2, AckStepsRead
<1>5. Shape(match)
  BY AtShape, ReadersShape DEF AckSteps
<1>6. [match EXCEPT !.value = m] = At(match.rest, m)
  BY <1>5, BuiltAt
<1>7. QED
  BY <1>3, <1>4, <1>6

\* An answer to entries is written as a number, a boolean and a number.
LEMMA AckPieces ==
  ASSUME NEW m \in WireAppendResponse, NEW b \in Seq(Byte)
  PROVE  /\ m.term \in Numerals(Wide) /\ m.success \in BOOLEAN
         /\ m.match_index \in Numerals(Wide)
         /\ Payload(m) \in Seq(Byte)
         /\ Payload(m) \o b
              = U64(m.term) \o (Bool(m.success) \o (U64(m.match_index) \o b))
<1>1. /\ m.kind = "AppendResponse" /\ m.term \in Numerals(Wide) /\ m.success \in BOOLEAN
      /\ m.match_index \in Numerals(Wide)
  BY DEF WireAppendResponse
<1>2. PICK x \in Seq(Byte), z \in Seq(Byte) : x = U64(m.term) /\ z = U64(m.match_index)
  BY <1>1, U64Field
<1>3. PICK y \in Seq(Byte) : y = Bool(m.success)
  BY <1>1, BoolField
<1>4. Payload(m) = (x \o y) \o z
  BY <1>1, <1>2, <1>3 DEF Payload
<1>5. x \o y \in Seq(Byte) /\ (x \o y) \o z \in Seq(Byte) /\ z \o b \in Seq(Byte)
  BY Unsplit
<1>6. ((x \o y) \o z) \o b = (x \o y) \o (z \o b)
  BY <1>5, Joined
<1>7. (x \o y) \o (z \o b) = x \o (y \o (z \o b))
  <2>1. PICK w \in Seq(Byte) : w = z \o b
    BY <1>5
  <2>2. (x \o y) \o w = x \o (y \o w)
    BY Joined
  <2>3. QED
    BY <2>1, <2>2
<1>8. QED
  BY <1>1, <1>2, <1>3, <1>4, <1>5, <1>6, <1>7

\* What was written as a AppendResponse is read as it.
LEMMA AckRead ==
  ASSUME NEW m \in WireAppendResponse, NEW b \in Seq(Byte)
  PROVE  ReadAppendResponse(Payload(m) \o b) = At(b, m)
<1>1. /\ m.term \in Numerals(Wide) /\ m.success \in BOOLEAN
      /\ m.match_index \in Numerals(Wide)
  BY AckPieces
<1>2. PICK z \in Seq(Byte) : z = U64(m.match_index) \o b
  BY <1>1, U64Field
<1>3. PICK y \in Seq(Byte) : y = Bool(m.success) \o z
  BY <1>1, BoolField
<1>4. PICK s \in Seq(Byte) : s = U64(m.term) \o y
  BY <1>1, U64Field
<1>5. Payload(m) \o b = s
  BY <1>2, <1>3, <1>4, AckPieces
<1>6. PICK term, success, match : AckSteps(s, term, success, match)
  BY DEF AckSteps
<1>7. term = At(y, m.term)
  BY <1>1, <1>4, <1>6, U64Field DEF AckSteps
<1>8. success = At(z, m.success)
  BY <1>1, <1>3, <1>6, <1>7, BoolField DEF AckSteps
<1>9. match = At(b, m.match_index)
  BY <1>1, <1>2, <1>6, <1>8, U64Field DEF AckSteps
<1>10. /\ term.value = m.term /\ success.value = m.success
       /\ match.value = m.match_index /\ match.error = "none" /\ match.rest = b
  BY <1>7, <1>8, <1>9, ReaderFields
<1>11. ReadAppendResponse(s) = At(match.rest, m)
  BY <1>6, <1>10, AckBuilt
<1>12. QED
  BY <1>5, <1>10, <1>11

\* A AppendResponse that is cut short is truncated.
LEMMA AckShorter ==
  ASSUME NEW m \in WireAppendResponse, NEW p, Shorter(At(p, 0), Payload(m), 0)
  PROVE  ReadAppendResponse(p).error = "Truncated"
<1>1. /\ m.term \in Numerals(Wide) /\ m.success \in BOOLEAN
      /\ m.match_index \in Numerals(Wide)
  BY <<>> \in Seq(Byte), AckPieces
<1>2. PICK b \in Seq(Byte) : b = <<>>
  BY <<>> \in Seq(Byte), Zenon
<1>3. PICK z \in Seq(Byte) : z = U64(m.match_index) \o b
  BY <1>1, U64Field
<1>4. PICK y \in Seq(Byte) : y = Bool(m.success) \o z
  BY <1>1, BoolField
<1>5. Payload(m) = U64(m.term) \o y
  <2>1. Payload(m) \o b = U64(m.term) \o y
    BY <1>3, <1>4, AckPieces
  <2>2. Payload(m) \o <<>> = Payload(m)
    BY AckPieces, ConcatEmptySeq
  <2>3. QED
    BY <1>2, <2>1, <2>2
<1>6. PICK term, success, match : AckSteps(p, term, success, match)
  BY DEF AckSteps
<1>7. Shorter(term, y, m.term)
  BY <1>1, <1>5, <1>6, U64Field DEF AckSteps
<1>8. Shorter(success, z, m.success)
  BY <1>1, <1>4, <1>6, <1>7, BoolField DEF AckSteps
<1>9. Shorter(match, b, m.match_index)
  BY <1>1, <1>3, <1>6, <1>8, U64Field DEF AckSteps
<1>10. match.error = "Truncated"
  BY <1>2, <1>9, NothingShorter, MissingStays
<1>11. QED
  BY <1>6, <1>10, AckError

\* What is read as a AppendResponse was written as one.
LEMMA AckTaken ==
  ASSUME NEW s \in Seq(Byte), ReadAppendResponse(s).error = "none"
  PROVE  Took(WireAppendResponse, s, ReadAppendResponse(s))
<1>1. PICK term, success, match : AckSteps(s, term, success, match)
  BY DEF AckSteps
<1>2. term = TakeU64(At(s, 0)) /\ success = TakeBool(term) /\ match = TakeU64(success)
  BY <1>1 DEF AckSteps
<1>3. match.error = "none" /\ success.error = "none" /\ term.error = "none"
  <2>1. match.error = "none"
    BY <1>1, AckError
  <2>2. success.error = "none"
    BY <1>2, <2>1, U64Sound
  <2>3. QED
    BY <1>2, <2>1, <2>2, BoolSound
<1>4. PICK n \in Numerals(Wide), y \in Seq(Byte) : s = Number(n, Wide) \o y /\ term = At(y, n)
  <2>1. NumberTook(s, Wide, term)
    BY <1>2, <1>3, U64Back
  <2>2. QED
    BY <2>1 DEF NumberTook
<1>5. PICK g \in BOOLEAN, z \in Seq(Byte) : y = Bool(g) \o z /\ success = At(z, g)
  <2>1. BoolTook(y, success)
    BY <1>2, <1>3, <1>4, BoolTaken
  <2>2. QED
    BY <2>1 DEF BoolTook
<1>6. PICK i \in Numerals(Wide), b \in Seq(Byte) : z = Number(i, Wide) \o b /\ match = At(b, i)
  <2>1. NumberTook(z, Wide, match)
    BY <1>2, <1>3, <1>5, U64Back
  <2>2. QED
    BY <2>1 DEF NumberTook
<1>7. PICK m \in WireAppendResponse : m.term = n /\ m.success = g /\ m.match_index = i
  <2>1. [kind |-> "AppendResponse", term |-> n, success |-> g, match_index |-> i]
          \in WireAppendResponse
    BY DEF WireAppendResponse
  <2>2. QED
    BY <2>1
<1>8. s = Payload(m) \o b
  BY <1>4, <1>5, <1>6, <1>7, AckPieces DEF U64
<1>9. ReadAppendResponse(s) = At(b, m)
  <2>1. /\ term.value = m.term /\ success.value = m.success
        /\ match.value = m.match_index /\ match.rest = b
    BY <1>4, <1>5, <1>6, <1>7, ReaderFields
  <2>2. ReadAppendResponse(s) = At(match.rest, m)
    BY <1>1, <1>3, <2>1, AckBuilt
  <2>3. QED
    BY <2>1, <2>2
<1>10. QED
  BY <1>8, <1>9 DEF Took

\* The steps of decode_message that read a AppendEntries.
AppendSteps(s, term, index, prev, commit, count, entries) ==
  /\ term = TakeU64(At(s, 0)) /\ index = TakeU64(term) /\ prev = TakeU64(index)
  /\ commit = TakeU64(prev) /\ count = TakeU32(commit) /\ entries = TakeEntries(count)

\* The AppendEntries of these steps is what they read.
LEMMA AppendStepsRead ==
  ASSUME NEW s, NEW term, NEW index, NEW prev, NEW commit, NEW count, NEW entries,
         AppendSteps(s, term, index, prev, commit, count, entries)
  PROVE  ReadAppendEntries(s) =
           [entries EXCEPT !.value = [kind |-> "AppendEntries", term |-> term.value,
                                      prev_index |-> index.value, prev_term |-> prev.value,
                                      leader_commit |-> commit.value,
                                      entries |-> entries.value]]
BY DEF AppendSteps, ReadAppendEntries, Reader, At

\* Reading entries gives a reader whatever it starts from.
LEMMA EntriesShape ==
  ASSUME NEW s \in Seq(Byte), NEW x
  PROVE  Shape(TakeEntries(TakeU32(TakeU64(TakeU64(TakeU64(TakeU64(At(s, x))))))))
<1>1. PICK term : term = TakeU64(At(s, x))
  OBVIOUS
<1>2. PICK index : index = TakeU64(term)
  OBVIOUS
<1>3. PICK prev : prev = TakeU64(index)
  OBVIOUS
<1>4. PICK commit : commit = TakeU64(prev)
  OBVIOUS
<1>5. PICK count : count = TakeU32(commit)
  OBVIOUS
<1>6. Shape(count)
  <2>1. Shape(term)
    BY <1>1, AtShape, ReadersShape
  <2>2. Shape(index)
    BY <1>2, <2>1, ReadersShape
  <2>3. Shape(prev)
    BY <1>3, <2>2, ReadersShape
  <2>4. Shape(commit)
    BY <1>4, <2>3, ReadersShape
  <2>5. QED
    BY <1>5, <2>4, ReadersShape
<1>7. CASE count.error # "none"
  <2>1. TakeEntries(count) = count
    BY <1>7 DEF TakeEntries
  <2>2. QED
    BY <1>1, <1>2, <1>3, <1>4, <1>5, <1>6, <2>1
<1>8. CASE count.error = "none"
  <2>1. commit.error = "none"
    BY <1>5, <1>8, U32Sound
  <2>2. prev.error = "none"
    BY <1>4, <2>1, U64Sound
  <2>3. index.error = "none"
    BY <1>3, <2>2, U64Sound
  <2>4. term.error = "none"
    BY <1>2, <2>3, U64Sound
  <2>5. PICK n1 \in Numerals(Wide), s1 \in Seq(Byte) : term = At(s1, n1)
    BY <1>1, <2>4, U64Back DEF NumberTook
  <2>6. PICK n2 \in Numerals(Wide), s2 \in Seq(Byte) : index = At(s2, n2)
    BY <1>2, <2>3, <2>5, U64Back DEF NumberTook
  <2>7. PICK n3 \in Numerals(Wide), s3 \in Seq(Byte) : prev = At(s3, n3)
    BY <1>3, <2>2, <2>6, U64Back DEF NumberTook
  <2>8. PICK n4 \in Numerals(Wide), s4 \in Seq(Byte) : commit = At(s4, n4)
    BY <1>4, <2>1, <2>7, U64Back DEF NumberTook
  <2>9. PICK n \in Numerals(Narrow), p \in Seq(Byte) : count = At(p, n)
    BY <1>5, <1>8, <2>8, U32Back DEF NumberTook
  <2>10. n \in Nat
    BY DEF Numerals
  <2>11. PICK after \in [0 .. n -> EntryReader] : after = EntriesTaken(At(p, n), n)
    BY <2>10, EntriesFacts
  <2>12. Shape(after[n])
    <3>1. after[n] \in EntryReader
      BY <2>10, <2>11
    <3>2. QED
      BY <3>1 DEF EntryReader, Shape
  <2>13. Shape(Failed(count, "Truncated"))
    BY <1>6, FailedShape
  <2>14. count.value = n /\ count.rest = p
    BY <2>9, ReaderFields
  <2>15. TakeEntries(count) = Failed(count, "Truncated") \/ TakeEntries(count) = after[n]
    <3>1. EntriesTaken(count, n)[n] = after[n]
      BY <2>9, <2>11
    <3>2. \/ TakeEntries(count) = Failed(count, "Truncated")
          \/ TakeEntries(count) = EntriesTaken(count, n)[n]
      BY <1>8, <2>14 DEF TakeEntries
    <3>3. QED
      BY <3>1, <3>2
  <2>16. Shape(TakeEntries(count))
    BY <2>12, <2>13, <2>15
  <2>17. QED
    BY <1>1, <1>2, <1>3, <1>4, <1>5, <2>16
<1>9. QED
  BY <1>7, <1>8

\* The reader of entries has its three fields.
LEMMA AppendShape ==
  ASSUME NEW s \in Seq(Byte), NEW term, NEW index, NEW prev, NEW commit, NEW count,
         NEW entries, AppendSteps(s, term, index, prev, commit, count, entries)
  PROVE  Shape(entries)
BY EntriesShape DEF AppendSteps

\* Its error is the last one.
LEMMA AppendError ==
  ASSUME NEW s \in Seq(Byte), NEW term, NEW index, NEW prev, NEW commit, NEW count,
         NEW entries, AppendSteps(s, term, index, prev, commit, count, entries)
  PROVE  ReadAppendEntries(s).error = entries.error
<1>1. Shape(entries)
  BY AppendShape
<1>2. PICK u : u = [kind |-> "AppendEntries", term |-> term.value,
                    prev_index |-> index.value, prev_term |-> prev.value,
                    leader_commit |-> commit.value, entries |-> entries.value]
  OBVIOUS
<1>3. ReadAppendEntries(s) = [entries EXCEPT !.value = u]
  BY <1>2, AppendStepsRead
<1>4. QED
  BY <1>1, <1>3, BuiltError

\* Without an error it is the message of the values read.
LEMMA AppendBuilt ==
  ASSUME NEW s \in Seq(Byte), NEW term, NEW index, NEW prev, NEW commit, NEW count,
         NEW entries, AppendSteps(s, term, index, prev, commit, count, entries),
         entries.error = "none", NEW m \in WireAppendEntries,
         term.value = m.term, index.value = m.prev_index, prev.value = m.prev_term,
         commit.value = m.leader_commit, entries.value = m.entries
  PROVE  ReadAppendEntries(s) = At(entries.rest, m)
<1>1. m = [kind |-> "AppendEntries", term |-> m.term, prev_index |-> m.prev_index,
           prev_term |-> m.prev_term, leader_commit |-> m.leader_commit,
           entries |-> m.entries]
  BY DEF WireAppendEntries
<1>2. PICK u : u = [kind |-> "AppendEntries", term |-> term.value,
                    prev_index |-> index.value, prev_term |-> prev.value,
                    leader_commit |-> commit.value, entries |-> entries.value]
  OBVIOUS
<1>3. u = m
  BY <1>1, <1>2
<1>4. ReadAppendEntries(s) = [entries EXCEPT !.value = u]
  BY <1>2, AppendStepsRead
<1>5. Shape(entries)
  BY AppendShape
<1>6. [entries EXCEPT !.value = m] = At(entries.rest, m)
  BY <1>5, BuiltAt
<1>7. QED
  BY <1>3, <1>4, <1>6

\* Entries are written behind four numbers and their count.
LEMMA AppendPieces ==
  ASSUME NEW m \in WireAppendEntries, NEW b \in Seq(Byte)
  PROVE  /\ m.term \in Numerals(Wide) /\ m.prev_index \in Numerals(Wide)
         /\ m.prev_term \in Numerals(Wide) /\ m.leader_commit \in Numerals(Wide)
         /\ m.entries \in Seq(WireEntry) /\ Len(m.entries) \in Numerals(Narrow)
         /\ Payload(m) \in Seq(Byte)
         /\ Payload(m) \o b
              = U64(m.term) \o (U64(m.prev_index) \o (U64(m.prev_term)
                  \o (U64(m.leader_commit) \o (U32(Len(m.entries))
                    \o (EncodeEntries(m.entries) \o b)))))
<1>1. /\ m.kind = "AppendEntries" /\ m.term \in Numerals(Wide)
      /\ m.prev_index \in Numerals(Wide) /\ m.prev_term \in Numerals(Wide)
      /\ m.leader_commit \in Numerals(Wide)
      /\ m.entries \in Seq(WireEntry) /\ Fits(Len(m.entries), Narrow)
  BY DEF WireAppendEntries
<1>2. Len(m.entries) \in Numerals(Narrow)
  BY <1>1, LenProperties DEF Numerals
<1>3. PICK p \in Seq(Byte), q \in Seq(Byte), x \in Seq(Byte), y \in Seq(Byte) :
        /\ p = U64(m.term) /\ q = U64(m.prev_index)
        /\ x = U64(m.prev_term) /\ y = U64(m.leader_commit)
  BY <1>1, U64Field
<1>4. PICK z \in Seq(Byte) : z = U32(Len(m.entries))
  BY <1>2, U32Field
<1>5. PICK w \in Seq(Byte) : w = EncodeEntries(m.entries)
  BY <1>1, EncodedLength
<1>6. Payload(m) = ((((p \o q) \o x) \o y) \o z) \o w
  BY <1>1, <1>3, <1>4, <1>5 DEF Payload
<1>7. PICK pq \in Seq(Byte) : pq = p \o q
  BY Unsplit
<1>8. PICK px \in Seq(Byte) : px = pq \o x
  BY Unsplit
<1>9. PICK py \in Seq(Byte) : py = px \o y
  BY Unsplit
<1>10. PICK pz \in Seq(Byte) : pz = py \o z
  BY Unsplit
<1>11. Payload(m) = pz \o w /\ pz \o w \in Seq(Byte)
  BY <1>6, <1>7, <1>8, <1>9, <1>10, Unsplit
<1>12. PICK wb \in Seq(Byte) : wb = w \o b
  BY Unsplit
<1>13. PICK zb \in Seq(Byte) : zb = z \o wb
  BY Unsplit
<1>14. PICK yb \in Seq(Byte) : yb = y \o zb
  BY Unsplit
<1>15. PICK xb \in Seq(Byte) : xb = x \o yb
  BY Unsplit
<1>16. (pz \o w) \o b = pz \o wb
  <2>1. Joins(pz, w, b)
    BY AllJoin
  <2>2. QED
    BY <1>12, <2>1 DEF Joins
<1>17. pz \o wb = py \o zb
  <2>1. Joins(py, z, wb)
    BY AllJoin
  <2>2. QED
    BY <1>10, <1>13, <2>1 DEF Joins
<1>18. py \o zb = px \o yb
  <2>1. Joins(px, y, zb)
    BY AllJoin
  <2>2. QED
    BY <1>9, <1>14, <2>1 DEF Joins
<1>19. px \o yb = pq \o xb
  <2>1. Joins(pq, x, yb)
    BY AllJoin
  <2>2. QED
    BY <1>8, <1>15, <2>1 DEF Joins
<1>20. pq \o xb = p \o (q \o xb)
  <2>1. Joins(p, q, xb)
    BY AllJoin
  <2>2. QED
    BY <1>7, <2>1 DEF Joins
<1>21. Payload(m) \o b = p \o (q \o xb)
  BY <1>11, <1>16, <1>17, <1>18, <1>19, <1>20
<1>22. QED
  BY <1>1, <1>2, <1>3, <1>4, <1>5, <1>11, <1>12, <1>13, <1>14, <1>15, <1>21

\* What was written as a AppendEntries is read as it.
LEMMA AppendRead ==
  ASSUME NEW m \in WireAppendEntries, NEW b \in Seq(Byte)
  PROVE  ReadAppendEntries(Payload(m) \o b) = At(b, m)
<1>1. /\ m.term \in Numerals(Wide) /\ m.prev_index \in Numerals(Wide)
      /\ m.prev_term \in Numerals(Wide) /\ m.leader_commit \in Numerals(Wide)
      /\ m.entries \in Seq(WireEntry) /\ Len(m.entries) \in Numerals(Narrow)
  BY AppendPieces
<1>2. PICK y5 \in Seq(Byte) : y5 = EncodeEntries(m.entries) \o b
  BY <1>1, EncodedLength, Unsplit
<1>3. PICK y4 \in Seq(Byte) : y4 = U32(Len(m.entries)) \o y5
  BY <1>1, U32Field
<1>4. PICK y3 \in Seq(Byte) : y3 = U64(m.leader_commit) \o y4
  BY <1>1, U64Field
<1>5. PICK y2 \in Seq(Byte) : y2 = U64(m.prev_term) \o y3
  BY <1>1, U64Field
<1>6. PICK y1 \in Seq(Byte) : y1 = U64(m.prev_index) \o y2
  BY <1>1, U64Field
<1>7. PICK s \in Seq(Byte) : s = U64(m.term) \o y1
  BY <1>1, U64Field
<1>8. Payload(m) \o b = s
  BY <1>2, <1>3, <1>4, <1>5, <1>6, <1>7, AppendPieces
<1>9. PICK term, index, prev, commit, count, entries :
        AppendSteps(s, term, index, prev, commit, count, entries)
  BY DEF AppendSteps
<1>10. term = At(y1, m.term)
  BY <1>1, <1>7, <1>9, U64Field DEF AppendSteps
<1>11. index = At(y2, m.prev_index)
  BY <1>1, <1>6, <1>9, <1>10, U64Field DEF AppendSteps
<1>12. prev = At(y3, m.prev_term)
  BY <1>1, <1>5, <1>9, <1>11, U64Field DEF AppendSteps
<1>13. commit = At(y4, m.leader_commit)
  BY <1>1, <1>4, <1>9, <1>12, U64Field DEF AppendSteps
<1>14. count = At(y5, Len(m.entries))
  BY <1>1, <1>3, <1>9, <1>13, U32Field DEF AppendSteps
<1>15. entries = At(b, m.entries)
  BY <1>1, <1>2, <1>9, <1>14, EntriesRead DEF AppendSteps
<1>16. /\ term.value = m.term /\ index.value = m.prev_index /\ prev.value = m.prev_term
       /\ commit.value = m.leader_commit /\ entries.value = m.entries
       /\ entries.error = "none" /\ entries.rest = b
  BY <1>10, <1>11, <1>12, <1>13, <1>15, ReaderFields
<1>17. ReadAppendEntries(s) = At(entries.rest, m)
  BY <1>9, <1>16, AppendBuilt
<1>18. QED
  BY <1>8, <1>16, <1>17

\* A AppendEntries that is cut short is truncated.
LEMMA AppendShorter ==
  ASSUME NEW m \in WireAppendEntries, NEW p \in Seq(Byte), Shorter(At(p, 0), Payload(m), 0)
  PROVE  ReadAppendEntries(p).error = "Truncated"
<1>1. /\ m.term \in Numerals(Wide) /\ m.prev_index \in Numerals(Wide)
      /\ m.prev_term \in Numerals(Wide) /\ m.leader_commit \in Numerals(Wide)
      /\ m.entries \in Seq(WireEntry) /\ Len(m.entries) \in Numerals(Narrow)
  BY <<>> \in Seq(Byte), AppendPieces
<1>2. PICK b \in Seq(Byte) : b = <<>>
  BY <<>> \in Seq(Byte), Zenon
<1>3. PICK y5 \in Seq(Byte) : y5 = EncodeEntries(m.entries) \o b
  BY <1>1, EncodedLength, Unsplit
<1>4. PICK y4 \in Seq(Byte) : y4 = U32(Len(m.entries)) \o y5
  BY <1>1, U32Field
<1>5. PICK y3 \in Seq(Byte) : y3 = U64(m.leader_commit) \o y4
  BY <1>1, U64Field
<1>6. PICK y2 \in Seq(Byte) : y2 = U64(m.prev_term) \o y3
  BY <1>1, U64Field
<1>7. PICK y1 \in Seq(Byte) : y1 = U64(m.prev_index) \o y2
  BY <1>1, U64Field
<1>8. Payload(m) = U64(m.term) \o y1
  <2>1. Payload(m) \o b = U64(m.term) \o y1
    BY <1>3, <1>4, <1>5, <1>6, <1>7, AppendPieces
  <2>2. Payload(m) \o <<>> = Payload(m)
    BY AppendPieces, ConcatEmptySeq
  <2>3. QED
    BY <1>2, <2>1, <2>2
<1>9. PICK term, index, prev, commit, count, entries :
        AppendSteps(p, term, index, prev, commit, count, entries)
  BY DEF AppendSteps
<1>10. Shorter(term, y1, m.term)
  BY <1>1, <1>8, <1>9, U64Field DEF AppendSteps
<1>11. Shorter(index, y2, m.prev_index)
  BY <1>1, <1>7, <1>9, <1>10, U64Field DEF AppendSteps
<1>12. Shorter(prev, y3, m.prev_term)
  BY <1>1, <1>6, <1>9, <1>11, U64Field DEF AppendSteps
<1>13. Shorter(commit, y4, m.leader_commit)
  BY <1>1, <1>5, <1>9, <1>12, U64Field DEF AppendSteps
<1>14. Shorter(count, y5, Len(m.entries))
  BY <1>1, <1>4, <1>9, <1>13, U32Field DEF AppendSteps
<1>15. Shorter(entries, b, m.entries)
  BY <1>1, <1>3, <1>9, <1>14, EntriesShorter DEF AppendSteps
<1>16. entries.error = "Truncated"
  BY <1>2, <1>15, NothingShorter, MissingStays
<1>17. QED
  BY <1>9, <1>16, AppendError

\* What is read as a AppendEntries was written as one.
LEMMA AppendTaken ==
  ASSUME NEW s \in Seq(Byte), ReadAppendEntries(s).error = "none"
  PROVE  Took(WireAppendEntries, s, ReadAppendEntries(s))
<1>1. PICK term, index, prev, commit, count, entries :
        AppendSteps(s, term, index, prev, commit, count, entries)
  BY DEF AppendSteps
<1>2. /\ term = TakeU64(At(s, 0)) /\ index = TakeU64(term) /\ prev = TakeU64(index)
      /\ commit = TakeU64(prev) /\ count = TakeU32(commit) /\ entries = TakeEntries(count)
  BY <1>1 DEF AppendSteps
<1>3. /\ entries.error = "none" /\ count.error = "none" /\ commit.error = "none"
      /\ prev.error = "none" /\ index.error = "none" /\ term.error = "none"
  <2>1. entries.error = "none"
    BY <1>1, AppendError
  <2>2. count.error = "none"
    BY <1>2, <2>1, EntriesSound
  <2>3. commit.error = "none"
    BY <1>2, <2>2, U32Sound
  <2>4. prev.error = "none"
    BY <1>2, <2>3, U64Sound
  <2>5. index.error = "none"
    BY <1>2, <2>4, U64Sound
  <2>6. QED
    BY <1>2, <2>1, <2>2, <2>3, <2>4, <2>5, U64Sound
<1>4. PICK n1 \in Numerals(Wide), y1 \in Seq(Byte) :
        s = Number(n1, Wide) \o y1 /\ term = At(y1, n1)
  <2>1. NumberTook(s, Wide, term)
    BY <1>2, <1>3, U64Back
  <2>2. QED
    BY <2>1 DEF NumberTook
<1>5. PICK n2 \in Numerals(Wide), y2 \in Seq(Byte) :
        y1 = Number(n2, Wide) \o y2 /\ index = At(y2, n2)
  <2>1. NumberTook(y1, Wide, index)
    BY <1>2, <1>3, <1>4, U64Back
  <2>2. QED
    BY <2>1 DEF NumberTook
<1>6. PICK n3 \in Numerals(Wide), y3 \in Seq(Byte) :
        y2 = Number(n3, Wide) \o y3 /\ prev = At(y3, n3)
  <2>1. NumberTook(y2, Wide, prev)
    BY <1>2, <1>3, <1>5, U64Back
  <2>2. QED
    BY <2>1 DEF NumberTook
<1>7. PICK n4 \in Numerals(Wide), y4 \in Seq(Byte) :
        y3 = Number(n4, Wide) \o y4 /\ commit = At(y4, n4)
  <2>1. NumberTook(y3, Wide, commit)
    BY <1>2, <1>3, <1>6, U64Back
  <2>2. QED
    BY <2>1 DEF NumberTook
<1>8. PICK n \in Numerals(Narrow), y5 \in Seq(Byte) :
        y4 = Number(n, Narrow) \o y5 /\ count = At(y5, n)
  <2>1. NumberTook(y4, Narrow, count)
    BY <1>2, <1>3, <1>7, U32Back
  <2>2. QED
    BY <2>1 DEF NumberTook
<1>9. n \in Nat /\ Fits(n, Narrow)
  BY DEF Numerals
<1>10. PICK e \in Seq(WireEntry), b \in Seq(Byte) :
         Len(e) = n /\ y5 = EncodeEntries(e) \o b /\ entries = At(b, e)
  <2>1. EntriesTook(y5, n, entries)
    BY <1>2, <1>3, <1>8, <1>9, EntriesTakenBack
  <2>2. QED
    BY <2>1 DEF EntriesTook
<1>11. PICK m \in WireAppendEntries :
         /\ m.term = n1 /\ m.prev_index = n2 /\ m.prev_term = n3
         /\ m.leader_commit = n4 /\ m.entries = e
  <2>1. [kind |-> "AppendEntries", term |-> n1, prev_index |-> n2, prev_term |-> n3,
         leader_commit |-> n4, entries |-> e] \in WireAppendEntries
    BY <1>9, <1>10 DEF WireAppendEntries
  <2>2. QED
    BY <2>1
<1>12. s = Payload(m) \o b
  <2>1. /\ s = U64(n1) \o y1 /\ y1 = U64(n2) \o y2 /\ y2 = U64(n3) \o y3
        /\ y3 = U64(n4) \o y4 /\ y4 = U32(Len(e)) \o y5 /\ y5 = EncodeEntries(e) \o b
    BY <1>4, <1>5, <1>6, <1>7, <1>8, <1>10 DEF U64, U32
  <2>2. QED
    BY <1>11, <2>1, AppendPieces
<1>13. ReadAppendEntries(s) = At(b, m)
  <2>1. /\ term.value = m.term /\ index.value = m.prev_index /\ prev.value = m.prev_term
        /\ commit.value = m.leader_commit /\ entries.value = m.entries /\ entries.rest = b
    BY <1>4, <1>5, <1>6, <1>7, <1>10, <1>11, ReaderFields
  <2>2. ReadAppendEntries(s) = At(entries.rest, m)
    BY <1>1, <1>3, <2>1, AppendBuilt
  <2>3. QED
    BY <2>1, <2>2
<1>14. QED
  BY <1>12, <1>13 DEF Took

-----------------------------------------------------------------------------
(* Commands *)

\* A put, byte by byte: the tag, the length of the key, the key and the value.
LEMMA PutBytes ==
  ASSUME NEW k \in Seq(Nat), NEW v \in Seq(Nat), NEW l \in Nat
  PROVE  LET s == <<1, l>> \o k \o v
         IN /\ s \in Seq(Nat) /\ Len(s) = Len(k) + Len(v) + 2
            /\ s[1] = 1 /\ s[2] = l
            /\ \A j \in 1 .. Len(k) : s[j + 2] = k[j]
            /\ \A j \in 1 .. Len(v) : s[Len(k) + j + 2] = v[j]
<1>1. PICK n \in Nat, m \in Nat : n = Len(k) /\ m = Len(v)
  BY LenProperties
<1>2. PICK h \in Seq(Nat) : h = <<1, l>>
  <2>1. <<1, l>> \in Seq(Nat)
    OBVIOUS
  <2>2. QED
    BY <2>1, Zenon
<1>3. Len(h) = 2 /\ h[1] = 1 /\ h[2] = l
  BY <1>2
<1>4. PICK a \in Seq(Nat) : a = h \o k
  BY ConcatProperties
<1>5. /\ Len(a) = 2 + n
      /\ \A j \in 1 .. 2 + n : a[j] = IF j <= 2 THEN h[j] ELSE k[j - 2]
  <2>1. /\ Len(h \o k) = Len(h) + Len(k)
        /\ \A j \in 1 .. Len(h) + Len(k) :
             (h \o k)[j] = IF j <= Len(h) THEN h[j] ELSE k[j - Len(h)]
    BY ConcatProperties
  <2>2. QED
    BY <1>1, <1>3, <1>4, <2>1
<1>6. PICK s \in Seq(Nat) : s = a \o v
  BY ConcatProperties
<1>7. /\ Len(s) = 2 + n + m
      /\ \A j \in 1 .. 2 + n + m : s[j] = IF j <= 2 + n THEN a[j] ELSE v[j - (2 + n)]
  <2>1. /\ Len(a \o v) = Len(a) + Len(v)
        /\ \A j \in 1 .. Len(a) + Len(v) :
             (a \o v)[j] = IF j <= Len(a) THEN a[j] ELSE v[j - Len(a)]
    BY ConcatProperties
  <2>2. QED
    BY <1>1, <1>5, <1>6, <2>1
<1>8. s[1] = 1 /\ s[2] = l
  <2>1. /\ 1 \in 1 .. 2 + n + m /\ 1 \in 1 .. 2 + n /\ 1 <= 2 + n /\ 1 <= 2
        /\ 2 \in 1 .. 2 + n + m /\ 2 \in 1 .. 2 + n /\ 2 <= 2 + n /\ 2 <= 2
    OBVIOUS
  <2>2. s[1] = a[1] /\ s[2] = a[2] /\ a[1] = h[1] /\ a[2] = h[2]
    BY <1>5, <1>7, <2>1
  <2>3. QED
    BY <1>3, <2>2
<1>9. ASSUME NEW j \in 1 .. n PROVE s[j + 2] = k[j]
  <2>1. /\ j + 2 \in 1 .. 2 + n + m /\ j + 2 \in 1 .. 2 + n /\ j + 2 <= 2 + n
        /\ ~(j + 2 <= 2) /\ (j + 2) - 2 = j
    OBVIOUS
  <2>2. s[j + 2] = a[j + 2] /\ a[j + 2] = k[(j + 2) - 2]
    BY <1>5, <1>7, <2>1
  <2>3. QED
    BY <2>1, <2>2
<1>10. ASSUME NEW j \in 1 .. m PROVE s[n + j + 2] = v[j]
  <2>1. /\ n + j + 2 \in 1 .. 2 + n + m /\ ~(n + j + 2 <= 2 + n)
        /\ (n + j + 2) - (2 + n) = j
    OBVIOUS
  <2>2. s[n + j + 2] = v[(n + j + 2) - (2 + n)]
    BY <1>7, <2>1
  <2>3. QED
    BY <2>1, <2>2
<1>11. s = <<1, l>> \o k \o v
  BY <1>2, <1>4, <1>6
<1>12. Len(s) = n + m + 2
  BY <1>7
<1>13. QED
  BY <1>1, <1>8, <1>9, <1>10, <1>11, <1>12

\* A piece of a command.
PieceAt(s, a, from, to) ==
  /\ to = from + Len(a) - 1 /\ to <= Len(s)
  /\ \A j \in 1 .. Len(a) : s[from + j - 1] = a[j]

\* SubSeq finds the piece.
LEMMA PieceOf ==
  ASSUME NEW s \in Seq(Nat), NEW a \in Seq(Nat), NEW from \in Nat \ {0}, NEW to \in Int,
         PieceAt(s, a, from, to)
  PROVE  SubSeq(s, from, to) = a
<1>1. PICK n \in Nat, l \in Nat : n = Len(a) /\ l = Len(s)
  BY LenProperties
<1>2. \A j \in 1 .. l : s[j] \in Nat
  BY <1>1, ElementOfSeq
<1>3. to = from + n - 1 /\ to <= l /\ \A j \in 1 .. n : s[from + j - 1] = a[j]
  BY <1>1 DEF PieceAt
<1>4. \A j \in from .. to : s[j] \in Nat
  BY <1>2, <1>3
<1>5. PICK p : p = SubSeq(s, from, to)
  OBVIOUS
<1>6. /\ p \in Seq(Nat) /\ Len(p) = IF from <= to THEN to - from + 1 ELSE 0
      /\ \A j \in 1 .. to - from + 1 : p[j] = s[from + j - 1]
  BY <1>4, <1>5, from \in Int, SubSeqProperties
<1>7. Len(p) = n /\ to - from + 1 = n
  BY <1>3, <1>6
<1>8. \A j \in 1 .. n : p[j] = a[j]
  BY <1>3, <1>6, <1>7
<1>9. p = a
  BY <1>1, <1>6, <1>7, <1>8, SeqEqual
<1>10. QED
  BY <1>5, <1>9

\* Command::decode reads the put that was encoded.
LEMMA PutDecoded ==
  ASSUME NEW k \in Seq(Nat), NEW v \in Seq(Nat), Len(k) < LenLimit
  PROVE  DecodeCommand(EncodeCommand(Put(k, v))) = Put(k, v)
<1>1. PICK n \in Nat, m \in Nat : n = Len(k) /\ m = Len(v)
  BY LenProperties
<1>2. n % LenLimit = n
  <2>1. PICK limit \in Nat \ {0} : limit = LenLimit
    BY LenLimitAssumption
  <2>2. n < limit
    BY <1>1, <2>1
  <2>3. n % limit = n
    BY <2>2
  <2>4. QED
    BY <2>1, <2>3
<1>3. PICK s : s = <<1, n>> \o k \o v
  OBVIOUS
<1>4. EncodeCommand(Put(k, v)) = s
  BY <1>1, <1>2, <1>3 DEF EncodeCommand, Put
<1>5. /\ s \in Seq(Nat) /\ Len(s) = n + m + 2 /\ s[1] = 1 /\ s[2] = n
      /\ \A j \in 1 .. n : s[j + 2] = k[j]
      /\ \A j \in 1 .. m : s[n + j + 2] = v[j]
  BY <1>1, <1>3, PutBytes
<1>6. IsPut(s)
  BY <1>5 DEF IsPut
<1>7. SubSeq(s, 3, n + 2) = k
  <2>1. n + 2 = 3 + n - 1 /\ n + 2 <= n + m + 2 /\ \A j \in 1 .. n : 3 + j - 1 = j + 2
    OBVIOUS
  <2>2. PieceAt(s, k, 3, n + 2)
    BY <1>1, <1>5, <2>1 DEF PieceAt
  <2>3. 3 \in Nat \ {0} /\ n + 2 \in Int
    OBVIOUS
  <2>4. QED
    BY <1>5, <2>2, <2>3, PieceOf
<1>8. SubSeq(s, n + 3, n + m + 2) = v
  <2>1. /\ n + m + 2 = (n + 3) + m - 1
        /\ \A j \in 1 .. m : (n + 3) + j - 1 = n + j + 2
    OBVIOUS
  <2>2. PieceAt(s, v, n + 3, n + m + 2)
    BY <1>1, <1>5, <2>1 DEF PieceAt
  <2>3. n + 3 \in Nat \ {0} /\ n + m + 2 \in Int
    OBVIOUS
  <2>4. QED
    BY <1>5, <2>2, <2>3, PieceOf
<1>9. DecodeCommand(s) = Put(SubSeq(s, 3, s[2] + 2), SubSeq(s, s[2] + 3, Len(s)))
  BY <1>6 DEF DecodeCommand, IsPut
<1>10. QED
  BY <1>4, <1>5, <1>7, <1>8, <1>9

\* A delete, byte by byte: the tag and the key.
LEMMA DeleteBytes ==
  ASSUME NEW k \in Seq(Nat)
  PROVE  LET s == <<2>> \o k
         IN s \in Seq(Nat) /\ s # <<>> /\ s[1] = 2 /\ Tail(s) = k
<1>1. PICK n \in Nat : n = Len(k)
  BY LenProperties
<1>2. PICK h \in Seq(Nat) : h = <<2>>
  <2>1. <<2>> \in Seq(Nat)
    OBVIOUS
  <2>2. QED
    BY <2>1, Zenon
<1>3. Len(h) = 1 /\ h[1] = 2
  BY <1>2
<1>4. PICK s \in Seq(Nat) : s = h \o k
  BY ConcatProperties
<1>5. Len(s) = 1 + n /\ \A j \in 1 .. 1 + n : s[j] = IF j <= 1 THEN h[j] ELSE k[j - 1]
  <2>1. /\ Len(h \o k) = Len(h) + Len(k)
        /\ \A j \in 1 .. Len(h) + Len(k) :
             (h \o k)[j] = IF j <= Len(h) THEN h[j] ELSE k[j - Len(h)]
    BY ConcatProperties
  <2>2. QED
    BY <1>1, <1>3, <1>4, <2>1
<1>6. s # <<>> /\ s[1] = 2
  <2>1. 1 \in 1 .. 1 + n /\ 1 <= 1
    OBVIOUS
  <2>2. s[1] = h[1]
    BY <1>5, <2>1
  <2>3. Len(s) # 0
    BY <1>5
  <2>4. QED
    BY <1>3, <2>2, <2>3, EmptySeq
<1>7. ASSUME NEW j \in 1 .. n PROVE s[j + 1] = k[j]
  <2>1. j + 1 \in 1 .. 1 + n /\ ~(j + 1 <= 1) /\ (j + 1) - 1 = j
    OBVIOUS
  <2>2. s[j + 1] = k[(j + 1) - 1]
    BY <1>5, <2>1
  <2>3. QED
    BY <2>1, <2>2
<1>8. PICK t \in Seq(Nat) : t = Tail(s)
  BY <1>6, HeadTailProperties
<1>9. Len(t) = n /\ \A j \in 1 .. n : t[j] = s[j + 1]
  <2>1. Len(Tail(s)) = Len(s) - 1 /\ \A j \in 1 .. Len(Tail(s)) : Tail(s)[j] = s[j + 1]
    BY <1>6, HeadTailProperties
  <2>2. Len(t) = n
    BY <1>5, <1>8, <2>1
  <2>3. QED
    BY <1>8, <2>1, <2>2
<1>10. t = k
  BY <1>1, <1>7, <1>9, SeqEqual
<1>11. s = <<2>> \o k
  BY <1>2, <1>4
<1>12. QED
  BY <1>6, <1>8, <1>10, <1>11

\* Command::decode reads the delete that was encoded.
LEMMA DeleteDecoded ==
  ASSUME NEW k \in Seq(Nat)
  PROVE  DecodeCommand(EncodeCommand(Delete(k))) = Delete(k)
<1>1. PICK s : s = <<2>> \o k
  OBVIOUS
<1>2. EncodeCommand(Delete(k)) = s
  BY <1>1 DEF EncodeCommand, Delete
<1>3. s # <<>> /\ s[1] = 2 /\ Tail(s) = k
  BY <1>1, DeleteBytes
<1>4. ~IsPut(s)
  BY <1>3 DEF IsPut
<1>5. DecodeCommand(s) = Delete(Tail(s))
  BY <1>3, <1>4 DEF DecodeCommand
<1>6. QED
  BY <1>2, <1>3, <1>5

\* What is decoded as a put is the encoding of that put: the length is the
\* length of the key, and all of the rest is the value.
LEMMA PutEncoded ==
  ASSUME NEW s \in Seq(Nat), IsPut(s), s[2] < LenLimit
  PROVE  EncodeCommand(DecodeCommand(s)) = s
<1>1. PICK l \in Nat : l = Len(s)
  BY LenProperties
<1>2. l >= 2 /\ s[1] = 1 /\ s[2] <= l - 2 /\ \A j \in 1 .. l : s[j] \in Nat
  BY <1>1, ElementOfSeq DEF IsPut
<1>3. PICK n \in Nat : n = s[2]
  <2>1. 2 \in 1 .. l
    BY <1>2
  <2>2. QED
    BY <1>2, <2>1
<1>4. n <= l - 2
  BY <1>2, <1>3
<1>5. n % LenLimit = n
  <2>1. PICK limit \in Nat \ {0} : limit = LenLimit
    BY LenLimitAssumption
  <2>2. n < limit
    BY <1>3, <2>1
  <2>3. n % limit = n
    BY <2>2
  <2>4. QED
    BY <2>1, <2>3
<1>6. PICK k \in Seq(Nat) : k = SubSeq(s, 3, n + 2)
  <2>1. \A j \in 3 .. n + 2 : s[j] \in Nat
    BY <1>2, <1>4
  <2>2. 3 \in Int /\ n + 2 \in Int
    OBVIOUS
  <2>3. QED
    BY <2>1, <2>2, SubSeqProperties
<1>7. Len(k) = n /\ \A j \in 1 .. n : k[j] = s[j + 2]
  <2>1. \A j \in 3 .. n + 2 : s[j] \in Nat
    BY <1>2, <1>4
  <2>2. 3 \in Int /\ n + 2 \in Int
    OBVIOUS
  <2>3. /\ Len(SubSeq(s, 3, n + 2)) = IF 3 <= n + 2 THEN (n + 2) - 3 + 1 ELSE 0
        /\ \A j \in 1 .. (n + 2) - 3 + 1 : SubSeq(s, 3, n + 2)[j] = s[3 + j - 1]
    BY <2>1, <2>2, SubSeqProperties
  <2>4. (n + 2) - 3 + 1 = n /\ \A j \in 1 .. n : 3 + j - 1 = j + 2
    OBVIOUS
  <2>5. Len(k) = n
    BY <1>6, <2>3, <2>4
  <2>6. QED
    BY <1>6, <2>3, <2>4, <2>5
<1>8. PICK m \in Nat : m = l - n - 2
  BY <1>4
<1>9. PICK v \in Seq(Nat) :
        v = SubSeq(s, n + 3, l) /\ Len(v) = m /\ \A j \in 1 .. m : v[j] = s[n + j + 2]
  <2>1. PICK from \in Int : from = n + 3
    OBVIOUS
  <2>2. \A j \in from .. l : s[j] \in Nat
    BY <1>2, <2>1
  <2>3. PICK v : v = SubSeq(s, from, l)
    OBVIOUS
  <2>4. /\ v \in Seq(Nat) /\ Len(v) = IF from <= l THEN l - from + 1 ELSE 0
        /\ \A j \in 1 .. l - from + 1 : v[j] = s[from + j - 1]
    BY <2>2, <2>3, l \in Int, SubSeqProperties
  <2>5. l - from + 1 = m /\ \A j \in 1 .. m : from + j - 1 = n + j + 2
    BY <1>8, <2>1
  <2>6. Len(v) = m
    BY <1>4, <1>8, <2>1, <2>4
  <2>7. v = SubSeq(s, n + 3, l)
    BY <2>1, <2>3
  <2>8. \A j \in 1 .. m : v[j] = s[n + j + 2]
    BY <2>4, <2>5
  <2>9. v \in Seq(Nat)
    BY <2>4
  <2>10. QED
    BY <2>6, <2>7, <2>8, <2>9, Zenon
<1>10. DecodeCommand(s) = Put(k, v)
  <2>1. DecodeCommand(s) = Put(SubSeq(s, 3, s[2] + 2), SubSeq(s, s[2] + 3, Len(s)))
    BY DEF DecodeCommand, IsPut
  <2>2. QED
    BY <1>1, <1>3, <1>6, <1>9, <2>1
<1>11. EncodeCommand(Put(k, v)) = <<1, n>> \o k \o v
  BY <1>5, <1>7 DEF EncodeCommand, Put
<1>12. PICK e : e = <<1, n>> \o k \o v
  OBVIOUS
<1>13. /\ e \in Seq(Nat) /\ Len(e) = n + m + 2 /\ e[1] = 1 /\ e[2] = n
       /\ \A j \in 1 .. n : e[j + 2] = k[j]
       /\ \A j \in 1 .. m : e[n + j + 2] = v[j]
  <2>1. n = Len(k) /\ m = Len(v)
    BY <1>7, <1>9
  <2>2. QED
    BY <1>12, <2>1, PutBytes
<1>14. ASSUME NEW j \in 1 .. l PROVE e[j] = s[j]
  <2>1. CASE j = 1
    BY <1>2, <1>13, <2>1
  <2>2. CASE j = 2
    BY <1>3, <1>13, <2>2
  <2>3. CASE j > 2 /\ j <= n + 2
    <3>1. PICK i \in 1 .. n : j = i + 2
      <4>1. j - 2 \in 1 .. n /\ j = (j - 2) + 2
        BY <2>3
      <4>2. QED
        BY <4>1
    <3>2. QED
      BY <1>7, <1>13, <3>1
  <2>4. CASE j > n + 2
    <3>1. PICK i \in 1 .. m : j = n + i + 2
      <4>1. j - n - 2 \in 1 .. m /\ j = n + (j - n - 2) + 2
        BY <1>8, <2>4
      <4>2. QED
        BY <4>1
    <3>2. QED
      BY <1>9, <1>13, <3>1
  <2>5. QED
    BY <2>1, <2>2, <2>3, <2>4
<1>15. Len(e) = l
  BY <1>8, <1>13
<1>16. e = s
  BY <1>1, <1>13, <1>14, <1>15, SeqEqual
<1>17. QED
  BY <1>10, <1>11, <1>12, <1>16

\* So is what is decoded as a delete.
LEMMA DeleteEncoded ==
  ASSUME NEW s \in Seq(Nat), s # <<>>, s[1] = 2, ~IsPut(s)
  PROVE  EncodeCommand(DecodeCommand(s)) = s
<1>1. PICK l \in Nat : l = Len(s)
  BY LenProperties
<1>2. PICK t \in Seq(Nat) : t = Tail(s)
  BY HeadTailProperties
<1>3. DecodeCommand(s) = Delete(t)
  BY <1>2 DEF DecodeCommand
<1>4. EncodeCommand(Delete(t)) = <<2>> \o t
  BY DEF EncodeCommand, Delete
<1>5. PICK e : e = <<2>> \o t
  OBVIOUS
<1>6. e \in Seq(Nat) /\ e # <<>> /\ e[1] = 2 /\ Tail(e) = t
  BY <1>5, DeleteBytes
<1>7. l # 0 /\ Len(t) = l - 1 /\ \A j \in 1 .. l - 1 : t[j] = s[j + 1]
  <2>1. Len(Tail(s)) = Len(s) - 1 /\ \A j \in 1 .. Len(Tail(s)) : Tail(s)[j] = s[j + 1]
    BY HeadTailProperties
  <2>2. Len(s) # 0
    BY EmptySeq
  <2>3. Len(t) = l - 1
    BY <1>1, <1>2, <2>1
  <2>4. QED
    BY <1>1, <1>2, <2>1, <2>2, <2>3
<1>8. PICK n \in Nat : n = Len(e)
  BY <1>6, LenProperties
<1>9. n # 0 /\ Len(t) = n - 1 /\ \A j \in 1 .. n - 1 : t[j] = e[j + 1]
  <2>1. Len(Tail(e)) = Len(e) - 1 /\ \A j \in 1 .. Len(Tail(e)) : Tail(e)[j] = e[j + 1]
    BY <1>6, HeadTailProperties
  <2>2. Len(e) # 0
    BY <1>6, EmptySeq
  <2>3. Len(t) = n - 1
    BY <1>6, <1>8, <2>1
  <2>4. QED
    BY <1>6, <1>8, <2>1, <2>2, <2>3
<1>10. n = l
  BY <1>7, <1>9
<1>11. ASSUME NEW j \in 1 .. l PROVE e[j] = s[j]
  <2>1. CASE j = 1
    BY <1>6, <2>1
  <2>2. CASE j # 1
    <3>1. PICK i \in 1 .. l - 1 : j = i + 1
      <4>1. j - 1 \in 1 .. l - 1 /\ j = (j - 1) + 1
        BY <2>2
      <4>2. QED
        BY <4>1
    <3>2. QED
      BY <1>7, <1>9, <1>10, <3>1
  <2>3. QED
    BY <2>1, <2>2
<1>12. e = s
  BY <1>1, <1>6, <1>8, <1>10, <1>11, SeqEqual
<1>13. QED
  BY <1>3, <1>4, <1>5, <1>12

\* Bytes that are no encoding are no command (Command::decode).
LEMMA CommandOnly ==
  ASSUME NEW s \in Seq(Byte), DecodeCommand(s) # NoCommand
  PROVE  EncodeCommand(DecodeCommand(s)) = s
<1>1. PICK base \in Nat \ {0} : base = Base /\ base <= LenLimit
  BY WidthAssumption, InputsAssumption
<1>2. PICK limit \in Nat \ {0} : limit = LenLimit
  BY LenLimitAssumption
<1>3. \A x \in Byte : x \in Nat /\ x < LenLimit
  BY <1>1, <1>2 DEF Byte
<1>4. s \in Seq(Nat)
  BY <1>3, SeqMonotonic
<1>5. CASE IsPut(s)
  <2>1. PICK l \in Nat : l = Len(s)
    BY LenProperties
  <2>2. 2 \in 1 .. l
    BY <1>5, <2>1 DEF IsPut
  <2>3. s[2] < LenLimit
    BY <1>3, <2>1, <2>2, ElementOfSeq
  <2>4. QED
    BY <1>4, <1>5, <2>3, PutEncoded
<1>6. CASE ~IsPut(s)
  <2>1. s # <<>> /\ s[1] = 2
    BY <1>6 DEF DecodeCommand
  <2>2. QED
    BY <1>4, <1>6, <2>1, DeleteEncoded
<1>7. QED
  BY <1>5, <1>6

-----------------------------------------------------------------------------
(* Messages *)

\* A datagram of type t, s being its payload.
Frame(t, s) == [type |-> t, payload |-> s]

\* The type of the frame chooses the reading.
LEMMA FrameRead ==
  ASSUME NEW s
  PROVE  /\ ReadMessage(Frame(1, s)) = ReadRequestVote(s)
         /\ ReadMessage(Frame(2, s)) = ReadVoteResponse(s)
         /\ ReadMessage(Frame(3, s)) = ReadAppendEntries(s)
         /\ ReadMessage(Frame(4, s)) = ReadAppendResponse(s)
<1>1. \A t : Frame(t, s).type = t /\ Frame(t, s).payload = s
  BY DEF Frame
<1>2. ReadMessage(Frame(1, s)) = ReadRequestVote(s)
  BY <1>1 DEF ReadMessage
<1>3. ReadMessage(Frame(2, s)) = ReadVoteResponse(s)
  BY <1>1 DEF ReadMessage
<1>4. ReadMessage(Frame(3, s)) = ReadAppendEntries(s)
  BY <1>1 DEF ReadMessage
<1>5. ReadMessage(Frame(4, s)) = ReadAppendResponse(s)
  BY <1>1 DEF ReadMessage
<1>6. QED
  BY <1>2, <1>3, <1>4, <1>5

\* Any other type is an error.
LEMMA UnknownFrame ==
  ASSUME NEW t, NEW s, t \notin {1, 2, 3, 4}
  PROVE  ReadMessage(Frame(t, s)).error # "none"
<1>1. Frame(t, s).type = t /\ Frame(t, s).payload = s
  BY DEF Frame
<1>2. t # 1 /\ t # 2 /\ t # 3 /\ t # 4
  OBVIOUS
<1>3. ReadMessage(Frame(t, s)) = Failed(Reader(s), "UnknownType")
  BY <1>1, <1>2 DEF ReadMessage
<1>4. Failed(Reader(s), "UnknownType").error = "UnknownType"
  BY DEF Failed, Reader
<1>5. QED
  BY <1>3, <1>4

\* Each kind of message has a frame type of its own.
LEMMA FrameOf ==
  /\ \A m \in WireRequestVote : FrameType[m.kind] = 1
  /\ \A m \in WireVoteResponse : FrameType[m.kind] = 2
  /\ \A m \in WireAppendEntries : FrameType[m.kind] = 3
  /\ \A m \in WireAppendResponse : FrameType[m.kind] = 4
<1>1. \A m \in WireRequestVote : FrameType[m.kind] = 1
  BY DEF WireRequestVote, FrameType
<1>2. \A m \in WireVoteResponse : FrameType[m.kind] = 2
  BY DEF WireVoteResponse, FrameType
<1>3. \A m \in WireAppendEntries : FrameType[m.kind] = 3
  BY DEF WireAppendEntries, FrameType
<1>4. \A m \in WireAppendResponse : FrameType[m.kind] = 4
  BY DEF WireAppendResponse, FrameType
<1>5. QED
  BY <1>1, <1>2, <1>3, <1>4

\* What was written is read, up to where it ends.
LEMMA MessageRead ==
  ASSUME NEW m \in WireMessage, NEW b \in Seq(Byte)
  PROVE  /\ Payload(m) \in Seq(Byte)
         /\ ReadMessage(Frame(FrameType[m.kind], Payload(m) \o b)) = At(b, m)
<1>1. CASE m \in WireRequestVote
  BY <1>1, VotePieces, VoteRead, FrameOf, FrameRead
<1>2. CASE m \in WireVoteResponse
  BY <1>2, AnswerPieces, AnswerRead, FrameOf, FrameRead
<1>3. CASE m \in WireAppendEntries
  BY <1>3, AppendPieces, AppendRead, FrameOf, FrameRead
<1>4. CASE m \in WireAppendResponse
  BY <1>4, AckPieces, AckRead, FrameOf, FrameRead
<1>5. QED
  BY <1>1, <1>2, <1>3, <1>4 DEF WireMessage

\* What is cut short is truncated.
LEMMA MessageShorter ==
  ASSUME NEW m \in WireMessage, NEW p \in Seq(Byte), Shorter(At(p, 0), Payload(m), 0)
  PROVE  ReadMessage(Frame(FrameType[m.kind], p)).error = "Truncated"
<1>1. CASE m \in WireRequestVote
  BY <1>1, VoteShorter, FrameOf, FrameRead
<1>2. CASE m \in WireVoteResponse
  BY <1>2, AnswerShorter, FrameOf, FrameRead
<1>3. CASE m \in WireAppendEntries
  BY <1>3, AppendShorter, FrameOf, FrameRead
<1>4. CASE m \in WireAppendResponse
  BY <1>4, AckShorter, FrameOf, FrameRead
<1>5. QED
  BY <1>1, <1>2, <1>3, <1>4 DEF WireMessage

\* What is read was written.
TookMessage(t, s, r) ==
  \E m \in WireMessage, b \in Seq(Byte) :
    t = FrameType[m.kind] /\ s = Payload(m) \o b /\ r = At(b, m)

\* Every payload that is read was written.
LEMMA MessageTaken ==
  ASSUME NEW t, NEW s \in Seq(Byte), ReadMessage(Frame(t, s)).error = "none"
  PROVE  TookMessage(t, s, ReadMessage(Frame(t, s)))
<1>1. t \in {1, 2, 3, 4}
  BY UnknownFrame
<1>2. CASE t = 1
  <2>1. Took(WireRequestVote, s, ReadRequestVote(s))
    BY <1>2, FrameRead, VoteTaken
  <2>2. QED
    BY <1>2, <2>1, FrameOf, FrameRead DEF Took, TookMessage, WireMessage
<1>3. CASE t = 2
  <2>1. Took(WireVoteResponse, s, ReadVoteResponse(s))
    BY <1>3, FrameRead, AnswerTaken
  <2>2. QED
    BY <1>3, <2>1, FrameOf, FrameRead DEF Took, TookMessage, WireMessage
<1>4. CASE t = 3
  <2>1. Took(WireAppendEntries, s, ReadAppendEntries(s))
    BY <1>4, FrameRead, AppendTaken
  <2>2. QED
    BY <1>4, <2>1, FrameOf, FrameRead DEF Took, TookMessage, WireMessage
<1>5. CASE t = 4
  <2>1. Took(WireAppendResponse, s, ReadAppendResponse(s))
    BY <1>5, FrameRead, AckTaken
  <2>2. QED
    BY <1>5, <2>1, FrameOf, FrameRead DEF Took, TookMessage, WireMessage
<1>6. QED
  BY <1>1, <1>2, <1>3, <1>4, <1>5

\* The message must be the whole payload: of two readings, the one that ends
\* where the payload does is the only one that is kept.
LEMMA FinishedAt ==
  ASSUME NEW b, NEW m
  PROVE  IF b = <<>> THEN Finish(At(b, m)) = At(b, m)
         ELSE Finish(At(b, m)).error = "TrailingBytes"
<1>1. At(b, m).error = "none" /\ At(b, m).rest = b
  BY ReaderFields
<1>2. CASE b = <<>>
  BY <1>1, <1>2 DEF Finish
<1>3. CASE b # <<>>
  <2>1. Finish(At(b, m)) = Failed(At(b, m), "TrailingBytes")
    BY <1>1, <1>3 DEF Finish
  <2>2. Failed(At(b, m), "TrailingBytes").error = "TrailingBytes"
    BY DEF Failed, At
  <2>3. QED
    BY <1>3, <2>1, <2>2
<1>4. QED
  BY <1>2, <1>3

\* What is sent is what is read.
LEMMA MessageDecoded ==
  ASSUME NEW m \in WireMessage
  PROVE  DecodeMessage(EncodeMessage(m)) = [error |-> "none", message |-> m]
<1>1. PICK b \in Seq(Byte) : b = <<>>
  BY <<>> \in Seq(Byte), Zenon
<1>2. PICK s \in Seq(Byte) : s = Payload(m)
  BY <1>1, MessageRead
<1>3. s \o b = s
  BY <1>1, ConcatEmptySeq
<1>4. ReadMessage(Frame(FrameType[m.kind], s)) = At(b, m)
  BY <1>2, <1>3, MessageRead
<1>5. EncodeMessage(m) = Frame(FrameType[m.kind], s)
  BY <1>2 DEF EncodeMessage, Frame
<1>6. Finish(At(b, m)) = At(b, m)
  BY <1>1, FinishedAt
<1>7. At(b, m).error = "none" /\ At(b, m).value = m
  BY ReaderFields
<1>8. PICK r : r = Finish(ReadMessage(EncodeMessage(m)))
  OBVIOUS
<1>9. r.error = "none" /\ r.value = m
  BY <1>4, <1>5, <1>6, <1>7, <1>8
<1>10. DecodeMessage(EncodeMessage(m))
         = IF r.error # "none" THEN [error |-> r.error]
           ELSE [error |-> "none", message |-> r.value]
  BY <1>8 DEF DecodeMessage
<1>11. QED
  BY <1>9, <1>10

\* The error of a datagram is the error of its reading.
LEMMA DecodedError ==
  ASSUME NEW f
  PROVE  DecodeMessage(f).error = Finish(ReadMessage(f)).error
<1>1. PICK r : r = Finish(ReadMessage(f))
  OBVIOUS
<1>2. DecodeMessage(f) = IF r.error # "none" THEN [error |-> r.error]
                         ELSE [error |-> "none", message |-> r.value]
  BY <1>1 DEF DecodeMessage
<1>3. QED
  BY <1>1, <1>2

\* A datagram with a byte more is no message.
LEMMA LongerRefused ==
  ASSUME NEW m \in WireMessage, NEW x \in Byte
  PROVE  DecodeMessage(Frame(FrameType[m.kind], Append(Payload(m), x))).error
           = "TrailingBytes"
<1>1. PICK b \in Seq(Byte) : b = <<x>>
  <2>1. <<x>> \in Seq(Byte)
    OBVIOUS
  <2>2. QED
    BY <2>1, Zenon
<1>2. b # <<>>
  BY <1>1
<1>3. PICK s \in Seq(Byte) : s = Payload(m)
  BY <1>1, MessageRead
<1>4. Append(s, x) = s \o b
  BY <1>1, AppendIsConcat
<1>5. ReadMessage(Frame(FrameType[m.kind], s \o b)) = At(b, m)
  BY <1>3, MessageRead
<1>6. Finish(At(b, m)).error = "TrailingBytes"
  BY <1>2, FinishedAt
<1>7. QED
  BY <1>3, <1>4, <1>5, <1>6, DecodedError

\* A datagram that is cut short is no message.
LEMMA ShorterRefused ==
  ASSUME NEW m \in WireMessage, NEW n \in Nat, n < Len(Payload(m))
  PROVE  DecodeMessage(Frame(FrameType[m.kind], SubSeq(Payload(m), 1, n))).error
           = "Truncated"
<1>1. PICK s \in Seq(Byte) : s = Payload(m)
  BY <<>> \in Seq(Byte), MessageRead
<1>2. PICK l \in Nat : l = Len(s)
  BY LenProperties
<1>3. n < l
  BY <1>1, <1>2
<1>4. PICK p \in Seq(Byte) : p = SubSeq(s, 1, n) /\ Len(p) = n
  <2>1. n <= Len(s)
    BY <1>2, <1>3
  <2>2. SubSeq(s, 1, n) \in Seq(Byte) /\ Len(SubSeq(s, 1, n)) = n
    BY <2>1, Split
  <2>3. QED
    BY <2>2
<1>5. PICK x \in Seq(Byte) : s = p \o x
  <2>1. n <= Len(s)
    BY <1>2, <1>3
  <2>2. /\ SubSeq(s, n + 1, Len(s)) \in Seq(Byte)
        /\ s = SubSeq(s, 1, n) \o SubSeq(s, n + 1, Len(s))
    BY <2>1, Split
  <2>3. s = p \o SubSeq(s, n + 1, Len(s))
    BY <1>4, <2>2
  <2>4. QED
    BY <2>2, <2>3
<1>6. x # <<>>
  <2>1. SUFFICES ASSUME x = <<>> PROVE FALSE
    OBVIOUS
  <2>2. s = p
    BY <1>5, <2>1, ConcatEmptySeq
  <2>3. l = n
    BY <1>2, <1>4, <2>2
  <2>4. QED
    BY <1>3, <2>3
<1>7. Shorter(At(p, 0), s, 0)
  BY <1>5, <1>6 DEF Shorter
<1>8. ReadMessage(Frame(FrameType[m.kind], p)).error = "Truncated"
  BY <1>1, <1>7, MessageShorter
<1>9. PICK r : r = ReadMessage(Frame(FrameType[m.kind], p))
  OBVIOUS
<1>10. Finish(r) = r
  BY <1>8, <1>9 DEF Finish
<1>11. Finish(r).error = "Truncated"
  BY <1>8, <1>9, <1>10
<1>12. QED
  BY <1>1, <1>4, <1>9, <1>11, DecodedError

\* A datagram that is accepted is the encoding of the message it is taken for.
LEMMA AcceptedEncoded ==
  ASSUME NEW t, NEW s \in Seq(Byte), DecodeMessage(Frame(t, s)).error = "none"
  PROVE  EncodeMessage(DecodeMessage(Frame(t, s)).message) = Frame(t, s)
<1>1. PICK f : f = Frame(t, s)
  OBVIOUS
<1>2. PICK r : r = ReadMessage(f)
  OBVIOUS
<1>3. Finish(r).error = "none"
  BY <1>1, <1>2, DecodedError
<1>4. r.error = "none"
  BY <1>3 DEF Finish
<1>5. TookMessage(t, s, r)
  BY <1>1, <1>2, <1>4, MessageTaken
<1>6. PICK m \in WireMessage, b \in Seq(Byte) :
        t = FrameType[m.kind] /\ s = Payload(m) \o b /\ r = At(b, m)
  BY <1>5 DEF TookMessage
<1>7. b = <<>>
  <2>1. SUFFICES ASSUME b # <<>> PROVE FALSE
    OBVIOUS
  <2>2. Finish(At(b, m)).error = "TrailingBytes"
    BY <2>1, FinishedAt
  <2>3. QED
    BY <1>3, <1>6, <2>2
<1>8. s = Payload(m)
  <2>1. PICK p \in Seq(Byte) : p = Payload(m)
    BY <1>6, MessageRead
  <2>2. p \o <<>> = p
    BY ConcatEmptySeq
  <2>3. QED
    BY <1>6, <1>7, <2>1, <2>2
<1>9. EncodeMessage(m) = f
  BY <1>1, <1>6, <1>8 DEF EncodeMessage, Frame
<1>10. DecodeMessage(f) = [error |-> "none", message |-> m]
  BY <1>9, MessageDecoded
<1>11. DecodeMessage(f).message = m
  BY <1>10
<1>12. QED
  BY <1>1, <1>9, <1>11

-----------------------------------------------------------------------------
(* The runs' states *)

\* What is looked at: bytes, a message that the fields can hold, and a datagram
\* that is its encoding as long as nothing has happened to it.
CodecTypeInv ==
  /\ key \in Seq(Byte) /\ value \in Seq(Byte)
  /\ message \in WireMessage
  /\ datagram \in [type : 0 .. 5, payload : Seq(Byte)]
  /\ damage \in Nat
  /\ damage = 0 => datagram = EncodeMessage(message)

\* The commands of entries, and how many entries there are, fit their fields.
LEMMA EntriesFit ==
  ASSUME NEW e \in BoundedSeq(Entries, MaxEntries)
  PROVE  e \in Seq(WireEntry) /\ Fits(Len(e), Narrow)
<1>1. PICK n \in 0 .. MaxEntries : e \in [1 .. n -> Entries]
  BY DEF BoundedSeq, SeqOf
<1>2. n \in Nat /\ Fits(n, Narrow)
  BY <1>1, InputsAssumption
<1>3. Entries \subseteq WireEntry
  BY InputsAssumption DEF Entries, WireEntry, Numerals
<1>4. \A k \in 1 .. n : e[k] \in WireEntry
  BY <1>1, <1>3
<1>5. e \in [1 .. n -> WireEntry]
  BY <1>1, <1>4
<1>6. e \in Seq(WireEntry) /\ Len(e) = n
  BY <1>2, <1>5
<1>7. QED
  BY <1>2, <1>6

\* The run's messages are among those that the fields can hold.
LEMMA MessagesAreWire == Messages \subseteq WireMessage
<1>1. Numbers \subseteq Numerals(Wide) /\ 0 \in Numerals(Wide)
  BY InputsAssumption DEF Numerals
<1>2. SUFFICES ASSUME NEW m \in Messages PROVE m \in WireMessage
  OBVIOUS
<1>3. CASE m \in [kind : {"RequestVote"}, term : Numbers, last_log_index : Numbers,
                  last_log_term : Numbers]
  <2>1. m \in WireRequestVote
    BY <1>1, <1>3 DEF WireRequestVote
  <2>2. QED
    BY <2>1 DEF WireMessage
<1>4. CASE m \in [kind : {"VoteResponse"}, term : Numbers, granted : BOOLEAN]
  <2>1. m \in WireVoteResponse
    BY <1>1, <1>4 DEF WireVoteResponse
  <2>2. QED
    BY <2>1 DEF WireMessage
<1>5. CASE m \in [kind : {"AppendEntries"}, term : Numbers, prev_index : Numbers,
                  prev_term : {0}, leader_commit : {0},
                  entries : BoundedSeq(Entries, MaxEntries)]
  <2>1. m.entries \in {e \in Seq(WireEntry) : Fits(Len(e), Narrow)}
    BY <1>5, EntriesFit
  <2>2. m \in WireAppendEntries
    BY <1>1, <1>5, <2>1 DEF WireAppendEntries
  <2>3. QED
    BY <2>2 DEF WireMessage
<1>6. CASE m \in [kind : {"AppendResponse"}, term : Numbers, success : BOOLEAN,
                  match_index : Numbers]
  <2>1. m \in WireAppendResponse
    BY <1>1, <1>6 DEF WireAppendResponse
  <2>2. QED
    BY <2>1 DEF WireMessage
<1>7. QED
  BY <1>3, <1>4, <1>5, <1>6 DEF Messages

\* An encoded message is a datagram.
LEMMA EncodedIsFrame ==
  ASSUME NEW m \in WireMessage
  PROVE  /\ EncodeMessage(m) = Frame(FrameType[m.kind], Payload(m))
         /\ EncodeMessage(m) \in [type : 0 .. 5, payload : Seq(Byte)]
<1>1. Payload(m) \in Seq(Byte)
  BY <<>> \in Seq(Byte), MessageRead
<1>2. FrameType[m.kind] \in 0 .. 5
  BY FrameOf DEF WireMessage
<1>3. QED
  BY <1>1, <1>2 DEF EncodeMessage, Frame

\* A change of the payload leaves the type.
LEMMA FrameChanged ==
  ASSUME NEW f, NEW t, NEW s, f = Frame(t, s), NEW p
  PROVE  f.payload = s /\ [f EXCEPT !.payload = p] = Frame(t, p)
BY DEF Frame

\* Any bytes of any type are a datagram.
LEMMA FrameIsDatagram ==
  ASSUME NEW t \in 0 .. 5, NEW s \in Seq(Byte)
  PROVE  Frame(t, s) \in [type : 0 .. 5, payload : Seq(Byte)]
BY DEF Frame

\* What the theorems below are about: the commands and datagrams are any bytes, and
\* the messages those that the fields of the wire format can hold (message.rs).
LEMMA CodecTypesHold == Spec => []CodecTypeInv
<1>1. Init => CodecTypeInv
  <2>1. SUFFICES ASSUME Init PROVE CodecTypeInv
    OBVIOUS
  <2>2. <<>> \in Seq(Byte)
    OBVIOUS
  <2>3. message \in WireMessage
    BY <2>1, MessagesAreWire DEF Init
  <2>4. datagram \in [type : 0 .. 5, payload : Seq(Byte)]
    BY <2>1, <2>3, EncodedIsFrame DEF Init
  <2>5. QED
    BY <2>1, <2>2, <2>3, <2>4 DEF Init, CodecTypeInv
<1>2. CodecTypeInv /\ [Next]_<<command, wire>> => CodecTypeInv'
  <2>1. SUFFICES ASSUME CodecTypeInv, [Next]_<<command, wire>>
                 PROVE  CodecTypeInv'
    OBVIOUS
  <2>2. CASE Grow
    <3>1. UNCHANGED <<message, datagram, damage>>
      BY <2>2 DEF Grow, wire
    <3>2. key' \in Seq(Byte) /\ value' \in Seq(Byte)
      <4>1. key \in Seq(Byte) /\ value \in Seq(Byte)
        BY <2>1 DEF CodecTypeInv
      <4>2. PICK b \in Byte :
              \/ key' = Append(key, b) /\ value' = value
              \/ value' = Append(value, b) /\ key' = key
        BY <2>2 DEF Grow
      <4>3. Append(key, b) \in Seq(Byte) /\ Append(value, b) \in Seq(Byte)
        BY <4>1, AppendProperties
      <4>4. QED
        BY <4>1, <4>2, <4>3
    <3>3. QED
      BY <2>1, <3>1, <3>2 DEF CodecTypeInv
  <2>3. CASE Damage
    <3>1. UNCHANGED <<key, value, message>> /\ damage' = damage + 1
      BY <2>3 DEF Damage, command
    <3>2. damage' \in Nat /\ damage' # 0
      BY <2>1, <3>1 DEF CodecTypeInv
    <3>3. PICK t \in 0 .. 5, s \in Seq(Byte) : datagram = Frame(t, s)
      BY <2>1 DEF CodecTypeInv, Frame
    <3>4. datagram' \in [type : 0 .. 5, payload : Seq(Byte)]
      <4>1. CASE ChangeByte
        <5>1. PICK k \in DOMAIN datagram.payload, b \in Byte :
                datagram' = [datagram EXCEPT !.payload = [datagram.payload EXCEPT ![k] = b]]
          BY <4>1 DEF ChangeByte
        <5>2. datagram.payload = s
          BY <3>3, FrameChanged
        <5>3. k \in 1 .. Len(s)
          BY <5>1, <5>2, LenProperties
        <5>4. PICK p \in Seq(Byte) : p = [s EXCEPT ![k] = b]
          BY <5>1, <5>3, ExceptSeq
        <5>5. datagram' = [datagram EXCEPT !.payload = p]
          BY <5>1, <5>2, <5>4
        <5>6. datagram' = Frame(t, p)
          BY <3>3, <5>5, FrameChanged
        <5>7. QED
          BY <5>6, FrameIsDatagram
      <4>2. CASE ChangeType
        BY <3>3, <4>2 DEF ChangeType, Frame
      <4>3. CASE ChangeLength
        <5>1. datagram.payload = s
          BY <3>3, FrameChanged
        <5>2. PICK p \in Seq(Byte) : datagram' = [datagram EXCEPT !.payload = p]
          <6>1. CASE \E b \in Byte :
                       datagram' = [datagram EXCEPT !.payload = Append(datagram.payload, b)]
            BY <5>1, <6>1, AppendProperties
          <6>2. CASE /\ datagram.payload # <<>>
                     /\ datagram' = [datagram EXCEPT !.payload = Front(datagram.payload)]
            <7>1. PICK l \in Nat : l = Len(s)
              BY LenProperties
            <7>2. l # 0
              BY <5>1, <6>2, <7>1, EmptySeq
            <7>3. l - 1 \in Nat /\ l - 1 <= Len(s)
              BY <7>1, <7>2
            <7>4. SubSeq(s, 1, l - 1) \in Seq(Byte)
              BY <7>3, Split
            <7>5. Front(datagram.payload) = SubSeq(s, 1, l - 1)
              BY <5>1, <7>1 DEF Front
            <7>6. QED
              BY <6>2, <7>4, <7>5
          <6>3. QED
            BY <4>3, <6>1, <6>2 DEF ChangeLength
        <5>3. datagram' = Frame(t, p)
          BY <3>3, <5>2, FrameChanged
        <5>4. QED
          BY <5>3, FrameIsDatagram
      <4>4. QED
        BY <2>3, <4>1, <4>2, <4>3 DEF Damage
    <3>5. QED
      BY <2>1, <3>1, <3>2, <3>4 DEF CodecTypeInv
  <2>4. CASE UNCHANGED <<command, wire>>
    BY <2>1, <2>4 DEF command, wire, CodecTypeInv
  <2>5. QED
    BY <2>1, <2>2, <2>3, <2>4 DEF Next
<1>3. QED
  BY <1>1, <1>2, PTL DEF Spec

\* Every command whose key's length fits its field is decoded as it was encoded,
\* whatever bytes its key and value are made of (Command::encode and
\* Command::decode).
THEOREM CommandsRoundTrip == Spec => []RoundTrips
<1>1. CodecTypeInv => RoundTrips
  <2>1. SUFFICES ASSUME CodecTypeInv PROVE RoundTrips
    OBVIOUS
  <2>2. Byte \subseteq Nat
    BY WidthAssumption DEF Byte
  <2>3. key \in Seq(Nat) /\ value \in Seq(Nat)
    BY <2>1, <2>2, SeqMonotonic DEF CodecTypeInv
  <2>4. Len(key) < LenLimit
          => DecodeCommand(EncodeCommand(Put(key, value))) = Put(key, value)
    BY <2>3, PutDecoded
  <2>5. DecodeCommand(EncodeCommand(Delete(key))) = Delete(key)
    BY <2>3, DeleteDecoded
  <2>6. QED
    BY <2>4, <2>5 DEF RoundTrips
<1>2. QED
  BY <1>1, CodecTypesHold, PTL

\* No bytes but the encoding of a command mean that command: malformed ones, those
\* of a put whose key is cut short included, mean none (Command::decode).
THEOREM CommandsDecodeOnlyEncodings == Spec => []DecodesOnlyEncodings
<1>1. CodecTypeInv => DecodesOnlyEncodings
  <2>1. SUFFICES ASSUME CodecTypeInv PROVE DecodesOnlyEncodings
    OBVIOUS
  <2>2. PICK s \in Seq(Byte) : s = key \o value
    BY <2>1, ConcatProperties DEF CodecTypeInv
  <2>3. DecodeCommand(s) # NoCommand => EncodeCommand(DecodeCommand(s)) = s
    BY CommandOnly
  <2>4. QED
    BY <2>2, <2>3 DEF DecodesOnlyEncodings
<1>2. QED
  BY <1>1, CodecTypesHold, PTL

\* Every message that its fields can hold is decoded as it was encoded
\* (encode_message and decode_message).
THEOREM SentMessagesRoundTrip == Spec => []MessagesRoundTrip
<1>1. CodecTypeInv => MessagesRoundTrip
  BY MessageDecoded DEF CodecTypeInv, MessagesRoundTrip
<1>2. QED
  BY <1>1, CodecTypesHold, PTL

\* Whatever bytes arrive, those that decode_message accepts are the encoding of the
\* message it takes them for.
THEOREM OnlyEncodingsAccepted == Spec => []AcceptsOnlyEncodings
<1>1. CodecTypeInv => AcceptsOnlyEncodings
  <2>1. SUFFICES ASSUME CodecTypeInv PROVE AcceptsOnlyEncodings
    OBVIOUS
  <2>2. PICK t \in 0 .. 5, s \in Seq(Byte) : datagram = Frame(t, s)
    BY <2>1 DEF CodecTypeInv, Frame
  <2>3. DecodeMessage(Frame(t, s)).error = "none"
          => EncodeMessage(DecodeMessage(Frame(t, s)).message) = Frame(t, s)
    BY AcceptedEncoded
  <2>4. QED
    BY <2>2, <2>3 DEF AcceptsOnlyEncodings
<1>2. QED
  BY <1>1, CodecTypesHold, PTL

\* Every encoded message that is cut short is reported as truncated, wherever it is
\* cut, and one with a byte more as having trailing bytes (decode_message).
THEOREM MessagesArePrefixFree == Spec => []NoMessageIsAPrefix
<1>1. CodecTypeInv => NoMessageIsAPrefix
  <2>1. SUFFICES ASSUME CodecTypeInv, damage = 0 PROVE NoMessageIsAPrefix
    BY DEF NoMessageIsAPrefix
  <2>2. message \in WireMessage
    BY <2>1 DEF CodecTypeInv
  <2>3. PICK t, s : t = FrameType[message.kind] /\ s = Payload(message) /\ s \in Seq(Byte)
    BY <<>> \in Seq(Byte), <2>2, MessageRead
  <2>4. datagram = Frame(t, s) /\ datagram.payload = s
    <3>1. datagram = Frame(t, s)
      BY <2>1, <2>2, <2>3, EncodedIsFrame DEF CodecTypeInv
    <3>2. QED
      BY <3>1, FrameChanged
  <2>5. PICK l \in Nat : l = Len(s)
    BY LenProperties
  <2>6. ASSUME NEW n \in 0 .. l - 1
        PROVE  DecodeMessage([datagram EXCEPT !.payload = SubSeq(@, 1, n)]).error
                 = "Truncated"
    <3>1. [datagram EXCEPT !.payload = SubSeq(@, 1, n)] = Frame(t, SubSeq(s, 1, n))
      <4>1. PICK p : p = SubSeq(datagram.payload, 1, n)
        OBVIOUS
      <4>2. [datagram EXCEPT !.payload = p] = Frame(t, p)
        BY <2>4, FrameChanged
      <4>3. p = SubSeq(s, 1, n)
        BY <2>4, <4>1
      <4>4. QED
        BY <4>1, <4>2, <4>3, Zenon
    <3>2. n \in Nat /\ n < l
      BY <2>5
    <3>3. DecodeMessage(Frame(t, SubSeq(s, 1, n))).error = "Truncated"
      BY <2>2, <2>3, <2>5, <3>2, ShorterRefused
    <3>4. QED
      BY <3>1, <3>3
  <2>7. ASSUME NEW b \in Byte
        PROVE  DecodeMessage([datagram EXCEPT !.payload = Append(@, b)]).error
                 = "TrailingBytes"
    <3>1. [datagram EXCEPT !.payload = Append(@, b)] = Frame(t, Append(s, b))
      <4>1. PICK p : p = Append(datagram.payload, b)
        OBVIOUS
      <4>2. [datagram EXCEPT !.payload = p] = Frame(t, p)
        BY <2>4, FrameChanged
      <4>3. p = Append(s, b)
        BY <2>4, <4>1
      <4>4. QED
        BY <4>1, <4>2, <4>3, Zenon
    <3>2. DecodeMessage(Frame(t, Append(s, b))).error = "TrailingBytes"
      BY <2>2, <2>3, LongerRefused
    <3>3. QED
      BY <3>1, <3>2
  <2>8. Len(datagram.payload) = l
    BY <2>4, <2>5
  <2>9. QED
    BY <2>6, <2>7, <2>8 DEF NoMessageIsAPrefix
<1>2. QED
  BY <1>1, CodecTypesHold, PTL

=============================================================================
