--------------------------- MODULE RecordsProofs ----------------------------
(***************************************************************************)
(* The data the observer works on: the bytes of events and packets, for    *)
(* any number of byte values and either byte order, and the records it     *)
(* makes, for any capacities.                                              *)
(***************************************************************************)
EXTENDS Records, ByteOrder, DataProofs

-----------------------------------------------------------------------------
(* Bytes                                                                   *)

Byte == 0 .. Base - 1
Bytes(w) == [1 .. w -> Byte]

(* Quotient and remainder determine a number, and undo n * Base + b. *)
LEMMA Division ==
  ASSUME NEW n \in Nat
  PROVE  /\ n \div Base \in Nat /\ n % Base \in Byte /\ n = (n \div Base) * Base + (n % Base)
         /\ \A b \in Byte : (n * Base + b) \div Base = n /\ (n * Base + b) % Base = b
         /\ \A x \in Nat : n < x * Base => n \div Base < x
<1>1. Base \in Nat \ {0}
  BY ByteAssumption
<1>2. n \div Base \in Nat /\ n % Base \in 0 .. Base - 1 /\ n = (n \div Base) * Base + (n % Base)
  BY <1>1
<1>3. \A b \in 0 .. Base - 1 : (n * Base + b) \div Base = n
  BY <1>1
<1>4. \A b \in 0 .. Base - 1 : (n * Base + b) % Base = b
  BY <1>1
<1>5. \A x \in Nat : n < x * Base => n \div Base < x
  BY <1>1
<1> QED
  BY <1>2, <1>3, <1>4, <1>5 DEF Byte

(* f[i] is n without its last i bytes. *)
Rests(n, w, f) ==
  /\ f[0] = n /\ \A i \in 1 .. w : f[i] = f[i - 1] \div Base
  /\ \A i \in 0 .. w : f[i] \in Nat
RestsUpTo(n, w, f) == f = [i \in 0 .. w |-> IF i = 0 THEN n ELSE f[i - 1] \div Base]

(* g[i] is the value of the first i bytes. *)
Values(bytes, w, g) ==
  /\ g[0] = 0 /\ \A i \in 1 .. w : g[i] = g[i - 1] * Base + bytes[i]
  /\ \A i \in 0 .. w : g[i] \in Nat
ValuesUpTo(bytes, w, g) ==
  g = [i \in 0 .. w |-> IF i = 0 THEN 0 ELSE g[i - 1] * Base + bytes[i]]

(* The recursion of to_be_bytes defines a function. *)
LEMMA ToBeDefined ==
  ASSUME NEW n \in Nat, NEW w \in Nat
  PROVE  \E f : Rests(n, w, f) /\ ToBe(n, w) = [i \in 1 .. w |-> f[w - i] % Base]
<1> DEFINE V == Nat
           g == [i \in 1 .. w |-> [t \in V |-> t \div Base]]
<1>1. g \in [1 .. w -> [V -> V]]
  BY Division
<1>2. PICK f \in [0 .. w -> V] : f[0] = n /\ \A i \in 1 .. w : f[i] = g[i][f[i - 1]]
  <2>1. n \in V
    OBVIOUS
  <2> HIDE DEF g, V
  <2>2. Recurs(V, n, w, g)
    BY <1>1, <2>1, Recursion, Zenon
  <2> QED
    BY <2>2, Zenon DEF Recurs
<1>3. RestsUpTo(n, w, f)
  <2>1. \A i \in 1 .. w : f[i - 1] \in V
    OBVIOUS
  <2>2. \A i \in 1 .. w : f[i] = f[i - 1] \div Base
    BY <1>2, <2>1, Zenon
  <2>3. \A i \in 0 .. w : i = 0 \/ (i # 0 /\ i \in 1 .. w)
    OBVIOUS
  <2> HIDE DEF g, V
  <2>4. \A i \in 0 .. w : f[i] = IF i = 0 THEN n ELSE f[i - 1] \div Base
    BY <1>2, <2>2, <2>3
  <2> QED
    BY <2>4 DEF RestsUpTo
<1> DEFINE h == CHOOSE e : RestsUpTo(n, w, e)
<1>4. RestsUpTo(n, w, h)
  BY <1>3
<1>5. ToBe(n, w) = [i \in 1 .. w |-> h[w - i] % Base]
  BY DEF ToBe, RestsUpTo
<1> HIDE DEF h
<1>6. h[0] = n /\ \A i \in 1 .. w : h[i] = h[i - 1] \div Base
  <2>1. \A i \in 0 .. w : h[i] = IF i = 0 THEN n ELSE h[i - 1] \div Base
    BY <1>4 DEF RestsUpTo
  <2>2. 0 \in 0 .. w /\ \A i \in 1 .. w : i \in 0 .. w /\ i # 0
    OBVIOUS
  <2> QED
    BY <2>1, <2>2
<1>7. \A i \in 0 .. w : h[i] \in Nat
  <2> DEFINE T == {i \in Nat : i <= w => h[i] \in Nat}
  <2>1. 0 \in T
    BY <1>6
  <2>2. ASSUME NEW i \in T PROVE i + 1 \in T
    <3>1. i \in Nat /\ i + 1 \in Nat
      BY <2>2
    <3>2. ASSUME i + 1 <= w PROVE h[i + 1] \in Nat
      <4>1. i + 1 \in 1 .. w /\ (i + 1) - 1 = i /\ i <= w
        BY <3>1, <3>2
      <4>2. h[i + 1] = h[i] \div Base /\ h[i] \in Nat
        BY <1>6, <2>2, <4>1
      <4> QED
        BY <4>2, Division, Zenon
    <3> QED
      BY <3>1, <3>2
  <2>3. Nat \subseteq T
    <3> HIDE DEF T
    <3> QED
      BY <2>1, <2>2, SetInduction
  <2> QED
    BY <2>3
<1> QED
  BY <1>5, <1>6, <1>7 DEF Rests

(* The recursion of from_be_bytes defines a function. *)
LEMMA FromBeDefined ==
  ASSUME NEW w \in Nat, NEW bytes \in Bytes(w)
  PROVE  \E g : Values(bytes, w, g) /\ FromBe(bytes) = g[w]
<1> DEFINE V == Nat
           a == 0
           s == [i \in 1 .. w |-> [t \in V |-> t * Base + bytes[i]]]
<1>0. Len(bytes) = w /\ Base \in Nat \ {0} /\ \A i \in 1 .. w : bytes[i] \in Nat
  BY ByteAssumption DEF Bytes, Byte
<1>1. s \in [1 .. w -> [V -> V]] /\ a \in V
  BY <1>0
<1>2. PICK f \in [0 .. w -> V] : f[0] = a /\ \A i \in 1 .. w : f[i] = s[i][f[i - 1]]
  <2> HIDE DEF s, V, a
  <2>1. Recurs(V, a, w, s)
    BY <1>1, Recursion
  <2> QED
    BY <2>1, Zenon DEF Recurs
<1>3. ValuesUpTo(bytes, w, f)
  <2>1. \A i \in 1 .. w : f[i - 1] \in V
    OBVIOUS
  <2>2. \A i \in 1 .. w : f[i] = f[i - 1] * Base + bytes[i]
    BY <1>2, <2>1, Zenon
  <2>3. \A i \in 0 .. w : i = 0 \/ (i # 0 /\ i \in 1 .. w)
    OBVIOUS
  <2>4. f[0] = 0
    BY <1>2
  <2> HIDE DEF s, V
  <2>5. \A i \in 0 .. w : f[i] = IF i = 0 THEN 0 ELSE f[i - 1] * Base + bytes[i]
    BY <2>2, <2>3, <2>4
  <2> QED
    BY <2>5 DEF ValuesUpTo
<1> DEFINE h == CHOOSE e : ValuesUpTo(bytes, w, e)
<1>4. ValuesUpTo(bytes, w, h)
  BY <1>3
<1>5. FromBe(bytes) = h[w]
  BY <1>0 DEF FromBe, ValuesUpTo
<1> HIDE DEF h
<1>6. h[0] = 0 /\ \A i \in 1 .. w : h[i] = h[i - 1] * Base + bytes[i]
  <2>1. \A i \in 0 .. w : h[i] = IF i = 0 THEN 0 ELSE h[i - 1] * Base + bytes[i]
    BY <1>4 DEF ValuesUpTo
  <2>2. 0 \in 0 .. w /\ \A i \in 1 .. w : i \in 0 .. w /\ i # 0
    OBVIOUS
  <2> QED
    BY <2>1, <2>2
<1>7. \A i \in 0 .. w : h[i] \in Nat
  <2> DEFINE T == {i \in Nat : i <= w => h[i] \in Nat}
  <2>1. 0 \in T
    BY <1>6
  <2>2. ASSUME NEW i \in T PROVE i + 1 \in T
    <3>1. i \in Nat /\ i + 1 \in Nat
      BY <2>2
    <3>2. ASSUME i + 1 <= w PROVE h[i + 1] \in Nat
      <4>1. i + 1 \in 1 .. w /\ (i + 1) - 1 = i /\ i <= w
        BY <3>1, <3>2
      <4>2. h[i + 1] = h[i] * Base + bytes[i + 1] /\ h[i] \in Nat
        BY <1>6, <2>2, <4>1
      <4>3. h[i] * Base \in Nat /\ bytes[i + 1] \in Nat
        BY <1>0, <4>1, <4>2, SMTT(30)
      <4> QED
        BY <4>2, <4>3
    <3> QED
      BY <3>1, <3>2
  <2>3. Nat \subseteq T
    <3> HIDE DEF T
    <3> QED
      BY <2>1, <2>2, SetInduction
  <2> QED
    BY <2>3
<1> QED
  BY <1>5, <1>6, <1>7 DEF Values

(* What to_be_bytes gives are w bytes. *)
LEMMA ToBeType ==
  ASSUME NEW n \in Nat, NEW w \in Nat
  PROVE  ToBe(n, w) \in Bytes(w)
<1>1. PICK f : Rests(n, w, f) /\ ToBe(n, w) = [i \in 1 .. w |-> f[w - i] % Base]
  BY ToBeDefined, Zenon
<1>2. \A i \in 1 .. w : w - i \in 0 .. w
  OBVIOUS
<1>3. \A i \in 1 .. w : f[w - i] \in Nat
  BY <1>1, <1>2 DEF Rests
<1>4. \A i \in 1 .. w : f[w - i] % Base \in Byte
  BY <1>3, Division
<1> QED
  BY <1>1, <1>4 DEF Bytes

(* The values of bytes are naturals. *)
LEMMA FromBeType ==
  ASSUME NEW w \in Nat, NEW bytes \in Bytes(w)
  PROVE  FromBe(bytes) \in Nat
<1>1. PICK g : Values(bytes, w, g) /\ FromBe(bytes) = g[w]
  BY FromBeDefined
<1>2. w \in 0 .. w
  OBVIOUS
<1> QED
  BY <1>1, <1>2 DEF Values

(* from_be_bytes undoes to_be_bytes on a number of w bytes. *)
LEMMA FromTo ==
  ASSUME NEW n \in Nat, NEW w \in Nat, NEW f, Rests(n, w, f), f[w] = 0,
         ToBe(n, w) = [i \in 1 .. w |-> f[w - i] % Base]
  PROVE  FromBe(ToBe(n, w)) = n
<1>1. PICK g : Values(ToBe(n, w), w, g) /\ FromBe(ToBe(n, w)) = g[w]
  BY ToBeType, FromBeDefined
<1> DEFINE T == {i \in Nat : i <= w => g[i] = f[w - i]}
<1>2. 0 \in T
  <2>1. w - 0 = w /\ g[0] = 0
    BY <1>1 DEF Values
  <2> QED
    BY <2>1
<1>3. ASSUME NEW i \in T PROVE i + 1 \in T
  <2>1. i \in Nat /\ i + 1 \in Nat
    BY <1>3
  <2>2. ASSUME i + 1 <= w PROVE g[i + 1] = f[w - (i + 1)]
    <3>1. /\ i + 1 \in 1 .. w /\ (i + 1) - 1 = i /\ i <= w /\ w - i \in 1 .. w
          /\ (w - i) - 1 = w - (i + 1) /\ w - (i + 1) \in 0 .. w
      BY <2>1, <2>2
    <3>2. g[i + 1] = g[i] * Base + ToBe(n, w)[i + 1]
      BY <1>1, <3>1 DEF Values
    <3>3. g[i] = f[w - i] /\ ToBe(n, w)[i + 1] = f[w - (i + 1)] % Base
      BY <1>3, <3>1
    <3>4. f[w - i] = f[w - (i + 1)] \div Base /\ f[w - (i + 1)] \in Nat
      BY <3>1 DEF Rests
    <3>5. f[w - (i + 1)] = (f[w - (i + 1)] \div Base) * Base + (f[w - (i + 1)] % Base)
      BY <3>4, Division, Zenon
    <3> QED
      BY <3>2, <3>3, <3>4, <3>5
  <2> QED
    BY <2>1, <2>2
<1>4. w \in T
  <2> HIDE DEF T
  <2> QED
    BY <1>2, <1>3, SetInduction
<1>5. g[w] = f[0]
  BY <1>4
<1> QED
  BY <1>1, <1>5 DEF Rests

(* to_be_bytes undoes from_be_bytes, whose value has no more bytes than it *)
(* was read from.                                                          *)
LEMMA ToFrom ==
  ASSUME NEW w \in Nat, NEW bytes \in Bytes(w)
  PROVE  ToBe(FromBe(bytes), w) = bytes
<1> DEFINE n == FromBe(bytes)
<1>1. PICK g : Values(bytes, w, g) /\ n = g[w]
  BY FromBeDefined
<1>2. n \in Nat
  BY FromBeType
<1> HIDE DEF n
<1>3. PICK f : Rests(n, w, f) /\ ToBe(n, w) = [i \in 1 .. w |-> f[w - i] % Base]
  BY <1>2, ToBeDefined, Zenon
<1> DEFINE T == {i \in Nat : i <= w => f[i] = g[w - i]}
<1>4. 0 \in T
  <2>1. w - 0 = w /\ f[0] = n
    BY <1>3 DEF Rests
  <2> QED
    BY <1>1, <2>1
<1>5. ASSUME NEW j \in 1 .. w PROVE g[j] \div Base = g[j - 1] /\ g[j] % Base = bytes[j]
  <2>1. j - 1 \in 0 .. w
    OBVIOUS
  <2>2. g[j] = g[j - 1] * Base + bytes[j] /\ g[j - 1] \in Nat
    BY <1>1, <2>1 DEF Values
  <2>3. bytes[j] \in Byte
    BY DEF Bytes
  <2> QED
    BY <2>2, <2>3, Division
<1>6. ASSUME NEW i \in T PROVE i + 1 \in T
  <2>1. i \in Nat /\ i + 1 \in Nat
    BY <1>6
  <2>2. ASSUME i + 1 <= w PROVE f[i + 1] = g[w - (i + 1)]
    <3>1. /\ i + 1 \in 1 .. w /\ (i + 1) - 1 = i /\ i <= w /\ w - i \in 1 .. w
          /\ (w - i) - 1 = w - (i + 1)
      BY <2>1, <2>2
    <3>2. f[i + 1] = f[i] \div Base
      BY <1>3, <3>1 DEF Rests
    <3>3. f[i] = g[w - i]
      BY <1>6, <3>1
    <3>4. g[w - i] \div Base = g[(w - i) - 1]
      BY <1>5, <3>1
    <3> QED
      BY <3>1, <3>2, <3>3, <3>4
  <2> QED
    BY <2>1, <2>2
<1>7. \A i \in 0 .. w : f[i] = g[w - i]
  <2>1. Nat \subseteq T
    <3> HIDE DEF T
    <3> QED
      BY <1>4, <1>6, SetInduction
  <2> QED
    BY <2>1
<1>8. ASSUME NEW i \in 1 .. w PROVE f[w - i] % Base = bytes[i]
  <2>1. w - i \in 0 .. w /\ w - (w - i) = i
    OBVIOUS
  <2>2. f[w - i] = g[i]
    BY <1>7, <2>1
  <2> QED
    BY <1>5, <2>2
<1>9. bytes = [i \in 1 .. w |-> bytes[i]]
  BY DEF Bytes
<1> QED
  BY <1>3, <1>8, <1>9 DEF n

(* A number of one byte more than x bytes has x bytes without its last. *)
LEMMA OneByteLess ==
  ASSUME NEW n \in Nat, NEW x \in Nat, n < x * Base, NEW m, m = n \div Base
  PROVE  m < x
  BY Division

(* Numbers that fit in two, in four and, being zero, in any number of bytes *)
(* are read back as they were written.                                     *)
LEMMA TwoBytes ==
  ASSUME NEW n \in 0 .. Base * Base - 1
  PROVE  n \in Nat /\ FromBe(ToBe(n, 2)) = n
<1>0. Base \in Nat \ {0, 1} /\ Base * Base \in Nat
  BY ByteAssumption
<1>1. n \in Nat /\ n < Base * Base
  BY <1>0
<1>2. PICK f : Rests(n, 2, f) /\ ToBe(n, 2) = [i \in 1 .. 2 |-> f[2 - i] % Base]
  BY <1>1, ToBeDefined, Zenon
<1>3. f[0] = n /\ f[1] = n \div Base /\ f[2] = f[1] \div Base /\ f[1] \in Nat /\ f[2] \in Nat
  BY <1>2 DEF Rests
<1>4. f[1] < Base
  BY <1>0, <1>1, <1>3, OneByteLess
<1>5. f[1] < 1 * Base
  BY <1>0, <1>4
<1>6. f[2] < 1
  BY <1>3, <1>5, OneByteLess
<1>7. f[2] = 0
  BY <1>3, <1>6
<1> QED
  BY <1>1, <1>2, <1>7, FromTo, Zenon

(* What u32::to_be_bytes writes, from_be_bytes reads. *)
LEMMA FourBytes ==
  ASSUME NEW n \in 0 .. Base * Base * Base * Base - 1
  PROVE  n \in Nat /\ FromBe(ToBe(n, 4)) = n
<1>0. Base \in Nat \ {0, 1} /\ Base * Base \in Nat /\ Base * Base * Base \in Nat
  BY ByteAssumption
<1>1. Base * Base * Base * Base \in Nat
  BY <1>0
<1>2. n \in Nat /\ n < (Base * Base * Base) * Base
  BY <1>1
<1>3. PICK f : Rests(n, 4, f) /\ ToBe(n, 4) = [i \in 1 .. 4 |-> f[4 - i] % Base]
  BY <1>2, ToBeDefined, Zenon
<1>4. /\ f[0] = n /\ f[1] = n \div Base /\ f[2] = f[1] \div Base /\ f[3] = f[2] \div Base
      /\ f[4] = f[3] \div Base /\ f[1] \in Nat /\ f[2] \in Nat /\ f[3] \in Nat /\ f[4] \in Nat
  BY <1>3 DEF Rests
<1>5. f[1] < (Base * Base) * Base
  BY <1>0, <1>2, <1>4, OneByteLess
<1>6. f[2] < Base * Base
  BY <1>0, <1>4, <1>5, OneByteLess
<1>7. f[3] < Base
  BY <1>0, <1>4, <1>6, OneByteLess
<1>8. f[3] < 1 * Base
  BY <1>0, <1>7
<1>9. f[4] < 1
  BY <1>4, <1>8, OneByteLess
<1>10. f[4] = 0
  BY <1>4, <1>9
<1> QED
  BY <1>2, <1>3, <1>10, FromTo, Zenon

(* Zero is the value of zero bytes. *)
LEMMA ZeroBytes ==
  ASSUME NEW w \in Nat
  PROVE  FromBe(ToBe(0, w)) = 0
<1>0. 0 \in Nat /\ Base \in Nat \ {0, 1} /\ 0 \div Base = 0
  BY ByteAssumption
<1>1. PICK f : Rests(0, w, f) /\ ToBe(0, w) = [i \in 1 .. w |-> f[w - i] % Base]
  BY <1>0, ToBeDefined, Zenon
<1> DEFINE T == {i \in Nat : i <= w => f[i] = 0}
<1>2. 0 \in T
  BY <1>1 DEF Rests
<1>3. ASSUME NEW i \in T PROVE i + 1 \in T
  <2>1. i + 1 <= w => i + 1 \in 1 .. w /\ (i + 1) - 1 = i /\ f[i] = 0
    BY <1>3
  <2> QED
    BY <1>0, <1>1, <2>1 DEF Rests
<1>4. w \in T
  <2> HIDE DEF T
  <2> QED
    BY <1>2, <1>3, SetInduction
<1> QED
  BY <1>0, <1>1, <1>4, FromTo

(* Swapping the bytes twice leaves them as they were. *)
LEMMA NativeTwice ==
  ASSUME NEW w \in Nat, NEW bytes \in Bytes(w)
  PROVE  Native(bytes) \in Bytes(w) /\ Native(Native(bytes)) = bytes /\ Len(bytes) = w
<1>1. Len(bytes) = w /\ bytes = [i \in 1 .. w |-> bytes[i]]
  BY DEF Bytes
<1>2. Swapped(bytes) = [i \in 1 .. w |-> bytes[(w - i) + 1]]
  BY <1>1 DEF Swapped
<1>3. \A i \in 1 .. w : (w - i) + 1 \in 1 .. w /\ (w - ((w - i) + 1)) + 1 = i
  OBVIOUS
<1>4. Swapped(bytes) \in Bytes(w)
  BY <1>2, <1>3 DEF Bytes
<1>5. Len(Swapped(bytes)) = w
  BY <1>4 DEF Bytes
<1>6. Swapped(Swapped(bytes)) = [i \in 1 .. w |-> Swapped(bytes)[(w - i) + 1]]
  BY <1>5 DEF Swapped
<1>7. \A i \in 1 .. w : Swapped(bytes)[(w - i) + 1] = bytes[i]
  BY <1>2, <1>3
<1>8. Swapped(Swapped(bytes)) = bytes
  BY <1>1, <1>6, <1>7, Zenon
<1> QED
  BY <1>1, <1>4, <1>8 DEF Native

(* uN::from_be of a field the kernel filled in network order. *)
LEMMA NetworkFieldIs ==
  ASSUME NEW w \in Nat, NEW bytes \in Bytes(w)
  PROVE  NetworkField(bytes) = FromBe(bytes)
<1>1. Native(bytes) \in Bytes(w) /\ Native(Native(bytes)) = bytes /\ Len(bytes) = w
  BY NativeTwice
<1>2. ToBe(FromBe(Native(bytes)), w) = Native(bytes)
  BY <1>1, ToFrom
<1> QED
  BY <1>1, <1>2 DEF NetworkField, ToNe, FromNe

(* A native field is read back as it was written. *)
LEMMA NativeField ==
  ASSUME NEW n \in Nat, NEW w \in Nat, FromBe(ToBe(n, w)) = n
  PROVE  ToNe(n, w) \in Bytes(w) /\ FromNe(ToNe(n, w)) = n
<1>1. ToBe(n, w) \in Bytes(w)
  BY ToBeType
<1> QED
  BY <1>1, NativeTwice DEF ToNe, FromNe

(* A range of a concatenation within its first part, and its second part. *)
LEMMA SubSeqFirst ==
  ASSUME NEW s \in Seq(Nat), NEW t \in Seq(Nat), NEW m \in Nat \ {0}, NEW n \in Nat, n <= Len(s)
  PROVE  SubSeq(s \o t, m, n) = SubSeq(s, m, n)
<1>1. \A i \in m .. n : (s \o t)[i] = s[i]
  OBVIOUS
<1>2. \A i \in 1 .. (n - m) + 1 : (i + m) - 1 \in m .. n
  OBVIOUS
<1>3. /\ SubSeq(s \o t, m, n) = [i \in 1 .. (n - m) + 1 |-> (s \o t)[(i + m) - 1]]
      /\ SubSeq(s, m, n) = [i \in 1 .. (n - m) + 1 |-> s[(i + m) - 1]]
  OBVIOUS
<1> QED
  BY <1>1, <1>2, <1>3

(* What was appended is found behind what was there. *)
LEMMA SubSeqSecond ==
  ASSUME NEW s \in Seq(Nat), NEW t \in Seq(Nat), NEW m, NEW n,
         m = Len(s) + 1, n = Len(s) + Len(t)
  PROVE  SubSeq(s \o t, m, n) = t
<1>1. Len(s) \in Nat /\ Len(t) \in Nat
  OBVIOUS
<1>2. SubSeq(s \o t, m, n) = [i \in 1 .. Len(t) |-> (s \o t)[Len(s) + i]]
  BY <1>1
<1>3. \A i \in 1 .. Len(t) : (s \o t)[Len(s) + i] = t[i]
  BY <1>1
<1>4. t = [i \in 1 .. Len(t) |-> t[i]]
  OBVIOUS
<1> QED
  BY <1>2, <1>3, <1>4

(* A sequence of m numbers, a part of one, and one after another. *)
Wide(y, m) == y \in Seq(Nat) /\ Len(y) = m
Part(y, i, j) == SubSeq(y, i, j)
After(r, x) == r \o x
(* y is x, from k to m, after the n elements of r. *)
Extended(y, r, n, x, k, m) ==
  /\ Wide(y, m) /\ Part(y, k, m) = x
  /\ \A i \in Nat \ {0}, j \in Nat : j <= n => Part(y, i, j) = Part(r, i, j)
  /\ \A i \in 1 .. n : y[i] = r[i]

(* A buffer that grows by one field keeps its earlier ones. *)
LEMMA Joined ==
  ASSUME NEW n \in Nat, NEW w \in Nat, NEW k, NEW m, k = n + 1, m = n + w,
         NEW r, Wide(r, n), NEW x, Wide(x, w), NEW y, y = After(r, x)
  PROVE  Extended(y, r, n, x, k, m)
<1>0. r \in Seq(Nat) /\ Len(r) = n /\ x \in Seq(Nat) /\ Len(x) = w
  BY DEF Wide
<1>1. r \o x \in Seq(Nat) /\ Len(r \o x) = m
  <2>1. r \o x \in Seq(Nat)
    BY <1>0
  <2>2. Len(r \o x) = Len(r) + Len(x)
    BY <1>0, SMTT(30)
  <2> QED
    BY <1>0, <2>1, <2>2
<1>2. SubSeq(r \o x, k, m) = x
  BY <1>0, SubSeqSecond
<1>3. \A i \in Nat \ {0}, j \in Nat : j <= n => SubSeq(r \o x, i, j) = SubSeq(r, i, j)
  BY <1>0, SubSeqFirst
<1>4. \A i \in 1 .. n : (r \o x)[i] = r[i]
  BY <1>0
<1> QED
  BY <1>1, <1>2, <1>3, <1>4 DEF Extended, Wide, Part, After

(* A field of w bytes is a sequence of w numbers. *)
LEMMA BytesAreSequences ==
  ASSUME NEW w \in Nat, NEW bytes \in Bytes(w)
  PROVE  Wide(bytes, w) /\ Part(bytes, 1, w) = bytes
<1>1. Byte \subseteq Nat
  BY ByteAssumption DEF Byte
<1>2. bytes \in [1 .. w -> Nat]
  BY <1>1, Zenon DEF Bytes
<1>3. bytes \in Seq(Nat) /\ Len(bytes) = w
  BY <1>2
<1> QED
  BY <1>3 DEF Wide, Part

(* An event whose fields fit their types. *)
IsEvent(e) ==
  /\ e = [pid |-> e.pid, ticks |-> e.ticks, ipv4 |-> e.ipv4, port |-> e.port]
  /\ e.pid \in Nat /\ FromBe(ToBe(e.pid, 4)) = e.pid
  /\ e.ticks \in Nat /\ FromBe(ToBe(e.ticks, 8)) = e.ticks
  /\ e.ipv4 \in Nat /\ FromBe(ToBe(e.ipv4, 4)) = e.ipv4
  /\ e.port \in Nat /\ FromBe(ToBe(e.port, 2)) = e.port

(* try_from_bytes reads from the ring the event the probe wrote there, on  *)
(* hosts of either byte order and whatever the padding holds.              *)
THEOREM RingKeepsEvents ==
  ASSUME NEW e, IsEvent(e), NEW padding \in Bytes(4)
  PROVE  ReadRecord(RingRecord(e, padding)) = e
<1> DEFINE a == ToNe(e.pid, 4)
           t == ToNe(e.ticks, 8)
           i == ToNe(e.ipv4, 4)
           q == ToNe(e.port, 2)
           z == ToNe(0, 2)
<1>1. /\ a \in Bytes(4) /\ FromNe(a) = e.pid /\ t \in Bytes(8) /\ FromNe(t) = e.ticks
      /\ i \in Bytes(4) /\ FromNe(i) = e.ipv4 /\ q \in Bytes(2) /\ FromNe(q) = e.port
      /\ z \in Bytes(2)
  BY NativeField, ZeroBytes DEF IsEvent
<1>2. RingRecord(e, padding) = ((((a \o padding) \o t) \o i) \o q) \o z
  BY DEF RingRecord
<1> HIDE DEF a, t, i, q, z
<1>3. /\ Wide(a, 4) /\ Wide(t, 8) /\ Wide(i, 4) /\ Wide(q, 2) /\ Wide(z, 2) /\ Wide(padding, 4)
      /\ Part(a, 1, 4) = a
  BY <1>1, BytesAreSequences
<1>4. PICK r2, r3, r4, r5, r6 :
        /\ r2 = After(a, padding) /\ r3 = After(r2, t) /\ r4 = After(r3, i)
        /\ r5 = After(r4, q) /\ r6 = After(r5, z)
        /\ RingRecord(e, padding) = r6
  BY <1>2, Zenon DEF After
<1>5. Extended(r2, a, 4, padding, 5, 8)
  BY <1>3, <1>4, Joined
<1>6. Wide(r2, 8) /\ Part(r2, 1, 4) = a
  BY <1>3, <1>5 DEF Extended
<1>7. Extended(r3, r2, 8, t, 9, 16)
  BY <1>3, <1>4, <1>6, Joined
<1>8. Wide(r3, 16) /\ Part(r3, 1, 4) = a /\ Part(r3, 9, 16) = t
  BY <1>6, <1>7 DEF Extended
<1>9. Extended(r4, r3, 16, i, 17, 20)
  BY <1>3, <1>4, <1>8, Joined
<1>10. Wide(r4, 20) /\ Part(r4, 1, 4) = a /\ Part(r4, 9, 16) = t /\ Part(r4, 17, 20) = i
  BY <1>8, <1>9 DEF Extended
<1>11. Extended(r5, r4, 20, q, 21, 22)
  BY <1>3, <1>4, <1>10, Joined
<1>12. /\ Wide(r5, 22) /\ Part(r5, 1, 4) = a /\ Part(r5, 9, 16) = t /\ Part(r5, 17, 20) = i
       /\ Part(r5, 21, 22) = q
  BY <1>10, <1>11 DEF Extended
<1>13. Extended(r6, r5, 22, z, 23, 24)
  BY <1>3, <1>4, <1>12, Joined
<1>14. Part(r6, 1, 4) = a /\ Part(r6, 9, 16) = t /\ Part(r6, 17, 20) = i /\ Part(r6, 21, 22) = q
  BY <1>12, <1>13 DEF Extended
<1>15. ReadRecord(r6) = [pid |-> e.pid, ticks |-> e.ticks, ipv4 |-> e.ipv4, port |-> e.port]
  BY <1>1, <1>14, Zenon DEF ReadRecord, Part
<1> QED
  BY <1>4, <1>15 DEF IsEvent

IsDest(d) == d.octets \in Bytes(4) /\ d.port \in 0 .. Base * Base - 1
DestKey(d) == [ipv4 |-> FromBe(d.octets), port |-> d.port]

(* tcp_destination finds the destination in the header of every IPv4 packet *)
(* of TCP, whatever number of words of options come before the ports.      *)
THEOREM PacketShowsDestination ==
  ASSUME NEW d, IsDest(d), NEW ihl \in 5 .. 15
  PROVE  TcpDestination(Packet(d, ihl)) = DestKey(d)
<1> DEFINE header == [i \in 1 .. 4 * ihl |-> CASE i = 1 -> 4 * 16 + ihl
                                               [] i = 10 -> 6
                                               [] i \in 17 .. 20 -> d.octets[i - 16]
                                               [] OTHER -> 1]
           ports == ToBe(d.port, 2)
           p == Packet(d, ihl)
<1>0. ihl \in Nat /\ 4 * ihl \in Nat /\ 20 <= 4 * ihl
  OBVIOUS
<1>1. d.octets \in Bytes(4) /\ d.port \in Nat /\ FromBe(ports) = d.port /\ ports \in Bytes(2)
  BY TwoBytes, ToBeType DEF IsDest
<1>2. p = After(After(header, <<1, 1>>), ports)
  BY DEF Packet, After
<1>3. \A i \in 17 .. 20 : d.octets[i - 16] \in Nat
  BY <1>1, ByteAssumption DEF Bytes, Byte
<1>4. header \in [1 .. 4 * ihl -> Nat]
  BY <1>0, <1>3
<1>5. Wide(header, 4 * ihl)
  <2> HIDE DEF header
  <2>1. header \in Seq(Nat) /\ Len(header) = 4 * ihl
    BY <1>0, <1>4
  <2> QED
    BY <2>1 DEF Wide
<1>6. header[1] = 4 * 16 + ihl /\ header[10] = 6
  BY <1>0
<1>7. Part(header, 17, 20) = d.octets
  <2>1. \A i \in 1 .. 4 : i + 16 \in 1 .. 4 * ihl /\ i + 16 \in 17 .. 20 /\ (i + 16) - 16 = i
                          /\ i + 16 # 1 /\ i + 16 # 10
    BY <1>0
  <2>2. \A i \in 1 .. 4 : header[i + 16] = d.octets[i]
    BY <2>1
  <2> HIDE DEF header
  <2>3. SubSeq(header, 17, 20) = [i \in 1 .. 4 |-> header[i + 16]]
    BY <1>0, <1>5 DEF Wide
  <2>4. d.octets = [i \in 1 .. 4 |-> d.octets[i]]
    BY <1>1 DEF Bytes
  <2> QED
    BY <2>2, <2>3, <2>4 DEF Part
<1> HIDE DEF header, ports, p
<1>8. Wide(<<1, 1>>, 2) /\ Wide(ports, 2)
  <2>1. Wide(<<1, 1>>, 2)
    BY DEF Wide
  <2>2. Wide(ports, 2)
    BY <1>1, BytesAreSequences
  <2> QED
    BY <2>1, <2>2
<1>9. PICK q : q = After(header, <<1, 1>>) /\ p = After(q, ports)
  BY <1>2
<1>10. Extended(q, header, 4 * ihl, <<1, 1>>, 4 * ihl + 1, 4 * ihl + 2)
  BY <1>0, <1>5, <1>8, <1>9, Joined
<1>11. Wide(q, 4 * ihl + 2) /\ q[1] = 4 * 16 + ihl /\ q[10] = 6 /\ Part(q, 17, 20) = d.octets
  BY <1>0, <1>6, <1>7, <1>10 DEF Extended
<1>12. Extended(p, q, 4 * ihl + 2, ports, 4 * ihl + 3, 4 * ihl + 4)
  BY <1>0, <1>8, <1>9, <1>11, Joined
<1>13. /\ Wide(p, 4 * ihl + 4) /\ p[1] = 4 * 16 + ihl /\ p[10] = 6
       /\ Part(p, 17, 20) = d.octets /\ Part(p, 4 * ihl + 3, 4 * ihl + 4) = ports
  BY <1>0, <1>11, <1>12 DEF Extended
<1>14. p[1] % 16 = ihl /\ p[1] \div 16 = 4
  BY <1>13
<1>15. Len(p) = 4 * ihl + 4 /\ ~(Len(p) < 20) /\ ~(4 * ihl < 20)
  BY <1>0, <1>13 DEF Wide
<1>16. TcpDestination(p) = [ipv4 |-> FromBe(SubSeq(p, 17, 20)),
                            port |-> FromBe(SubSeq(p, 4 * ihl + 3, 4 * ihl + 4))]
  BY <1>0, <1>13, <1>14, <1>15 DEF TcpDestination
<1> QED
  BY <1>1, <1>13, <1>16, Zenon DEF Part, DestKey, p

-----------------------------------------------------------------------------
(* Tables                                                                  *)

(* A sequence, of whatever elements. *)
IsSeq(s) == s \in Seq(Range(s))

(* A sequence is one of its own elements. *)
LEMMA RangeSequence ==
  ASSUME NEW D, NEW s \in Seq(D)
  PROVE  s \in Seq(Range(s))
<1>1. Len(s) \in Nat /\ s = [i \in 1 .. Len(s) |-> s[i]] /\ DOMAIN s = 1 .. Len(s)
  OBVIOUS
<1>2. \A i \in 1 .. Len(s) : s[i] \in Range(s)
  BY <1>1 DEF Range
<1>3. s \in [1 .. Len(s) -> Range(s)]
  BY <1>1, <1>2
<1> QED
  BY <1>1, <1>3

(* A bounded table whose order and entries agree. *)
Kept(t, cap) == IsTable(t, Range(t.order)) /\ WellKept(t, cap)

(* A new table is well kept. *)
LEMMA EmptyKept ==
  ASSUME NEW cap \in Nat
  PROVE  Kept(EmptyTable, cap) /\ DOMAIN EmptyTable.entries = {} /\ EmptyTable.order = <<>>
<1>1. EmptyTable.entries = EmptyMap /\ EmptyTable.order = <<>> /\ DOMAIN EmptyMap = {} /\ Range(<<>>) = {}
  BY DEF EmptyTable, EmptyMap, Range
<1>2. IsFiniteSet({}) /\ Cardinality({}) = 0
  BY FS_EmptySet
<1>3. IsTable(EmptyTable, {})
  BY <1>1, <1>2 DEF IsTable, EmptyTable
<1>4. IsInjective(<<>>)
  BY DEF IsInjective
<1> QED
  BY <1>1, <1>2, <1>3, <1>4 DEF Kept, WellKept

(* insert, record, observe and bump on a well kept table *)
LEMMA PutKept ==
  ASSUME NEW cap \in Nat \ {0}, NEW t, Kept(t, cap), NEW k, NEW v
  PROVE  LET p == Put(t, cap, k, v)
         IN  /\ Kept(p, cap) /\ k \in DOMAIN p.entries /\ p.entries[k] = v
             /\ DOMAIN p.entries \subseteq DOMAIN t.entries \cup {k}
             /\ \A x \in DOMAIN p.entries \ {k} : p.entries[x] = t.entries[x]
<1> DEFINE K == Range(t.order) \cup {k}
           p == Put(t, cap, k, v)
<1>1. t.order \in Seq(K)
  <2>1. t.order \in Seq(Range(t.order))
    BY DEF Kept, IsTable
  <2> QED
    BY <2>1
<1>2. IsTable(t, K) /\ WellKept(t, cap) /\ k \in K
  BY <1>1 DEF Kept, IsTable
<1> HIDE DEF K
<1>3. InsertedInto(t, p, K, k, v) /\ WellKept(p, cap)
  BY <1>2, PutEffect, PutKeepsTables
<1> HIDE DEF p
<1>4. p.order \in Seq(Range(p.order))
  BY <1>3, RangeSequence DEF InsertedInto, IsTable
<1> QED
  BY <1>3, <1>4 DEF Kept, InsertedInto, IsTable, p

-----------------------------------------------------------------------------
(* Recent destinations                                                     *)

(* The destinations of a process, each once. *)
IsRows(rows) ==
  /\ IsSeq(rows) /\ Len(rows) <= PerKey
  /\ \A i \in 1 .. Len(rows) :
       rows[i] = [ipv4 |-> rows[i].ipv4, port |-> rows[i].port, verdict |-> rows[i].verdict]
  /\ \A i, j \in 1 .. Len(rows) :
       rows[i].ipv4 = rows[j].ipv4 /\ rows[i].port = rows[j].port => i = j

(* The rows show dest once, with that label. *)
Shows(rows, dest, label) ==
  LET same == {i \in DOMAIN rows : rows[i].ipv4 = dest.ipv4 /\ rows[i].port = dest.port}
  IN  Cardinality(same) = 1 /\ \A i \in same : rows[i].verdict = label

(* One row is enough. *)
LEMMA ShowsOne ==
  ASSUME NEW rows, IsRows(rows), NEW dest, NEW label, NEW n \in 1 .. Len(rows),
         rows[n] = [ipv4 |-> dest.ipv4, port |-> dest.port, verdict |-> label]
  PROVE  Shows(rows, dest, label)
<1> DEFINE same == {i \in DOMAIN rows : rows[i].ipv4 = dest.ipv4 /\ rows[i].port = dest.port}
<1>1. DOMAIN rows = 1 .. Len(rows)
  BY SMTT(30) DEF IsRows, IsSeq
<1>2. rows[n].ipv4 = dest.ipv4 /\ rows[n].port = dest.port /\ rows[n].verdict = label
  BY SMTT(30)
<1>3. \A i \in same : i = n
  BY <1>1, <1>2 DEF IsRows
<1>4. same = {n}
  BY <1>1, <1>2, <1>3
<1> HIDE DEF same
<1>5. Cardinality(same) = 1
  BY <1>4, FS_Singleton, Zenon
<1> QED
  BY <1>2, <1>4, <1>5 DEF Shows, same

(* RecentConnects::record on the queue of one process *)
LEMMA RememberedRows ==
  ASSUME NEW rows, IsRows(rows), NEW dest, NEW label
  PROVE  IsRows(Remembered(rows, dest, label)) /\ Shows(Remembered(rows, dest, label), dest, label)
<1> DEFINE same == {i \in DOMAIN rows : rows[i].ipv4 = dest.ipv4 /\ rows[i].port = dest.port}
           new == Remembered(rows, dest, label)
           row == [ipv4 |-> dest.ipv4, port |-> dest.port, verdict |-> label]
           D == Range(rows) \cup {row}
<1>0. /\ DOMAIN rows = 1 .. Len(rows) /\ Len(rows) \in Nat /\ rows \in Seq(D) /\ row \in D
      /\ Len(rows) <= PerKey /\ PerKey \in Nat \ {0}
  <2>1. rows \in Seq(Range(rows)) /\ Len(rows) <= PerKey
    BY DEF IsRows, IsSeq
  <2> HIDE DEF row
  <2> QED
    BY <2>1, RecordsAssumption
<1>1. CASE same # {}
  <2>1. PICK n \in same : new = [rows EXCEPT ![n].verdict = label]
    BY <1>1, Zenon DEF Remembered
  <2>2. n \in 1 .. Len(rows) /\ rows[n] = [ipv4 |-> dest.ipv4, port |-> dest.port, verdict |-> rows[n].verdict]
    BY <1>0 DEF IsRows
  <2> HIDE DEF new, D, same
  <2>3. /\ DOMAIN new = 1 .. Len(rows) /\ new[n] = row
        /\ \A i \in 1 .. Len(rows) : i # n => new[i] = rows[i]
    BY <1>0, <2>1, <2>2
  <2>4. \A i \in 1 .. Len(rows) : new[i] \in D /\ new[i].ipv4 = rows[i].ipv4 /\ new[i].port = rows[i].port
    <3>1. \A i \in 1 .. Len(rows) : rows[i] \in D
      BY <1>0
    <3> QED
      BY <1>0, <2>2, <2>3, <3>1, SMTT(30)
  <2>5. new = [i \in 1 .. Len(rows) |-> new[i]]
    BY <2>1, <1>0, Zenon
  <2>6. new \in [1 .. Len(rows) -> D]
    BY <2>4, <2>5
  <2>7. new \in Seq(D) /\ Len(new) = Len(rows)
    BY <1>0, <2>6
  <2>8. IsRows(new)
    <3>1. IsSeq(new)
      BY <2>7, RangeSequence DEF IsSeq
    <3>2. \A i \in 1 .. Len(new) :
            new[i] = [ipv4 |-> new[i].ipv4, port |-> new[i].port, verdict |-> new[i].verdict]
      BY <2>3, <2>7, Zenon DEF IsRows
    <3>3. \A i, j \in 1 .. Len(new) : new[i].ipv4 = new[j].ipv4 /\ new[i].port = new[j].port => i = j
      BY <2>4, <2>7 DEF IsRows
    <3> QED
      BY <1>0, <2>7, <3>1, <3>2, <3>3, Zenon DEF IsRows
  <2>9. Shows(new, dest, label)
    BY <2>2, <2>3, <2>7, <2>8, ShowsOne
  <2> QED
    BY <2>8, <2>9 DEF new
<1>2. CASE same = {}
  <2> DEFINE old == IF Len(rows) >= PerKey THEN Tail(rows) ELSE rows
             d == IF Len(rows) >= PerKey THEN 1 ELSE 0
  <2>1. new = Append(old, row)
    BY <1>2 DEF Remembered
  <2>2. \A i \in 1 .. Len(rows) : ~(rows[i].ipv4 = dest.ipv4 /\ rows[i].port = dest.port)
    BY <1>0, <1>2
  <2> HIDE DEF new, D, same, row
  <2>3. /\ old \in Seq(D) /\ Len(old) = Len(rows) - d /\ Len(old) + 1 <= PerKey
        /\ \A i \in 1 .. Len(old) : old[i] = rows[i + d] /\ i + d \in 1 .. Len(rows)
    <3>1. CASE Len(rows) >= PerKey
      <4>1. rows # <<>>
        BY <1>0, <3>1
      <4>2. Tail(rows) \in Seq(D) /\ Len(Tail(rows)) = Len(rows) - 1
        BY <1>0, <4>1
      <4>3. \A i \in 1 .. Len(rows) - 1 : Tail(rows)[i] = rows[i + 1]
        BY <1>0, <4>1
      <4>4. Len(rows) = PerKey
        <5>1. \A x, y \in Nat : x <= y /\ x >= y => x = y
          OBVIOUS
        <5> QED
          BY <1>0, <3>1, <5>1, Zenon
      <4> QED
        BY <1>0, <3>1, <4>2, <4>3, <4>4
    <3>2. CASE ~(Len(rows) >= PerKey)
      BY <1>0, <3>2
    <3> QED
      BY <3>1, <3>2
  <2> DEFINE n == Len(old) + 1
  <2>4. d \in {0, 1}
    OBVIOUS
  <2> HIDE DEF old, d
  <2>5. n \in Nat /\ n <= PerKey
    BY <2>3
  <2>6. new \in Seq(D) /\ Len(new) = n
    BY <1>0, <2>1, <2>3
  <2>7. new[n] = row /\ \A i \in 1 .. n : i # n => new[i] = rows[i + d] /\ i + d \in 1 .. Len(rows)
    BY <1>0, <2>1, <2>3
  <2> HIDE DEF n
  <2>8. row.ipv4 = dest.ipv4 /\ row.port = dest.port
        /\ row = [ipv4 |-> row.ipv4, port |-> row.port, verdict |-> row.verdict]
    BY DEF row
  <2>9. IsRows(new)
    <3>1. IsSeq(new)
      BY <2>6, RangeSequence DEF IsSeq
    <3>2. \A i \in 1 .. n : new[i] = [ipv4 |-> new[i].ipv4, port |-> new[i].port, verdict |-> new[i].verdict]
      BY <2>7, <2>8 DEF IsRows
    <3>3. ASSUME NEW i \in 1 .. n, NEW j \in 1 .. n, new[i].ipv4 = new[j].ipv4, new[i].port = new[j].port
          PROVE  i = j
      <4>1. CASE i # n /\ j # n
        <5>1. i + d = j + d
          BY <2>7, <3>3, <4>1, SMTT(30) DEF IsRows
        <5> QED
          BY <2>4, <2>5, <5>1
      <4>2. CASE i = n /\ j # n
        BY <2>2, <2>7, <2>8, <3>3, <4>2
      <4>3. CASE i # n /\ j = n
        BY <2>2, <2>7, <2>8, <3>3, <4>3
      <4> QED
        BY <4>1, <4>2, <4>3
    <3> QED
      BY <2>5, <2>6, <3>1, <3>2, <3>3 DEF IsRows
  <2>10. n \in 1 .. Len(new)
    BY <2>3, <2>6 DEF n
  <2>11. Shows(new, dest, label)
    BY <2>7, <2>9, <2>10, ShowsOne DEF row
  <2> QED
    BY <2>9, <2>11 DEF new
<1> QED
  BY <1>1, <1>2

-----------------------------------------------------------------------------
(* Statistics                                                              *)

(* The hits of the keys in their order, and f[i] the sum of the first i. *)
HitsOf(t) == [i \in 1 .. Len(t.order) |-> t.entries[t.order[i]].hits]
Sums(x, n, f) ==
  /\ f[0] = 0 /\ \A i \in 1 .. n : f[i] = f[i - 1] + x[i]
  /\ \A i \in 0 .. n : f[i] \in Nat
SumsUpTo(t, n, f) ==
  f = [i \in 0 .. n |-> IF i = 0 THEN 0 ELSE f[i - 1] + t.entries[t.order[i]].hits]

(* Hits is the last of the partial sums. *)
LEMMA HitsDefined ==
  ASSUME NEW t, NEW n \in Nat, n = Len(t.order), HitsOf(t) \in [1 .. n -> Nat]
  PROVE  \E f : Sums(HitsOf(t), n, f) /\ Hits(t) = f[n]
<1> DEFINE V == Nat
           a == 0
           x == HitsOf(t)
           s == [i \in 1 .. n |-> [v \in V |-> v + x[i]]]
<1>0. \A i \in 1 .. n : x[i] = t.entries[t.order[i]].hits /\ x[i] \in Nat
  BY DEF HitsOf
<1> HIDE DEF x
<1>1. s \in [1 .. n -> [V -> V]] /\ a \in V
  BY <1>0
<1>2. PICK f \in [0 .. n -> V] : f[0] = a /\ \A i \in 1 .. n : f[i] = s[i][f[i - 1]]
  <2> HIDE DEF s, V, a
  <2>1. Recurs(V, a, n, s)
    BY <1>1, Recursion, Zenon
  <2> QED
    BY <2>1, Zenon DEF Recurs
<1>3. SumsUpTo(t, n, f)
  <2>1. \A i \in 1 .. n : f[i - 1] \in V
    OBVIOUS
  <2>2. \A i \in 1 .. n : f[i] = f[i - 1] + x[i]
    BY <1>2, <2>1, Zenon
  <2>3. \A i \in 0 .. n : i = 0 \/ (i # 0 /\ i \in 1 .. n)
    OBVIOUS
  <2>4. f[0] = 0
    BY <1>2
  <2> HIDE DEF s, V
  <2>5. \A i \in 0 .. n : f[i] = IF i = 0 THEN 0 ELSE f[i - 1] + t.entries[t.order[i]].hits
    BY <1>0, <2>2, <2>3, <2>4
  <2> QED
    BY <2>5 DEF SumsUpTo
<1> DEFINE h == CHOOSE e : SumsUpTo(t, n, e)
<1>4. SumsUpTo(t, n, h)
  BY <1>3
<1>5. Hits(t) = h[n]
  BY DEF Hits, SumsUpTo
<1> HIDE DEF h
<1>6. h[0] = 0 /\ \A i \in 1 .. n : h[i] = h[i - 1] + x[i]
  <2>1. \A i \in 0 .. n : h[i] = IF i = 0 THEN 0 ELSE h[i - 1] + t.entries[t.order[i]].hits
    BY <1>4 DEF SumsUpTo
  <2>2. 0 \in 0 .. n /\ \A i \in 1 .. n : i \in 0 .. n /\ i # 0
    OBVIOUS
  <2> QED
    BY <1>0, <2>1, <2>2
<1>7. \A i \in 0 .. n : h[i] \in Nat
  <2> DEFINE T == {i \in Nat : i <= n => h[i] \in Nat}
  <2>1. 0 \in T
    BY <1>6
  <2>2. ASSUME NEW i \in T PROVE i + 1 \in T
    <3>1. i \in Nat /\ i + 1 \in Nat
      BY <2>2
    <3>2. ASSUME i + 1 <= n PROVE h[i + 1] \in Nat
      <4>1. i + 1 \in 1 .. n /\ (i + 1) - 1 = i /\ i <= n
        BY <3>1, <3>2
      <4>2. h[i + 1] = h[i] + x[i + 1] /\ h[i] \in Nat /\ x[i + 1] \in Nat
        BY <1>0, <1>6, <2>2, <4>1
      <4> QED
        BY <4>2
    <3> QED
      BY <3>1, <3>2
  <2>3. Nat \subseteq T
    <3> HIDE DEF T
    <3> QED
      BY <2>1, <2>2, SetInduction
  <2> QED
    BY <2>3
<1> QED
  BY <1>5, <1>6, <1>7 DEF Sums, x

(* One more at one place is one more in all. *)
LEMMA SumBumped ==
  ASSUME NEW n \in Nat, NEW x, NEW y, NEW f, NEW g, Sums(x, n, f), Sums(y, n, g),
         NEW j \in 1 .. n, y[j] = x[j] + 1, \A i \in 1 .. n : x[i] \in Nat,
         \A i \in 1 .. n : i # j => y[i] = x[i]
  PROVE  g[n] = f[n] + 1
<1> DEFINE T == {i \in Nat : i <= n => g[i] = f[i] + (IF i < j THEN 0 ELSE 1)}
<1>1. 0 \in T
  BY DEF Sums
<1>2. ASSUME NEW i \in T PROVE i + 1 \in T
  <2>1. i \in Nat /\ i + 1 \in Nat
    BY <1>2
  <2>2. ASSUME i + 1 <= n PROVE g[i + 1] = f[i + 1] + (IF i + 1 < j THEN 0 ELSE 1)
    <3>1. i + 1 \in 1 .. n /\ (i + 1) - 1 = i /\ i <= n /\ i \in 0 .. n
      BY <2>1, <2>2
    <3>2. /\ g[i + 1] = g[i] + y[i + 1] /\ f[i + 1] = f[i] + x[i + 1] /\ f[i] \in Nat
          /\ x[i + 1] \in Nat
      BY <3>1 DEF Sums
    <3>3. g[i] = f[i] + (IF i < j THEN 0 ELSE 1)
      BY <1>2, <3>1
    <3>4. CASE i + 1 = j
      BY <2>1, <3>2, <3>3, <3>4
    <3>5. CASE i + 1 # j
      <4>1. y[i + 1] = x[i + 1] /\ (i < j <=> i + 1 < j)
        BY <2>1, <3>1, <3>5
      <4> QED
        BY <3>2, <3>3, <4>1
    <3> QED
      BY <3>4, <3>5
  <2> QED
    BY <2>1, <2>2
<1>3. n \in T
  <2> HIDE DEF T
  <2> QED
    BY <1>1, <1>2, SetInduction
<1> QED
  BY <1>3

(* What the sums f become when d keys are popped and one is pushed. *)
Grown(x, n, f, y, m, g, d) == g[m] = (f[n] - f[d]) + 1

(* A new key counts one, and a key that was popped counts no more. *)
LEMMA SumPushed ==
  ASSUME NEW n \in Nat, NEW d \in 0 .. n, NEW m, m = (n - d) + 1, NEW x, NEW y, NEW f, NEW g,
         Sums(x, n, f), Sums(y, m, g), y[m] = 1, \A i \in 1 .. n : x[i] \in Nat,
         \A i \in 1 .. n - d : y[i] = x[i + d]
  PROVE  Grown(x, n, f, y, m, g, d)
<1> DEFINE T == {i \in Nat : i <= n - d => g[i] = f[i + d] - f[d]}
<1>0. n - d \in Nat /\ m \in Nat /\ f[d] \in Nat /\ f[n] \in Nat
  BY DEF Sums
<1>1. 0 \in T
  <2>1. 0 + d = d /\ g[0] = 0
    BY DEF Sums
  <2> QED
    BY <1>0, <2>1
<1>2. ASSUME NEW i \in T PROVE i + 1 \in T
  <2>1. i \in Nat /\ i + 1 \in Nat
    BY <1>2
  <2>2. ASSUME i + 1 <= n - d PROVE g[i + 1] = f[(i + 1) + d] - f[d]
    <3>1. /\ i + 1 \in 1 .. n - d /\ i + 1 \in 1 .. m /\ (i + 1) - 1 = i /\ i <= n - d
          /\ (i + 1) + d \in 1 .. n /\ ((i + 1) + d) - 1 = i + d /\ i + d \in 0 .. n
      BY <1>0, <2>1, <2>2
    <3>2. g[i + 1] = g[i] + y[i + 1] /\ y[i + 1] = x[(i + 1) + d]
      BY <3>1 DEF Sums
    <3>3. f[(i + 1) + d] = f[i + d] + x[(i + 1) + d] /\ f[i + d] \in Nat /\ x[(i + 1) + d] \in Nat
      BY <3>1 DEF Sums
    <3>4. g[i] = f[i + d] - f[d]
      BY <1>2, <3>1
    <3> QED
      BY <1>0, <3>2, <3>3, <3>4
  <2> QED
    BY <2>1, <2>2
<1>3. n - d \in T
  <2> HIDE DEF T
  <2> QED
    BY <1>0, <1>1, <1>2, SetInduction
<1>4. g[n - d] = f[n] - f[d]
  <2>1. (n - d) + d = n
    OBVIOUS
  <2> QED
    BY <1>3, <2>1
<1>5. g[m] = g[n - d] + 1
  <2>1. m \in 1 .. m /\ m - 1 = n - d
    BY <1>0
  <2> QED
    BY <2>1 DEF Sums
<1> QED
  BY <1>4, <1>5 DEF Grown

IsCount(c) ==
  /\ c \in [hits : Nat, allow : Nat, deny : Nat, prompt : Nat]
  /\ c.hits = c.allow + c.deny + c.prompt

(* A table of counters. *)
Counted(t) == Kept(t, StatsKeys) /\ \A k \in DOMAIN t.entries : IsCount(t.entries[k])

(* Counters::bump keeps the sum of the verdicts. *)
LEMMA BumpCounts ==
  /\ IsCount(NoHits) /\ NoHits.hits = 0
  /\ \A c, verdict : IsCount(c) /\ verdict \in Label
       => IsCount(Bump(c, verdict)) /\ Bump(c, verdict).hits = c.hits + 1
<1>1. IsCount(NoHits) /\ NoHits.hits = 0
  BY DEF IsCount, NoHits
<1>2. ASSUME NEW c, NEW verdict, IsCount(c), verdict \in Label
      PROVE  IsCount(Bump(c, verdict)) /\ Bump(c, verdict).hits = c.hits + 1
  <2>0. PICK h, a, d, p \in Nat : c = [hits |-> h, allow |-> a, deny |-> d, prompt |-> p] /\ h = a + d + p
    BY <1>2 DEF IsCount
  <2>1. CASE verdict = "allow"
    <3>1. Bump(c, "allow") = [hits |-> h + 1, allow |-> a + 1, deny |-> d, prompt |-> p]
      <4> DEFINE e == [c EXCEPT !.hits = c.hits + 1]
      <4>1. e = [hits |-> h + 1, allow |-> a, deny |-> d, prompt |-> p] /\ c["allow"] = e["allow"]
        BY <2>0
      <4>2. Bump(c, "allow") = [e EXCEPT !["allow"] = e["allow"] + 1]
        BY <4>1 DEF Bump
      <4> HIDE DEF e
      <4> QED
        BY <4>1, <4>2
    <3> QED
      BY <2>0, <2>1, <3>1 DEF IsCount
  <2>2. CASE verdict = "deny"
    <3>1. Bump(c, "deny") = [hits |-> h + 1, allow |-> a, deny |-> d + 1, prompt |-> p]
      <4> DEFINE e == [c EXCEPT !.hits = c.hits + 1]
      <4>1. e = [hits |-> h + 1, allow |-> a, deny |-> d, prompt |-> p] /\ c["deny"] = e["deny"]
        BY <2>0
      <4>2. Bump(c, "deny") = [e EXCEPT !["deny"] = e["deny"] + 1]
        BY <4>1 DEF Bump
      <4> HIDE DEF e
      <4> QED
        BY <4>1, <4>2
    <3> QED
      BY <2>0, <2>2, <3>1 DEF IsCount
  <2>3. CASE verdict = "prompt"
    <3>1. Bump(c, "prompt") = [hits |-> h + 1, allow |-> a, deny |-> d, prompt |-> p + 1]
      <4> DEFINE e == [c EXCEPT !.hits = c.hits + 1]
      <4>1. e = [hits |-> h + 1, allow |-> a, deny |-> d, prompt |-> p] /\ c["prompt"] = e["prompt"]
        BY <2>0
      <4>2. Bump(c, "prompt") = [e EXCEPT !["prompt"] = e["prompt"] + 1]
        BY <4>1 DEF Bump
      <4> HIDE DEF e
      <4> QED
        BY <4>1, <4>2
    <3> QED
      BY <2>0, <2>3, <3>1 DEF IsCount
  <2> QED
    BY <1>2, <2>1, <2>2, <2>3 DEF Label
<1> QED
  BY <1>1, <1>2

(* The order of a table of counters lists its keys. *)
LEMMA CountedOrder ==
  ASSUME NEW t, Counted(t)
  PROVE  /\ Len(t.order) \in Nat /\ t.order \in Seq(DOMAIN t.entries) /\ DOMAIN t.order = 1 .. Len(t.order)
         /\ \A i \in 1 .. Len(t.order) : t.order[i] \in DOMAIN t.entries
         /\ Range(t.order) = DOMAIN t.entries /\ IsInjective(t.order)
         /\ Cardinality(DOMAIN t.entries) = Len(t.order)
         /\ HitsOf(t) \in [1 .. Len(t.order) -> Nat]
         /\ \A i \in 1 .. Len(t.order) : HitsOf(t)[i] = t.entries[t.order[i]].hits
<1>1. t.order \in Seq(DOMAIN t.entries) /\ Range(t.order) = DOMAIN t.entries /\ IsInjective(t.order)
  BY DEF Counted, Kept, IsTable, WellKept
<1>2. Len(t.order) \in Nat /\ DOMAIN t.order = 1 .. Len(t.order)
  BY <1>1
<1>3. \A i \in 1 .. Len(t.order) : t.order[i] \in DOMAIN t.entries
  BY <1>1
<1>4. Cardinality(DOMAIN t.entries) = Len(t.order)
  BY <1>1, SequenceElements
<1>5. \A i \in 1 .. Len(t.order) : t.entries[t.order[i]].hits \in Nat
  BY <1>3 DEF Counted, IsCount
<1> QED
  BY <1>1, <1>2, <1>3, <1>4, <1>5 DEF HitsOf

(* q is o without its first d keys, and with another. *)
Shifted(q, o, n, d, k) ==
  /\ Len(q) = (n - d) + 1 /\ q[(n - d) + 1] = k
  /\ \A i \in 1 .. n - d : q[i] = o[i + d]

(* The order after its first d keys are popped and another is pushed. *)
LEMMA PopAndPush ==
  ASSUME NEW D, NEW o \in Seq(D), NEW n, n = Len(o), NEW d \in 0 .. n, NEW k
  PROVE  Shifted(Append(SubSeq(o, d + 1, n), k), o, n, d, k)
<1> DEFINE rest == SubSeq(o, d + 1, n)
<1>1. n \in Nat /\ d \in Nat /\ n - d \in Nat
  OBVIOUS
<1>2. rest \in Seq(D)
  BY <1>1
<1>3. Len(rest) = n - d
  BY <1>1
<1>4. \A i \in 1 .. n - d : rest[i] = o[i + d]
  BY <1>1
<1> HIDE DEF rest
<1>5. rest \in Seq(D \cup {k})
  BY <1>2
<1>6. Len(Append(rest, k)) = (n - d) + 1
  BY <1>3, <1>5
<1>7. Append(rest, k)[(n - d) + 1] = k
  BY <1>1, <1>3, <1>5
<1>8. \A i \in 1 .. n - d : Append(rest, k)[i] = rest[i]
  BY <1>1, <1>3, <1>5
<1> QED
  BY <1>4, <1>6, <1>7, <1>8 DEF rest, Shifted

(* bump on a key that is there, and on one that is not: at most one hit more, *)
(* and exactly one while nothing has to go.                                *)
LEMMA BumpHits ==
  ASSUME NEW t, Counted(t), NEW k, NEW verdict \in Label
  PROVE  LET p == BumpKey(t, k, verdict)
         IN  /\ Counted(p) /\ Hits(t) \in Nat /\ Hits(p) \in Nat /\ Hits(p) <= Hits(t) + 1
             /\ Len(p.order) < StatsKeys => Len(t.order) < StatsKeys /\ Hits(p) = Hits(t) + 1
<1> DEFINE c == IF Holds(t, k) THEN t.entries[k] ELSE NoHits
           v == Bump(c, verdict)
           p == BumpKey(t, k, verdict)
           n == Len(t.order)
           m == Len(p.order)
<1>1. p = Put(t, StatsKeys, k, v)
  BY DEF BumpKey
<1>2. IsCount(c)
  BY BumpCounts DEF Counted, Holds
<1>3. IsCount(v) /\ v.hits = c.hits + 1 /\ c.hits \in Nat
  BY <1>2, BumpCounts DEF IsCount
<1> HIDE DEF v, p
<1>4. /\ Kept(p, StatsKeys) /\ k \in DOMAIN p.entries /\ p.entries[k] = v
      /\ DOMAIN p.entries \subseteq DOMAIN t.entries \cup {k}
      /\ \A x \in DOMAIN p.entries \ {k} : p.entries[x] = t.entries[x]
  BY <1>1, RecordsAssumption, PutKept DEF Counted
<1>5. Counted(p)
  BY <1>3, <1>4 DEF Counted
<1>6. PICK f : Sums(HitsOf(t), n, f) /\ Hits(t) = f[n]
  BY CountedOrder, HitsDefined
<1>7. PICK g : Sums(HitsOf(p), m, g) /\ Hits(p) = g[m]
  BY <1>5, CountedOrder, HitsDefined, ZenonT(40)
<1>8. n \in Nat /\ m \in Nat /\ Hits(t) \in Nat /\ Hits(p) \in Nat
  <2>1. n \in Nat /\ m \in Nat
    BY <1>5, CountedOrder
  <2>2. n \in 0 .. n /\ m \in 0 .. m
    BY <2>1
  <2> QED
    BY <1>6, <1>7, <2>1, <2>2 DEF Sums
<1> DEFINE o == t.order
           q == p.order
           x == HitsOf(t)
           y == HitsOf(p)
<1>9. \A i \in 1 .. m : q[i] \in DOMAIN p.entries /\ y[i] = p.entries[q[i]].hits
  BY <1>5, CountedOrder
<1>10. \A i \in 1 .. n : x[i] = t.entries[o[i]].hits /\ x[i] \in Nat /\ o[i] \in DOMAIN t.entries
  BY CountedOrder
<1>11. /\ o \in Seq(DOMAIN t.entries) /\ n = Len(o) /\ m = Len(q) /\ Range(o) = DOMAIN t.entries
       /\ DOMAIN o = 1 .. n /\ IsInjective(o) /\ Cardinality(DOMAIN t.entries) = n
       /\ Sums(x, n, f) /\ Hits(t) = f[n] /\ Sums(y, m, g) /\ Hits(p) = g[m]
  BY <1>6, <1>7, CountedOrder
<1>12. CASE Holds(t, k)
  <2>1. p = [t EXCEPT !.entries = MapInsert(@, k, v)]
    BY <1>1, <1>12 DEF Put
  <2>2. q = o
    BY <2>1 DEF Counted, Kept, IsTable
  <2> HIDE DEF o, q, x, y, n, m
  <2>3. m = n
    BY <1>11, <2>2
  <2>4. PICK j \in 1 .. n : o[j] = k
    BY <1>11, <1>12 DEF Holds, Range
  <2>5. \A i \in 1 .. n : i # j => o[i] # k
    BY <1>11, <2>4 DEF IsInjective
  <2>6. y[j] = x[j] + 1
    BY <1>3, <1>4, <1>9, <1>10, <1>12, <2>2, <2>3, <2>4 DEF Holds
  <2>7. \A i \in 1 .. n : i # j => y[i] = x[i]
    BY <1>4, <1>9, <1>10, <2>2, <2>3, <2>5, SMTT(30)
  <2>8. g[n] = f[n] + 1
    BY <1>8, <1>10, <1>11, <2>3, <2>6, <2>7, SumBumped, SMTT(30)
  <2> QED
    BY <1>5, <1>8, <1>11, <2>3, <2>8 DEF p, n, m
<1>13. CASE ~Holds(t, k)
  <2>1. PICK d \in 0 .. n : /\ MakeRoom(t, StatsKeys) = Popped(t, d)
                            /\ d = IF Cardinality(DOMAIN t.entries) < StatsKeys THEN 0 ELSE 1
    BY RecordsAssumption, MakeRoomPops DEF Counted, Kept
  <2>2. d = IF n < StatsKeys THEN 0 ELSE 1
    BY <1>11, <2>1
  <2> DEFINE rest == SubSeq(o, d + 1, n)
  <2>3. q = Append(rest, k)
    <3>1. Popped(t, d).order = rest
      BY DEF Popped
    <3>2. p = [entries |-> MapInsert(MakeRoom(t, StatsKeys).entries, k, v),
               order |-> Append(MakeRoom(t, StatsKeys).order, k)]
      BY <1>1, <1>13 DEF Put
    <3> HIDE DEF rest
    <3> QED
      BY <2>1, <3>1, <3>2
  <2>4. d \in 0 .. n /\ d \in Nat /\ d <= n /\ n - d \in Nat
    BY <1>8
  <2> HIDE DEF o, q, x, y, n, m
  <2>5. m = (n - d) + 1 /\ q[m] = k /\ \A i \in 1 .. n - d : q[i] = o[i + d]
    <3>1. Shifted(Append(SubSeq(o, d + 1, n), k), o, n, d, k)
      BY <1>11, <2>4, PopAndPush
    <3> QED
      BY <1>11, <2>3, <3>1, Zenon DEF Shifted
  <2>6. y[m] = 1
    <3>1. m \in 1 .. m
      BY <2>4, <2>5
    <3> QED
      BY <1>3, <1>4, <1>9, <1>13, <2>5, <3>1, BumpCounts, SMTT(30)
  <2>7. \A i \in 1 .. n - d : y[i] = x[i + d]
    <3> SUFFICES ASSUME NEW i \in 1 .. n - d PROVE y[i] = x[i + d]
      OBVIOUS
    <3>1. i \in 1 .. m /\ i + d \in 1 .. n
      BY <1>8, <2>4, <2>5
    <3>2. o[i + d] \in DOMAIN t.entries /\ o[i + d] # k
      BY <1>10, <1>13, <3>1 DEF Holds
    <3>3. p.entries[q[i]] = t.entries[o[i + d]]
      BY <1>4, <1>9, <2>5, <3>1, <3>2
    <3> QED
      BY <1>9, <1>10, <3>1, <3>3
  <2>8. g[m] = (f[n] - f[d]) + 1
    <3>1. Grown(x, n, f, y, m, g, d)
      <4>1. /\ n \in Nat /\ d \in 0 .. n /\ m = (n - d) + 1 /\ Sums(x, n, f) /\ Sums(y, m, g)
            /\ \A i \in 1 .. n : x[i] \in Nat
        BY <1>8, <1>10, <1>11, <2>4, <2>5
      <4> QED
        BY <2>6, <2>7, <4>1, SumPushed
    <3> QED
      BY <3>1 DEF Grown
  <2>9. f[d] \in Nat /\ (d = 0 => f[d] = 0)
    BY <1>11, <2>4 DEF Sums
  <2>10. Hits(p) <= Hits(t) + 1 /\ (d = 0 => Hits(p) = Hits(t) + 1)
    BY <1>8, <1>11, <2>8, <2>9
  <2>11. m < StatsKeys => n < StatsKeys
    BY <1>8, <2>2, <2>5, RecordsAssumption
  <2> QED
    BY <1>5, <1>8, <2>2, <2>10, <2>11 DEF p, n, m, o, q
<1> QED
  BY <1>12, <1>13
=============================================================================
