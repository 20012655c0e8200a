--------------------------- MODULE AuditLogProofs ---------------------------
(***************************************************************************)
(* The audit log's bounds, numbering and streams, proved for any caps, any *)
(* record sizes, any subscribers and any number of faults.  AuditInv is    *)
(* the inductive invariant.                                                *)
(***************************************************************************)
EXTENDS AuditLog, DataProofs

Record == [seq : Nat, size : Nat]
DiskLine == [seq : Nat, size : Nat, cut : Cut]

-----------------------------------------------------------------------------
(* Sizes                                                                   *)

Sized(rs) == rs \in Seq(Record) \/ rs \in Seq(DiskLine)

(* The lines of a retained window are numbered from 1 and carry natural sizes and sequences. *)
LEMMA SizedType ==
  ASSUME NEW rs, Sized(rs)
  PROVE  /\ Len(rs) \in Nat /\ DOMAIN rs = 1 .. Len(rs)
         /\ \A i \in 1 .. Len(rs) : rs[i].size \in Nat /\ rs[i].seq \in Nat
<1>1. CASE rs \in Seq(Record)
  <2>1. Len(rs) \in Nat /\ DOMAIN rs = 1 .. Len(rs) /\ \A i \in 1 .. Len(rs) : rs[i] \in Record
    BY <1>1
  <2> QED
    BY <2>1 DEF Record
<1>2. CASE rs \in Seq(DiskLine)
  <2>1. Len(rs) \in Nat /\ DOMAIN rs = 1 .. Len(rs) /\ \A i \in 1 .. Len(rs) : rs[i] \in DiskLine
    BY <1>2
  <2> QED
    BY <2>1 DEF DiskLine
<1> QED
  BY <1>1, <1>2 DEF Sized

(* f holds the running sums of the sizes of rs. *)
Sums(rs, f) ==
  /\ f[0] = 0
  /\ \A n \in 1 .. Len(rs) : f[n] = f[n - 1] + rs[n].size
  /\ \A n \in 0 .. Len(rs) : f[n] \in Nat

SumsUpTo(rs, f, m) ==
  f = [n \in 0 .. m |-> IF n = 0 THEN 0 ELSE f[n - 1] + rs[n].size]

(* The recursion of Bytes defines a function. *)
LEMMA BytesDefined ==
  ASSUME NEW rs, Sized(rs)
  PROVE  \E f : Sums(rs, f) /\ Bytes(rs) = f[Len(rs)]
<1> DEFINE m == Len(rs)
           V == Nat
           a == 0
           g == [n \in 1 .. m |-> [t \in V |-> t + rs[n].size]]
<1>1. m \in Nat /\ a \in V /\ \A n \in 1 .. m : rs[n].size \in Nat
  BY SizedType
<1>2. g \in [1 .. m -> [V -> V]]
  BY <1>1
<1>3. PICK f \in [0 .. m -> V] : f[0] = a /\ \A n \in 1 .. m : f[n] = g[n][f[n - 1]]
  <2> HIDE DEF g, m, V, a
  <2>1. Recurs(V, a, m, g)
    BY <1>1, <1>2, Recursion
  <2> QED
    BY <2>1, Zenon DEF Recurs
<1>4. SumsUpTo(rs, f, m)
  <2>1. \A n \in 1 .. m : f[n - 1] \in V
    BY <1>1
  <2>2. \A n \in 1 .. m : f[n] = f[n - 1] + rs[n].size
    BY <1>3, <2>1, Zenon
  <2>3. \A n \in 0 .. m : n = 0 \/ (n # 0 /\ n \in 1 .. m)
    BY <1>1
  <2>4. f[0] = 0
    BY <1>3
  <2> HIDE DEF g, m, V
  <2>5. \A n \in 0 .. m : f[n] = IF n = 0 THEN 0 ELSE f[n - 1] + rs[n].size
    BY <2>2, <2>3, <2>4
  <2> QED
    BY <2>5 DEF SumsUpTo
<1> DEFINE h == CHOOSE e : SumsUpTo(rs, e, m)
<1>5. SumsUpTo(rs, h, m)
  BY <1>4
<1>6. Bytes(rs) = h[m]
  BY DEF Bytes, SumsUpTo
<1> HIDE DEF h
<1>7. h[0] = 0 /\ \A n \in 1 .. m : h[n] = h[n - 1] + rs[n].size
  <2>1. \A n \in 0 .. m : h[n] = IF n = 0 THEN 0 ELSE h[n - 1] + rs[n].size
    BY <1>5 DEF SumsUpTo
  <2>2. 0 \in 0 .. m /\ \A n \in 1 .. m : n \in 0 .. m /\ n # 0
    BY <1>1
  <2> QED
    BY <2>1, <2>2
<1>8. \A n \in 0 .. m : h[n] \in Nat
  <2> DEFINE T == {n \in Nat : n <= m => h[n] \in Nat}
  <2>1. 0 \in T
    BY <1>7
  <2>2. ASSUME NEW n \in T PROVE n + 1 \in T
    <3>1. n \in Nat /\ n + 1 \in Nat
      BY <2>2
    <3>2. ASSUME n + 1 <= m PROVE h[n + 1] \in Nat
      <4>1. n + 1 \in 1 .. m /\ (n + 1) - 1 = n /\ n <= m
        BY <1>1, <3>1, <3>2
      <4>2. h[n + 1] = h[n] + rs[n + 1].size
        BY <1>7, <4>1
      <4>3. h[n] \in Nat /\ rs[n + 1].size \in Nat
        BY <1>1, <2>2, <4>1
      <4> QED
        BY <4>2, <4>3
    <3> QED
      BY <3>1, <3>2
  <2>3. Nat \subseteq T
    <3> HIDE DEF T
    <3> QED
      BY <2>1, <2>2, SetInduction
  <2> QED
    BY <1>1, <2>3
<1> QED
  BY <1>6, <1>7, <1>8 DEF Sums

(* Running sums of equal sizes are equal. *)
LEMMA SumsAgree ==
  ASSUME NEW rs, Sized(rs), NEW ts, Sized(ts), NEW f, Sums(rs, f), NEW g, Sums(ts, g),
         NEW m \in Nat, m <= Len(rs), m <= Len(ts),
         \A n \in 1 .. m : rs[n].size = ts[n].size
  PROVE  f[m] = g[m]
<1>0. Len(rs) \in Nat /\ Len(ts) \in Nat
  BY SizedType
<1> DEFINE T == {n \in Nat : n <= m => f[n] = g[n]}
<1>1. 0 \in T
  BY DEF Sums
<1>2. ASSUME NEW n \in T PROVE n + 1 \in T
  <2>1. n \in Nat /\ n + 1 \in Nat
    BY <1>2
  <2>2. ASSUME n + 1 <= m PROVE f[n + 1] = g[n + 1]
    <3>1. /\ n + 1 \in 1 .. m /\ n + 1 \in 1 .. Len(rs) /\ n + 1 \in 1 .. Len(ts)
          /\ (n + 1) - 1 = n /\ n <= m
      BY <1>0, <2>1, <2>2
    <3>2. f[n + 1] = f[n] + rs[n + 1].size /\ g[n + 1] = g[n] + ts[n + 1].size
      BY <3>1 DEF Sums
    <3>3. f[n] = g[n]
      BY <1>2, <3>1
    <3> QED
      BY <3>1, <3>2, <3>3
  <2> QED
    BY <2>1, <2>2
<1>3. m \in T
  <2> HIDE DEF T
  <2> QED
    BY <1>1, <1>2, SetInduction
<1> QED
  BY <1>3

(* The byte size of a list of lines is a natural number. *)
LEMMA BytesType ==
  ASSUME NEW rs, Sized(rs)
  PROVE  Bytes(rs) \in Nat
<1>1. PICK f : Sums(rs, f) /\ Bytes(rs) = f[Len(rs)]
  BY BytesDefined
<1>2. Len(rs) \in 0 .. Len(rs)
  BY SizedType
<1> QED
  BY <1>1, <1>2 DEF Sums

(* The sizes alone decide. *)
LEMMA BytesSame ==
  ASSUME NEW rs, Sized(rs), NEW ts, Sized(ts), Len(rs) = Len(ts),
         \A n \in 1 .. Len(rs) : rs[n].size = ts[n].size
  PROVE  Bytes(rs) = Bytes(ts)
<1>1. PICK f : Sums(rs, f) /\ Bytes(rs) = f[Len(rs)]
  BY BytesDefined
<1>2. PICK g : Sums(ts, g) /\ Bytes(ts) = g[Len(ts)]
  BY BytesDefined
<1>3. Len(rs) \in Nat /\ Len(rs) <= Len(rs) /\ Len(rs) <= Len(ts)
  BY SizedType
<1>4. f[Len(rs)] = g[Len(rs)]
  BY <1>1, <1>2, <1>3, SumsAgree
<1> QED
  BY <1>1, <1>2, <1>4

(* One more line adds its size. *)
LEMMA BytesGrow ==
  ASSUME NEW rs, Sized(rs), NEW ts, Sized(ts), Len(ts) = Len(rs) + 1,
         \A n \in 1 .. Len(rs) : rs[n].size = ts[n].size
  PROVE  Bytes(ts) = Bytes(rs) + ts[Len(ts)].size
<1>1. PICK f : Sums(rs, f) /\ Bytes(rs) = f[Len(rs)]
  BY BytesDefined
<1>2. PICK g : Sums(ts, g) /\ Bytes(ts) = g[Len(ts)]
  BY BytesDefined
<1>3. /\ Len(rs) \in Nat /\ Len(rs) <= Len(rs) /\ Len(rs) <= Len(ts)
      /\ Len(ts) \in 1 .. Len(ts) /\ Len(ts) - 1 = Len(rs)
  BY SizedType
<1>4. f[Len(rs)] = g[Len(rs)]
  BY <1>1, <1>2, <1>3, SumsAgree
<1>5. g[Len(ts)] = g[Len(ts) - 1] + ts[Len(ts)].size
  BY <1>2, <1>3 DEF Sums
<1> QED
  BY <1>1, <1>2, <1>3, <1>4, <1>5

(* An empty window retains no bytes. *)
LEMMA BytesEmpty ==
  ASSUME NEW rs, Sized(rs), Len(rs) = 0
  PROVE  Bytes(rs) = 0
<1>1. PICK f : Sums(rs, f) /\ Bytes(rs) = f[Len(rs)]
  BY BytesDefined
<1> QED
  BY <1>1 DEF Sums

-----------------------------------------------------------------------------
(* The window and the file                                                 *)

(* A suffix of a sequence of records. *)
LEMMA Suffix ==
  ASSUME NEW D, NEW rs \in Seq(D), NEW i \in 1 .. Len(rs) + 1
  PROVE  /\ SubSeq(rs, i, Len(rs)) \in Seq(D)
         /\ Len(SubSeq(rs, i, Len(rs))) = Len(rs) - i + 1
         /\ \A j \in 1 .. Len(rs) - i + 1 : SubSeq(rs, i, Len(rs))[j] = rs[i - 1 + j]
<1>0. Len(rs) \in Nat /\ i \in Nat /\ i >= 1 /\ i <= Len(rs) + 1
  OBVIOUS
<1>1. \A j \in i .. Len(rs) : rs[j] \in D
  BY <1>0
<1>2. SubSeq(rs, i, Len(rs)) \in Seq(D)
  BY <1>0, <1>1
<1>3. Len(SubSeq(rs, i, Len(rs))) = Len(rs) - i + 1
  BY <1>0
<1>4. ASSUME NEW j \in 1 .. Len(rs) - i + 1
      PROVE  SubSeq(rs, i, Len(rs))[j] = rs[i - 1 + j]
  BY <1>0
<1> QED
  BY <1>2, <1>3, <1>4

(* trim_to_disk_budget leaves a suffix that fits, and not nothing when the *)
(* newest record alone fits.                                               *)
LEMMA TrimmedWell ==
  ASSUME NEW rs \in Seq(Record)
  PROVE  /\ \E i \in 1 .. Len(rs) + 1 :
              /\ Trimmed(rs) = SubSeq(rs, i, Len(rs))
              /\ rs # <<>> /\ rs[Len(rs)].size <= MaxBytes => i <= Len(rs)
         /\ Bytes(Trimmed(rs)) <= MaxBytes
<1> DEFINE m == Len(rs)
           B(i) == Bytes(SubSeq(rs, i, Len(rs)))
           I == {i \in 1 .. m + 1 : B(i) <= MaxBytes}
           First(i) == B(i) <= MaxBytes /\ \A j \in 1 .. i - 1 : B(j) > MaxBytes
           first == CHOOSE i \in 1 .. m + 1 : First(i)
<1>0. m \in Nat /\ m + 1 \in 1 .. m + 1 /\ MaxBytes \in Nat
  BY AuditAssumption
<1>1. \A i \in 1 .. m + 1 : Sized(SubSeq(rs, i, Len(rs))) /\ B(i) \in Nat
  BY Suffix, BytesType, Zenon DEF Sized
<1>2. B(m + 1) = 0
  <2>1. Len(SubSeq(rs, m + 1, Len(rs))) = Len(rs) - (m + 1) + 1
    BY <1>0, Suffix
  <2>2. Len(SubSeq(rs, m + 1, Len(rs))) = 0
    BY <1>0, <2>1
  <2> QED
    BY <1>0, <1>1, <2>2, BytesEmpty, Zenon
<1>3. ASSUME rs # <<>>, rs[Len(rs)].size <= MaxBytes PROVE m \in I
  <2> DEFINE t == SubSeq(rs, m, Len(rs))
             e == SubSeq(rs, m + 1, Len(rs))
  <2>1. m \in 1 .. m + 1 /\ m # 0
    BY <1>0, <1>3
  <2>2. Len(t) = m - m + 1 /\ \A j \in 1 .. m - m + 1 : t[j] = rs[m - 1 + j]
    BY <2>1, Suffix
  <2>3. m - m + 1 = 1 /\ m - 1 + 1 = m /\ 1 \in 1 .. m - m + 1
    BY <1>0
  <2>4. Len(t) = 1 /\ t[1] = rs[m]
    BY <2>2, <2>3
  <2>5. Len(e) = m - (m + 1) + 1
    BY <1>0, Suffix
  <2>6. Len(e) = 0 /\ Sized(e) /\ Sized(t)
    BY <1>0, <1>1, <2>1, <2>5
  <2> HIDE DEF t, e
  <2>7. Bytes(t) = Bytes(e) + t[Len(t)].size
    <3>1. Len(t) = Len(e) + 1 /\ \A n \in 1 .. Len(e) : e[n].size = t[n].size
      BY <2>4, <2>6
    <3> QED
      BY <2>6, <3>1, BytesGrow, Zenon
  <2>8. Bytes(e) = 0
    BY <2>6, BytesEmpty
  <2>9. rs[m].size \in Nat
    BY <1>3, <2>1, SizedType DEF Sized
  <2>10. Bytes(t) <= MaxBytes
    BY <1>3, <2>4, <2>7, <2>8, <2>9
  <2> QED
    BY <2>1, <2>10 DEF t
<1>4. PICK i \in I : \A j \in I : i <= j
  <2>1. I \in SUBSET Nat
    BY <1>0
  <2>2. I # {}
    BY <1>0, <1>2
  <2> HIDE DEF I
  <2> QED
    BY <2>1, <2>2, LeastNatural
<1>5. First(i) /\ i \in 1 .. m + 1
  <2>1. i \in 1 .. m + 1 /\ B(i) <= MaxBytes /\ \A j \in 1 .. i - 1 : j \in 1 .. m + 1 /\ ~(i <= j)
    BY <1>0, <1>4
  <2>2. \A j \in 1 .. i - 1 : ~(B(j) <= MaxBytes) /\ B(j) \in Nat
    BY <1>1, <1>4, <2>1
  <2> HIDE DEF B
  <2>3. \A j \in 1 .. i - 1 : B(j) > MaxBytes
    BY <1>0, <2>2
  <2> QED
    BY <2>1, <2>3
<1>6. first \in 1 .. m + 1 /\ First(first)
  <2> HIDE DEF First
  <2> QED
    BY <1>5
<1>7. Trimmed(rs) = SubSeq(rs, first, Len(rs))
  BY DEF Trimmed
<1>8. ASSUME rs # <<>>, rs[Len(rs)].size <= MaxBytes PROVE first <= m
  <2>1. m \in I
    BY <1>3, <1>8
  <2>2. B(m) <= MaxBytes /\ B(m) \in Nat /\ m # 0
    BY <1>0, <1>1, <2>1
  <2> HIDE DEF B
  <2>3. m \notin 1 .. first - 1
    BY <1>0, <1>6, <2>2
  <2> HIDE DEF first, First
  <2> QED
    BY <1>0, <1>6, <2>2, <2>3
<1>9. Bytes(Trimmed(rs)) <= MaxBytes
  BY <1>6, <1>7
<1> HIDE DEF first, First
<1> QED
  BY <1>6, <1>7, <1>8, <1>9

(* rewrite_disk_from_memory writes the window and nothing else. *)
LEMMA RewrittenWell ==
  ASSUME NEW rs \in Seq(Record)
  PROVE  /\ Rewritten(rs) \in Seq(DiskLine) /\ Len(Rewritten(rs)) = Len(rs)
         /\ \A i \in 1 .. Len(rs) : /\ Rewritten(rs)[i].seq = rs[i].seq
                                    /\ Rewritten(rs)[i].cut = "Whole"
         /\ Bytes(Rewritten(rs)) = Bytes(rs)
<1> DEFINE ls == Rewritten(rs)
<1>1. Len(rs) \in Nat /\ DOMAIN rs = 1 .. Len(rs) /\ \A i \in 1 .. Len(rs) : rs[i] \in Record
  OBVIOUS
<1>2. ls = [i \in 1 .. Len(rs) |-> Line(rs[i], "Whole")]
  BY <1>1 DEF Rewritten
<1>3. \A i \in 1 .. Len(rs) : /\ ls[i] \in DiskLine /\ ls[i].size = rs[i].size
                              /\ ls[i].seq = rs[i].seq /\ ls[i].cut = "Whole"
  BY <1>1, <1>2 DEF Line, DiskLine, Record, Cut
<1>4. ls \in [1 .. Len(rs) -> DiskLine]
  BY <1>2, <1>3
<1>5. ls \in Seq(DiskLine) /\ Len(ls) = Len(rs)
  BY <1>1, <1>2, <1>4
<1>6. Bytes(ls) = Bytes(rs)
  <2> HIDE DEF ls
  <2> QED
    BY <1>3, <1>5, BytesSame DEF Sized
<1> QED
  BY <1>3, <1>5, <1>6

(* Digits continued by digits are a number. *)
LEMMA GluedType == \A h, m \in Nat : Glued(h, m) \in Nat
<1> SUFFICES ASSUME NEW d \in Nat, NEW m \in Nat PROVE Glued(d, m) \in Nat
  OBVIOUS
<1> DEFINE V == Nat
           a == 10
           next(t) == IF t > m THEN t ELSE 10 * t
           g == [n \in 1 .. m |-> [t \in V |-> next(t)]]
           P(f) == f = [n \in 0 .. m |->
                          IF n = 0 THEN 10 ELSE IF f[n - 1] > m THEN f[n - 1] ELSE 10 * f[n - 1]]
<1>1. a \in V /\ g \in [1 .. m -> [V -> V]]
  OBVIOUS
<1>2. PICK f \in [0 .. m -> V] : f[0] = a /\ \A n \in 1 .. m : f[n] = g[n][f[n - 1]]
  <2> HIDE DEF g, V, a
  <2>1. Recurs(V, a, m, g)
    BY <1>1, Recursion
  <2> QED
    BY <2>1 DEF Recurs
<1>3. P(f)
  <2>1. \A n \in 1 .. m : f[n - 1] \in V
    OBVIOUS
  <2>2. \A n \in 1 .. m : f[n] = next(f[n - 1])
    BY <1>2, <2>1, Zenon
  <2>3. \A n \in 0 .. m : n = 0 \/ (n # 0 /\ n \in 1 .. m)
    OBVIOUS
  <2>4. f[0] = 10
    BY <1>2
  <2> HIDE DEF g, V
  <2>5. \A n \in 0 .. m :
          f[n] = IF n = 0 THEN 10 ELSE IF f[n - 1] > m THEN f[n - 1] ELSE 10 * f[n - 1]
    BY <2>2, <2>3, <2>4
  <2> QED
    BY <2>5
<1> DEFINE h == CHOOSE e : P(e)
<1>4. P(h)
  <2> HIDE DEF P
  <2> QED
    BY <1>3
<1>5. Glued(d, m) = d * h[m] + m
  BY DEF Glued
<1>6. h[m] \in Nat
  <2> HIDE DEF h
  <2>0. \A n \in 0 .. m :
          h[n] = IF n = 0 THEN 10 ELSE IF h[n - 1] > m THEN h[n - 1] ELSE 10 * h[n - 1]
    BY <1>4
  <2> HIDE DEF P
  <2> DEFINE T == {n \in Nat : n <= m => h[n] \in Nat}
  <2>1. 0 \in T
    BY <2>0
  <2>2. ASSUME NEW n \in T PROVE n + 1 \in T
    <3>1. n \in Nat /\ n + 1 \in Nat
      BY <2>2
    <3>2. ASSUME n + 1 <= m PROVE h[n + 1] \in Nat
      <4>1. n + 1 \in 0 .. m /\ n + 1 # 0 /\ (n + 1) - 1 = n /\ n <= m
        BY <3>1, <3>2
      <4>2. h[n + 1] = IF h[n] > m THEN h[n] ELSE 10 * h[n]
        BY <2>0, <4>1
      <4>3. h[n] \in Nat
        BY <2>2, <4>1
      <4> QED
        BY <4>2, <4>3
    <3> QED
      BY <3>1, <3>2
  <2>3. Nat \subseteq T
    <3> HIDE DEF T
    <3> QED
      BY <2>1, <2>2, SetInduction
  <2> QED
    BY <2>3
<1> HIDE DEF h
<1>7. d * h[m] \in Nat
  BY <1>6
<1> QED
  BY <1>5, <1>7

(* What append() writes of a record is a line that carries its size. *)
LEMMA WrittenType ==
  ASSUME NEW r \in Record, NEW w \in Written(r)
  PROVE  w \in DiskLine /\ w.size = r.size
<1>1. \A c \in Cut : Line(r, c) \in DiskLine /\ Line(r, c).size = r.size
  BY DEF Line, DiskLine, Record, Cut
<1>2. ASSUME NEW d \in Heads(r.seq)
      PROVE  /\ [Line(r, "Number") EXCEPT !.seq = d] \in DiskLine
             /\ [Line(r, "Number") EXCEPT !.seq = d].size = r.size
  <2>1. d \in Nat
    BY DEF Heads, Record
  <2>2. [Line(r, "Number") EXCEPT !.seq = d] = [seq |-> d, size |-> r.size, cut |-> "Number"]
    BY DEF Line
  <2> QED
    BY <2>1, <2>2 DEF DiskLine, Record, Cut
<1> QED
  BY <1>1, <1>2, Zenon DEF Written, Cut

(* append() to the file adds the size of what it writes, whether it starts *)
(* a line or continues one that was cut.                                   *)
LEMMA AppendedWell ==
  ASSUME disk \in Seq(DiskLine), NEW w \in DiskLine
  PROVE  /\ Appended(w) \in Seq(DiskLine)
         /\ Bytes(Appended(w)) = Bytes(disk) + w.size
<1>0. Len(disk) \in Nat /\ w.size \in Nat /\ w.seq \in Nat /\ w.cut \in Cut
  BY DEF DiskLine
<1>1. CASE ~(disk # <<>> /\ Last(disk).cut # "Whole")
  <2>1. Appended(w) = Append(disk, w)
    BY <1>1 DEF Appended
  <2> DEFINE ts == Append(disk, w)
  <2>2. /\ ts \in Seq(DiskLine) /\ Len(ts) = Len(disk) + 1 /\ ts[Len(ts)] = w
        /\ \A n \in 1 .. Len(disk) : ts[n] = disk[n]
    OBVIOUS
  <2> HIDE DEF ts
  <2>3. Bytes(ts) = Bytes(disk) + ts[Len(ts)].size
    BY <2>2, BytesGrow DEF Sized
  <2> QED
    BY <2>1, <2>2, <2>3 DEF ts
<1>2. CASE disk # <<>> /\ Last(disk).cut # "Whole"
  <2> DEFINE m == Len(disk)
             old == disk[m]
             front == SubSeq(disk, 1, m - 1)
             seq == IF old.cut = "Message" THEN old.seq ELSE Glued(old.seq, w.seq)
             cut == IF old.cut = "Message" /\ w.cut = "Number" THEN "Message" ELSE w.cut
             new == [seq |-> seq, size |-> old.size + w.size, cut |-> cut]
             ts == Append(front, new)
  <2>1. Appended(w) = ts
    BY <1>2 DEF Appended, Last, Front
  <2>2. m \in Nat /\ m >= 1 /\ m - 1 \in Nat /\ old \in DiskLine
    BY <1>2
  <2>3. old.size \in Nat /\ old.seq \in Nat
    BY <2>2 DEF DiskLine
  <2>4. seq \in Nat /\ cut \in Cut
    BY <1>0, <2>3, GluedType, Zenon DEF Cut
  <2>5. new \in DiskLine /\ new.size = old.size + w.size
    <3> HIDE DEF seq, cut, old
    <3> QED
      BY <1>0, <2>3, <2>4 DEF DiskLine
  <2>6. /\ front \in Seq(DiskLine) /\ Len(front) = m - 1
        /\ \A n \in 1 .. m - 1 : front[n] = disk[n]
    <3> HIDE DEF new, ts, seq, cut, old
    <3>1. \A n \in 1 .. m - 1 : disk[n] \in DiskLine
      BY <2>2
    <3>2. front \in Seq(DiskLine)
      BY <2>2, <3>1
    <3>3. Len(front) = m - 1
      <4> DEFINE k == m - 1
      <4>1. k \in Nat /\ k <= Len(disk) /\ front = SubSeq(disk, 1, k)
        BY <2>2
      <4> HIDE DEF k, front, m
      <4>2. Len(front) = k - 1 + 1
        BY <4>1
      <4> QED
        BY <4>1, <4>2 DEF k
    <3>4. \A n \in 1 .. m - 1 : front[n] = disk[n]
      BY <2>2
    <3> QED
      BY <3>2, <3>3, <3>4
  <2> HIDE DEF new, front
  <2>7. /\ ts \in Seq(DiskLine) /\ Len(ts) = Len(front) + 1 /\ ts[Len(ts)] = new
        /\ \A n \in 1 .. Len(front) : ts[n] = front[n]
    BY <2>5, <2>6
  <2> HIDE DEF ts
  <2>8. Bytes(ts) = Bytes(front) + ts[Len(ts)].size
    BY <2>6, <2>7, BytesGrow DEF Sized
  <2>9. Bytes(disk) = Bytes(front) + disk[Len(disk)].size
    BY <2>2, <2>6, BytesGrow DEF Sized
  <2>10. Bytes(front) \in Nat
    BY <2>6, BytesType DEF Sized
  <2> QED
    BY <1>0, <2>1, <2>3, <2>5, <2>7, <2>8, <2>9, <2>10
<1> QED
  BY <1>1, <1>2

(* The window after a push: one record longer, or as long as before. *)
LEMMA PushedWell ==
  ASSUME NEW rs \in Seq(Record), Len(rs) <= MaxRecords, NEW r \in Record
  PROVE  \E d \in 0 .. 1 :
           /\ d <= Len(rs)
           /\ Pushed(rs, r) \in Seq(Record)
           /\ Len(Pushed(rs, r)) = Len(rs) - d + 1 /\ Len(Pushed(rs, r)) <= MaxRecords
           /\ \A i \in 1 .. Len(rs) - d : Pushed(rs, r)[i] = rs[i + d]
           /\ Pushed(rs, r)[Len(rs) - d + 1] = r
<1>0. Len(rs) \in Nat /\ MaxRecords \in Nat \ {0}
  BY AuditAssumption
<1>1. CASE Len(rs) = MaxRecords
  <2> DEFINE t == Tail(rs)
  <2>1. t \in Seq(Record) /\ Len(t) = Len(rs) - 1 /\ \A i \in 1 .. Len(rs) - 1 : t[i] = rs[i + 1]
    BY <1>0, <1>1
  <2>2. Pushed(rs, r) = Append(t, r)
    BY <1>1 DEF Pushed
  <2> HIDE DEF t
  <2>3. /\ Append(t, r) \in Seq(Record) /\ Len(Append(t, r)) = Len(rs) - 1 + 1
        /\ \A i \in 1 .. Len(rs) - 1 : Append(t, r)[i] = t[i]
        /\ Append(t, r)[Len(rs) - 1 + 1] = r
    BY <1>0, <1>1, <2>1
  <2>4. 1 <= Len(rs) /\ Len(rs) - 1 + 1 <= MaxRecords /\ 1 \in 0 .. 1
    BY <1>0, <1>1
  <2> QED
    BY <2>1, <2>2, <2>3, <2>4
<1>2. CASE Len(rs) # MaxRecords
  <2>1. Pushed(rs, r) = Append(rs, r)
    BY <1>2 DEF Pushed
  <2>2. /\ Append(rs, r) \in Seq(Record) /\ Len(Append(rs, r)) = Len(rs) - 0 + 1
        /\ \A i \in 1 .. Len(rs) - 0 : Append(rs, r)[i] = rs[i + 0]
        /\ Append(rs, r)[Len(rs) - 0 + 1] = r
    BY <1>0
  <2>3. 0 <= Len(rs) /\ Len(rs) - 0 + 1 <= MaxRecords /\ 0 \in 0 .. 1
    BY <1>0, <1>2
  <2> QED
    BY <2>1, <2>2, <2>3
<1> QED
  BY <1>1, <1>2

-----------------------------------------------------------------------------
(* Restart                                                                 *)

(* A member of a set of naturals that bounds the set is its maximum. *)
LEMMA GreatestIsMax ==
  ASSUME NEW M, M \subseteq Nat, NEW x \in M, \A y \in M : y <= x
  PROVE  Max(M) = x
<1>1. \A y \in M : x >= y
  OBVIOUS
<1>2. \A z \in M : (\A y \in M : z >= y) => z = x
  <2> SUFFICES ASSUME NEW z \in M, \A y \in M : z >= y PROVE z = x
    OBVIOUS
  <2>1. z >= x /\ z <= x /\ z \in Nat /\ x \in Nat
    OBVIOUS
  <2> QED
    BY <2>1
<1> QED
  BY <1>1, <1>2, Zenon DEF Max

(* The numbers that load_from_disk makes of what it reads. *)
Nexts(read) == {1} \cup {l.seq + 1 : l \in Range(read)}

(* The candidates load_from_disk takes next_seq from have a greatest member, which is at least 1. *)
LEMMA NextsGreatest ==
  ASSUME NEW read \in Seq(DiskLine)
  PROVE  \E x \in Nexts(read) : x \in Nat /\ x >= 1 /\ \A y \in Nexts(read) : y \in Nat /\ y <= x
<1> DEFINE s == [i \in 1 .. Len(read) |-> read[i].seq + 1]
           M == Nexts(read)
<1>1. Len(read) \in Nat /\ DOMAIN read = 1 .. Len(read)
      /\ \A i \in 1 .. Len(read) : read[i].seq \in Nat
  BY SizedType DEF Sized
<1>2. s \in Seq(Nat) /\ Len(s) = Len(read)
  <2>1. s \in [1 .. Len(read) -> Nat]
    BY <1>1
  <2> QED
    BY <1>1, <2>1
<1>3. PICK b \in Nat : \A i \in 1 .. Len(s) : s[i] <= b
  <2> HIDE DEF s
  <2> QED
    BY <1>2, SequenceBounded, Zenon
<1>4. \A y \in M : y \in Nat /\ y <= b + 1
  <2>1. \A i \in 1 .. Len(read) : read[i].seq + 1 \in Nat /\ read[i].seq + 1 <= b
    BY <1>1, <1>2, <1>3
  <2>2. \A l \in Range(read) : l.seq + 1 \in Nat /\ l.seq + 1 <= b
    BY <1>1, <2>1 DEF Range
  <2>3. \A y \in M : y = 1 \/ (y \in Nat /\ y <= b)
    BY <2>2 DEF Nexts
  <2> HIDE DEF M
  <2> QED
    BY <2>3
<1>5. 1 \in M
  BY DEF Nexts
<1> HIDE DEF M
<1>6. PICK x \in M : \A y \in M : x >= y
  BY <1>4, <1>5, GreatestNatural
<1>7. x \in Nat /\ x >= 1 /\ \A y \in M : y \in Nat /\ y <= x
  BY <1>4, <1>5, <1>6
<1> QED
  BY <1>7 DEF M

(* The lines load_from_disk can parse are lines of the file. *)
LEMMA ReadableType ==
  ASSUME NEW lines \in Seq(DiskLine)
  PROVE  Readable(lines) \in Seq(DiskLine)
  BY RetainProperties DEF Readable

(* load_from_disk keeps a suffix of the readable lines, at most MaxRecords of them,
   under the sequences the file gives them. *)
LEMMA LoadedRecordsAre ==
  ASSUME NEW lines \in Seq(DiskLine)
  PROVE  \E d \in 0 .. Len(Readable(lines)) :
           /\ LoadedRecords(lines) \in Seq(Record)
           /\ Len(LoadedRecords(lines)) = Len(Readable(lines)) - d
           /\ Len(LoadedRecords(lines)) <= MaxRecords
           /\ \A i \in 1 .. Len(Readable(lines)) - d :
                LoadedRecords(lines)[i].seq = Readable(lines)[d + i].seq
<1> DEFINE all == Readable(lines)
           m == Len(all)
           d == IF m > MaxRecords THEN m - MaxRecords ELSE 0
           k == IF m > MaxRecords THEN m - MaxRecords + 1 ELSE 1
           kept == SubSeq(all, k, Len(all))
<1>1. all \in Seq(DiskLine) /\ m \in Nat /\ MaxRecords \in Nat \ {0}
  BY ReadableType, AuditAssumption
<1>2. LoadedRecords(lines) = [i \in DOMAIN kept |-> [seq |-> kept[i].seq, size |-> kept[i].size]]
  BY DEF LoadedRecords
<1> HIDE DEF all
<1>3. d \in 0 .. m /\ k = d + 1 /\ k \in 1 .. m + 1 /\ m - d <= MaxRecords /\ m - k + 1 = m - d
  <2> HIDE DEF m
  <2> QED
    BY <1>1
<1>4. /\ kept \in Seq(DiskLine) /\ Len(kept) = m - k + 1
      /\ \A j \in 1 .. m - k + 1 : kept[j] = all[k - 1 + j]
  <2> HIDE DEF k
  <2> QED
    BY <1>1, <1>3, Suffix, Zenon
<1> HIDE DEF kept, k, d, m
<1>5. /\ DOMAIN kept = 1 .. m - d /\ Len(kept) = m - d
      /\ \A j \in 1 .. m - d : kept[j].seq \in Nat /\ kept[j].size \in Nat
  BY <1>3, <1>4, SizedType DEF Sized
<1>6. LoadedRecords(lines) = [i \in 1 .. m - d |-> [seq |-> kept[i].seq, size |-> kept[i].size]]
  BY <1>2, <1>5
<1>7. LoadedRecords(lines) \in [1 .. m - d -> Record]
  BY <1>5, <1>6 DEF Record
<1>8. m - d \in Nat
  BY <1>1, <1>3
<1>9. LoadedRecords(lines) \in Seq(Record) /\ Len(LoadedRecords(lines)) = m - d
  <2> DEFINE n == m - d
             rs == LoadedRecords(lines)
  <2>1. n \in Nat /\ rs \in [1 .. n -> Record]
    BY <1>7, <1>8
  <2> HIDE DEF n, rs
  <2>2. rs \in Seq(Record) /\ Len(rs) = n
    BY <2>1
  <2> QED
    BY <2>2 DEF n, rs
<1>10. \A i \in 1 .. m - d : LoadedRecords(lines)[i].seq = all[d + i].seq
  <2>1. \A i \in 1 .. m - d : k - 1 + i = d + i
    BY <1>1, <1>3
  <2>2. \A i \in 1 .. m - d : kept[i] = all[d + i]
    BY <1>3, <1>4, <2>1
  <2> QED
    BY <1>6, <2>2
<1> QED
  BY <1>3, <1>9, <1>10 DEF all, m

(* load_from_disk, whatever the file holds: the window is bounded and the  *)
(* next number is above every number in it.                                *)
LEMMA LoadedWell ==
  ASSUME NEW lines \in Seq(DiskLine)
  PROVE  /\ LoadedNext(lines) \in Nat \ {0}
         /\ LoadedRecords(lines) \in Seq(Record)
         /\ Len(LoadedRecords(lines)) <= MaxRecords
         /\ \A i \in 1 .. Len(LoadedRecords(lines)) : LoadedRecords(lines)[i].seq < LoadedNext(lines)
<1> DEFINE all == Readable(lines)
           rs == LoadedRecords(lines)
<1>1. all \in Seq(DiskLine) /\ Len(all) \in Nat /\ DOMAIN all = 1 .. Len(all)
      /\ \A i \in 1 .. Len(all) : all[i].seq \in Nat
  BY ReadableType, SizedType DEF Sized
<1>2. LoadedNext(lines) = Max(Nexts(all))
  BY DEF LoadedNext, Nexts
<1>3. PICK d \in 0 .. Len(all) :
        /\ rs \in Seq(Record) /\ Len(rs) = Len(all) - d /\ Len(rs) <= MaxRecords
        /\ \A i \in 1 .. Len(all) - d : rs[i].seq = all[d + i].seq
  BY LoadedRecordsAre
<1> HIDE DEF all, rs
<1>4. PICK x \in Nexts(all) : x \in Nat /\ x >= 1 /\ \A y \in Nexts(all) : y \in Nat /\ y <= x
  BY <1>1, NextsGreatest
<1>5. LoadedNext(lines) = x
  <2>1. Nexts(all) \subseteq Nat
    BY <1>4, Zenon
  <2>2. Max(Nexts(all)) = x
    BY <1>4, <2>1, GreatestIsMax
  <2> QED
    BY <1>2, <2>2
<1>6. ASSUME NEW i \in 1 .. Len(rs) PROVE rs[i].seq < x
  <2>1. i \in 1 .. Len(all) - d /\ d + i \in 1 .. Len(all)
    BY <1>1, <1>3
  <2>2. all[d + i] \in Range(all)
    BY <1>1, <2>1 DEF Range
  <2>3. all[d + i].seq + 1 <= x /\ all[d + i].seq \in Nat
    BY <1>1, <1>4, <2>1, <2>2 DEF Nexts
  <2> QED
    BY <1>3, <1>4, <2>1, <2>3
<1>7. x \in Nat \ {0}
  BY <1>4
<1> QED
  BY <1>3, <1>5, <1>6, <1>7 DEF rs

(* The records or lines rs are numbered without a gap up to n - 1. *)
Run(rs, n) == \A i \in 1 .. Len(rs) : rs[i].seq = n - 1 - Len(rs) + i

(* The file as it is while no write failed: whole lines without a gap, up  *)
(* to the newest record.                                                   *)
CleanFile(lines, n) ==
  /\ Run(lines, n)
  /\ \A i \in 1 .. Len(lines) : lines[i].cut = "Whole"
  /\ Len(lines) = 0 => n = 1

(* load_from_disk of such a file finds the same window and number. *)
LEMMA LoadedClean ==
  ASSUME NEW lines \in Seq(DiskLine), NEW n \in Nat \ {0}, CleanFile(lines, n)
  PROVE  LoadedNext(lines) = n /\ Run(LoadedRecords(lines), n)
<1> DEFINE all == Readable(lines)
           rs == LoadedRecords(lines)
           S == {l \in Range(lines) : l.cut # "Number"}
           m == Len(lines)
<1>1. m \in Nat /\ DOMAIN lines = 1 .. m /\ \A i \in 1 .. m : lines[i].seq \in Nat
  BY SizedType DEF Sized
<1>2. \A i \in 1 .. m : lines[i] \in S
  BY <1>1 DEF Range, CleanFile
<1>3. Len(all) = m /\ \A i \in 1 .. m : all[i] = lines[i]
  <2>1. 0 \in 0 .. Len(lines) /\ \A i \in 1 .. Len(lines) : lines[i] \in S <=> i > 0
    BY <1>1, <1>2
  <2>2. all = Retain(lines, S)
    BY DEF Readable
  <2> HIDE DEF S, all
  <2>3. Len(all) = Len(lines) - 0 /\ \A i \in 1 .. Len(lines) - 0 : all[i] = lines[0 + i]
    BY <2>1, <2>2, RetainSuffix
  <2> QED
    BY <1>1, <2>3
<1>4. all \in Seq(DiskLine)
  BY ReadableType
<1>5. PICK d \in 0 .. Len(all) :
        /\ rs \in Seq(Record) /\ Len(rs) = Len(all) - d /\ Len(rs) <= MaxRecords
        /\ \A i \in 1 .. Len(all) - d : rs[i].seq = all[d + i].seq
  BY LoadedRecordsAre
<1>6. LoadedNext(lines) = Max(Nexts(all))
  BY DEF LoadedNext, Nexts
<1> HIDE DEF all, rs, m
<1>7. \A i \in 1 .. m : all[i].seq = n - 1 - m + i
  BY <1>3 DEF CleanFile, Run, m
<1>8. DOMAIN all = 1 .. m
  BY <1>3, <1>4
<1>9. \A y \in Nexts(all) : y \in Nat /\ y <= n
  <2>1. \A i \in 1 .. m : all[i].seq + 1 \in Nat /\ all[i].seq + 1 <= n
    BY <1>1, <1>3, <1>7
  <2>2. \A l \in Range(all) : l.seq + 1 \in Nat /\ l.seq + 1 <= n
    BY <1>8, <2>1 DEF Range
  <2> QED
    BY <2>2 DEF Nexts
<1>10. n \in Nexts(all)
  <2>1. CASE m = 0
    BY <2>1 DEF CleanFile, Nexts, m
  <2>2. CASE m # 0
    <3>1. m \in 1 .. m /\ n - 1 - m + m = n - 1
      BY <1>1, <2>2
    <3>2. all[m].seq = n - 1 /\ all[m] \in Range(all)
      BY <1>7, <1>8, <3>1 DEF Range
    <3>3. (n - 1) + 1 = n
      OBVIOUS
    <3> QED
      BY <3>2, <3>3 DEF Nexts
  <2> QED
    BY <2>1, <2>2
<1>11. LoadedNext(lines) = n
  BY <1>6, <1>9, <1>10, GreatestIsMax, Zenon
<1>12. ASSUME NEW i \in 1 .. Len(rs) PROVE rs[i].seq = n - 1 - Len(rs) + i
  <2>1. i \in 1 .. Len(all) - d /\ d + i \in 1 .. m /\ Len(rs) = m - d /\ d \in Nat
    BY <1>1, <1>3, <1>5
  <2>2. rs[i].seq = n - 1 - m + (d + i)
    BY <1>5, <1>7, <2>1
  <2> QED
    BY <1>1, <2>1, <2>2
<1> QED
  BY <1>11, <1>12 DEF Run, rs

-----------------------------------------------------------------------------
(* The inductive invariant                                                 *)

Stream == [stage : {"New", "Live", "Leaving", "Ended"}, id : SubId \cup {NoSession},
           todo : Seq(Nat), chan : Seq(Nat), open : BOOLEAN, last : Nat]

(* The stream registered under id knows its id, has not ended and has no   *)
(* Replaced (0) in its channel.                                            *)
Serves(me, id) ==
  /\ me.stage \in {"Live", "Leaving"} /\ me.id = id
  /\ \A i \in 1 .. Len(me.chan) : me.chan[i] # 0

(* What is left to write runs from just after the last frame written up to *)
(* the record before number n.                                             *)
CaughtUp(me, n) ==
  LET left == me.todo \o me.chan
      before == n - 1 - Len(left)
  IN /\ \A i \in DOMAIN left : left[i] = before + i
     /\ me.last # 0 => me.last = before

LogOK ==
  /\ next_seq \in Nat \ {0} /\ high \in Nat /\ faults \in 0 .. MaxFaults
  /\ records \in Seq(Record) /\ Len(records) <= MaxRecords
  /\ \A i \in 1 .. Len(records) : records[i].seq < next_seq
  /\ disk \in Seq(DiskLine) /\ Bytes(disk) <= MaxBytes

StreamsOK ==
  /\ IsMap(subscribers, SubId, Session)
  /\ session \in [Session -> Stream]
  /\ \A s \in Session : Len(session[s].chan) <= ChanCap
  /\ \A id \in DOMAIN subscribers : Serves(session[subscribers[id]], id)

(* As long as no write failed. *)
LogClean == high < next_seq /\ Run(records, next_seq) /\ CleanFile(disk, next_seq)
StreamsClean ==
  \A id \in DOMAIN subscribers : CaughtUp(session[subscribers[id]], next_seq)

AuditInv ==
  LogOK /\ StreamsOK /\ (faults = 0 => LogClean /\ StreamsClean)

-----------------------------------------------------------------------------
(* Steps of the log                                                        *)

NewRecord(size) == [seq |-> next_seq, size |-> size]
Window(size) == Pushed(records, NewRecord(size))

(* Dropping lines from the front leaves the rest numbered consecutively up to n. *)
LEMMA SuffixRun ==
  ASSUME NEW rs \in Seq(Record), NEW i \in 1 .. Len(rs) + 1, NEW n \in Nat, Run(rs, n)
  PROVE  Run(SubSeq(rs, i, Len(rs)), n)
<1> DEFINE ts == SubSeq(rs, i, Len(rs))
<1>1. Len(ts) = Len(rs) - i + 1 /\ \A j \in 1 .. Len(rs) - i + 1 : ts[j] = rs[i - 1 + j]
  BY Suffix
<1>2. Len(rs) \in Nat /\ i \in Nat
  OBVIOUS
<1> HIDE DEF ts
<1>3. ASSUME NEW j \in 1 .. Len(ts) PROVE ts[j].seq = n - 1 - Len(ts) + j
  <2>1. j \in 1 .. Len(rs) - i + 1 /\ i - 1 + j \in 1 .. Len(rs)
    BY <1>1, <1>2
  <2>2. ts[j].seq = n - 1 - Len(rs) + (i - 1 + j)
    BY <1>1, <2>1 DEF Run
  <2> QED
    BY <1>1, <1>2, <2>1, <2>2
<1> QED
  BY <1>3, Zenon DEF Run, ts

(* append before any byte trim: the window ends in the new record, respects the
   record limit, and goes on being numbered without a gap. *)
LEMMA WindowWell ==
  ASSUME LogOK, NEW size \in LineSizes
  PROVE  /\ NewRecord(size) \in Record /\ size <= MaxBytes
         /\ Window(size) \in Seq(Record)
         /\ Len(Window(size)) \in Nat \ {0} /\ Len(Window(size)) <= MaxRecords
         /\ Window(size)[Len(Window(size))] = NewRecord(size)
         /\ \A i \in 1 .. Len(Window(size)) : Window(size)[i].seq < next_seq + 1
         /\ Run(records, next_seq) => Run(Window(size), next_seq + 1)
<1> DEFINE r == NewRecord(size)
           ws == Window(size)
           n == next_seq
<1>0. n \in Nat /\ size \in Nat /\ size <= MaxBytes
  BY AuditAssumption DEF LogOK
<1>1. r \in Record /\ r.seq = n /\ r.size = size
  BY <1>0 DEF NewRecord, Record
<1>2. records \in Seq(Record) /\ Len(records) <= MaxRecords
  BY DEF LogOK
<1> HIDE DEF r
<1>3. PICK d \in 0 .. 1 :
        /\ d <= Len(records)
        /\ ws \in Seq(Record)
        /\ Len(ws) = Len(records) - d + 1 /\ Len(ws) <= MaxRecords
        /\ \A i \in 1 .. Len(records) - d : ws[i] = records[i + d]
        /\ ws[Len(records) - d + 1] = r
  BY <1>1, <1>2, PushedWell DEF Window, r
<1> HIDE DEF ws
<1>4. Len(records) \in Nat /\ d \in Nat /\ Len(records) - d \in Nat
  BY <1>2, <1>3
<1>5. \A i \in 1 .. Len(ws) : i \in 1 .. Len(records) - d \/ i = Len(ws)
  BY <1>3, <1>4
<1>6. \A i \in 1 .. Len(records) - d : i + d \in 1 .. Len(records)
  BY <1>4
<1>7. \A i \in 1 .. Len(records) : records[i].seq \in Nat /\ records[i].seq < n
  BY <1>2, SizedType DEF Sized, LogOK
<1>8. \A i \in 1 .. Len(ws) : ws[i].seq < n + 1
  <2>1. ASSUME NEW i \in 1 .. Len(records) - d PROVE ws[i].seq < n + 1
    <3>1. ws[i].seq = records[i + d].seq /\ i + d \in 1 .. Len(records)
      BY <1>3, <1>6
    <3>2. records[i + d].seq \in Nat /\ records[i + d].seq < n
      BY <1>7, <3>1
    <3> QED
      BY <1>0, <3>1, <3>2
  <2>2. ws[Len(ws)].seq < n + 1
    BY <1>0, <1>1, <1>3
  <2> QED
    BY <1>5, <2>1, <2>2
<1>9. ASSUME Run(records, n) PROVE Run(ws, n + 1)
  <2>1. ASSUME NEW i \in 1 .. Len(records) - d PROVE ws[i].seq = (n + 1) - 1 - Len(ws) + i
    <3>1. ws[i].seq = n - 1 - Len(records) + (i + d)
      BY <1>3, <1>6, <1>9 DEF Run
    <3> QED
      BY <1>0, <1>3, <1>4, <3>1
  <2>2. ws[Len(ws)].seq = (n + 1) - 1 - Len(ws) + Len(ws)
    BY <1>0, <1>1, <1>3, <1>4
  <2> QED
    BY <1>5, <2>1, <2>2 DEF Run
<1> QED
  BY <1>0, <1>1, <1>3, <1>4, <1>8, <1>9 DEF ws, r

(* After trim_to_disk_budget: at least the new record is left, both limits
   hold, and the numbering still has no gap. *)
LEMMA TrimmedWindow ==
  ASSUME LogOK, NEW size \in LineSizes
  PROVE  /\ Trimmed(Window(size)) \in Seq(Record)
         /\ Len(Trimmed(Window(size))) \in Nat \ {0} /\ Len(Trimmed(Window(size))) <= MaxRecords
         /\ \A i \in 1 .. Len(Trimmed(Window(size))) : Trimmed(Window(size))[i].seq < next_seq + 1
         /\ Bytes(Trimmed(Window(size))) <= MaxBytes
         /\ Run(records, next_seq) => Run(Trimmed(Window(size)), next_seq + 1)
<1> DEFINE ws == Window(size)
           ts == Trimmed(ws)
           n == next_seq + 1
<1>0. MaxRecords \in Nat /\ n \in Nat
  BY AuditAssumption DEF LogOK
<1>1. /\ ws \in Seq(Record) /\ Len(ws) \in Nat \ {0} /\ Len(ws) <= MaxRecords
      /\ \A i \in 1 .. Len(ws) : ws[i].seq < n
      /\ Run(records, next_seq) => Run(ws, n)
      /\ ws[Len(ws)].size = size /\ size <= MaxBytes
  <2>1. NewRecord(size).size = size
    BY DEF NewRecord
  <2>2. ws[Len(ws)] = NewRecord(size)
    BY WindowWell
  <2> QED
    BY <2>1, <2>2, WindowWell
<1> HIDE DEF ws, n
<1>2. PICK i \in 1 .. Len(ws) + 1 :
        /\ ts = SubSeq(ws, i, Len(ws))
        /\ ws # <<>> /\ ws[Len(ws)].size <= MaxBytes => i <= Len(ws)
  BY <1>1, TrimmedWell
<1>3. Bytes(ts) <= MaxBytes
  BY <1>1, TrimmedWell
<1>4. i <= Len(ws) /\ i \in Nat /\ i >= 1
  BY <1>1, <1>2
<1> HIDE DEF ts
<1>5. /\ ts \in Seq(Record) /\ Len(ts) = Len(ws) - i + 1
      /\ \A j \in 1 .. Len(ws) - i + 1 : ts[j] = ws[i - 1 + j]
  BY <1>1, <1>2, Suffix
<1>6. Len(ts) \in Nat \ {0} /\ Len(ts) <= MaxRecords
  BY <1>0, <1>1, <1>4, <1>5
<1>7. ASSUME NEW j \in 1 .. Len(ts) PROVE ts[j].seq < n
  <2>1. i - 1 + j \in 1 .. Len(ws) /\ j \in 1 .. Len(ws) - i + 1
    BY <1>1, <1>4, <1>5
  <2> QED
    BY <1>1, <1>5, <2>1
<1>8. Run(ws, n) => Run(ts, n)
  BY <1>0, <1>1, <1>2, SuffixRun
<1> QED
  BY <1>1, <1>3, <1>5, <1>6, <1>7, <1>8 DEF ts, ws, n

(* The file after a rewrite. *)
LEMMA RewrittenFile ==
  ASSUME LogOK, NEW size \in LineSizes
  PROVE  /\ Rewritten(Trimmed(Window(size))) \in Seq(DiskLine)
         /\ Bytes(Rewritten(Trimmed(Window(size)))) <= MaxBytes
         /\ Run(records, next_seq) => CleanFile(Rewritten(Trimmed(Window(size))), next_seq + 1)
<1> DEFINE ts == Trimmed(Window(size))
           ls == Rewritten(ts)
<1>1. /\ ts \in Seq(Record) /\ Len(ts) \in Nat \ {0} /\ Bytes(ts) <= MaxBytes
      /\ Run(records, next_seq) => Run(ts, next_seq + 1)
  BY TrimmedWindow
<1> HIDE DEF ts
<1>2. /\ ls \in Seq(DiskLine) /\ Len(ls) = Len(ts) /\ Bytes(ls) = Bytes(ts)
      /\ \A i \in 1 .. Len(ts) : ls[i].seq = ts[i].seq /\ ls[i].cut = "Whole"
  BY <1>1, RewrittenWell
<1> HIDE DEF ls
<1>3. Run(ts, next_seq + 1) => CleanFile(ls, next_seq + 1)
  BY <1>1, <1>2 DEF Run, CleanFile
<1> QED
  BY <1>1, <1>2, <1>3 DEF ls, ts

(* The file after an append. *)
LEMMA AppendedFile ==
  ASSUME LogOK, NEW size \in LineSizes, ~OverBudget(NewRecord(size))
  PROVE  /\ \A w \in Written(NewRecord(size)) :
              Appended(w) \in Seq(DiskLine) /\ Bytes(Appended(w)) <= MaxBytes
         /\ CleanFile(disk, next_seq) =>
              CleanFile(Appended(Line(NewRecord(size), "Whole")), next_seq + 1)
<1> DEFINE r == NewRecord(size)
           m == Len(disk)
           n == next_seq
<1>0. disk \in Seq(DiskLine) /\ MaxBytes \in Nat /\ m \in Nat /\ n \in Nat
  BY AuditAssumption DEF LogOK
<1>1. r \in Record /\ r.size = size /\ r.seq = n /\ size \in Nat
  BY WindowWell, AuditAssumption DEF NewRecord
<1>2. Bytes(disk) \in Nat /\ Bytes(disk) + size <= MaxBytes
  <2>1. Bytes(disk) \in Nat
    BY <1>0, BytesType DEF Sized
  <2> QED
    BY <1>0, <1>1, <2>1 DEF OverBudget
<1> HIDE DEF r
<1>3. ASSUME NEW w \in Written(r)
      PROVE  Appended(w) \in Seq(DiskLine) /\ Bytes(Appended(w)) <= MaxBytes
  <2>1. w \in DiskLine /\ w.size = size
    BY <1>1, WrittenType
  <2>2. Appended(w) \in Seq(DiskLine) /\ Bytes(Appended(w)) = Bytes(disk) + w.size
    BY <1>0, <2>1, AppendedWell
  <2> QED
    BY <1>2, <2>1, <2>2
<1>4. ASSUME CleanFile(disk, n) PROVE CleanFile(Appended(Line(r, "Whole")), n + 1)
  <2> DEFINE w == Line(r, "Whole")
             ls == Append(disk, w)
  <2>1. w.seq = n /\ w.cut = "Whole"
    BY <1>1 DEF Line
  <2>2. ~(disk # <<>> /\ Last(disk).cut # "Whole")
    <3>1. disk # <<>> => m \in 1 .. m
      BY <1>0
    <3> QED
      BY <1>4, <3>1 DEF CleanFile, Last
  <2>3. Appended(w) = ls
    BY <2>2 DEF Appended
  <2>4. /\ Len(ls) = m + 1 /\ ls[m + 1] = w
        /\ \A i \in 1 .. m : ls[i] = disk[i]
    <3> HIDE DEF w
    <3> QED
      BY <1>0
  <2> HIDE DEF w, ls
  <2>5. \A i \in 1 .. m + 1 : i \in 1 .. m \/ i = m + 1
    BY <1>0
  <2>6. \A i \in 1 .. m : /\ ls[i].seq = (n + 1) - 1 - (m + 1) + i
                          /\ ls[i].cut = "Whole"
    <3>1. \A i \in 1 .. m : disk[i].seq = n - 1 - m + i /\ disk[i].cut = "Whole"
      BY <1>4 DEF CleanFile, Run
    <3>2. \A i \in 1 .. m : (n + 1) - 1 - (m + 1) + i = n - 1 - m + i
      BY <1>0
    <3> QED
      BY <2>4, <3>1, <3>2
  <2>7. ls[m + 1].seq = (n + 1) - 1 - (m + 1) + (m + 1) /\ ls[m + 1].cut = "Whole"
    BY <1>0, <2>1, <2>4
  <2>8. Len(ls) # 0
    BY <1>0, <2>4
  <2>9. CleanFile(ls, n + 1)
    BY <2>4, <2>5, <2>6, <2>7, <2>8 DEF CleanFile, Run
  <2> QED
    BY <2>3, <2>9 DEF w
<1> QED
  BY <1>3, <1>4 DEF r

(* Loading a file of bounded size re-establishes LogOK, and LogClean when the file is clean. *)
LEMMA RestartLog ==
  ASSUME LogOK, NEW lines, lines \in Seq(DiskLine), Bytes(lines) <= MaxBytes,
         Restart(lines), faults' \in 0 .. MaxFaults
  PROVE  LogOK' /\ (CleanFile(lines, next_seq) /\ LogClean => LogClean')
<1>1. /\ disk' = lines /\ next_seq' = LoadedNext(lines) /\ records' = LoadedRecords(lines)
      /\ high' = high
  BY DEF Restart
<1>2. LogOK'
  BY <1>1, LoadedWell DEF LogOK
<1>3. ASSUME CleanFile(lines, next_seq), LogClean PROVE LogClean'
  <2>1. next_seq \in Nat \ {0}
    BY DEF LogOK
  <2>2. LoadedNext(lines) = next_seq /\ Run(LoadedRecords(lines), next_seq)
    BY <1>3, <2>1, LoadedClean
  <2> QED
    BY <1>1, <1>3, <2>2 DEF LogClean
<1> QED
  BY <1>2, <1>3

(* An append, whether its write succeeds or fails, keeps LogOK, and LogClean when nothing has failed. *)
LEMMA AppendLog ==
  ASSUME LogOK, NEW size \in LineSizes, AppendRecord(size)
  PROVE  LogOK' /\ (faults' = 0 /\ LogClean => LogClean')
<1> DEFINE r == NewRecord(size)
           ws == Window(size)
<1>0. /\ next_seq' = next_seq + 1 /\ next_seq' \in Nat \ {0}
      /\ high' = (IF high < next_seq THEN next_seq ELSE high) /\ high' \in Nat
      /\ faults \in 0 .. MaxFaults /\ next_seq \in Nat
  BY DEF AppendRecord, LogOK
<1>1. \/ PersistOk(r, ws) /\ faults' = faults
      \/ PersistFails(r, ws) /\ faults' = faults + 1
  BY DEF AppendRecord, NewRecord, Window
<1>2. faults' \in 0 .. MaxFaults /\ (faults' = faults + 1 => faults' # 0)
  BY <1>0, <1>1, AuditAssumption DEF PersistFails
<1>3. /\ ws \in Seq(Record) /\ Len(ws) <= MaxRecords
      /\ \A i \in 1 .. Len(ws) : ws[i].seq < next_seq + 1
      /\ Run(records, next_seq) => Run(ws, next_seq + 1)
  BY WindowWell
<1>4. /\ Trimmed(ws) \in Seq(Record) /\ Len(Trimmed(ws)) <= MaxRecords
      /\ \A i \in 1 .. Len(Trimmed(ws)) : Trimmed(ws)[i].seq < next_seq + 1
      /\ Run(records, next_seq) => Run(Trimmed(ws), next_seq + 1)
  BY TrimmedWindow
<1>5. /\ Rewritten(Trimmed(ws)) \in Seq(DiskLine) /\ Bytes(Rewritten(Trimmed(ws))) <= MaxBytes
      /\ Run(records, next_seq) => CleanFile(Rewritten(Trimmed(ws)), next_seq + 1)
  BY RewrittenFile
<1>6. ~OverBudget(r) =>
        /\ \A w \in Written(r) : Appended(w) \in Seq(DiskLine) /\ Bytes(Appended(w)) <= MaxBytes
        /\ CleanFile(disk, next_seq) => CleanFile(Appended(Line(r, "Whole")), next_seq + 1)
  BY AppendedFile
<1>7. Line(r, "Whole") \in Written(r) /\ disk \in Seq(DiskLine) /\ Bytes(disk) <= MaxBytes
  BY DEF Written, LogOK
<1> HIDE DEF r, ws
<1>8. /\ records' \in Seq(Record) /\ Len(records') <= MaxRecords
      /\ \A i \in 1 .. Len(records') : records'[i].seq < next_seq + 1
      /\ Run(records, next_seq) => Run(records', next_seq + 1)
  <2>1. records' = ws \/ records' = Trimmed(ws)
    BY <1>1 DEF PersistOk, PersistFails
  <2> QED
    BY <1>3, <1>4, <2>1
<1>9. disk' \in Seq(DiskLine) /\ Bytes(disk') <= MaxBytes
  <2>1. \/ disk' = disk
        \/ disk' = Rewritten(Trimmed(ws))
        \/ ~OverBudget(r) /\ \E w \in Written(r) : disk' = Appended(w)
    BY <1>1, <1>7 DEF PersistOk, PersistFails
  <2> QED
    BY <1>5, <1>6, <1>7, <2>1
<1>10. ASSUME faults' = 0, LogClean PROVE LogClean'
  <2>1. PersistOk(r, ws)
    BY <1>1, <1>2, <1>10
  <2>2. CleanFile(disk', next_seq + 1)
    BY <1>5, <1>6, <1>10, <2>1 DEF PersistOk, LogClean
  <2>3. high' < next_seq + 1
    BY <1>0, <1>10 DEF LogClean
  <2> QED
    BY <1>0, <1>8, <1>10, <2>2, <2>3 DEF LogClean
<1> QED
  BY <1>0, <1>2, <1>8, <1>9, <1>10 DEF LogOK

(* A crash in the middle of an append keeps LogOK and counts as a fault. *)
LEMMA CrashLog ==
  ASSUME LogOK, NEW size \in LineSizes, CrashInAppend(size)
  PROVE  LogOK' /\ faults' # 0
<1> DEFINE r == NewRecord(size)
           ws == Window(size)
<1>1. faults' \in 0 .. MaxFaults /\ faults' # 0
  BY AuditAssumption DEF CrashInAppend, LogOK
<1>2. \/ Restart(Rewritten(Trimmed(ws)))
      \/ ~OverBudget(r) /\ \E w \in Written(r) : Restart(Appended(w))
  BY DEF CrashInAppend, NewRecord, Window
<1> HIDE DEF r, ws
<1>3. CASE Restart(Rewritten(Trimmed(ws)))
  <2>1. PICK lines : lines = Rewritten(Trimmed(ws))
    OBVIOUS
  <2>2. lines \in Seq(DiskLine) /\ Bytes(lines) <= MaxBytes
    BY <2>1, RewrittenFile DEF ws
  <2> QED
    BY <1>1, <1>3, <2>1, <2>2, RestartLog
<1>4. CASE ~OverBudget(r) /\ \E w \in Written(r) : Restart(Appended(w))
  <2>1. PICK w \in Written(r) : Restart(Appended(w))
    BY <1>4
  <2>2. PICK lines : lines = Appended(w)
    OBVIOUS
  <2>3. lines \in Seq(DiskLine) /\ Bytes(lines) <= MaxBytes
    BY <1>4, <2>2, AppendedFile DEF r
  <2> QED
    BY <1>1, <2>1, <2>2, <2>3, RestartLog
<1> QED
  BY <1>1, <1>2, <1>3, <1>4

(* Every step keeps the invariant of the log; without faults it also keeps the log clean. *)
LEMMA LogStep ==
  ASSUME LogOK, [AuditNext]_auditVars
  PROVE  /\ LogOK' /\ (faults' = 0 => faults = 0)
         /\ faults' = 0 /\ LogClean => LogClean'
<1>0. faults \in Nat
  BY AuditAssumption DEF LogOK
<1>1. ASSUME NEW size \in LineSizes, AppendRecord(size)
      PROVE  LogOK' /\ (faults' = 0 => faults = 0) /\ (faults' = 0 /\ LogClean => LogClean')
  <2>1. faults' = 0 => faults = 0
    BY <1>0, <1>1 DEF AppendRecord
  <2> QED
    BY <1>1, <2>1, AppendLog
<1>2. ASSUME NEW size \in LineSizes, CrashInAppend(size) PROVE LogOK' /\ faults' # 0
  BY <1>2, CrashLog
<1>3. ASSUME Crash PROVE LogOK' /\ faults' = faults /\ (LogClean => LogClean')
  <2>1. PICK lines : lines = disk
    OBVIOUS
  <2>2. /\ lines \in Seq(DiskLine) /\ Bytes(lines) <= MaxBytes /\ Restart(lines)
        /\ faults' = faults /\ faults' \in 0 .. MaxFaults
    BY <1>3, <2>1 DEF Crash, LogOK
  <2>3. LogClean => CleanFile(lines, next_seq)
    BY <2>1 DEF LogClean
  <2> QED
    BY <2>2, <2>3, RestartLog
<1>4. ASSUME UNCHANGED <<next_seq, records, disk, faults, high>>
      PROVE  LogOK' /\ faults' = faults /\ (LogClean => LogClean')
  BY <1>4 DEF LogOK, LogClean
<1> QED
  BY <1>1, <1>2, <1>3, <1>4, Zenon
  DEF AuditNext, Subscribe, WriteFrame, RemoveSubscriber, auditVars

-----------------------------------------------------------------------------
(* Steps of one stream                                                     *)

(* A stream after a send, after a frame of the backlog or of the channel,  *)
(* after a change of its stage, and closed.                                *)
Sent(me, n) == [me EXCEPT !.chan = Append(@, n)]
BacklogWritten(me) == [me EXCEPT !.todo = Tail(@), !.last = Head(me.todo)]
ChannelWritten(me) == [me EXCEPT !.chan = Tail(@), !.last = Head(me.chan)]
Staged(me, st) == [me EXCEPT !.stage = st]
Closed(me) == [me EXCEPT !.open = FALSE]

(* CaughtUp, with the backlog and the channel apart. *)
Level(me, n) == n - 1 - Len(me.todo) - Len(me.chan)
InStep(me, n) ==
  /\ \A i \in 1 .. Len(me.todo) : me.todo[i] = Level(me, n) + i
  /\ \A i \in 1 .. Len(me.chan) : me.chan[i] = Level(me, n) + Len(me.todo) + i
  /\ me.last # 0 => me.last = Level(me, n)

(* What membership in Stream says of each field. *)
LEMMA StreamType ==
  ASSUME NEW me \in Stream
  PROVE  /\ me.todo \in Seq(Nat) /\ Len(me.todo) \in Nat /\ DOMAIN me.todo = 1 .. Len(me.todo)
         /\ me.chan \in Seq(Nat) /\ Len(me.chan) \in Nat /\ DOMAIN me.chan = 1 .. Len(me.chan)
         /\ me.last \in Nat /\ me.open \in BOOLEAN
         /\ me.stage \in {"New", "Live", "Leaving", "Ended"} /\ me.id \in SubId \cup {NoSession}
<1>1. /\ me.todo \in Seq(Nat) /\ me.chan \in Seq(Nat) /\ me.last \in Nat /\ me.open \in BOOLEAN
      /\ me.stage \in {"New", "Live", "Leaving", "Ended"} /\ me.id \in SubId \cup {NoSession}
  BY DEF Stream
<1> QED
  BY <1>1

(* CaughtUp, which speaks of the concatenation of backlog and channel, taken apart into
   statements about each of the two. *)
LEMMA CaughtUpParts ==
  ASSUME NEW me \in Stream, NEW n \in Nat \ {0}
  PROVE  CaughtUp(me, n) <=> InStep(me, n)
<1>1. PICK a \in Seq(Nat), b \in Seq(Nat), l \in Nat :
        a = me.todo /\ b = me.chan /\ l = me.last
  BY StreamType
<1>2. PICK p \in Nat, q \in Nat : p = Len(a) /\ q = Len(b)
  OBVIOUS
<1>3. /\ Len(a \o b) = p + q /\ DOMAIN (a \o b) = 1 .. p + q
      /\ \A i \in 1 .. p : (a \o b)[i] = a[i]
      /\ \A i \in p + 1 .. p + q : (a \o b)[i] = b[i - p]
  BY <1>2
<1>4. PICK c : c = a \o b
  BY Zenon
<1>5. CaughtUp(me, n) <=>
        /\ \A i \in 1 .. p + q : c[i] = (n - 1 - (p + q)) + i
        /\ l # 0 => l = n - 1 - (p + q)
  BY <1>1, <1>3, <1>4 DEF CaughtUp
<1>6. PICK z \in Int : z = n - 1 - (p + q) /\ z = n - 1 - p - q
  OBVIOUS
<1>7. InStep(me, n) <=>
        /\ \A i \in 1 .. p : a[i] = z + i
        /\ \A i \in 1 .. q : b[i] = z + p + i
        /\ l # 0 => l = z
  BY <1>1, <1>2, <1>6, Zenon DEF InStep, Level
<1>8. ASSUME \A i \in 1 .. p + q : c[i] = z + i
      PROVE  (\A i \in 1 .. p : a[i] = z + i) /\ \A i \in 1 .. q : b[i] = z + p + i
  <2>1. ASSUME NEW i \in 1 .. p PROVE a[i] = z + i
    <3>1. i \in 1 .. p + q
      OBVIOUS
    <3> QED
      BY <1>3, <1>4, <1>8, <3>1, Zenon
  <2>2. ASSUME NEW i \in 1 .. q PROVE b[i] = z + p + i
    <3>1. p + i \in 1 .. p + q /\ p + i \in p + 1 .. p + q /\ (p + i) - p = i
          /\ z + (p + i) = z + p + i
      OBVIOUS
    <3>2. c[p + i] = b[i]
      BY <1>3, <1>4, <3>1
    <3> QED
      BY <1>8, <3>1, <3>2
  <2> QED
    BY <2>1, <2>2
<1>9. ASSUME \A i \in 1 .. p : a[i] = z + i, \A i \in 1 .. q : b[i] = z + p + i
      PROVE  \A i \in 1 .. p + q : c[i] = z + i
  <2> TAKE i \in 1 .. p + q
  <2>1. CASE i <= p
    <3>1. i \in 1 .. p
      BY <2>1
    <3> QED
      BY <1>3, <1>4, <1>9, <3>1
  <2>2. CASE i > p
    <3>1. i \in p + 1 .. p + q /\ i - p \in 1 .. q /\ z + p + (i - p) = z + i
      BY <2>2
    <3>2. b[i - p] = z + p + (i - p) /\ c[i] = b[i - p]
      BY <1>3, <1>4, <1>9, <3>1
    <3> QED
      BY <3>1, <3>2
  <2> QED
    BY <2>1, <2>2
<1> QED
  BY <1>5, <1>6, <1>7, <1>8, <1>9

(* fanout sends the record with the next number. *)
LEMMA SendStep ==
  ASSUME NEW me \in Stream, NEW n \in Nat \ {0}, Len(me.chan) < ChanCap
  PROVE  LET you == Sent(me, n)
         IN /\ you \in Stream /\ Len(you.chan) <= ChanCap
            /\ \A id : Serves(me, id) => Serves(you, id)
            /\ InStep(me, n) => InStep(you, n + 1)
<1> DEFINE you == Sent(me, n)
<1>1. PICK b \in Seq(Nat) : b = me.chan
  BY StreamType
<1>2. PICK q \in Nat : q = Len(b)
  OBVIOUS
<1>3. /\ Append(b, n) \in Seq(Nat) /\ Len(Append(b, n)) = q + 1
      /\ \A i \in 1 .. q : Append(b, n)[i] = b[i]
      /\ Append(b, n)[q + 1] = n
  BY <1>2
<1>4. PICK c : c = Append(b, n)
  BY Zenon
<1>5. /\ you \in Stream /\ you.chan = c /\ you.todo = me.todo /\ you.last = me.last
      /\ you.id = me.id /\ you.stage = me.stage
  BY <1>1, <1>3, <1>4, Zenon DEF Sent, Stream
<1> HIDE DEF you
<1>6. Len(you.chan) <= ChanCap
  BY <1>1, <1>2, <1>3, <1>4, <1>5, AuditAssumption
<1>7. ASSUME NEW id, Serves(me, id) PROVE Serves(you, id)
  <2>1. \A i \in 1 .. q : b[i] # 0
    BY <1>1, <1>2, <1>7 DEF Serves
  <2>2. ASSUME NEW i \in 1 .. q + 1 PROVE c[i] # 0
    <3>1. i \in 1 .. q \/ i = q + 1
      OBVIOUS
    <3> QED
      BY <1>3, <1>4, <2>1, <3>1
  <2>3. Len(c) = q + 1
    BY <1>3, <1>4
  <2> QED
    BY <1>5, <1>7, <2>2, <2>3 DEF Serves
<1>8. ASSUME InStep(me, n) PROVE InStep(you, n + 1)
  <2>1. PICK p \in Nat, z \in Int : p = Len(me.todo) /\ z = n - 1 - p - q
    BY StreamType
  <2>2. Level(me, n) = z /\ Len(c) = q + 1 /\ (n + 1) - 1 - p - (q + 1) = z
    BY <1>1, <1>2, <1>3, <1>4, <2>1 DEF Level
  <2>3. Level(you, n + 1) = z
    BY <1>5, <2>1, <2>2 DEF Level
  <2>4. /\ \A i \in 1 .. p : me.todo[i] = z + i
        /\ \A i \in 1 .. q : b[i] = z + p + i
        /\ me.last # 0 => me.last = z
    BY <1>1, <1>2, <1>8, <2>1, <2>2 DEF InStep
  <2>5. ASSUME NEW i \in 1 .. q + 1 PROVE c[i] = z + p + i
    <3>1. CASE i \in 1 .. q
      BY <1>3, <1>4, <2>4, <3>1
    <3>2. CASE i = q + 1
      <4>1. z + p + (q + 1) = n
        BY <2>1
      <4> QED
        BY <1>3, <1>4, <3>2, <4>1
    <3> QED
      BY <3>1, <3>2
  <2> QED
    BY <1>5, <2>1, <2>2, <2>3, <2>4, <2>5, Zenon DEF InStep
<1> QED
  BY <1>5, <1>6, <1>7, <1>8, Zenon DEF you

(* A frame of the backlog is written. *)
LEMMA BacklogFrame ==
  ASSUME NEW me \in Stream, NEW n \in Nat \ {0}, me.todo # <<>>
  PROVE  LET you == BacklogWritten(me)
         IN /\ you \in Stream /\ you.chan = me.chan
            /\ \A id : Serves(me, id) => Serves(you, id)
            /\ InStep(me, n) => InStep(you, n)
<1> DEFINE you == BacklogWritten(me)
<1>1. PICK a \in Seq(Nat) : a = me.todo /\ a # <<>>
  BY StreamType
<1>2. PICK p \in Nat : p + 1 = Len(a)
  <2>1. Len(a) \in Nat /\ Len(a) # 0
    BY <1>1
  <2> QED
    BY <2>1
<1>3. /\ Tail(a) \in Seq(Nat) /\ Len(Tail(a)) = p /\ Head(a) = a[1] /\ Head(a) \in Nat
      /\ \A i \in 1 .. p : Tail(a)[i] = a[i + 1]
  BY <1>1, <1>2
<1>4. PICK c, h : c = Tail(a) /\ h = Head(a)
  BY Zenon
<1>5. /\ you \in Stream /\ you.chan = me.chan /\ you.todo = c /\ you.last = h
      /\ you.id = me.id /\ you.stage = me.stage
  BY <1>1, <1>3, <1>4, Zenon DEF BacklogWritten, Stream
<1> HIDE DEF you
<1>6. ASSUME NEW id, Serves(me, id) PROVE Serves(you, id)
  BY <1>5, <1>6 DEF Serves
<1>7. ASSUME InStep(me, n) PROVE InStep(you, n)
  <2>1. PICK q \in Nat, z \in Int : q = Len(me.chan) /\ z = n - 1 - (p + 1) - q
    BY StreamType
  <2>2. Level(me, n) = z /\ Len(c) = p /\ n - 1 - p - q = z + 1
    <3>1. Len(me.todo) = p + 1 /\ Len(c) = p
      BY <1>1, <1>2, <1>3, <1>4
    <3>2. n - 1 - p - q = z + 1
      BY <2>1
    <3> QED
      BY <2>1, <3>1, <3>2 DEF Level
  <2>3. Level(you, n) = z + 1
    BY <1>5, <2>1, <2>2 DEF Level
  <2>4. /\ \A i \in 1 .. p + 1 : a[i] = z + i
        /\ \A i \in 1 .. q : me.chan[i] = z + (p + 1) + i
    BY <1>1, <1>2, <1>7, <2>1, <2>2, Zenon DEF InStep
  <2>5. ASSUME NEW i \in 1 .. p PROVE c[i] = (z + 1) + i
    <3>1. i + 1 \in 1 .. p + 1 /\ z + (i + 1) = (z + 1) + i
      OBVIOUS
    <3>2. c[i] = a[i + 1] /\ a[i + 1] = z + (i + 1)
      BY <1>3, <1>4, <2>4, <3>1
    <3> QED
      BY <3>1, <3>2
  <2>6. ASSUME NEW i \in 1 .. q PROVE me.chan[i] = (z + 1) + p + i
    <3>1. z + (p + 1) + i = (z + 1) + p + i
      OBVIOUS
    <3> QED
      BY <2>4, <3>1
  <2>7. h = z + 1
    <3>1. 1 \in 1 .. p + 1
      OBVIOUS
    <3> QED
      BY <1>3, <1>4, <2>4, <3>1
  <2> QED
    BY <1>5, <2>1, <2>2, <2>3, <2>5, <2>6, <2>7, Zenon DEF InStep
<1> QED
  BY <1>5, <1>6, <1>7 DEF you

(* A frame of the channel is written, after the backlog. *)
LEMMA ChannelFrame ==
  ASSUME NEW me \in Stream, NEW n \in Nat \ {0}, me.todo = <<>>, me.chan # <<>>,
         Len(me.chan) <= ChanCap
  PROVE  LET you == ChannelWritten(me)
         IN /\ you \in Stream /\ Len(you.chan) <= ChanCap
            /\ \A id : Serves(me, id) => Serves(you, id) /\ Head(me.chan) # 0
            /\ InStep(me, n) => InStep(you, n)
<1> DEFINE you == ChannelWritten(me)
<1>1. PICK b \in Seq(Nat) : b = me.chan /\ b # <<>>
  BY StreamType
<1>2. PICK q \in Nat : q + 1 = Len(b)
  <2>1. Len(b) \in Nat /\ Len(b) # 0
    BY <1>1
  <2> QED
    BY <2>1
<1>3. /\ Tail(b) \in Seq(Nat) /\ Len(Tail(b)) = q /\ Head(b) = b[1] /\ Head(b) \in Nat
      /\ \A i \in 1 .. q : Tail(b)[i] = b[i + 1]
  BY <1>1, <1>2
<1>4. PICK c, h : c = Tail(b) /\ h = Head(b)
  BY Zenon
<1>5. /\ you \in Stream /\ you.todo = me.todo /\ you.chan = c /\ you.last = h
      /\ you.id = me.id /\ you.stage = me.stage
  BY <1>1, <1>3, <1>4, Zenon DEF ChannelWritten, Stream
<1> HIDE DEF you
<1>6. Len(you.chan) <= ChanCap
  BY <1>1, <1>2, <1>3, <1>4, <1>5, AuditAssumption
<1>7. ASSUME NEW id, Serves(me, id) PROVE Serves(you, id) /\ Head(me.chan) # 0
  <2>1. \A i \in 1 .. q + 1 : b[i] # 0
    BY <1>1, <1>2, <1>7 DEF Serves
  <2>2. 1 \in 1 .. q + 1
    OBVIOUS
  <2>3. ASSUME NEW i \in 1 .. q PROVE c[i] # 0
    <3>1. i + 1 \in 1 .. q + 1
      OBVIOUS
    <3> QED
      BY <1>3, <1>4, <2>1, <3>1
  <2>4. Len(c) = q /\ Head(me.chan) # 0
    BY <1>1, <1>3, <1>4, <2>1, <2>2
  <2> QED
    BY <1>5, <1>7, <2>3, <2>4 DEF Serves
<1>8. ASSUME InStep(me, n) PROVE InStep(you, n)
  <2>1. Len(me.todo) = 0 /\ Len(you.todo) = 0
    BY <1>5
  <2>2. PICK z \in Int : z = n - 1 - 0 - (q + 1)
    OBVIOUS
  <2>3. Level(me, n) = z /\ Len(c) = q /\ n - 1 - 0 - q = z + 1
    <3>1. Len(me.chan) = q + 1 /\ Len(c) = q
      BY <1>1, <1>2, <1>3, <1>4
    <3>2. n - 1 - 0 - q = z + 1
      BY <2>2
    <3> QED
      BY <2>1, <2>2, <3>1, <3>2 DEF Level
  <2>4. Level(you, n) = z + 1
    BY <1>5, <2>1, <2>3 DEF Level
  <2>5. \A i \in 1 .. q + 1 : b[i] = z + 0 + i
    BY <1>1, <1>2, <1>8, <2>1, <2>3 DEF InStep
  <2>6. ASSUME NEW i \in 1 .. q PROVE c[i] = (z + 1) + 0 + i
    <3>1. i + 1 \in 1 .. q + 1 /\ z + 0 + (i + 1) = (z + 1) + 0 + i
      OBVIOUS
    <3>2. c[i] = b[i + 1] /\ b[i + 1] = z + 0 + (i + 1)
      BY <1>3, <1>4, <2>5, <3>1
    <3> QED
      BY <3>1, <3>2
  <2>7. h = z + 1
    <3>1. 1 \in 1 .. q + 1 /\ z + 0 + 1 = z + 1
      OBVIOUS
    <3> QED
      BY <1>3, <1>4, <2>5, <3>1
  <2>8. \A i \in 1 .. Len(you.todo) : you.todo[i] = (z + 1) + i
    BY <2>1
  <2> QED
    BY <1>5, <2>1, <2>3, <2>4, <2>6, <2>7, <2>8 DEF InStep
<1> QED
  BY <1>5, <1>6, <1>7, <1>8 DEF you

(* The backlog of a new stream: the records after the client's number. *)
LEMMA BacklogWell ==
  ASSUME LogOK, NEW since \in 0 .. next_seq - 1
  PROVE  /\ Since(since) \in Seq(Nat)
         /\ Run(records, next_seq) =>
              \A i \in 1 .. Len(Since(since)) :
                Since(since)[i] = next_seq - 1 - Len(Since(since)) + i
<1> DEFINE s == Seqs(records)
           S == {q \in Range(Seqs(records)) : q > since}
           t == Since(since)
<1>1. PICK m \in Nat, n \in Nat : m = Len(records) /\ n = next_seq /\ n # 0
  BY DEF LogOK
<1>2. DOMAIN records = 1 .. m /\ \A i \in 1 .. m : records[i].seq \in Nat
  BY <1>1, SizedType DEF LogOK, Sized, Record
<1>3. s \in Seq(Nat) /\ Len(s) = m /\ DOMAIN s = 1 .. m /\ \A i \in 1 .. m : s[i] = records[i].seq
  BY <1>1, <1>2 DEF Seqs
<1>4. t = Retain(s, S)
  BY DEF Since
<1>5. \A i \in 1 .. m : s[i] \in S <=> s[i] > since
  BY <1>3 DEF Range
<1> HIDE DEF s, S, t
<1>6. t \in Seq(Nat) /\ Len(t) \in Nat
  BY <1>3, <1>4, RetainProperties
<1>7. ASSUME Run(records, next_seq) PROVE \A i \in 1 .. Len(t) : t[i] = next_seq - 1 - Len(t) + i
  <2>1. \A i \in 1 .. m : s[i] = n - 1 - m + i
    BY <1>1, <1>3, <1>7 DEF Run
  <2>2. PICK b \in Int : b = n - 1 - m
    OBVIOUS
  <2>3. since \in Nat /\ since <= n - 1
    BY <1>1
  <2>4. PICK d \in 0 .. m : \A i \in 1 .. m : b + i > since <=> i > d
    <3>1. CASE since <= b
      <4>1. \A i \in 1 .. m : b + i > since <=> i > 0
        BY <2>3, <3>1
      <4> QED
        BY <4>1
    <3>2. CASE since > b
      <4>1. since - b \in 0 .. m
        BY <2>2, <2>3, <3>2
      <4>2. \A i \in 1 .. m : b + i > since <=> i > since - b
        BY <2>3
      <4> QED
        BY <4>1, <4>2
    <3> QED
      BY <2>3, <3>1, <3>2
  <2>5. \A i \in 1 .. Len(s) : s[i] \in S <=> i > d
    BY <1>3, <1>5, <2>1, <2>2, <2>4, Zenon
  <2>6. Len(t) = m - d /\ \A i \in 1 .. m - d : t[i] = s[d + i]
    <3>1. s \in Seq(Nat) /\ d \in 0 .. Len(s)
      BY <1>3
    <3>2. /\ Len(Retain(s, S)) = Len(s) - d
          /\ \A i \in 1 .. Len(s) - d : Retain(s, S)[i] = s[d + i]
      BY <2>5, <3>1, RetainSuffix
    <3> QED
      BY <1>3, <1>4, <3>2
  <2>7. ASSUME NEW i \in 1 .. Len(t) PROVE t[i] = next_seq - 1 - Len(t) + i
    <3>1. i \in 1 .. m - d /\ d + i \in 1 .. m
      BY <2>6
    <3>2. t[i] = n - 1 - m + (d + i)
      BY <2>1, <2>6, <3>1
    <3> QED
      BY <1>1, <2>6, <3>1, <3>2
  <2> QED
    BY <2>7
<1> QED
  BY <1>6, <1>7 DEF t

NewStream(id, since) ==
  [stage |-> "Live", id |-> id, todo |-> Since(since), chan |-> <<>>, open |-> TRUE, last |-> 0]

(* subscribe attaches a stream that is served and caught up. *)
LEMMA NewStreamWell ==
  ASSUME LogOK, NEW id \in SubId, NEW since \in 0 .. next_seq - 1
  PROVE  /\ NewStream(id, since) \in Stream /\ Len(NewStream(id, since).chan) <= ChanCap
         /\ Serves(NewStream(id, since), id)
         /\ LogClean => CaughtUp(NewStream(id, since), next_seq)
<1>1. PICK t \in Seq(Nat) : t = Since(since)
  BY BacklogWell
<1>2. PICK you : you = NewStream(id, since)
  OBVIOUS
<1>3. you \in Stream /\ you.todo = t /\ you.chan = <<>> /\ you.last = 0 /\ you.stage = "Live" /\ you.id = id
  BY <1>1, <1>2 DEF NewStream, Stream
<1>4. Len(you.chan) = 0 /\ Len(you.chan) <= ChanCap
  BY <1>3, AuditAssumption
<1>5. Serves(you, id)
  BY <1>3, <1>4 DEF Serves
<1>6. ASSUME LogClean PROVE CaughtUp(you, next_seq)
  <2>1. PICK n \in Nat \ {0}, p \in Nat : n = next_seq /\ p = Len(t)
    <3>1. next_seq \in Nat \ {0} /\ Len(t) \in Nat
      BY DEF LogOK
    <3> QED
      BY <3>1
  <2>2. \A i \in 1 .. p : t[i] = n - 1 - p + i
    BY <1>1, <1>6, <2>1, BacklogWell DEF LogClean
  <2>3. Level(you, n) = n - 1 - p
    BY <1>3, <1>4, <2>1 DEF Level
  <2>4. InStep(you, n)
    BY <1>3, <1>4, <2>1, <2>2, <2>3 DEF InStep
  <2> QED
    BY <1>3, <2>1, <2>4, CaughtUpParts
<1> QED
  BY <1>2, <1>3, <1>4, <1>5, <1>6

-----------------------------------------------------------------------------
(* Steps of the streams                                                    *)

(* Removing keys from a map leaves a map that agrees with it on the other keys. *)
LEMMA MapRemoveWell ==
  ASSUME NEW K, NEW V, NEW f, IsMap(f, K, V), NEW S
  PROVE  /\ IsMap(MapRemove(f, S), K, V)
         /\ DOMAIN MapRemove(f, S) = DOMAIN f \ S
         /\ \A x \in DOMAIN f \ S : MapRemove(f, S)[x] = f[x]
  BY DEF MapRemove, Restrict, IsMap

(* Closing or ending a stream does not touch its frames. *)
LEMMA StreamChanges ==
  ASSUME NEW me, NEW you, you.todo = me.todo, you.chan = me.chan, you.last = me.last,
         you.id = me.id
  PROVE  /\ \A id : Serves(me, id) /\ you.stage \in {me.stage, "Leaving"} => Serves(you, id)
         /\ \A n : CaughtUp(me, n) => CaughtUp(you, n)
<1>1. ASSUME NEW id, Serves(me, id), you.stage \in {me.stage, "Leaving"} PROVE Serves(you, id)
  BY <1>1 DEF Serves
<1>2. ASSUME NEW n, CaughtUp(me, n) PROVE CaughtUp(you, n)
  BY <1>2, Zenon DEF CaughtUp
<1> QED
  BY <1>1, <1>2

(* fanout: a stream that stays registered receives the new record. *)
LEMMA FanoutStreams ==
  ASSUME LogOK, StreamsOK, Fanout(next_seq), next_seq' = next_seq + 1
  PROVE  StreamsOK' /\ (StreamsClean => StreamsClean')
<1>1. PICK n \in Nat \ {0} : n = next_seq
  BY DEF LogOK
<1> DEFINE full == {id \in DOMAIN subscribers : Dropped(subscribers[id])}
           of(ids) == {subscribers[id] : id \in ids}
<1>2. /\ subscribers' = MapRemove(subscribers, full)
      /\ session' = [s \in Session |->
           IF s \in of(full) THEN Closed(session[s])
           ELSE IF s \in of(DOMAIN subscribers) /\ Len(session[s].chan) < ChanCap
           THEN Sent(session[s], n)
           ELSE session[s]]
  BY <1>1 DEF Fanout, Sent, Closed
<1>3. /\ IsMap(subscribers', SubId, Session) /\ DOMAIN subscribers' = DOMAIN subscribers \ full
      /\ \A id \in DOMAIN subscribers \ full : subscribers'[id] = subscribers[id]
  <2>1. IsMap(subscribers, SubId, Session) /\ subscribers' = MapRemove(subscribers, full)
    BY <1>2 DEF StreamsOK
  <2> HIDE DEF full
  <2>2. /\ IsMap(MapRemove(subscribers, full), SubId, Session)
        /\ DOMAIN MapRemove(subscribers, full) = DOMAIN subscribers \ full
        /\ \A x \in DOMAIN subscribers \ full : MapRemove(subscribers, full)[x] = subscribers[x]
    BY <2>1, MapRemoveWell
  <2> QED
    BY <2>1, <2>2
<1>4. ASSUME NEW s \in Session
      PROVE  session'[s] \in Stream /\ Len(session'[s].chan) <= ChanCap
  <2>1. PICK me \in Stream : me = session[s] /\ Len(me.chan) <= ChanCap
    BY DEF StreamsOK
  <2>2. CASE session'[s] = Closed(me)
    BY <2>1, <2>2, Zenon DEF Closed, Stream
  <2>3. CASE session'[s] = Sent(me, n) /\ Len(me.chan) < ChanCap
    BY <2>3, SendStep
  <2>4. CASE session'[s] = me
    BY <2>1, <2>4
  <2> QED
    BY <1>2, <2>1, <2>2, <2>3, <2>4
<1>5. ASSUME NEW id \in DOMAIN subscribers'
      PROVE  /\ Serves(session'[subscribers'[id]], id)
             /\ StreamsClean => CaughtUp(session'[subscribers'[id]], next_seq')
  <2>1. id \in DOMAIN subscribers /\ id \notin full
    BY <1>3
  <2>2. PICK s \in Session : s = subscribers[id] /\ s = subscribers'[id]
    BY <1>3, <2>1 DEF StreamsOK, IsMap
  <2>3. PICK me \in Stream : me = session[s] /\ Len(me.chan) <= ChanCap
    BY DEF StreamsOK
  <2>4. Len(me.chan) # ChanCap /\ s \in of(DOMAIN subscribers)
    BY <2>1, <2>2, <2>3, Zenon DEF Dropped
  <2>5. s \notin of(full)
    BY <2>3, <2>4 DEF Dropped
  <2>6. Len(me.chan) < ChanCap
    BY <2>3, <2>4, StreamType, AuditAssumption
  <2>7. PICK you : you = Sent(me, n) /\ you = session'[s]
    BY <1>2, <2>3, <2>4, <2>5, <2>6
  <2>8. /\ you \in Stream
        /\ Serves(me, id) => Serves(you, id)
        /\ InStep(me, n) => InStep(you, n + 1)
    BY <2>6, <2>7, SendStep, Zenon
  <2>9. Serves(me, id)
    BY <2>1, <2>2, <2>3, Zenon DEF StreamsOK
  <2>10. ASSUME StreamsClean PROVE CaughtUp(you, n + 1)
    <3>1. CaughtUp(me, n)
      BY <1>1, <2>1, <2>2, <2>3, <2>10, Zenon DEF StreamsClean
    <3>2. n + 1 \in Nat \ {0}
      OBVIOUS
    <3> QED
      BY <2>8, <3>1, <3>2, CaughtUpParts
  <2> QED
    BY <1>1, <2>2, <2>7, <2>8, <2>9, <2>10
<1>6. session' \in [Session -> Stream]
  <2>1. session' = [s \in Session |-> session'[s]]
    BY <1>2
  <2> QED
    BY <1>4, <2>1
<1> QED
  BY <1>3, <1>4, <1>5, <1>6 DEF StreamsOK, StreamsClean

(* A stream that is replaced keeps its type. *)
LEMMA DisplacedWell ==
  ASSUME StreamsOK, NEW s \in Session
  PROVE  Displaced(s) \in Stream /\ Len(Displaced(s).chan) <= ChanCap
<1>1. PICK me \in Stream : me = session[s] /\ Len(me.chan) <= ChanCap
  BY DEF StreamsOK
<1>2. PICK b \in Seq(Nat) : b = me.chan
  BY StreamType
<1>3. Append(b, 0) \in Seq(Nat) /\ Len(Append(b, 0)) = Len(b) + 1 /\ Len(b) \in Nat
  OBVIOUS
<1>4. PICK c \in Seq(Nat) :
        /\ Len(c) <= ChanCap
        /\ Displaced(s) = [me EXCEPT !.open = FALSE, !.chan = c]
  <2>1. Displaced(s) = [me EXCEPT !.open = FALSE,
                                  !.chan = IF Len(b) < ChanCap THEN Append(b, 0) ELSE b]
    BY <1>1, <1>2 DEF Displaced
  <2>2. CASE Len(b) < ChanCap
    <3>1. Len(Append(b, 0)) <= ChanCap
      BY <1>3, <2>2, AuditAssumption
    <3> QED
      BY <1>3, <2>1, <2>2, <3>1, Zenon
  <2>3. CASE ~(Len(b) < ChanCap)
    BY <1>1, <1>2, <2>1, <2>3, Zenon
  <2> QED
    BY <2>2, <2>3, Zenon
<1> QED
  BY <1>4, Zenon DEF Stream

(* subscribe: the new stream takes the id over. *)
LEMMA SubscribeStreams ==
  ASSUME LogOK, StreamsOK, NEW id \in SubId, NEW s \in Session, NEW since \in 0 .. next_seq - 1,
         Subscribe(id, s, since)
  PROVE  StreamsOK' /\ (LogClean /\ StreamsClean => StreamsClean')
<1>1. PICK you : you = NewStream(id, since)
  OBVIOUS
<1>2. /\ you \in Stream /\ Len(you.chan) <= ChanCap /\ Serves(you, id)
      /\ LogClean => CaughtUp(you, next_seq)
  BY <1>1, NewStreamWell
<1>3. /\ subscribers' = MapInsert(subscribers, id, s) /\ next_seq' = next_seq
      /\ session[s].stage = "New"
      /\ session' = [x \in Session |->
           CASE x = s -> you
             [] id \in DOMAIN subscribers /\ x = subscribers[id] /\ x # s -> Displaced(x)
             [] OTHER -> session[x]]
  BY <1>1 DEF Subscribe, NewStream
<1>4. /\ IsMap(subscribers', SubId, Session) /\ DOMAIN subscribers' = DOMAIN subscribers \cup {id}
      /\ subscribers'[id] = s
      /\ \A j \in DOMAIN subscribers : j # id => subscribers'[j] = subscribers[j]
  <2>1. IsMap(subscribers, SubId, Session)
    BY DEF StreamsOK
  <2>2. PICK f : f = MapInsert(subscribers, id, s)
    OBVIOUS
  <2>3. /\ IsMap(f, SubId, Session) /\ DOMAIN f = DOMAIN subscribers \cup {id} /\ f[id] = s
        /\ \A x \in DOMAIN subscribers : x # id => f[x] = subscribers[x]
    BY <2>1, <2>2 DEF MapInsert, IsMap
  <2> QED
    BY <1>3, <2>2, <2>3
<1>5. ASSUME NEW x \in Session PROVE session'[x] \in Stream /\ Len(session'[x].chan) <= ChanCap
  <2>1. session'[x] \in {you, Displaced(x), session[x]}
    BY <1>3
  <2> QED
    BY <1>2, <2>1, DisplacedWell DEF StreamsOK
<1>6. ASSUME NEW j \in DOMAIN subscribers, j # id
      PROVE  session'[subscribers'[j]] = session[subscribers[j]]
  <2>1. PICK x \in Session : x = subscribers[j] /\ x = subscribers'[j]
    BY <1>4, <1>6 DEF StreamsOK, IsMap
  <2>2. x # s
    BY <1>3, <2>1, Zenon DEF StreamsOK, Serves
  <2>3. id \in DOMAIN subscribers => x # subscribers[id]
    <3>1. \A k \in DOMAIN subscribers : session[subscribers[k]].id = k
      BY DEF StreamsOK, Serves
    <3> QED
      BY <1>6, <2>1, <3>1, Zenon
  <2> QED
    BY <1>3, <2>1, <2>2, <2>3
<1>7. session'[subscribers'[id]] = you
  BY <1>3, <1>4
<1>8. session' \in [Session -> Stream]
  <2>1. session' = [x \in Session |-> session'[x]]
    BY <1>3
  <2> QED
    BY <1>5, <2>1
<1>9. ASSUME NEW j \in DOMAIN subscribers'
      PROVE  /\ Serves(session'[subscribers'[j]], j)
             /\ LogClean /\ StreamsClean => CaughtUp(session'[subscribers'[j]], next_seq')
  <2>1. CASE j = id
    BY <1>2, <1>3, <1>7, <2>1
  <2>2. CASE j # id
    BY <1>3, <1>4, <1>6, <2>2, Zenon DEF StreamsOK, StreamsClean
  <2> QED
    BY <2>1, <2>2
<1> QED
  BY <1>4, <1>5, <1>8, <1>9 DEF StreamsOK, StreamsClean

(* A registered stream writes a frame, or leaves; it does not end. *)
LEMMA WriteFrameStreams ==
  ASSUME LogOK, StreamsOK, NEW s \in Session, WriteFrame(s)
  PROVE  StreamsOK' /\ (StreamsClean => StreamsClean')
<1>1. PICK n \in Nat \ {0} : n = next_seq
  BY DEF LogOK
<1>2. PICK me \in Stream : me = session[s] /\ Len(me.chan) <= ChanCap
  BY DEF StreamsOK
<1>3. PICK you :
        /\ session' = [session EXCEPT ![s] = you]
        /\ \/ me.todo # <<>> /\ you = BacklogWritten(me)
           \/ you = Staged(me, "Leaving")
           \/ me.todo = <<>> /\ me.chan # <<>> /\ Head(me.chan) = 0
                /\ you = Staged(me, "Ended")
           \/ me.todo = <<>> /\ me.chan # <<>>
                /\ you = ChannelWritten(me)
  BY <1>2, Zenon DEF WriteFrame, OnExit, BacklogWritten, ChannelWritten, Staged
<1>4. /\ you \in Stream /\ Len(you.chan) <= ChanCap
      /\ \A id : Serves(me, id) => Serves(you, id)
      /\ \A id : Serves(me, id) /\ CaughtUp(me, n) => CaughtUp(you, n)
  <2>1. CASE me.todo # <<>> /\ you = BacklogWritten(me)
    <3>1. /\ you \in Stream /\ you.chan = me.chan
          /\ \A id : Serves(me, id) => Serves(you, id)
          /\ InStep(me, n) => InStep(you, n)
      BY <2>1, BacklogFrame, Zenon
    <3> QED
      BY <1>2, <3>1, CaughtUpParts
  <2>2. CASE you = Staged(me, "Leaving")
    <3>1. /\ you \in Stream /\ you.todo = me.todo /\ you.chan = me.chan /\ you.last = me.last
          /\ you.id = me.id /\ you.stage = "Leaving"
      BY <2>2, Zenon DEF Staged, Stream
    <3>2. /\ \A id : Serves(me, id) /\ you.stage \in {me.stage, "Leaving"} => Serves(you, id)
          /\ \A m : CaughtUp(me, m) => CaughtUp(you, m)
      BY <3>1, StreamChanges
    <3> QED
      BY <1>2, <3>1, <3>2
  <2>3. CASE me.todo = <<>> /\ me.chan # <<>> /\ Head(me.chan) = 0
               /\ you = Staged(me, "Ended")
    <3>1. \A id : ~Serves(me, id)
      BY <1>2, <2>3, ChannelFrame, Zenon
    <3>2. you \in Stream /\ you.chan = me.chan
      BY <2>3, Zenon DEF Staged, Stream
    <3> QED
      BY <1>2, <3>1, <3>2
  <2>4. CASE me.todo = <<>> /\ me.chan # <<>>
               /\ you = ChannelWritten(me)
    <3>1. /\ you \in Stream /\ Len(you.chan) <= ChanCap
          /\ \A id : Serves(me, id) => Serves(you, id)
          /\ InStep(me, n) => InStep(you, n)
      BY <1>2, <2>4, ChannelFrame, Zenon
    <3> QED
      BY <3>1, CaughtUpParts
  <2> QED
    BY <1>3, <2>1, <2>2, <2>3, <2>4
<1>5. /\ subscribers' = subscribers /\ next_seq' = next_seq
      /\ IsMap(subscribers, SubId, Session) /\ session \in [Session -> Stream]
      /\ \A x \in Session : Len(session[x].chan) <= ChanCap
      /\ \A id \in DOMAIN subscribers :
           subscribers[id] \in Session /\ Serves(session[subscribers[id]], id)
  BY DEF WriteFrame, StreamsOK, IsMap
<1>6. /\ session' \in [Session -> Stream]
      /\ \A x \in Session : session'[x] = IF x = s THEN you ELSE session[x]
  BY <1>3, <1>4, <1>5
<1>7. ASSUME NEW x \in Session PROVE Len(session'[x].chan) <= ChanCap
  BY <1>4, <1>5, <1>6
<1>8. ASSUME NEW id \in DOMAIN subscribers
      PROVE  /\ Serves(session'[subscribers[id]], id)
             /\ StreamsClean => CaughtUp(session'[subscribers[id]], next_seq)
  <2>1. PICK x \in Session : x = subscribers[id]
    BY <1>5
  <2>2. Serves(session[x], id) /\ (StreamsClean => CaughtUp(session[x], n))
    BY <1>1, <1>5, <2>1 DEF StreamsClean
  <2>3. CASE x = s
    BY <1>1, <1>2, <1>4, <1>6, <2>1, <2>2, <2>3
  <2>4. CASE x # s
    BY <1>1, <1>6, <2>1, <2>2, <2>4
  <2> QED
    BY <2>3, <2>4
<1>9. StreamsOK'
  BY <1>5, <1>6, <1>7, <1>8 DEF StreamsOK
<1> QED
  BY <1>5, <1>8, <1>9 DEF StreamsClean

(* The stream x after the stream s, of id k, has been removed. *)
Left(x, s, k) ==
  [session[x] EXCEPT
     !.stage = IF x = s THEN "Ended" ELSE @,
     !.open = IF k \in DOMAIN subscribers /\ x = subscribers[k] THEN FALSE ELSE @]

(* remove_subscriber takes the id out of the map, so that whichever stream *)
(* ends or is closed is not registered any more.                           *)
LEMMA RemoveStreams ==
  ASSUME LogOK, StreamsOK, NEW s \in Session, RemoveSubscriber(s)
  PROVE  StreamsOK' /\ (StreamsClean => StreamsClean')
<1>1. PICK k : k = session[s].id
  OBVIOUS
<1>2. /\ subscribers' = MapRemove(subscribers, {k}) /\ next_seq' = next_seq
      /\ session' = [x \in Session |-> Left(x, s, k)]
  BY <1>1, Zenon DEF RemoveSubscriber, Left
<1>3. IsMap(subscribers, SubId, Session) /\ session \in [Session -> Stream]
  BY DEF StreamsOK
<1>4. /\ IsMap(subscribers', SubId, Session) /\ DOMAIN subscribers' = DOMAIN subscribers \ {k}
      /\ \A id \in DOMAIN subscribers \ {k} : subscribers'[id] = subscribers[id]
  BY <1>2, <1>3, Zenon DEF MapRemove, Restrict, IsMap
<1>5. ASSUME NEW x \in Session
      PROVE  /\ session'[x] \in Stream /\ session'[x].chan = session[x].chan
             /\ \A id : Serves(session[x], id) /\ x # s => Serves(session'[x], id)
             /\ \A n : CaughtUp(session[x], n) => CaughtUp(session'[x], n)
  <2>1. PICK me \in Stream : me = session[x]
    BY <1>3
  <2>2. PICK st \in {"New", "Live", "Leaving", "Ended"} : st = IF x = s THEN "Ended" ELSE me.stage
    BY StreamType
  <2>3. PICK op \in BOOLEAN :
          op = IF k \in DOMAIN subscribers /\ x = subscribers[k] THEN FALSE ELSE me.open
    BY StreamType, Zenon
  <2>4. PICK you : you = Left(x, s, k) /\ you = session'[x]
    BY <1>2
  <2>5. /\ you \in Stream /\ you.todo = me.todo /\ you.chan = me.chan /\ you.last = me.last
        /\ you.id = me.id /\ you.stage = st
    <3>1. you = [me EXCEPT !.stage = st, !.open = op]
      BY <2>1, <2>2, <2>3, <2>4, Zenon DEF Left
    <3> QED
      BY <3>1, Zenon DEF Stream
  <2>6. /\ \A id : Serves(me, id) /\ you.stage \in {me.stage, "Leaving"} => Serves(you, id)
        /\ \A n : CaughtUp(me, n) => CaughtUp(you, n)
    BY <2>5, StreamChanges
  <2> QED
    BY <2>1, <2>2, <2>4, <2>5, <2>6
<1>6. ASSUME NEW id \in DOMAIN subscribers'
      PROVE  /\ Serves(session'[subscribers'[id]], id)
             /\ StreamsClean => CaughtUp(session'[subscribers'[id]], next_seq')
  <2>1. id \in DOMAIN subscribers /\ id # k
    BY <1>4
  <2>2. PICK x \in Session : x = subscribers[id] /\ x = subscribers'[id]
    BY <1>3, <1>4, <2>1 DEF IsMap
  <2>3. Serves(session[x], id) /\ (StreamsClean => CaughtUp(session[x], next_seq))
    BY <2>1, <2>2, Zenon DEF StreamsOK, StreamsClean
  <2>4. x # s
    BY <1>1, <2>1, <2>3 DEF Serves
  <2> QED
    BY <1>2, <1>5, <2>2, <2>3, <2>4, Zenon
<1>7. session' \in [Session -> Stream]
  <2>1. session' = [x \in Session |-> session'[x]]
    BY <1>2, Zenon
  <2> QED
    BY <1>5, <2>1
<1>8. \A x \in Session : Len(session'[x].chan) <= ChanCap
  BY <1>5 DEF StreamsOK
<1> QED
  BY <1>4, <1>6, <1>7, <1>8 DEF StreamsOK, StreamsClean

(* A restart has no subscribers. *)
LEMMA RestartStreams ==
  ASSUME StreamsOK, NEW lines, Restart(lines)
  PROVE  StreamsOK' /\ StreamsClean'
<1>1. DOMAIN subscribers' = {} /\ IsMap(subscribers', SubId, Session)
  BY DEF Restart, EmptyMap, IsMap
<1>2. PICK e \in Stream : e = [NewSession EXCEPT !.stage = "Ended"] /\ e.chan = <<>>
  <2>1. PICK e : e = [NewSession EXCEPT !.stage = "Ended"]
    BY Zenon
  <2>2. e = [stage |-> "Ended", id |-> NoSession, todo |-> <<>>, chan |-> <<>>,
             open |-> FALSE, last |-> 0]
    BY <2>1, Zenon DEF NewSession
  <2>3. e \in Stream /\ e.chan = <<>>
    BY <2>2 DEF Stream
  <2> QED
    BY <2>1, <2>3, Zenon
<1>3. Len(e.chan) <= ChanCap
  BY <1>2, AuditAssumption
<1>4. session' = [s \in Session |-> IF session[s].stage = "New" THEN session[s] ELSE e]
  BY <1>2 DEF Restart
<1>5. session' \in [Session -> Stream] /\ \A s \in Session : Len(session'[s].chan) <= ChanCap
  BY <1>3, <1>4 DEF StreamsOK
<1> QED
  BY <1>1, <1>5 DEF StreamsOK, StreamsClean

(* Every step keeps the invariant of the subscriber streams, and over a clean log their completeness. *)
LEMMA StreamsStep ==
  ASSUME LogOK, StreamsOK, [AuditNext]_auditVars
  PROVE  StreamsOK' /\ (LogClean /\ StreamsClean => StreamsClean')
<1>1. ASSUME NEW size \in LineSizes, AppendRecord(size)
      PROVE  StreamsOK' /\ (StreamsClean => StreamsClean')
  <2>1. Fanout(next_seq) /\ next_seq' = next_seq + 1
    BY <1>1 DEF AppendRecord
  <2> QED
    BY <2>1, FanoutStreams
<1>2. ASSUME NEW size \in LineSizes, CrashInAppend(size) PROVE StreamsOK' /\ StreamsClean'
  <2>1. PICK lines : Restart(lines)
    BY <1>2 DEF CrashInAppend
  <2> QED
    BY <2>1, RestartStreams
<1>3. ASSUME Crash PROVE StreamsOK' /\ StreamsClean'
  BY <1>3, RestartStreams DEF Crash
<1>4. ASSUME NEW id \in SubId, NEW s \in Session, NEW since \in 0 .. next_seq - 1,
             Subscribe(id, s, since)
      PROVE  StreamsOK' /\ (LogClean /\ StreamsClean => StreamsClean')
  BY <1>4, SubscribeStreams
<1>5. ASSUME NEW s \in Session, WriteFrame(s) \/ RemoveSubscriber(s)
      PROVE  StreamsOK' /\ (StreamsClean => StreamsClean')
  BY <1>5, WriteFrameStreams, RemoveStreams
<1>6. ASSUME UNCHANGED auditVars PROVE StreamsOK' /\ (StreamsClean => StreamsClean')
  BY <1>6 DEF auditVars, StreamsOK, StreamsClean
<1> QED
  BY <1>1, <1>2, <1>3, <1>4, <1>5, <1>6 DEF AuditNext

-----------------------------------------------------------------------------
(* The theorems                                                            *)

(* The inductive invariant holds when the daemon has opened an empty log. *)
LEMMA AuditInvInit ==
  AuditInit => AuditInv
<1> SUFFICES ASSUME AuditInit PROVE AuditInv
  OBVIOUS
<1>1. /\ next_seq = 1 /\ high = 0 /\ faults = 0 /\ records = <<>> /\ disk = <<>>
      /\ subscribers = EmptyMap /\ session = [s \in Session |-> NewSession]
  BY DEF AuditInit
<1>2. Bytes(disk) = 0
  <2>1. Sized(disk) /\ Len(disk) = 0
    BY <1>1 DEF Sized
  <2> QED
    BY <2>1, BytesEmpty
<1>3. LogOK
  BY <1>1, <1>2, AuditAssumption DEF LogOK
<1>4. DOMAIN subscribers = {} /\ IsMap(subscribers, SubId, Session)
  BY <1>1 DEF EmptyMap, IsMap
<1>5. NewSession \in Stream /\ Len(NewSession.chan) <= ChanCap
  <2>1. NewSession \in Stream /\ NewSession.chan = <<>>
    BY DEF NewSession, Stream
  <2> QED
    BY <2>1, AuditAssumption
<1>6. StreamsOK /\ StreamsClean
  BY <1>1, <1>4, <1>5 DEF StreamsOK, StreamsClean
<1>7. LogClean
  BY <1>1 DEF LogClean, Run, CleanFile
<1> QED
  BY <1>3, <1>6, <1>7 DEF AuditInv

(* The inductive invariant of the audit log: bounds and types always; and, *)
(* as long as no write failed or was cut, window, file and streams run     *)
(* without a gap up to the newest record.                                  *)
THEOREM AuditInvariant ==
  AuditSpec => []AuditInv
<1>1. AuditInv /\ [AuditNext]_auditVars => AuditInv'
  <2> SUFFICES ASSUME AuditInv, [AuditNext]_auditVars PROVE AuditInv'
    OBVIOUS
  <2>1. LogOK /\ StreamsOK /\ (faults = 0 => LogClean /\ StreamsClean)
    BY DEF AuditInv
  <2>2. LogOK' /\ (faults' = 0 => faults = 0) /\ (faults' = 0 /\ LogClean => LogClean')
    BY <2>1, LogStep
  <2>3. StreamsOK' /\ (LogClean /\ StreamsClean => StreamsClean')
    BY <2>1, StreamsStep
  <2> QED
    BY <2>1, <2>2, <2>3 DEF AuditInv
<1> QED
  BY AuditInvInit, <1>1, PTL DEF AuditSpec

(* Whatever fails, is cut or crashes, the window holds at most max_records *)
(* records and the file at most max_bytes bytes, and no number in the      *)
(* window is handed out again; as long as no write failed or was cut, a    *)
(* restart continues above every number that was sent.                     *)
THEOREM LogStaysConsistent ==
  AuditSpec => []LogConsistent
<1>1. AuditInv => LogConsistent
  <2> SUFFICES ASSUME AuditInv PROVE LogConsistent
    OBVIOUS
  <2>1. LogOK /\ StreamsOK /\ (faults = 0 => LogClean)
    BY DEF AuditInv
  <2>2. \A i \in DOMAIN records : records[i].seq < next_seq
    BY <2>1 DEF LogOK
  <2>3. ASSUME NEW s \in Session
        PROVE  /\ session[s].stage \in {"New", "Live", "Leaving", "Ended"}
               /\ Len(session[s].chan) <= ChanCap
    BY <2>1, StreamType DEF StreamsOK
  <2>4. AuditTypeOK
    BY <2>1, <2>2, <2>3 DEF AuditTypeOK, LogOK, StreamsOK, IsMap
  <2>5. AuditBounded
    BY <2>1 DEF AuditBounded, LogOK
  <2>6. SequencesAdvance
    BY <2>1 DEF SequencesAdvance, LogClean, LogOK
  <2> QED
    BY <2>4, <2>5, <2>6 DEF LogConsistent
<1> QED
  BY AuditInvariant, <1>1, PTL

(* As long as no write failed or was cut, what a registered stream has     *)
(* still to write is the run of records from just after the last it wrote  *)
(* up to the newest, for any number of subscribers, over appends, trims,   *)
(* replacements, removals, full channels and restarts.                     *)
THEOREM StreamsMissNothing ==
  AuditSpec => []NothingMissed
<1>1. AuditInv => NothingMissed
  BY Zenon DEF AuditInv, StreamsClean, CaughtUp, NothingMissed
<1> QED
  BY AuditInvariant, <1>1, PTL

(* Every registered id has a stream whose thread has not ended. *)
THEOREM RegisteredAlwaysServed ==
  AuditSpec => []RegisteredIsServed
<1>1. AuditInv => RegisteredIsServed
  BY DEF AuditInv, StreamsOK, Serves, RegisteredIsServed
<1> QED
  BY AuditInvariant, <1>1, PTL
=============================================================================
