----------------------------- MODULE PipesProofs -----------------------------
(***************************************************************************)
(* Proofs about the pipes, for every number of processes, descriptors,     *)
(* pipes and tracked entries and every capacity: the counts of a pipe are  *)
(* those of its entries, every open descriptor is tracked, and each pipe   *)
(* is a first-in first-out queue of bytes.                                 *)
(***************************************************************************)
EXTENDS Pipes, SequenceLemmas

-----------------------------------------------------------------------------
(* Parts of sequences                                                      *)

\* The beginning and the rest of a sequence, element by element.
LEMMA Parts ==
    ASSUME NEW S, NEW q \in Seq(S), NEW n \in 0 .. Len(q)
    PROVE  /\ SubSeq(q, 1, n) \in Seq(S) /\ Len(SubSeq(q, 1, n)) = n
           /\ \A i \in 1 .. n : SubSeq(q, 1, n)[i] = q[i]
           /\ SubSeq(q, n + 1, Len(q)) \in Seq(S)
           /\ Len(SubSeq(q, n + 1, Len(q))) = Len(q) - n
           /\ \A i \in 1 .. Len(q) - n : SubSeq(q, n + 1, Len(q))[i] = q[n + i]
<1>1. PICK l \in Nat : l = Len(q) /\ n \in 0 .. l /\ n \in Nat /\ \A i \in 1 .. l : q[i] \in S
  OBVIOUS
<1>2. /\ SubSeq(q, 1, n) \in Seq(S) /\ Len(SubSeq(q, 1, n)) = n
      /\ \A i \in 1 .. n : SubSeq(q, 1, n)[i] = q[i]
  <2>1. \A i \in 1 .. n : q[i] \in S
    BY <1>1
  <2>2. /\ SubSeq(q, 1, n) \in Seq(S)
        /\ Len(SubSeq(q, 1, n)) = IF 1 <= n THEN n - 1 + 1 ELSE 0
        /\ \A i \in 1 .. n - 1 + 1 : SubSeq(q, 1, n)[i] = q[1 + i - 1]
    BY <1>1, <2>1, SubSeqProperties
  <2> QED
    BY <1>1, <2>2
<1>3. PICK m \in Nat : m = n + 1
  BY <1>1
<1>4. /\ SubSeq(q, m, l) \in Seq(S) /\ Len(SubSeq(q, m, l)) = l - n
      /\ \A i \in 1 .. l - n : SubSeq(q, m, l)[i] = q[n + i]
  <2>1. \A i \in m .. l : q[i] \in S
    BY <1>1, <1>3
  <2>2. /\ SubSeq(q, m, l) \in Seq(S)
        /\ Len(SubSeq(q, m, l)) = IF m <= l THEN l - m + 1 ELSE 0
        /\ \A i \in 1 .. l - m + 1 : SubSeq(q, m, l)[i] = q[m + i - 1]
    BY <1>1, <1>3, <2>1, SubSeqProperties
  <2>3. \A i \in 1 .. l - n : i \in 1 .. l - m + 1 /\ m + i - 1 = n + i
    BY <1>1, <1>3
  <2> QED
    BY <1>1, <1>3, <2>2, <2>3
<1> QED
  BY <1>1, <1>2, <1>3, <1>4

-----------------------------------------------------------------------------
(* The ring                                                                *)

\* The write offset is where the unread bytes end.
RingOk(r) ==
    /\ r \in Rings
    /\ r.WriteOffset = (r.ReadOffset + r.BufferedBytes) % Capacity

\* What dividing leaves over.
LEMMA Remainder ==
    ASSUME NEW a \in Nat, NEW z \in Nat \ {0}
    PROVE  \E q \in Int : a = q * z + (a % z) /\ a % z \in 0 .. z - 1
<1>1. a = (a \div z) * z + (a % z) /\ a % z \in 0 .. z - 1 /\ a \div z \in Int
  OBVIOUS
<1> QED
  BY <1>1

\* An offset that passed the end once wraps around to the beginning.
LEMMA Wrap ==
    ASSUME NEW a \in Nat, a < 2 * Capacity
    PROVE  a % Capacity = IF a < Capacity THEN a ELSE a - Capacity
<1>1. Capacity \in Nat \ {0}
  BY CapacityAssumption
<1>2. PICK q \in Int : a = q * Capacity + (a % Capacity) /\ a % Capacity \in 0 .. Capacity - 1
  BY <1>1, Remainder
<1>3. CASE q = 0
  BY <1>1, <1>2, <1>3
<1>4. CASE q = 1
  BY <1>1, <1>2, <1>4
<1>5. CASE q < 0
  <2>1. q * Capacity <= -Capacity
    BY <1>1, <1>5
  <2> QED
    BY <1>1, <1>2, <2>1
<1>6. CASE q > 1
  <2>1. q * Capacity >= 2 * Capacity
    BY <1>1, <1>6
  <2> QED
    BY <1>1, <1>2, <2>1
<1> QED
  BY <1>3, <1>4, <1>5, <1>6

\* A cell as far ahead of the read offset as j is j - n ahead of the write
\* offset after n unread bytes, and all the way round when it is unread itself.
LEMMA AheadOf ==
    ASSUME NEW R \in Cells, NEW n \in 0 .. Capacity, NEW j \in 0 .. Capacity - 1
    PROVE  /\ (R + j) % Capacity \in Cells /\ (R + n) % Capacity \in Cells
           /\ (((R + j) % Capacity) - ((R + n) % Capacity) + Capacity) % Capacity =
                IF j >= n THEN j - n ELSE j - n + Capacity
<1>1. Capacity \in Nat \ {0} /\ R \in Nat /\ R < Capacity
  BY CapacityAssumption DEF Cells
<1>2. PICK c : c = (R + j) % Capacity /\ c = IF R + j < Capacity THEN R + j ELSE R + j - Capacity
  BY <1>1, Wrap
<1>3. PICK w : w = (R + n) % Capacity /\ w = IF R + n < Capacity THEN R + n ELSE R + n - Capacity
  BY <1>1, Wrap
<1>4. c \in 0 .. Capacity - 1 /\ w \in 0 .. Capacity - 1
  BY <1>1, <1>2, <1>3
<1>5. c - w + Capacity \in Nat /\ c - w + Capacity < 2 * Capacity
  BY <1>1, <1>4
<1>6. (c - w + Capacity) % Capacity =
        IF c - w + Capacity < Capacity THEN c - w + Capacity ELSE c - w
  <2>1. PICK a \in Nat : a = c - w + Capacity
    BY <1>5
  <2>2. a % Capacity = IF a < Capacity THEN a ELSE a - Capacity
    BY <1>5, <2>1, Wrap
  <2> QED
    BY <1>1, <1>4, <2>1, <2>2
<1>7. (c - w + Capacity) % Capacity = IF j >= n THEN j - n ELSE j - n + Capacity
  BY <1>1, <1>2, <1>3, <1>4, <1>6
<1> QED
  BY <1>2, <1>3, <1>4, <1>7 DEF Cells

\* Offsets after two moves are those after one.
LEMMA WrapTwice ==
    ASSUME NEW R \in Cells, NEW n \in 0 .. Capacity, NEW k \in 0 .. Capacity, NEW c,
           c = (R + n) % Capacity
    PROVE  /\ c \in Cells
           /\ (c + k) % Capacity =
                IF R + n + k < Capacity THEN R + n + k
                ELSE IF R + n + k < 2 * Capacity THEN R + n + k - Capacity
                ELSE R + n + k - 2 * Capacity
<1>1. Capacity \in Nat \ {0} /\ R \in Nat /\ R < Capacity
  BY CapacityAssumption DEF Cells
<1>2. c = IF R + n < Capacity THEN R + n ELSE R + n - Capacity
  BY <1>1, Wrap
<1>3. c + k \in Nat /\ c + k < 2 * Capacity /\ c \in Cells
  BY <1>1, <1>2 DEF Cells
<1>4. PICK a \in Nat : a = c + k
  BY <1>3
<1>5. a % Capacity = IF a < Capacity THEN a ELSE a - Capacity
  BY <1>3, <1>4, Wrap
<1>6. a % Capacity = IF R + n + k < Capacity THEN R + n + k
                     ELSE IF R + n + k < 2 * Capacity THEN R + n + k - Capacity
                     ELSE R + n + k - 2 * Capacity
  BY <1>1, <1>2, <1>4, <1>5
<1> QED
  BY <1>3, <1>4, <1>6

\* The unread bytes are a sequence.
LEMMA ContentsType ==
    ASSUME NEW r, RingOk(r)
    PROVE  /\ r.BufferedBytes \in 0 .. Capacity /\ r.ReadOffset \in Cells
           /\ Contents(r) \in Seq(Bytes) /\ Len(Contents(r)) = r.BufferedBytes
           /\ \A i \in 1 .. r.BufferedBytes :
                Contents(r)[i] = r.Buffer[(r.ReadOffset + i - 1) % Capacity]
<1>1. Capacity \in Nat \ {0}
  BY CapacityAssumption
<1>2. /\ r.Buffer \in [Cells -> Bytes] /\ r.ReadOffset \in Cells
      /\ r.BufferedBytes \in 0 .. Capacity
  BY DEF RingOk, Rings
<1>3. ASSUME NEW i \in 1 .. r.BufferedBytes
      PROVE  (r.ReadOffset + i - 1) % Capacity \in Cells
  <2>1. PICK R \in Cells, n \in 0 .. Capacity : R = r.ReadOffset /\ n = r.BufferedBytes
    BY <1>2
  <2>2. i \in Nat \ {0} /\ i <= n /\ n \in Nat /\ R \in Nat
    BY <1>1, <2>1 DEF Cells
  <2>3. PICK j : j = i - 1
    OBVIOUS
  <2>4. j \in 0 .. Capacity - 1 /\ R + i - 1 = R + j
    BY <1>1, <2>1, <2>2, <2>3
  <2>5. (R + j) % Capacity \in Cells
    BY <2>4, AheadOf
  <2> QED
    BY <2>1, <2>4, <2>5
<1>4. /\ Contents(r) \in [1 .. r.BufferedBytes -> Bytes]
      /\ \A i \in 1 .. r.BufferedBytes :
                Contents(r)[i] = r.Buffer[(r.ReadOffset + i - 1) % Capacity]
  BY <1>2, <1>3 DEF Contents
<1>5. r.BufferedBytes \in Nat
  BY <1>1, <1>2
<1> QED
  BY <1>2, <1>4, <1>5

\* The loop of PipeWrite appends the bytes to those that are unread.
LEMMA PutBytesAppends ==
    ASSUME NEW r, RingOk(r), NEW data \in Seq(Bytes), Len(data) <= AvailableSpace(r)
    PROVE  RingOk(PutBytes(r, data)) /\ Contents(PutBytes(r, data)) = Contents(r) \o data
<1>1. Capacity \in Nat \ {0}
  BY CapacityAssumption
<1>2. PICK R \in Cells, n \in 0 .. Capacity, w \in Cells, l \in Nat, b \in [Cells -> Bytes] :
        /\ R = r.ReadOffset /\ n = r.BufferedBytes /\ b = r.Buffer
        /\ w = r.WriteOffset /\ w = (R + n) % Capacity
        /\ l = Len(data) /\ l <= Capacity - n
  BY DEF RingOk, Rings, AvailableSpace
<1>3. PICK q \in Seq(Bytes) :
        /\ q = Contents(r) /\ Len(q) = n
        /\ \A i \in 1 .. n : q[i] = b[(R + i - 1) % Capacity]
  BY <1>2, ContentsType
<1>4. PICK p : p = PutBytes(r, data)
  OBVIOUS
<1>5. /\ p.ReadOffset = R /\ p.BufferedBytes = n + l
      /\ p.WriteOffset = (w + l) % Capacity
      /\ p = [Buffer |-> p.Buffer, ReadOffset |-> R, WriteOffset |-> p.WriteOffset,
              BufferedBytes |-> n + l]
      /\ \A c \in Cells : p.Buffer[c] = IF Ahead(r, c) < l THEN data[Ahead(r, c) + 1]
                                        ELSE b[c]
      /\ p.Buffer = [c \in Cells |-> p.Buffer[c]]
  BY <1>2, <1>4 DEF PutBytes
<1>6. ASSUME NEW c \in Cells
      PROVE  Ahead(r, c) \in Nat /\ p.Buffer[c] \in Bytes
  <2>1. PICK a \in Nat : a = c - w + Capacity
    BY <1>1 DEF Cells
  <2>2. Ahead(r, c) \in Nat
    <3>1. a % Capacity \in Nat
      BY <1>1, <2>1
    <3> QED
      BY <1>2, <2>1, <3>1 DEF Ahead
  <2>3. Ahead(r, c) < l => data[Ahead(r, c) + 1] \in Bytes
    BY <1>2, <2>2
  <2> QED
    BY <1>5, <2>2, <2>3
<1>7. p.WriteOffset = (R + (n + l)) % Capacity /\ p.WriteOffset \in Cells
  <2>1. n + l \in 0 .. Capacity /\ l \in 0 .. Capacity
    BY <1>1, <1>2
  <2>2. (w + l) % Capacity =
                IF R + n + l < Capacity THEN R + n + l
                ELSE IF R + n + l < 2 * Capacity THEN R + n + l - Capacity
                ELSE R + n + l - 2 * Capacity
    BY <1>2, <2>1, WrapTwice
  <2>3. PICK a \in Nat : a = R + (n + l) /\ a < 2 * Capacity
    BY SMTT(30), <1>1, <1>2, <2>1 DEF Cells
  <2>4. a % Capacity = IF a < Capacity THEN a ELSE a - Capacity
    BY <2>3, Wrap
  <2>5. PICK x, y : x = (w + l) % Capacity /\ y = a % Capacity
    OBVIOUS
  <2>6. x = IF R + n + l < Capacity THEN R + n + l
                ELSE IF R + n + l < 2 * Capacity THEN R + n + l - Capacity
                ELSE R + n + l - 2 * Capacity
    BY <2>2, <2>5
  <2>7. y = IF a < Capacity THEN a ELSE a - Capacity
    BY <2>4, <2>5
  <2>8. x = y /\ y \in Cells
    BY <1>1, <2>1, <2>3, <2>6, <2>7 DEF Cells
  <2> QED
    BY <1>5, <2>3, <2>5, <2>8
<1>8. RingOk(p)
  <2>1. p.Buffer \in [Cells -> Bytes]
    BY <1>5, <1>6
  <2>2. n + l \in 0 .. Capacity
    BY <1>1, <1>2
  <2> QED
    BY <1>5, <1>7, <2>1, <2>2 DEF RingOk, Rings
<1>9. PICK t \in Seq(Bytes) :
        /\ t = Contents(p) /\ Len(t) = n + l
        /\ \A i \in 1 .. n + l : t[i] = p.Buffer[(R + i - 1) % Capacity]
  <2>1. p.BufferedBytes = n + l /\ p.ReadOffset = R
    BY <1>5
  <2> QED
    BY <1>8, <2>1, ContentsType
<1>10. ASSUME NEW i \in 1 .. n + l
       PROVE  t[i] = IF i <= n THEN q[i] ELSE data[i - n]
  <2>1. PICK j \in 0 .. Capacity - 1 : j = i - 1 /\ R + i - 1 = R + j
    <3>1. PICK j : j = i - 1
      OBVIOUS
    <3>2. R \in Nat /\ i \in Nat \ {0} /\ i <= n + l /\ n + l <= Capacity
      BY SMTT(30), <1>1, <1>2 DEF Cells
    <3>3. j \in 0 .. Capacity - 1 /\ R + i - 1 = R + j
      BY <1>1, <3>1, <3>2
    <3> QED
      BY <3>1, <3>3
  <2>2. PICK c \in Cells : c = (R + i - 1) % Capacity /\ c = (R + j) % Capacity
    BY <2>1, AheadOf
  <2>3. Ahead(r, c) = IF j >= n THEN j - n ELSE j - n + Capacity
    <3>1. (((R + j) % Capacity) - ((R + n) % Capacity) + Capacity) % Capacity =
             IF j >= n THEN j - n ELSE j - n + Capacity
      BY AheadOf
    <3>2. (c - w + Capacity) % Capacity = IF j >= n THEN j - n ELSE j - n + Capacity
      BY <1>2, <2>2, <3>1
    <3> QED
      BY <1>2, <3>2 DEF Ahead
  <2>4. t[i] = p.Buffer[c]
    BY <1>9, <2>2
  <2>5. CASE i <= n
    <3>1. p.Buffer[c] = b[c]
      BY <1>1, <1>2, <1>5, <2>1, <2>3, <2>5
    <3>2. q[i] = b[c]
      BY <1>3, <2>2, <2>5
    <3> QED
      BY <2>4, <2>5, <3>1, <3>2
  <2>6. CASE i > n
    <3>1. Ahead(r, c) = i - 1 - n /\ Ahead(r, c) < l /\ Ahead(r, c) + 1 = i - n
      BY SMTT(30), <1>1, <1>2, <2>1, <2>3, <2>6
    <3> QED
      BY <1>5, <2>4, <2>6, <3>1
  <2> QED
    BY <2>5, <2>6
<1>11. t = q \o data
  <2>1. /\ q \o data \in Seq(Bytes) /\ Len(q \o data) = n + l
        /\ \A i \in 1 .. n + l : (q \o data)[i] = IF i <= n THEN q[i] ELSE data[i - n]
    <3>1. /\ q \o data \in Seq(Bytes) /\ Len(q \o data) = Len(q) + Len(data)
          /\ \A i \in 1 .. Len(q) + Len(data) : (q \o data)[i] = IF i <= Len(q) THEN q[i]
                                                                ELSE data[i - Len(q)]
      BY ConcatProperties, Zenon
    <3> QED
      BY <1>2, <1>3, <3>1, Zenon
  <2>2. PICK c \in Seq(Bytes) : c = q \o data /\ Len(c) = n + l
    BY <2>1
  <2>3. \A i \in 1 .. n + l : t[i] = c[i]
    BY <1>10, <2>1, <2>2
  <2> QED
    BY <1>9, <2>2, <2>3, SeqEqual
<1> QED
  BY <1>3, <1>8, <1>9, <1>11, <1>4

\* The loop of PipeRead hands out the oldest bytes and leaves the others.
LEMMA TakeBytesTakesOldest ==
    ASSUME NEW r, RingOk(r), NEW n \in 0 .. r.BufferedBytes
    PROVE  /\ RingOk(TakeBytes(r, n))
           /\ FirstBytes(r, n) = SubSeq(Contents(r), 1, n)
           /\ Contents(TakeBytes(r, n)) = SubSeq(Contents(r), n + 1, Len(Contents(r)))
<1>1. Capacity \in Nat \ {0}
  BY CapacityAssumption
<1>2. PICK R \in Cells, m \in 0 .. Capacity, w \in Cells, b \in [Cells -> Bytes] :
        /\ R = r.ReadOffset /\ m = r.BufferedBytes /\ b = r.Buffer
        /\ w = r.WriteOffset /\ w = (R + m) % Capacity
        /\ n \in 0 .. m /\ n \in 0 .. Capacity
  BY <1>1 DEF RingOk, Rings
<1>3. PICK q \in Seq(Bytes) :
        /\ q = Contents(r) /\ Len(q) = m
        /\ \A i \in 1 .. m : q[i] = b[(R + i - 1) % Capacity]
  BY <1>2, ContentsType
<1>4. PICK t, o : t = TakeBytes(r, n) /\ o = (R + n) % Capacity
  OBVIOUS
<1>5. t = [Buffer |-> b, ReadOffset |-> o, WriteOffset |-> w, BufferedBytes |-> m - n]
  <2>1. /\ r = [Buffer |-> r.Buffer, ReadOffset |-> r.ReadOffset, WriteOffset |-> r.WriteOffset,
                BufferedBytes |-> r.BufferedBytes]
    BY DEF RingOk, Rings
  <2> QED
    BY <1>2, <1>4, <2>1 DEF TakeBytes
<1>6. ASSUME NEW k \in 0 .. Capacity, n + k <= Capacity
      PROVE  o \in Cells /\ (o + k) % Capacity = (R + (n + k)) % Capacity
  <2>1. /\ o \in Cells
        /\ (o + k) % Capacity =
                IF R + n + k < Capacity THEN R + n + k
                ELSE IF R + n + k < 2 * Capacity THEN R + n + k - Capacity
                ELSE R + n + k - 2 * Capacity
    BY <1>2, <1>4, WrapTwice
  <2>2. PICK a \in Nat : a = R + (n + k) /\ a < 2 * Capacity
    BY SMTT(30), <1>1, <1>2, <1>6 DEF Cells
  <2>3. a % Capacity = IF a < Capacity THEN a ELSE a - Capacity
    BY <2>2, Wrap
  <2>4. PICK x, y : x = (o + k) % Capacity /\ y = a % Capacity
    OBVIOUS
  <2>5. x = IF R + n + k < Capacity THEN R + n + k
                ELSE IF R + n + k < 2 * Capacity THEN R + n + k - Capacity
                ELSE R + n + k - 2 * Capacity
    BY <2>1, <2>4
  <2>6. y = IF a < Capacity THEN a ELSE a - Capacity
    BY <2>3, <2>4
  <2>7. x = y
    BY <1>1, <2>2, <2>5, <2>6 DEF Cells
  <2> QED
    BY <2>1, <2>2, <2>4, <2>7
<1>7. RingOk(t)
  <2>1. PICK k \in 0 .. Capacity : k = m - n /\ n + k = m /\ n + k <= Capacity
    BY <1>1, <1>2
  <2>2. o \in Cells /\ (o + k) % Capacity = (R + m) % Capacity
    BY <1>6, <2>1
  <2> QED
    BY <1>2, <1>5, <2>1, <2>2 DEF RingOk, Rings
<1>8. FirstBytes(r, n) = SubSeq(Contents(r), 1, n)
  <2>1. SubSeq(q, 1, n) = [i \in 1 .. n |-> q[i]]
    BY <1>1, <1>2, <1>3
  <2>2. \A i \in 1 .. n : q[i] = b[(R + i - 1) % Capacity]
    BY <1>1, <1>2, <1>3
  <2> QED
    BY <1>2, <1>3, <2>1, <2>2 DEF FirstBytes
<1>9. PICK u \in Seq(Bytes) :
        /\ u = Contents(t) /\ Len(u) = m - n
        /\ \A i \in 1 .. m - n : u[i] = b[(o + i - 1) % Capacity]
  <2>1. t.BufferedBytes = m - n /\ t.ReadOffset = o /\ t.Buffer = b
    BY <1>5
  <2> QED
    BY <1>7, <2>1, ContentsType
<1>10. ASSUME NEW i \in 1 .. m - n
       PROVE  u[i] = q[n + i]
  <2>1. PICK k \in 0 .. Capacity : k = i - 1 /\ n + k <= Capacity
    BY <1>1, <1>2
  <2>2. (o + k) % Capacity = (R + (n + k)) % Capacity /\ o \in Cells
    BY <1>6, <2>1
  <2>3. o + i - 1 = o + k /\ R + (n + i) - 1 = R + (n + k)
    BY <1>1, <1>2, <2>1, <2>2 DEF Cells
  <2>4. u[i] = b[(o + k) % Capacity]
    BY <1>9, <2>3
  <2>5. q[n + i] = b[(R + (n + k)) % Capacity]
    <3>1. n + i \in 1 .. m
      BY <1>1, <1>2
    <3>2. PICK e \in 1 .. m : e = n + i
      BY <3>1
    <3>3. q[e] = b[(R + e - 1) % Capacity] /\ R + e - 1 = R + (n + k)
      BY <1>3, <2>3, <3>2
    <3> QED
      BY <3>2, <3>3
  <2> QED
    BY <2>2, <2>4, <2>5
<1>11. u = SubSeq(q, n + 1, Len(q))
  <2>1. PICK s : s = SubSeq(q, n + 1, Len(q))
    OBVIOUS
  <2>2. s \in Seq(Bytes) /\ Len(s) = m - n /\ \A i \in 1 .. m - n : s[i] = q[n + i]
    BY <1>2, <1>3, <2>1, Parts
  <2> QED
    BY <1>9, <1>10, <2>1, <2>2, SeqEqual
<1> QED
  BY <1>3, <1>7, <1>8, <1>9, <1>11, <1>4

-----------------------------------------------------------------------------
(* The tracked entries                                                     *)

\* A set with one element more.
LEMMA OneMore ==
    ASSUME NEW S, IsFiniteSet(S), NEW T, NEW x, x \notin S, T = S \cup {x}
    PROVE  IsFiniteSet(T) /\ Cardinality(T) = Cardinality(S) + 1
<1>1. /\ IsFiniteSet(S \cup {x})
      /\ Cardinality(S \cup {x}) = IF x \in S THEN Cardinality(S) ELSE Cardinality(S) + 1
  BY FS_AddElement, Zenon
<1> QED
  BY <1>1, Zenon

\* A set with one element less.
LEMMA OneLess ==
    ASSUME NEW S, IsFiniteSet(S), NEW T, NEW x \in S, T = S \ {x}
    PROVE  IsFiniteSet(T) /\ Cardinality(T) = Cardinality(S) - 1
<1>1. /\ IsFiniteSet(S \ {x})
      /\ Cardinality(S \ {x}) = IF x \in S THEN Cardinality(S) - 1 ELSE Cardinality(S)
  BY FS_RemoveElement, Zenon
<1> QED
  BY <1>1, Zenon
\* One copy more of an entry.
LEMMA BagAddFacts ==
    ASSUME NEW L, IsABag(L), NEW x
    PROVE  /\ IsABag(BagAdd(L, x)) /\ DOMAIN BagAdd(L, x) = DOMAIN L \cup {x}
           /\ BagAdd(L, x)[x] = IF x \in DOMAIN L THEN L[x] + 1 ELSE 1
           /\ \A e \in DOMAIN L : L[e] \in Nat \ {0} /\ (e # x => BagAdd(L, x)[e] = L[e])
<1>1. L \in [DOMAIN L -> {n \in Nat : n > 0}]
  BY DEF IsABag
<1>2. CASE x \in DOMAIN L
  <2>1. BagAdd(L, x) = [e \in DOMAIN L |-> IF e = x THEN L[e] + 1 ELSE L[e]]
    BY <1>2 DEF BagAdd
  <2> QED
    BY <1>1, <1>2, <2>1 DEF IsABag
<1>3. CASE x \notin DOMAIN L
  <2>1. BagAdd(L, x) = [e \in DOMAIN L \cup {x} |-> IF e = x THEN 1 ELSE L[e]]
    BY <1>3 DEF BagAdd
  <2> QED
    BY <1>1, <1>3, <2>1 DEF IsABag
<1> QED
  BY <1>2, <1>3

\* One copy less of an entry.
LEMMA BagRemoveFacts ==
    ASSUME NEW L, IsABag(L), NEW x \in DOMAIN L
    PROVE  /\ IsABag(BagRemove(L, x)) /\ L[x] \in Nat \ {0}
           /\ DOMAIN BagRemove(L, x) = IF L[x] = 1 THEN DOMAIN L \ {x} ELSE DOMAIN L
           /\ L[x] # 1 => BagRemove(L, x)[x] = L[x] - 1
           /\ \A e \in DOMAIN L : e # x => BagRemove(L, x)[e] = L[e]
<1>1. L \in [DOMAIN L -> {n \in Nat : n > 0}]
  BY DEF IsABag
<1>2. CASE L[x] = 1
  <2>1. BagRemove(L, x) = [e \in DOMAIN L \ {x} |-> L[e]]
    BY <1>2 DEF BagRemove
  <2> QED
    BY <1>1, <1>2, <2>1 DEF IsABag
<1>3. CASE L[x] # 1
  <2>1. BagRemove(L, x) = [e \in DOMAIN L |-> IF e = x THEN L[e] - 1 ELSE L[e]]
    BY <1>3 DEF BagRemove
  <2> QED
    BY <1>1, <1>3, <2>1 DEF IsABag
<1> QED
  BY <1>2, <1>3

\* The numbered copies of the entries for a node.
LEMMA EntriesElements ==
    ASSUME NEW L, NEW node
    PROVE  /\ \A e, k : <<e, k>> \in Entries(L, node) <=>
                          e \in DOMAIN L /\ e.Node = node /\ k \in 1 .. L[e]
           /\ \A z \in Entries(L, node) : \E e, k : z = <<e, k>>
BY DEF Entries, BagToSet

\* A new copy of an entry is one more for its node, and none for another.
LEMMA EntriesAdded ==
    ASSUME NEW L, IsABag(L), NEW x, NEW node, IsFiniteSet(Entries(L, node))
    PROVE  /\ IsFiniteSet(Entries(BagAdd(L, x), node))
           /\ Cardinality(Entries(BagAdd(L, x), node)) =
                IF x.Node = node THEN Cardinality(Entries(L, node)) + 1
                ELSE Cardinality(Entries(L, node))
<1>1. PICK M : M = BagAdd(L, x)
  OBVIOUS
<1>2. /\ DOMAIN M = DOMAIN L \cup {x}
      /\ M[x] = IF x \in DOMAIN L THEN L[x] + 1 ELSE 1
      /\ \A e \in DOMAIN L : L[e] \in Nat \ {0} /\ (e # x => M[e] = L[e])
  BY <1>1, BagAddFacts
<1>3. CASE x.Node = node
  <2>1. PICK n \in Nat \ {0} : n = M[x] /\ (x \in DOMAIN L => L[x] = n - 1)
    BY <1>2
  <2>2. <<x, n>> \notin Entries(L, node)
    BY <2>1, EntriesElements
  <2>3. Entries(M, node) = Entries(L, node) \cup {<<x, n>>}
    <3>1. ASSUME NEW e, NEW k
          PROVE  <<e, k>> \in Entries(M, node) <=>
                   <<e, k>> \in Entries(L, node) \/ (e = x /\ k = n)
      BY <1>2, <1>3, <2>1, EntriesElements
    <3>2. \A z \in Entries(M, node) : \E e, k : z = <<e, k>>
      BY EntriesElements
    <3>3. \A z \in Entries(L, node) : \E e, k : z = <<e, k>>
      BY EntriesElements
    <3> QED
      BY <3>1, <3>2, <3>3
  <2> QED
    <3>1. /\ IsFiniteSet(Entries(M, node))
          /\ Cardinality(Entries(M, node)) = Cardinality(Entries(L, node)) + 1
      BY <2>2, <2>3, OneMore, Zenon
    <3> QED
      BY <1>1, <1>3, <3>1
<1>4. CASE x.Node # node
  <2>1. Entries(M, node) = Entries(L, node)
    <3>1. ASSUME NEW e, NEW k
          PROVE  <<e, k>> \in Entries(M, node) <=> <<e, k>> \in Entries(L, node)
      BY <1>2, <1>4, EntriesElements
    <3>2. \A z \in Entries(M, node) : \E e, k : z = <<e, k>>
      BY EntriesElements
    <3>3. \A z \in Entries(L, node) : \E e, k : z = <<e, k>>
      BY EntriesElements
    <3> QED
      BY <3>1, <3>2, <3>3
  <2> QED
    BY <1>1, <1>4, <2>1
<1> QED
  BY <1>3, <1>4

\* A copy taken out is one less for its node, and none for another.
LEMMA EntriesRemoved ==
    ASSUME NEW L, IsABag(L), NEW x \in DOMAIN L, NEW node, IsFiniteSet(Entries(L, node))
    PROVE  /\ IsFiniteSet(Entries(BagRemove(L, x), node))
           /\ Cardinality(Entries(BagRemove(L, x), node)) =
                IF x.Node = node THEN Cardinality(Entries(L, node)) - 1
                ELSE Cardinality(Entries(L, node))
<1>1. PICK M : M = BagRemove(L, x)
  OBVIOUS
<1>2. /\ DOMAIN M = IF L[x] = 1 THEN DOMAIN L \ {x} ELSE DOMAIN L
      /\ L[x] # 1 => M[x] = L[x] - 1
      /\ \A e \in DOMAIN L : e # x => M[e] = L[e]
  BY <1>1, BagRemoveFacts
<1>3. PICK n \in Nat \ {0} : n = L[x]
  BY BagRemoveFacts
<1>4. CASE x.Node = node
  <2>1. <<x, n>> \in Entries(L, node)
    BY <1>3, <1>4, EntriesElements
  <2>2. Entries(M, node) = Entries(L, node) \ {<<x, n>>}
    <3>1. ASSUME NEW e, NEW k
          PROVE  <<e, k>> \in Entries(M, node) <=>
                   <<e, k>> \in Entries(L, node) /\ ~(e = x /\ k = n)
      BY <1>2, <1>3, <1>4, EntriesElements
    <3>2. \A z \in Entries(M, node) : \E e, k : z = <<e, k>>
      BY EntriesElements
    <3>3. \A z \in Entries(L, node) : \E e, k : z = <<e, k>>
      BY EntriesElements
    <3> QED
      BY <3>1, <3>2, <3>3
  <2> QED
    <3>1. /\ IsFiniteSet(Entries(M, node))
          /\ Cardinality(Entries(M, node)) = Cardinality(Entries(L, node)) - 1
      BY <2>1, <2>2, OneLess, Zenon
    <3> QED
      BY <1>1, <1>4, <3>1
<1>5. CASE x.Node # node
  <2>1. Entries(M, node) = Entries(L, node)
    <3>1. ASSUME NEW e, NEW k
          PROVE  <<e, k>> \in Entries(M, node) <=> <<e, k>> \in Entries(L, node)
      BY <1>2, <1>3, <1>5, EntriesElements
    <3>2. \A z \in Entries(M, node) : \E e, k : z = <<e, k>>
      BY EntriesElements
    <3>3. \A z \in Entries(L, node) : \E e, k : z = <<e, k>>
      BY EntriesElements
    <3> QED
      BY <3>1, <3>2, <3>3
  <2> QED
    BY <1>1, <1>5, <2>1
<1> QED
  BY <1>4, <1>5

\* A node without entries is one nobody tracks.
LEMMA NoEntries ==
    ASSUME NEW L, IsABag(L), NEW node, IsFiniteSet(Entries(L, node))
    PROVE  /\ Cardinality(Entries(L, node)) \in Nat
           /\ Cardinality(Entries(L, node)) = 0 <=> \A e \in DOMAIN L : e.Node # node
<1>1. \A e \in DOMAIN L : L[e] \in Nat \ {0}
  BY DEF IsABag
<1>2. Entries(L, node) = {} <=> \A e \in DOMAIN L : e.Node # node
  <2>1. (\A e \in DOMAIN L : e.Node # node) => Entries(L, node) = {}
    BY EntriesElements
  <2>2. ASSUME NEW e \in DOMAIN L, e.Node = node
        PROVE  Entries(L, node) # {}
    <3>1. <<e, 1>> \in Entries(L, node)
      BY <1>1, <2>2, EntriesElements
    <3> QED
      BY <3>1
  <2> QED
    BY <2>1, <2>2
<1>3. /\ Cardinality(Entries(L, node)) \in Nat
      /\ Cardinality(Entries(L, node)) = 0 <=> Entries(L, node) = {}
  BY FS_EmptySet, FS_CardinalityType, Zenon
<1> QED
  BY <1>2, <1>3

-----------------------------------------------------------------------------
(* References                                                              *)

EntrySet == [Owner : Processes, FileDescriptor : FileDescriptors, Node : Nodes]

PipeSet == [ring : Rings, References : [Ends -> Nat]]

\* The object of pipe x counts the entries in the list, and is there for them.
PipeCounted(pipe, x, list) ==
    /\ RingOk(pipe.ring)
    /\ pipe # NoPipe => \E e \in Ends : pipe.References[e] # 0
    /\ \A e \in Ends :
         /\ IsFiniteSet(Entries(list, Node(x, e)))
         /\ pipe.References[e] = Cardinality(Entries(list, Node(x, e)))

Counted(pipes, list) ==
    /\ pipes \in [PipeIds -> PipeSet]
    /\ IsABag(list) /\ DOMAIN list \subseteq EntrySet
    /\ \A x \in PipeIds : PipeCounted(pipes[x], x, list)

\* Every descriptor of p in the table that refers to a pipe has an entry.
TableTracked(table, p, list) ==
    /\ table \in [FileDescriptors -> Nodes \cup {NoFile}]
    /\ \A fd \in FileDescriptors : table[fd] # NoFile => Entry(p, fd, table[fd]) \in DOMAIN list

\* A node names a pipe and an end, and no other node names the same.
LEMMA NodeFacts ==
    /\ NoFile \notin Nodes
    /\ \A x \in PipeIds, e \in Ends :
         /\ Node(x, e) \in Nodes /\ Node(x, e).pipe = x /\ Node(x, e).end = e
         /\ \A y, d : Node(x, e) = Node(y, d) => x = y /\ e = d
    /\ \A n \in Nodes : n.pipe \in PipeIds /\ n.end \in Ends /\ n = Node(n.pipe, n.end)
BY DEF Nodes, Node, NoFile, Ends

\* An entry names an owner, a descriptor and a node.
LEMMA EntryFacts ==
    ASSUME NEW p \in Processes, NEW fd \in FileDescriptors, NEW node \in Nodes
    PROVE  /\ Entry(p, fd, node) \in EntrySet /\ Entry(p, fd, node).Node = node
           /\ \A q, d, n : Entry(p, fd, node) = Entry(q, d, n) => p = q /\ fd = d /\ node = n
BY DEF EntrySet, Entry

\* An address without a pipe has an empty ring and no references.
LEMMA NoPipeFacts ==
    /\ NoPipe \in PipeSet /\ RingOk(NoPipe.ring) /\ Contents(NoPipe.ring) = <<>>
    /\ \A e \in Ends : NoPipe.References[e] = 0
    /\ NoPipe = [ring |-> NoPipe.ring, References |-> [e \in Ends |-> 0]]
<1>1. PICK b \in Bytes : b = CHOOSE c \in Bytes : TRUE
  BY PipesAssumption
<1>2. PICK r : r = EmptyRing(b)
  OBVIOUS
<1>3. NoPipe = [ring |-> r, References |-> [e \in Ends |-> 0]]
  BY <1>1, <1>2 DEF NoPipe
<1>4. Capacity \in Nat \ {0}
  BY CapacityAssumption
<1>5. 0 \in Cells /\ 0 % Capacity = 0
  BY <1>4, Wrap DEF Cells
<1>6. r = [Buffer |-> r.Buffer, ReadOffset |-> 0, WriteOffset |-> 0, BufferedBytes |-> 0]
      /\ r.Buffer \in [Cells -> Bytes]
  BY <1>1, <1>2 DEF EmptyRing
<1>7. RingOk(r) /\ r \in Rings
  BY <1>4, <1>5, <1>6 DEF RingOk, Rings
<1>8. Contents(r) \in Seq(Bytes) /\ Len(Contents(r)) = 0
  BY <1>6, <1>7, ContentsType
<1> QED
  BY <1>3, <1>7, <1>8, EmptySeq DEF PipeSet

\* P are the pipes after a reference to end e of x came or went.
Adds(pipes, P, x, e) == P = [pipes EXCEPT ![x] = AddReference(@, e)]
Drops(pipes, P, x, e) == P = [pipes EXCEPT ![x] = DropReference(@, e)]

\* DuplicatePipeDescriptor and CreatePipe count an entry they add.
LEMMA ReferenceAdded ==
    ASSUME NEW pipes, NEW list, Counted(pipes, list),
           NEW x \in PipeIds, NEW e \in Ends, NEW entry \in EntrySet, entry.Node = Node(x, e),
           NEW P, Adds(pipes, P, x, e)
    PROVE  /\ Counted(P, BagAdd(list, entry))
           /\ P[x] # NoPipe
           /\ \A y \in PipeIds : P[y].ring = pipes[y].ring /\ (y # x => P[y] = pipes[y])
<1>1. pipes \in [PipeIds -> PipeSet] /\ IsABag(list) /\ DOMAIN list \subseteq EntrySet
  BY DEF Counted
<1>2. pipes[x] \in PipeSet
  BY <1>1
<1>3. /\ P \in [PipeIds -> PipeSet]
      /\ \A y \in PipeIds : P[y].ring = pipes[y].ring /\ (y # x => P[y] = pipes[y])
      /\ \A d \in Ends : P[x].References[d] = IF d = e THEN pipes[x].References[d] + 1
                                             ELSE pipes[x].References[d]
  <2>1. PICK o \in PipeSet : o = pipes[x]
    BY <1>2
  <2>2. PICK a : a = AddReference(o, e)
    OBVIOUS
  <2>3. /\ a \in PipeSet /\ a.ring = o.ring
        /\ \A d \in Ends : a.References[d] = IF d = e THEN o.References[d] + 1
                                             ELSE o.References[d]
    BY <2>1, <2>2 DEF AddReference, PipeSet
  <2>4. P = [pipes EXCEPT ![x] = a]
    BY <2>1, <2>2 DEF Adds
  <2> QED
    BY <1>1, <2>1, <2>3, <2>4
<1>4. PICK M : M = BagAdd(list, entry)
  OBVIOUS
<1>5. IsABag(M) /\ DOMAIN M \subseteq EntrySet
  <2>1. IsABag(BagAdd(list, entry)) /\ DOMAIN BagAdd(list, entry) = DOMAIN list \cup {entry}
    BY <1>1, BagAddFacts, Zenon
  <2> QED
    BY <1>1, <1>4, <2>1
<1>6. P[x].References[e] # 0
  BY <1>2, <1>3 DEF PipeSet
<1>7. P[x] # NoPipe
  BY <1>6, NoPipeFacts
<1>8. ASSUME NEW y \in PipeIds
      PROVE  PipeCounted(P[y], y, M)
  <2>1. PipeCounted(pipes[y], y, list)
    BY DEF Counted
  <2>2. RingOk(P[y].ring)
    BY <1>3, <2>1 DEF PipeCounted
  <2>3. P[y] # NoPipe => \E d \in Ends : P[y].References[d] # 0
    BY <1>3, <1>6, <2>1 DEF PipeCounted
  <2>4. ASSUME NEW d \in Ends
        PROVE  /\ IsFiniteSet(Entries(M, Node(y, d)))
               /\ P[y].References[d] = Cardinality(Entries(M, Node(y, d)))
    <3>1. PICK node : node = Node(y, d)
      OBVIOUS
    <3>2. /\ IsFiniteSet(Entries(list, node))
          /\ pipes[y].References[d] = Cardinality(Entries(list, node))
      BY <2>1, <3>1 DEF PipeCounted
    <3>3. /\ IsFiniteSet(Entries(M, node))
          /\ Cardinality(Entries(M, node)) =
               IF entry.Node = node THEN Cardinality(Entries(list, node)) + 1
               ELSE Cardinality(Entries(list, node))
      BY <1>1, <1>4, <3>2, EntriesAdded
    <3>4. entry.Node = node <=> y = x /\ d = e
      BY <3>1, NodeFacts
    <3> QED
      BY <1>3, <3>1, <3>2, <3>3, <3>4
  <2> QED
    BY <2>2, <2>3, <2>4 DEF PipeCounted
<1>9. Counted(P, M)
  BY <1>3, <1>5, <1>8 DEF Counted
<1> QED
  BY <1>3, <1>4, <1>7, <1>9

\* ClosePipe drops the reference of the entry it removes, and deletes a pipe
\* exactly when that was the last one.
LEMMA ReferenceDropped ==
    ASSUME NEW pipes, NEW list, Counted(pipes, list),
           NEW x \in PipeIds, NEW e \in Ends, NEW entry \in DOMAIN list, entry.Node = Node(x, e),
           NEW P, Drops(pipes, P, x, e)
    PROVE  /\ Counted(P, BagRemove(list, entry))
           /\ P[x] = NoPipe \/ P[x].ring = pipes[x].ring
           /\ pipes[x] # NoPipe
           /\ \A y \in PipeIds : y # x => P[y] = pipes[y]
<1>1. pipes \in [PipeIds -> PipeSet] /\ IsABag(list) /\ DOMAIN list \subseteq EntrySet
  BY DEF Counted
<1>2. PICK o \in PipeSet : o = pipes[x]
  BY <1>1
<1>3. PICK n \in Nat \ {0} : n = o.References[e]
  <2>1. /\ IsFiniteSet(Entries(list, Node(x, e)))
        /\ o.References[e] = Cardinality(Entries(list, Node(x, e)))
    BY <1>2 DEF Counted, PipeCounted
  <2>2. /\ Cardinality(Entries(list, Node(x, e))) \in Nat
        /\ Cardinality(Entries(list, Node(x, e))) # 0
    BY <1>1, <2>1, NoEntries
  <2> QED
    BY <2>1, <2>2
<1>4. PICK left \in PipeSet :
        /\ left.ring = o.ring
        /\ \A d \in Ends : left.References[d] = IF d = e THEN n - 1 ELSE o.References[d]
        /\ DropReference(o, e) = IF \A d \in Ends : left.References[d] = 0 THEN NoPipe ELSE left
  <2>1. PICK left : left = [o EXCEPT !.References[e] = IF @ > 0 THEN @ - 1 ELSE @]
    OBVIOUS
  <2>2. /\ left \in PipeSet /\ left.ring = o.ring
        /\ \A d \in Ends : left.References[d] = IF d = e THEN n - 1 ELSE o.References[d]
    BY <1>3, <2>1 DEF PipeSet
  <2>3. DropReference(o, e) = IF \A d \in Ends : left.References[d] = 0 THEN NoPipe ELSE left
    BY <2>1 DEF DropReference
  <2> QED
    BY <2>2, <2>3
<1>5. /\ P \in [PipeIds -> PipeSet]
      /\ P[x] = IF \A d \in Ends : left.References[d] = 0 THEN NoPipe ELSE left
      /\ \A y \in PipeIds : y # x => P[y] = pipes[y]
  BY <1>1, <1>2, <1>4, NoPipeFacts DEF Drops
<1>6. PICK M : M = BagRemove(list, entry)
  OBVIOUS
<1>7. IsABag(M) /\ DOMAIN M \subseteq EntrySet
  BY <1>1, <1>6, BagRemoveFacts
<1>8. \A d \in Ends : P[x].References[d] = left.References[d]
  BY <1>5, NoPipeFacts
<1>9. ASSUME NEW y \in PipeIds
      PROVE  PipeCounted(P[y], y, M)
  <2>1. PipeCounted(pipes[y], y, list)
    BY DEF Counted
  <2>2. RingOk(P[y].ring)
    BY <1>2, <1>4, <1>5, <2>1, NoPipeFacts DEF PipeCounted
  <2>3. P[y] # NoPipe => \E d \in Ends : P[y].References[d] # 0
    BY <1>5, <2>1 DEF PipeCounted
  <2>4. ASSUME NEW d \in Ends
        PROVE  /\ IsFiniteSet(Entries(M, Node(y, d)))
               /\ P[y].References[d] = Cardinality(Entries(M, Node(y, d)))
    <3>1. PICK node : node = Node(y, d)
      OBVIOUS
    <3>2. /\ IsFiniteSet(Entries(list, node))
          /\ pipes[y].References[d] = Cardinality(Entries(list, node))
      BY <2>1, <3>1 DEF PipeCounted
    <3>3. /\ IsFiniteSet(Entries(M, node))
          /\ Cardinality(Entries(M, node)) =
               IF entry.Node = node THEN Cardinality(Entries(list, node)) - 1
               ELSE Cardinality(Entries(list, node))
      BY <1>1, <1>6, <3>2, EntriesRemoved
    <3>4. entry.Node = node <=> y = x /\ d = e
      BY <3>1, NodeFacts
    <3>5. P[y].References[d] = IF y = x /\ d = e THEN n - 1 ELSE pipes[y].References[d]
      BY <1>2, <1>4, <1>5, <1>8
    <3> QED
      BY <1>2, <1>3, <3>1, <3>2, <3>3, <3>4, <3>5
  <2> QED
    BY <2>2, <2>3, <2>4 DEF PipeCounted
<1>10. Counted(P, M)
  BY <1>5, <1>7, <1>9 DEF Counted
<1>11. pipes[x] # NoPipe
  BY <1>2, <1>3, NoPipeFacts
<1> QED
  BY <1>2, <1>4, <1>5, <1>6, <1>10, <1>11

-----------------------------------------------------------------------------
(* The functions of the manager                                            *)

IsHandler(h) ==
    /\ h = [pipes |-> h.pipes, list |-> h.list, table |-> h.table, failed |-> h.failed]
    /\ h.failed \in BOOLEAN

\* What a handler for process p maintains.
HandlerGood(h, p) ==
    IsHandler(h) /\ Counted(h.pipes, h.list) /\ TableTracked(h.table, p, h.list)

\* The same pipes exist, with the same bytes.
SamePipes(pipes, P) ==
    \A y \in PipeIds : P[y].ring = pipes[y].ring /\ (P[y] = NoPipe <=> pipes[y] = NoPipe)

\* Nothing happened but that pipe x may be gone.
AtMostClosed(pipes, P, x) ==
    \A y \in PipeIds :
        /\ y # x => P[y].ring = pipes[y].ring /\ (P[y] = NoPipe <=> pipes[y] = NoPipe)
        /\ P[y] # NoPipe => P[y].ring = pipes[y].ring /\ pipes[y] # NoPipe

\* Entries do not vanish, except for the one named.
KeepsEntries(list, L) == DOMAIN list \subseteq DOMAIN L
KeepsOthers(list, L, entry) == \A e \in DOMAIN list : e # entry => e \in DOMAIN L

\* A node with an entry belongs to a pipe.
LEMMA EntryHasPipe ==
    ASSUME NEW pipes, NEW list, Counted(pipes, list), NEW e \in DOMAIN list, NEW n \in Nodes,
           e.Node = n
    PROVE  pipes[n.pipe] # NoPipe /\ pipes[n.pipe].References[n.end] # 0
<1>1. PICK x \in PipeIds, d \in Ends : n = Node(x, d) /\ n.pipe = x /\ n.end = d
  BY NodeFacts
<1>2. PipeCounted(pipes[x], x, list) /\ IsABag(list)
  BY DEF Counted
<1>3. /\ IsFiniteSet(Entries(list, n))
      /\ pipes[x].References[d] = Cardinality(Entries(list, n))
  BY <1>1, <1>2 DEF PipeCounted
<1>4. Cardinality(Entries(list, n)) # 0
  BY <1>2, <1>3, NoEntries
<1> QED
  BY <1>1, <1>3, <1>4, NoPipeFacts

\* DuplicatePipeDescriptor adds a reference with its entry, fails, or finds no pipe.
LEMMA DuplicateGood ==
    ASSUME NEW h, IsHandler(h), Counted(h.pipes, h.list), ~h.failed,
           NEW q \in Processes, NEW fd \in FileDescriptors, NEW node \in Nodes,
           NEW r, r = DuplicatePipeDescriptor(h, q, fd, node)
    PROVE  /\ IsHandler(r) /\ r.table = h.table /\ Counted(r.pipes, r.list)
           /\ SamePipes(h.pipes, r.pipes) /\ KeepsEntries(h.list, r.list)
           /\ (\E e \in DOMAIN h.list : e.Node = node) /\ ~r.failed =>
                Entry(q, fd, node) \in DOMAIN r.list
<1>1. CASE \A e \in DOMAIN h.list : e.Node # node
  <2>1. r = h
    BY <1>1 DEF DuplicatePipeDescriptor, BagToSet
  <2> QED
    BY <1>1, <2>1 DEF SamePipes, KeepsEntries
<1>2. CASE (\E e \in DOMAIN h.list : e.Node = node)
           /\ BagCardinality(h.list) >= MAX_TRACKED_PIPES
  <2>1. r = [h EXCEPT !.failed = TRUE]
    BY <1>2 DEF DuplicatePipeDescriptor, BagToSet
  <2>2. IsHandler(r) /\ r.pipes = h.pipes /\ r.list = h.list /\ r.table = h.table /\ r.failed
    BY <2>1 DEF IsHandler
  <2> QED
    BY <2>2 DEF SamePipes, KeepsEntries
<1>3. CASE (\E e \in DOMAIN h.list : e.Node = node)
           /\ ~(BagCardinality(h.list) >= MAX_TRACKED_PIPES)
  <2>1. r = [h EXCEPT !.pipes[node.pipe] = AddReference(@, node.end),
                      !.list = BagAdd(@, Entry(q, fd, node))]
    BY <1>3 DEF DuplicatePipeDescriptor, BagToSet
  <2>2. PICK x \in PipeIds, d \in Ends : x = node.pipe /\ d = node.end /\ node = Node(x, d)
    BY NodeFacts
  <2>3. PICK entry \in EntrySet : entry = Entry(q, fd, node) /\ entry.Node = Node(x, d)
    BY <2>2, EntryFacts
  <2>4. /\ r.pipes = [h.pipes EXCEPT ![x] = AddReference(@, d)]
        /\ r.list = BagAdd(h.list, entry)
        /\ IsHandler(r) /\ r.table = h.table
    BY <2>1, <2>2, <2>3 DEF IsHandler
  <2>5. /\ Counted(r.pipes, BagAdd(h.list, entry))
        /\ r.pipes[x] # NoPipe
        /\ \A y \in PipeIds : r.pipes[y].ring = h.pipes[y].ring /\ (y # x => r.pipes[y] = h.pipes[y])
    <3>1. PICK pipes, list, P :
            /\ pipes = h.pipes /\ list = h.list /\ P = r.pipes
            /\ Counted(pipes, list) /\ Adds(pipes, P, x, d)
      BY <2>4 DEF Adds
    <3>2. /\ Counted(P, BagAdd(list, entry))
          /\ P[x] # NoPipe
          /\ \A y \in PipeIds : P[y].ring = pipes[y].ring /\ (y # x => P[y] = pipes[y])
      BY <2>3, <3>1, ReferenceAdded
    <3> QED
      BY <3>1, <3>2
  <2>6. h.pipes[x] # NoPipe
    BY <1>3, <2>2, EntryHasPipe
  <2>7. SamePipes(h.pipes, r.pipes)
    BY <2>5, <2>6 DEF SamePipes
  <2>8. DOMAIN r.list = DOMAIN h.list \cup {entry}
    <3>1. DOMAIN BagAdd(h.list, entry) = DOMAIN h.list \cup {entry}
      BY BagAddFacts, Zenon DEF Counted
    <3> QED
      BY <2>4, <3>1
  <2> QED
    BY <2>3, <2>4, <2>5, <2>7, <2>8 DEF KeepsEntries
<1> QED
  BY <1>1, <1>2, <1>3

\* The file copied to a descriptor is tracked there, or taken back.
LEMMA CopyDescriptorGood ==
    ASSUME NEW h, NEW q \in Processes, HandlerGood(h, q), ~h.failed,
           NEW fd \in FileDescriptors, NEW node \in Nodes,
           \E e \in DOMAIN h.list : e.Node = node,
           NEW r, r = CopyDescriptor(h, q, fd, node)
    PROVE  /\ HandlerGood(r, q)
           /\ SamePipes(h.pipes, r.pipes) /\ KeepsEntries(h.list, r.list)
<1>1. PICK g : g = [h EXCEPT !.table[fd] = node]
  OBVIOUS
<1>2. /\ IsHandler(h) /\ Counted(h.pipes, h.list) /\ TableTracked(h.table, q, h.list)
      /\ h.table \in [FileDescriptors -> Nodes \cup {NoFile}]
  BY DEF HandlerGood, TableTracked
<1>3. /\ IsHandler(g) /\ g.pipes = h.pipes /\ g.list = h.list /\ ~g.failed
      /\ g.table = [h.table EXCEPT ![fd] = node]
  BY <1>1, <1>2 DEF IsHandler
<1>4. PICK c : c = DuplicatePipeDescriptor(g, q, fd, node)
  OBVIOUS
<1>5. /\ IsHandler(c) /\ c.table = g.table /\ Counted(c.pipes, c.list)
      /\ SamePipes(h.pipes, c.pipes) /\ KeepsEntries(h.list, c.list)
      /\ ~c.failed => Entry(q, fd, node) \in DOMAIN c.list
  <2>1. Counted(g.pipes, g.list) /\ \E e \in DOMAIN g.list : e.Node = node
    BY <1>2, <1>3
  <2>2. /\ IsHandler(c) /\ c.table = g.table /\ Counted(c.pipes, c.list)
        /\ SamePipes(g.pipes, c.pipes) /\ KeepsEntries(g.list, c.list)
        /\ ~c.failed => Entry(q, fd, node) \in DOMAIN c.list
    BY <1>3, <1>4, <2>1, DuplicateGood
  <2> QED
    BY <1>3, <2>2
<1>6. \A d \in FileDescriptors : d # fd /\ h.table[d] # NoFile =>
            Entry(q, d, h.table[d]) \in DOMAIN c.list
  BY <1>2, <1>5 DEF TableTracked, KeepsEntries
<1>7. r = IF c.failed THEN [c EXCEPT !.table[fd] = NoFile] ELSE c
  BY <1>1, <1>4 DEF CopyDescriptor
<1>8. /\ IsHandler(r) /\ r.pipes = c.pipes /\ r.list = c.list
      /\ r.table = [h.table EXCEPT ![fd] = IF c.failed THEN NoFile ELSE node]
  BY <1>2, <1>3, <1>5, <1>7 DEF IsHandler
<1>9. r.table \in [FileDescriptors -> Nodes \cup {NoFile}]
      /\ \A d \in FileDescriptors : r.table[d] = IF d = fd THEN (IF c.failed THEN NoFile ELSE node)
                                                 ELSE h.table[d]
  BY <1>2, <1>8
<1>10. TableTracked(r.table, q, r.list)
  BY <1>5, <1>6, <1>8, <1>9 DEF TableTracked
<1> QED
  BY <1>5, <1>8, <1>10 DEF HandlerGood

\* ClosePipe removes the entry of the descriptor and its reference.
LEMMA ClosePipeGood ==
    ASSUME NEW h, IsHandler(h), Counted(h.pipes, h.list),
           NEW q \in Processes, NEW fd \in FileDescriptors, NEW node \in Nodes,
           NEW r, r = ClosePipe(h, q, fd, node)
    PROVE  /\ IsHandler(r) /\ r.table = h.table /\ (~h.failed => ~r.failed)
           /\ Counted(r.pipes, r.list)
           /\ AtMostClosed(h.pipes, r.pipes, node.pipe)
           /\ KeepsOthers(h.list, r.list, Entry(q, fd, node))
<1>1. CASE Entry(q, fd, node) \notin DOMAIN h.list
  <2>1. r = h
    BY <1>1 DEF ClosePipe, BagIn, BagToSet
  <2> QED
    BY <2>1 DEF AtMostClosed, KeepsOthers
<1>2. CASE Entry(q, fd, node) \in DOMAIN h.list
  <2>1. r = [h EXCEPT !.pipes[node.pipe] = DropReference(@, node.end),
                      !.list = BagRemove(@, Entry(q, fd, node))]
    BY <1>2 DEF ClosePipe, BagIn, BagToSet
  <2>2. PICK x \in PipeIds, d \in Ends : x = node.pipe /\ d = node.end /\ node = Node(x, d)
    BY NodeFacts
  <2>3. PICK entry \in DOMAIN h.list : entry = Entry(q, fd, node) /\ entry.Node = Node(x, d)
    BY <1>2, <2>2, EntryFacts
  <2>4. /\ r.pipes = [h.pipes EXCEPT ![x] = DropReference(@, d)]
        /\ r.list = BagRemove(h.list, entry)
        /\ IsHandler(r) /\ r.table = h.table /\ (~h.failed => ~r.failed)
    BY <2>1, <2>2, <2>3 DEF IsHandler
  <2>5. /\ Counted(r.pipes, BagRemove(h.list, entry))
        /\ r.pipes[x] = NoPipe \/ r.pipes[x].ring = h.pipes[x].ring
        /\ h.pipes[x] # NoPipe
        /\ \A y \in PipeIds : y # x => r.pipes[y] = h.pipes[y]
    <3>1. PICK pipes, list, P :
            /\ pipes = h.pipes /\ list = h.list /\ P = r.pipes
            /\ Counted(pipes, list) /\ Drops(pipes, P, x, d)
      BY <2>4 DEF Drops
    <3>2. entry \in DOMAIN list /\ entry.Node = Node(x, d)
      BY <2>3, <3>1
    <3>3. /\ Counted(P, BagRemove(list, entry))
          /\ P[x] = NoPipe \/ P[x].ring = pipes[x].ring
          /\ pipes[x] # NoPipe
          /\ \A y \in PipeIds : y # x => P[y] = pipes[y]
      BY <3>1, <3>2, ReferenceDropped
    <3> QED
      BY <3>1, <3>3
  <2>6. AtMostClosed(h.pipes, r.pipes, node.pipe)
    BY <2>2, <2>5 DEF AtMostClosed
  <2>7. \A e \in DOMAIN h.list : e # entry => e \in DOMAIN BagRemove(h.list, entry)
    <3>1. DOMAIN BagRemove(h.list, entry)
            = IF h.list[entry] = 1 THEN DOMAIN h.list \ {entry} ELSE DOMAIN h.list
      BY BagRemoveFacts, Zenon DEF Counted
    <3> QED
      BY <3>1
  <2> QED
    BY <2>3, <2>4, <2>5, <2>6, <2>7 DEF KeepsOthers
<1> QED
  BY <1>1, <1>2

\* close leaves every other descriptor of the process tracked.
LEMMA CloseDescriptorGood ==
    ASSUME NEW h, NEW q \in Processes, HandlerGood(h, q),
           NEW fd \in FileDescriptors, h.table[fd] # NoFile,
           NEW r, r = CloseDescriptor(h, q, fd)
    PROVE  /\ HandlerGood(r, q) /\ (~h.failed => ~r.failed)
           /\ r.table = [h.table EXCEPT ![fd] = NoFile]
           /\ AtMostClosed(h.pipes, r.pipes, h.table[fd].pipe)
           /\ KeepsOthers(h.list, r.list, Entry(q, fd, h.table[fd]))
<1>1. /\ IsHandler(h) /\ Counted(h.pipes, h.list) /\ TableTracked(h.table, q, h.list)
      /\ h.table \in [FileDescriptors -> Nodes \cup {NoFile}]
  BY DEF HandlerGood, TableTracked
<1>2. PICK node \in Nodes : node = h.table[fd]
  BY <1>1
<1>3. PICK c : c = ClosePipe(h, q, fd, node)
  OBVIOUS
<1>4. /\ IsHandler(c) /\ c.table = h.table /\ (~h.failed => ~c.failed)
      /\ Counted(c.pipes, c.list)
      /\ AtMostClosed(h.pipes, c.pipes, node.pipe)
      /\ KeepsOthers(h.list, c.list, Entry(q, fd, node))
  BY <1>1, <1>3, ClosePipeGood
<1>5. r = [c EXCEPT !.table[fd] = NoFile]
  BY <1>2, <1>3 DEF CloseDescriptor
<1>6. /\ IsHandler(r) /\ r.pipes = c.pipes /\ r.list = c.list /\ (~h.failed => ~r.failed)
      /\ r.table = [h.table EXCEPT ![fd] = NoFile]
  BY <1>4, <1>5 DEF IsHandler
<1>7. r.table \in [FileDescriptors -> Nodes \cup {NoFile}]
      /\ \A d \in FileDescriptors : r.table[d] = IF d = fd THEN NoFile ELSE h.table[d]
  BY <1>1, <1>6
<1>8. ASSUME NEW d \in FileDescriptors, d # fd, h.table[d] # NoFile
      PROVE  Entry(q, d, h.table[d]) \in DOMAIN c.list
  <2>1. Entry(q, d, h.table[d]) \in DOMAIN h.list
    BY <1>1, <1>8 DEF TableTracked
  <2>2. Entry(q, d, h.table[d]) # Entry(q, fd, node)
    BY <1>8, EntryFacts
  <2> QED
    BY <1>4, <2>1, <2>2 DEF KeepsOthers
<1>9. TableTracked(r.table, q, r.list)
  BY <1>6, <1>7, <1>8 DEF TableTracked
<1> QED
  BY <1>2, <1>4, <1>6, <1>9 DEF HandlerGood

-----------------------------------------------------------------------------
(* The invariant                                                           *)

CallSet == [op : {"none", "read", "write"}, fd : Nat, left : Nat, data : Seq(Bytes)]

\* A call that sleeps belongs to a process that exists, and its descriptor is
\* still open for the operation.
CallSound(p) ==
    Call[p] # NoCall =>
        /\ p \in Live /\ Call[p].fd \in FileDescriptors
        /\ FileTable[p][Call[p].fd] # NoFile
        /\ FileTable[p][Call[p].fd].end = Call[p].op

PipeInv ==
    /\ Counted(Pipes, PipeEndpointList)
    /\ DOMAIN FileTable = Processes
    /\ \A p \in Processes : TableTracked(FileTable[p], p, PipeEndpointList)
    /\ Live \subseteq Processes
    /\ Call \in [Processes -> CallSet]
    /\ \A p \in Processes : CallSound(p)

KeepsOwners(list, L, p) == \A e \in DOMAIN list : e.Owner # p => e \in DOMAIN L

\* A handler for one process leaves the tables and calls of the others alone.
LEMMA HandlerStep ==
    ASSUME PipeInv, NEW p \in Processes, NEW h, HandlerGood(h, p),
           KeepsOwners(PipeEndpointList, h.list, p), Becomes(p, h),
           Live' \subseteq Processes, \A q \in Live : q # p => q \in Live',
           Call' \in [Processes -> CallSet], Call'[p] = NoCall,
           \A q \in Processes : q # p => Call'[q] = Call[q]
    PROVE  PipeInv'
<1>1. /\ Pipes' = h.pipes /\ PipeEndpointList' = h.list
      /\ FileTable' = [FileTable EXCEPT ![p] = h.table]
  BY DEF Becomes
<1>2. /\ Counted(h.pipes, h.list) /\ TableTracked(h.table, p, h.list)
      /\ DOMAIN FileTable = Processes
  BY DEF HandlerGood, PipeInv
<1>3. Counted(Pipes, PipeEndpointList)'
  BY <1>1, <1>2 DEF Counted, PipeCounted
<1>4. /\ DOMAIN FileTable' = Processes /\ FileTable'[p] = h.table
      /\ \A q \in Processes : q # p => FileTable'[q] = FileTable[q]
  BY <1>1, <1>2
<1>5. ASSUME NEW q \in Processes
      PROVE  TableTracked(FileTable[q], q, PipeEndpointList)'
  <2>1. CASE q = p
    BY <1>1, <1>2, <1>4, <2>1 DEF TableTracked
  <2>2. CASE q # p
    <3>1. TableTracked(FileTable[q], q, PipeEndpointList)
      BY DEF PipeInv
    <3>2. \A fd \in FileDescriptors : FileTable[q][fd] # NoFile =>
             Entry(q, fd, FileTable[q][fd]) \in DOMAIN h.list
      BY <2>2, <3>1 DEF TableTracked, KeepsOwners, Entry
    <3> QED
      BY <1>1, <1>4, <2>2, <3>1, <3>2 DEF TableTracked
  <2> QED
    BY <2>1, <2>2
<1>6. ASSUME NEW q \in Processes
      PROVE  CallSound(q)'
  <2>1. CASE q = p
    BY <2>1 DEF CallSound
  <2>2. CASE q # p
    BY <1>4, <2>2 DEF CallSound, PipeInv
  <2> QED
    BY <2>1, <2>2
<1> QED
  BY <1>3, <1>4, <1>5, <1>6 DEF PipeInv

\* The handler starts from the state.
LEMMA CurrentGood ==
    ASSUME PipeInv, NEW p \in Processes
    PROVE  /\ HandlerGood(Current(p), p) /\ ~Current(p).failed
           /\ Current(p).pipes = Pipes /\ Current(p).list = PipeEndpointList
           /\ Current(p).table = FileTable[p]
BY DEF PipeInv, HandlerGood, IsHandler, Current

\* Entries of other owners stay.
LEMMA OwnersKept ==
    ASSUME NEW list, NEW L, NEW p
    PROVE  /\ KeepsEntries(list, L) => KeepsOwners(list, L, p)
           /\ \A fd, node : KeepsOthers(list, L, Entry(p, fd, node)) => KeepsOwners(list, L, p)
BY DEF KeepsEntries, KeepsOthers, KeepsOwners, Entry

\* close
LEMMA CloseGood ==
    ASSUME PipeInv, NEW p \in Processes, NEW fd \in FileDescriptors, Close(p, fd)
    PROVE  /\ PipeInv' /\ Moved' = <<>>
           /\ \E x \in PipeIds : AtMostClosed(Pipes, Pipes', x)
<1>1. /\ Call[p] = NoCall /\ FileTable[p][fd] # NoFile
      /\ Becomes(p, CloseDescriptor(Current(p), p, fd)) /\ Live' = Live /\ Call' = Call
  BY DEF Close, MayCall, OpenFiles
<1>2. PICK c : c = Current(p)
  OBVIOUS
<1>3. /\ HandlerGood(c, p) /\ c.pipes = Pipes /\ c.list = PipeEndpointList
      /\ c.table = FileTable[p]
  BY <1>2, CurrentGood
<1>4. PICK r : r = CloseDescriptor(c, p, fd) /\ Becomes(p, r)
  BY <1>1, <1>2
<1>5. c.table[fd] # NoFile /\ c.table[fd].pipe \in PipeIds
  BY <1>1, <1>3, NodeFacts DEF HandlerGood, TableTracked
<1>6. /\ HandlerGood(r, p)
      /\ AtMostClosed(c.pipes, r.pipes, c.table[fd].pipe)
      /\ KeepsOthers(c.list, r.list, Entry(p, fd, c.table[fd]))
  BY <1>3, <1>4, <1>5, CloseDescriptorGood
<1>7. KeepsOwners(PipeEndpointList, r.list, p)
  BY <1>3, <1>6, OwnersKept
<1>8. PipeInv'
  BY <1>1, <1>4, <1>6, <1>7, HandlerStep DEF PipeInv
<1>9. Moved' = <<>> /\ Pipes' = r.pipes
  BY <1>4 DEF Becomes
<1> QED
  BY <1>3, <1>5, <1>6, <1>8, <1>9

\* fcntl(F_DUPFD)
LEMMA DupFdGood ==
    ASSUME PipeInv, NEW p \in Processes, NEW old \in FileDescriptors, NEW minimum \in FileDescriptors,
           DupFd(p, old, minimum)
    PROVE  PipeInv' /\ Moved' = <<>> /\ SamePipes(Pipes, Pipes')
<1>1. PICK free : free = {fd \in FileDescriptors \ OpenFiles(p) : fd >= minimum}
  OBVIOUS
<1>2. /\ Call[p] = NoCall /\ FileTable[p][old] # NoFile /\ free # {}
      /\ Becomes(p, CopyDescriptor(Current(p), p, Min(free), FileTable[p][old]))
      /\ Live' = Live /\ Call' = Call
  BY <1>1 DEF DupFd, MayCall, OpenFiles
<1>3. PICK fd \in FileDescriptors : fd = Min(free)
  <2>1. free \subseteq Nat /\ free \subseteq FileDescriptors
    BY <1>1, PipesAssumption DEF FileDescriptors
  <2> QED
    BY <1>2, <2>1, MinIsSmallest
<1>4. PICK c : c = Current(p)
  OBVIOUS
<1>5. /\ HandlerGood(c, p) /\ c.pipes = Pipes /\ c.list = PipeEndpointList
      /\ c.table = FileTable[p] /\ ~c.failed
  BY <1>4, CurrentGood
<1>6. PICK node \in Nodes : node = FileTable[p][old] /\ \E e \in DOMAIN c.list : e.Node = node
  <2>1. TableTracked(FileTable[p], p, PipeEndpointList)
    BY DEF PipeInv
  <2> QED
    BY <1>2, <1>5, <2>1, EntryFacts DEF TableTracked
<1>7. PICK r : r = CopyDescriptor(c, p, fd, node) /\ Becomes(p, r)
  BY <1>2, <1>3, <1>4, <1>6
<1>8. HandlerGood(r, p) /\ SamePipes(c.pipes, r.pipes) /\ KeepsEntries(c.list, r.list)
  BY <1>5, <1>6, <1>7, CopyDescriptorGood
<1>9. KeepsOwners(PipeEndpointList, r.list, p)
  BY <1>5, <1>8, OwnersKept
<1>10. PipeInv'
  BY <1>2, <1>7, <1>8, <1>9, HandlerStep DEF PipeInv
<1> QED
  BY <1>5, <1>7, <1>8, <1>10 DEF Becomes

\* dup2: the file that is copied stays tracked when the new descriptor is closed.
LEMMA Dup2Good ==
    ASSUME PipeInv, NEW p \in Processes, NEW old \in FileDescriptors, NEW new \in FileDescriptors,
           Dup2(p, old, new)
    PROVE  /\ PipeInv' /\ Moved' = <<>>
           /\ \E x \in PipeIds : AtMostClosed(Pipes, Pipes', x)
<1>1. PICK c : c = Current(p)
  OBVIOUS
<1>2. /\ HandlerGood(c, p) /\ c.pipes = Pipes /\ c.list = PipeEndpointList
      /\ c.table = FileTable[p] /\ ~c.failed
  BY <1>1, CurrentGood
<1>3. PICK h : h = IF new \in OpenFiles(p) THEN CloseDescriptor(Current(p), p, new) ELSE Current(p)
  OBVIOUS
<1>4. /\ Call[p] = NoCall /\ FileTable[p][old] # NoFile /\ old # new
      /\ Becomes(p, CopyDescriptor(h, p, new, FileTable[p][old]))
      /\ Live' = Live /\ Call' = Call
  BY <1>3 DEF Dup2, MayCall, OpenFiles
<1>5. TableTracked(FileTable[p], p, PipeEndpointList)
  BY DEF PipeInv
<1>6. PICK node \in Nodes : /\ node = FileTable[p][old] /\ node.pipe \in PipeIds
                            /\ Entry(p, old, node) \in DOMAIN c.list /\ Entry(p, old, node).Node = node
  BY <1>2, <1>4, <1>5, EntryFacts, NodeFacts DEF TableTracked
<1>7. PICK x \in PipeIds :
        /\ HandlerGood(h, p) /\ ~h.failed
        /\ AtMostClosed(c.pipes, h.pipes, x) /\ KeepsOwners(c.list, h.list, p)
        /\ Entry(p, old, node) \in DOMAIN h.list
  <2>1. CASE new \notin OpenFiles(p)
    <3>1. h = c
      BY <1>1, <1>3, <2>1
    <3>2. AtMostClosed(c.pipes, h.pipes, node.pipe) /\ KeepsOwners(c.list, h.list, p)
      BY <3>1 DEF AtMostClosed, KeepsOwners
    <3> QED
      BY <1>2, <1>6, <3>1, <3>2
  <2>2. CASE new \in OpenFiles(p)
    <3>1. h = CloseDescriptor(c, p, new) /\ c.table[new] # NoFile
      BY <1>1, <1>2, <1>3, <2>2 DEF OpenFiles
    <3>2. /\ HandlerGood(h, p) /\ ~h.failed
          /\ AtMostClosed(c.pipes, h.pipes, c.table[new].pipe)
          /\ KeepsOthers(c.list, h.list, Entry(p, new, c.table[new]))
      BY <1>2, <3>1, CloseDescriptorGood
    <3>3. Entry(p, old, node) # Entry(p, new, c.table[new])
      BY <1>4, EntryFacts
    <3>4. Entry(p, old, node) \in DOMAIN h.list
      BY <1>6, <3>2, <3>3 DEF KeepsOthers
    <3>5. KeepsOwners(c.list, h.list, p)
      BY <3>2, OwnersKept
    <3>6. c.table[new].pipe \in PipeIds
      BY <1>2, <1>5, <3>1, NodeFacts DEF TableTracked
    <3> QED
      BY <1>2, <3>2, <3>4, <3>5, <3>6
  <2> QED
    BY <2>1, <2>2
<1>8. PICK r : r = CopyDescriptor(h, p, new, node) /\ Becomes(p, r)
  BY <1>4, <1>6
<1>9. HandlerGood(r, p) /\ SamePipes(h.pipes, r.pipes) /\ KeepsEntries(h.list, r.list)
  <2>1. \E e \in DOMAIN h.list : e.Node = node
    BY <1>6, <1>7
  <2> QED
    BY <1>7, <1>8, <2>1, CopyDescriptorGood
<1>10. KeepsOwners(PipeEndpointList, r.list, p)
  BY <1>2, <1>7, <1>9 DEF KeepsEntries, KeepsOwners
<1>11. AtMostClosed(Pipes, r.pipes, x)
  BY <1>2, <1>7, <1>9 DEF AtMostClosed, SamePipes
<1>12. PipeInv'
  BY <1>4, <1>8, <1>9, <1>10, HandlerStep DEF PipeInv
<1> QED
  BY <1>8, <1>11, <1>12 DEF Becomes

\* exit and execve forget files without telling their pipes.
LEMMA ForgetGood ==
    ASSUME PipeInv, NEW p \in Processes, NEW t \in [FileDescriptors -> Nodes \cup {NoFile}],
           \A fd \in FileDescriptors : t[fd] = NoFile \/ t[fd] = FileTable[p][fd],
           Becomes(p, [Current(p) EXCEPT !.table = t]),
           Live' \subseteq Processes, \A q \in Live : q # p => q \in Live',
           Call' \in [Processes -> CallSet], Call'[p] = NoCall,
           \A q \in Processes : q # p => Call'[q] = Call[q]
    PROVE  PipeInv' /\ Moved' = <<>> /\ SamePipes(Pipes, Pipes')
<1>1. PICK c : c = Current(p)
  OBVIOUS
<1>2. /\ HandlerGood(c, p) /\ c.pipes = Pipes /\ c.list = PipeEndpointList
      /\ c.table = FileTable[p]
  BY <1>1, CurrentGood
<1>3. PICK h : h = [c EXCEPT !.table = t] /\ Becomes(p, h)
  BY <1>1
<1>4. /\ IsHandler(h) /\ h.pipes = Pipes /\ h.list = PipeEndpointList /\ h.table = t
  BY <1>2, <1>3 DEF HandlerGood, IsHandler
<1>5. HandlerGood(h, p)
  BY <1>2, <1>4 DEF HandlerGood, TableTracked
<1>6. KeepsOwners(PipeEndpointList, h.list, p)
  BY <1>4 DEF KeepsOwners
<1>7. PipeInv'
  BY <1>3, <1>5, <1>6, HandlerStep
<1> QED
  BY <1>3, <1>4, <1>7 DEF Becomes, SamePipes

\* exit
LEMMA ExitGood ==
    ASSUME PipeInv, NEW p \in Processes, Exit(p)
    PROVE  PipeInv' /\ Moved' = <<>> /\ SamePipes(Pipes, Pipes')
<1>1. PICK t : t = EmptyTable
  OBVIOUS
<1>2. t \in [FileDescriptors -> Nodes \cup {NoFile}] /\ \A fd \in FileDescriptors : t[fd] = NoFile
  BY <1>1 DEF EmptyTable
<1>3. Becomes(p, [Current(p) EXCEPT !.table = t]) /\ Live' = Live \ {p}
  BY <1>1 DEF Exit
<1>4. NoCall \in CallSet
  BY EmptySeq DEF NoCall, CallSet
<1>5. /\ Call' \in [Processes -> CallSet] /\ Call'[p] = NoCall
      /\ \A q \in Processes : q # p => Call'[q] = Call[q]
  BY <1>4 DEF Exit, PipeInv
<1> QED
  BY <1>2, <1>3, <1>5, ForgetGood DEF PipeInv

\* execve
LEMMA ExecveGood ==
    ASSUME PipeInv, NEW p \in Processes, Execve(p)
    PROVE  PipeInv' /\ Moved' = <<>> /\ SamePipes(Pipes, Pipes')
<1>1. PICK marked : Becomes(p, [Current(p) EXCEPT !.table =
                        [fd \in FileDescriptors |-> IF fd \in marked THEN NoFile ELSE @[fd]]])
  BY DEF Execve
<1>2. Call[p] = NoCall /\ Live' = Live /\ Call' = Call
  BY DEF Execve, MayCall
<1>3. PICK t : t = [fd \in FileDescriptors |-> IF fd \in marked THEN NoFile ELSE FileTable[p][fd]]
  OBVIOUS
<1>4. TableTracked(FileTable[p], p, PipeEndpointList)
  BY DEF PipeInv
<1>5. t \in [FileDescriptors -> Nodes \cup {NoFile}]
      /\ \A fd \in FileDescriptors : t[fd] = NoFile \/ t[fd] = FileTable[p][fd]
  BY <1>3, <1>4 DEF TableTracked
<1>6. Becomes(p, [Current(p) EXCEPT !.table = t])
  BY <1>1, <1>3, CurrentGood
<1> QED
  BY <1>2, <1>5, <1>6, ForgetGood DEF PipeInv

\* A signal ends a call.
LEMMA InterruptedGood ==
    ASSUME PipeInv, NEW p \in Processes, Interrupted(p)
    PROVE  PipeInv' /\ Moved' = <<>> /\ SamePipes(Pipes, Pipes')
<1>1. /\ Pipes' = Pipes /\ PipeEndpointList' = PipeEndpointList /\ FileTable' = FileTable
      /\ Live' = Live /\ Moved' = <<>> /\ Call' = [Call EXCEPT ![p] = NoCall]
  BY DEF Interrupted
<1>2. NoCall \in CallSet
  BY EmptySeq DEF NoCall, CallSet
<1>3. Call' \in [Processes -> CallSet]
      /\ \A q \in Processes : Call'[q] = IF q = p THEN NoCall ELSE Call[q]
  BY <1>1, <1>2 DEF PipeInv
<1>4. \A q \in Processes : CallSound(q)'
  BY <1>1, <1>3 DEF CallSound, PipeInv
<1>5. PipeInv'
  BY <1>1, <1>3, <1>4 DEF PipeInv, Counted, PipeCounted, TableTracked
<1> QED
  BY <1>1, <1>5 DEF SamePipes

\* What fork maintains while it copies the files of the parent.
CopiesGood(h, child) ==
    /\ HandlerGood(h, child) /\ SamePipes(Pipes, h.pipes)
    /\ KeepsEntries(PipeEndpointList, h.list)

\* One file of the parent.
LEMMA CopyFileGood ==
    ASSUME PipeInv, NEW p \in Processes, NEW child \in Processes, NEW fd \in FileDescriptors,
           NEW h, CopiesGood(h, child), NEW r, r = CopyFile(h, p, child, fd)
    PROVE  CopiesGood(r, child)
<1>1. CASE h.failed \/ FileTable[p][fd] = NoFile
  <2>1. r = h
    BY <1>1 DEF CopyFile
  <2> QED
    BY <2>1
<1>2. CASE ~h.failed /\ FileTable[p][fd] # NoFile
  <2>1. TableTracked(FileTable[p], p, PipeEndpointList)
    BY DEF PipeInv
  <2>2. PICK node \in Nodes : /\ node = FileTable[p][fd] /\ Entry(p, fd, node) \in DOMAIN h.list
                              /\ Entry(p, fd, node).Node = node
    BY <1>2, <2>1, EntryFacts DEF TableTracked, CopiesGood, KeepsEntries
  <2>3. r = CopyDescriptor(h, child, fd, node)
    BY <1>2, <2>2 DEF CopyFile
  <2>4. \E e \in DOMAIN h.list : e.Node = node
    BY <2>2
  <2>5. HandlerGood(h, child)
    BY DEF CopiesGood
  <2>6. /\ HandlerGood(r, child)
        /\ SamePipes(h.pipes, r.pipes) /\ KeepsEntries(h.list, r.list)
    BY <1>2, <2>3, <2>4, <2>5, CopyDescriptorGood
  <2> QED
    BY <2>6 DEF CopiesGood, SamePipes, KeepsEntries
<1> QED
  BY <1>1, <1>2

\* f gives what fork has after any number of files, up to m.
IsCopies(f, m, p, child) ==
    f = [n \in 0 .. m |-> IF n = 0 THEN [Current(p) EXCEPT !.table = EmptyTable]
                          ELSE CopyFile(f[n - 1], p, child, n - 1)]

\* There is such a function for every number of files.
LEMMA CopiesExist ==
    ASSUME NEW p, NEW child, NEW m \in Nat
    PROVE  \E f : IsCopies(f, m, p, child)
<1> DEFINE T == {k \in Nat : \E f : IsCopies(f, k, p, child)}
           base == [Current(p) EXCEPT !.table = EmptyTable]
<1>1. 0 \in T
  <2>1. PICK f : f = [n \in 0 .. 0 |-> base]
    OBVIOUS
  <2>2. IsCopies(f, 0, p, child)
    BY <2>1 DEF IsCopies
  <2> QED
    BY <2>2
<1>2. ASSUME NEW k \in Nat, k \in T
      PROVE  k + 1 \in T
  <2>1. PICK f : IsCopies(f, k, p, child)
    BY <1>2
  <2>2. /\ DOMAIN f = 0 .. k
        /\ \A n \in 0 .. k : f[n] = IF n = 0 THEN base ELSE CopyFile(f[n - 1], p, child, n - 1)
    BY <2>1, Zenon DEF IsCopies
  <2>3. PICK last : last = CopyFile(f[k], p, child, k)
    OBVIOUS
  <2>4. PICK g : g = [n \in 0 .. k + 1 |-> IF n = k + 1 THEN last ELSE f[n]]
    OBVIOUS
  <2>5. DOMAIN g = 0 .. k + 1 /\ g[k + 1] = last /\ \A n \in 0 .. k : g[n] = f[n]
    BY <2>4
  <2>6. ASSUME NEW n \in 0 .. k + 1
        PROVE  g[n] = IF n = 0 THEN base ELSE CopyFile(g[n - 1], p, child, n - 1)
    <3>1. CASE n = 0
      <4>1. n \in 0 .. k
        BY <3>1
      <4> QED
        BY <2>2, <2>5, <3>1, <4>1, Zenon
    <3>2. CASE n # 0
      <4>1. PICK i \in 0 .. k : i = n - 1
        BY <3>2
      <4>2. g[i] = f[i]
        BY <2>5
      <4>3. g[n] = CopyFile(f[i], p, child, i)
        <5>1. CASE n = k + 1
          <6>1. i = k
            BY <4>1, <5>1
          <6> QED
            BY <2>3, <2>5, <5>1, <6>1, Zenon
        <5>2. CASE n \in 0 .. k
          <6>1. g[n] = f[n]
            BY <2>5, <5>2
          <6>2. f[n] = CopyFile(f[n - 1], p, child, n - 1)
            BY <2>2, <3>2, <5>2, Zenon
          <6> QED
            BY <4>1, <6>1, <6>2, Zenon
        <5> QED
          BY <5>1, <5>2
      <4> QED
        BY <3>2, <4>1, <4>2, <4>3, Zenon
    <3> QED
      BY <3>1, <3>2
  <2>7. IsCopies(g, k + 1, p, child)
    <3>1. g = [n \in 0 .. k + 1 |-> g[n]]
      BY <2>4
    <3> QED
      BY <2>6, <3>1, Zenon DEF IsCopies
  <2> QED
    BY <2>7
<1>3. Nat \subseteq T
  <2> HIDE DEF T
  <2> QED
    BY <1>1, <1>2, InductionOverNat
<1> QED
  BY <1>3

\* After the last file fork has all its copies tracked, or has failed.
LEMMA CopyFilesGood ==
    ASSUME PipeInv, NEW p \in Processes, NEW child \in Processes
    PROVE  CopiesGood(CopyFiles(p, child), child)
<1>1. MaxFiles \in Nat
  BY PipesAssumption
<1>2. PICK f : IsCopies(f, MaxFiles, p, child) /\ CopyFiles(p, child) = f[MaxFiles]
  <2>1. \E f : IsCopies(f, MaxFiles, p, child)
    BY <1>1, CopiesExist
  <2> QED
    BY <2>1, Zenon DEF CopyFiles, IsCopies
<1>3. PICK base : base = [Current(p) EXCEPT !.table = EmptyTable]
  OBVIOUS
<1>4. /\ f[0] = base
      /\ \A n \in 0 .. MaxFiles : n # 0 => f[n] = CopyFile(f[n - 1], p, child, n - 1)
  <2>1. \A n \in 0 .. MaxFiles : f[n] = IF n = 0 THEN base ELSE CopyFile(f[n - 1], p, child, n - 1)
    BY <1>2, <1>3, Zenon DEF IsCopies
  <2>2. 0 \in 0 .. MaxFiles
    BY <1>1
  <2> QED
    BY <2>1, <2>2, Zenon
<1>5. CopiesGood(base, child)
  <2>1. PICK c : c = Current(p)
    OBVIOUS
  <2>2. HandlerGood(c, p) /\ c.pipes = Pipes /\ c.list = PipeEndpointList
    BY <2>1, CurrentGood
  <2>3. /\ IsHandler(base) /\ base.pipes = Pipes /\ base.list = PipeEndpointList
        /\ base.table = EmptyTable
    BY <1>3, <2>1, <2>2 DEF HandlerGood, IsHandler
  <2>4. TableTracked(base.table, child, base.list)
    BY <2>3 DEF TableTracked, EmptyTable
  <2> QED
    BY <2>2, <2>3, <2>4 DEF CopiesGood, HandlerGood, SamePipes, KeepsEntries
<1>6. DEFINE T == {n \in Nat : n <= MaxFiles => CopiesGood(f[n], child)}
<1>7. 0 \in T
  BY <1>4, <1>5
<1>8. ASSUME NEW k \in Nat, k \in T
      PROVE  k + 1 \in T
  <2> SUFFICES ASSUME k + 1 <= MaxFiles
               PROVE  CopiesGood(f[k + 1], child)
    OBVIOUS
  <2>1. k \in FileDescriptors /\ k <= MaxFiles
    BY <1>1 DEF FileDescriptors
  <2>2. CopiesGood(f[k], child)
    BY <1>8, <2>1
  <2>3. PICK n \in 0 .. MaxFiles : n = k + 1 /\ n # 0 /\ n - 1 = k
    BY <1>1
  <2>4. f[n] = CopyFile(f[k], p, child, k)
    BY <1>4, <2>3, Zenon
  <2>5. PICK h, r : h = f[k] /\ r = f[n]
    OBVIOUS
  <2>6. CopiesGood(h, child) /\ r = CopyFile(h, p, child, k)
    BY <2>2, <2>4, <2>5, Zenon
  <2>7. CopiesGood(r, child)
    BY <2>1, <2>6, CopyFileGood
  <2> QED
    BY <2>3, <2>5, <2>7, Zenon
<1>9. Nat \subseteq T
  <2> HIDE DEF T
  <2> QED
    BY <1>7, <1>8, InductionOverNat
<1>10. CopiesGood(f[MaxFiles], child)
  BY <1>1, <1>9
<1> QED
  BY <1>2, <1>10, Zenon

\* fork, failed or not.
LEMMA ForkGood ==
    ASSUME PipeInv, NEW p \in Processes, NEW child \in Processes, Fork(p, child)
    PROVE  PipeInv' /\ Moved' = <<>> /\ SamePipes(Pipes, Pipes')
<1>1. PICK h : h = CopyFiles(p, child) /\ CopiesGood(h, child)
  BY CopyFilesGood
<1>2. PICK r : r = (IF h.failed THEN [h EXCEPT !.table = EmptyTable] ELSE h) /\ Becomes(child, r)
  BY <1>1 DEF Fork
<1>3. /\ child \notin Live /\ Call' = Call
      /\ Live' = Live \/ Live' = Live \cup {child}
  BY DEF Fork
<1>4. IsHandler(h) /\ Counted(h.pipes, h.list) /\ TableTracked(h.table, child, h.list)
  BY <1>1 DEF CopiesGood, HandlerGood
<1>5. /\ IsHandler(r) /\ r.pipes = h.pipes /\ r.list = h.list
      /\ r.table = h.table \/ r.table = EmptyTable
  BY <1>2, <1>4 DEF IsHandler
<1>6. TableTracked(EmptyTable, child, h.list)
  BY DEF TableTracked, EmptyTable
<1>7. HandlerGood(r, child)
  BY <1>4, <1>5, <1>6 DEF HandlerGood, TableTracked
<1>8. KeepsOwners(PipeEndpointList, r.list, child)
  BY <1>1, <1>5 DEF CopiesGood, KeepsEntries, KeepsOwners
<1>9. /\ Live \subseteq Processes /\ Call \in [Processes -> CallSet]
      /\ Call[child] = NoCall
  BY <1>3 DEF PipeInv, CallSound
<1>10. PipeInv'
  BY <1>2, <1>3, <1>7, <1>8, <1>9, HandlerStep
<1>11. SamePipes(Pipes, r.pipes)
  BY <1>1, <1>5 DEF CopiesGood
<1> QED
  BY <1>2, <1>10, <1>11 DEF Becomes

\* A set of at least two elements has two.
LEMMA TwoElements ==
    ASSUME NEW S, IsFiniteSet(S), Cardinality(S) >= 2
    PROVE  \E m, n \in S : m # n
<1>1. \A n : S = {n} => Cardinality(S) = 1
  BY FS_Singleton
<1>2. S = {} => Cardinality(S) = 0
  BY FS_EmptySet
<1>3. S # {} /\ \A n : S # {n}
  BY <1>1, <1>2
<1> QED
  BY <1>3

\* pipe: the object starts with one reader and one writer, and both are tracked.
LEMMA CreatePipeGood ==
    ASSUME PipeInv, NEW p \in Processes, NEW x \in PipeIds, CreatePipe(p, x)
    PROVE  /\ PipeInv' /\ Moved' = <<>> /\ Pipes[x] = NoPipe /\ Pipes'[x] # NoPipe
           /\ \A y \in PipeIds : Pipes'[y].ring = Pipes[y].ring /\ (y # x => Pipes'[y] = Pipes[y])
<1>1. PICK free, r, w : free = FileDescriptors \ OpenFiles(p) /\ r = Min(free) /\ w = Min(free \ {r})
  OBVIOUS
<1>2. PICK pipe : pipe = [NoPipe EXCEPT !.References = [e \in Ends |-> 1]]
  OBVIOUS
<1>3. PICK entry1, entry2 : entry1 = Entry(p, r, Node(x, "read")) /\ entry2 = Entry(p, w, Node(x, "write"))
  OBVIOUS
<1>4. PICK list1, list2 : list1 = BagAdd(PipeEndpointList, entry1) /\ list2 = BagAdd(list1, entry2)
  OBVIOUS
<1>5. PICK t : t = [FileTable[p] EXCEPT ![r] = Node(x, "read"), ![w] = Node(x, "write")]
  OBVIOUS
<1>6. PICK P2 : P2 = [Pipes EXCEPT ![x] = pipe]
  OBVIOUS
<1>7. /\ Call[p] = NoCall /\ Cardinality(free) >= 2 /\ Pipes[x] = NoPipe
      /\ Pipes' = P2 /\ PipeEndpointList' = list2 /\ FileTable' = [FileTable EXCEPT ![p] = t]
      /\ Moved' = <<>> /\ Live' = Live /\ Call' = Call
  BY <1>1, <1>2, <1>3, <1>4, <1>5, <1>6, Zenon DEF CreatePipe, MayCall, FreePipes, Becomes
<1>8. free \subseteq Nat /\ free \subseteq FileDescriptors
  BY <1>1, PipesAssumption DEF FileDescriptors
<1>9. r \in free /\ w \in free /\ r # w
  <2>1. \E m, n \in free : m # n
    <3>1. IsFiniteSet(FileDescriptors)
      BY FS_Interval, PipesAssumption DEF FileDescriptors
    <3>2. IsFiniteSet(free)
      BY <1>8, <3>1, FS_Subset
    <3> QED
      BY <1>7, <3>2, TwoElements
  <2>2. r \in free
    BY <1>1, <1>8, <2>1, MinIsSmallest
  <2>3. PICK rest : rest = free \ {r}
    OBVIOUS
  <2>4. rest # {} /\ rest \subseteq Nat
    BY <1>8, <2>1, <2>2, <2>3
  <2>5. w \in rest
    BY <1>1, <2>3, <2>4, MinIsSmallest
  <2> QED
    BY <2>2, <2>3, <2>5
<1>10. r \in FileDescriptors /\ w \in FileDescriptors
  BY <1>8, <1>9
<1>11. Node(x, "read") \in Nodes /\ Node(x, "write") \in Nodes /\ "read" \in Ends /\ "write" \in Ends
  BY NodeFacts DEF Ends
<1>12. /\ entry1 \in EntrySet /\ entry1.Node = Node(x, "read")
       /\ entry2 \in EntrySet /\ entry2.Node = Node(x, "write")
  BY <1>3, <1>10, <1>11, EntryFacts
<1>13. Counted(Pipes, PipeEndpointList) /\ Pipes \in [PipeIds -> PipeSet] /\ IsABag(PipeEndpointList)
  BY DEF PipeInv, Counted
<1>14. PICK P1 : P1 = [Pipes EXCEPT ![x] = AddReference(@, "read")]
  OBVIOUS
<1>15. Adds(Pipes, P1, x, "read")
  BY <1>14 DEF Adds
<1>16. Counted(P1, list1)
  BY <1>4, <1>11, <1>12, <1>13, <1>15, ReferenceAdded
<1>17. Adds(P1, P2, x, "write")
  <2>1. PICK a : a = AddReference(NoPipe, "read") /\ P1 = [Pipes EXCEPT ![x] = a] /\ P1[x] = a
    BY <1>7, <1>13, <1>14
  <2>2. PICK b : b = AddReference(a, "write")
    OBVIOUS
  <2>3. NoPipe = [ring |-> NoPipe.ring, References |-> [e \in Ends |-> 0]]
    BY NoPipeFacts
  <2>4. a = [ring |-> NoPipe.ring, References |-> [e \in Ends |-> IF e = "read" THEN 1 ELSE 0]]
    BY <2>1, <2>3 DEF AddReference
  <2>5. b = [ring |-> NoPipe.ring, References |-> [e \in Ends |-> 1]]
    BY <2>2, <2>4 DEF AddReference, Ends
  <2>6. pipe = b
    BY <1>2, <2>3, <2>5
  <2>7. P2 = [P1 EXCEPT ![x] = b]
    BY <1>6, <1>13, <2>1, <2>6
  <2> QED
    BY <2>1, <2>2, <2>7 DEF Adds
<1>18. /\ Counted(P2, list2) /\ P2[x] # NoPipe
  BY <1>4, <1>11, <1>12, <1>16, <1>17, ReferenceAdded
<1>19. \A y \in PipeIds : P2[y].ring = Pipes[y].ring /\ (y # x => P2[y] = Pipes[y])
  BY <1>2, <1>6, <1>7, <1>13, NoPipeFacts DEF PipeSet
<1>20. /\ IsABag(list1) /\ DOMAIN list1 = DOMAIN PipeEndpointList \cup {entry1}
       /\ DOMAIN list2 = DOMAIN list1 \cup {entry2}
  <2>1. IsABag(BagAdd(PipeEndpointList, entry1))
        /\ DOMAIN BagAdd(PipeEndpointList, entry1) = DOMAIN PipeEndpointList \cup {entry1}
    BY <1>13, BagAddFacts, Zenon
  <2>2. IsABag(list1) /\ DOMAIN list1 = DOMAIN PipeEndpointList \cup {entry1}
    BY <1>4, <2>1, Zenon
  <2>3. DOMAIN BagAdd(list1, entry2) = DOMAIN list1 \cup {entry2}
    BY <2>2, BagAddFacts, Zenon
  <2> QED
    BY <1>4, <2>2, <2>3, Zenon
<1>21. TableTracked(FileTable[p], p, PipeEndpointList)
  BY DEF PipeInv
<1>22. TableTracked(t, p, list2)
  <2>1. /\ t \in [FileDescriptors -> Nodes \cup {NoFile}]
        /\ \A fd \in FileDescriptors : t[fd] = IF fd = w THEN Node(x, "write")
                                               ELSE IF fd = r THEN Node(x, "read")
                                               ELSE FileTable[p][fd]
    BY <1>5, <1>9, <1>10, <1>11, <1>21 DEF TableTracked
  <2>2. ASSUME NEW fd \in FileDescriptors, t[fd] # NoFile
        PROVE  Entry(p, fd, t[fd]) \in DOMAIN list2
    <3>1. CASE fd = w
      BY <1>3, <1>20, <2>1, <3>1
    <3>2. CASE fd = r
      BY <1>3, <1>9, <1>20, <2>1, <3>2
    <3>3. CASE fd # w /\ fd # r
      BY <1>20, <1>21, <2>1, <2>2, <3>3 DEF TableTracked
    <3> QED
      BY <3>1, <3>2, <3>3
  <2> QED
    BY <2>1, <2>2 DEF TableTracked
<1>23. PICK h : h = [pipes |-> P2, list |-> list2, table |-> t, failed |-> FALSE]
  OBVIOUS
<1>24. HandlerGood(h, p) /\ Becomes(p, h)
  BY <1>7, <1>18, <1>22, <1>23 DEF HandlerGood, IsHandler, Becomes
<1>25. KeepsOwners(PipeEndpointList, h.list, p)
  BY <1>20, <1>23 DEF KeepsOwners
<1>26. PipeInv'
  BY <1>7, <1>24, <1>25, HandlerStep DEF PipeInv
<1> QED
  BY <1>7, <1>18, <1>19, <1>26

-----------------------------------------------------------------------------
(* Reading and writing                                                     *)

\* n bytes were taken from the front of pipe x.
Received(x, n) ==
    /\ Pipes[x] # NoPipe /\ Pipes'[x] # NoPipe
    /\ \A y \in PipeIds : y # x => Pipes'[y] = Pipes[y]
    /\ n \in 0 .. Len(Contents(Pipes[x].ring))
    /\ Moved' = SubSeq(Contents(Pipes[x].ring), 1, n)
    /\ Contents(Pipes'[x].ring) =
         SubSeq(Contents(Pipes[x].ring), n + 1, Len(Contents(Pipes[x].ring)))

\* The bytes that moved were appended to pipe x, and there was room for them.
Sent(x) ==
    /\ Pipes[x] # NoPipe /\ Pipes'[x] # NoPipe
    /\ \A y \in PipeIds : y # x => Pipes'[y] = Pipes[y]
    /\ Moved' \in Seq(Bytes) /\ Len(Moved') <= Capacity - Len(Contents(Pipes[x].ring))
    /\ Contents(Pipes'[x].ring) = Contents(Pipes[x].ring) \o Moved'

\* The parts of a step that reads or writes.
RingBecomes(x, ring) == Pipes' = [Pipes EXCEPT ![x].ring = ring]
CallBecomes(p, call) == Call' = [Call EXCEPT ![p] = call]
SleepsInRead(call, fd, left) == call = [NoCall EXCEPT !.op = "read", !.fd = fd, !.left = left]
SleepsInWrite(call, fd, data) == call = [NoCall EXCEPT !.op = "write", !.fd = fd, !.data = data]

\* The ring of an open file changes, and the call returns or sleeps.
LEMMA RingStep ==
    ASSUME PipeInv, NEW p \in Live, NEW fd \in FileDescriptors, FileTable[p][fd] # NoFile,
           NEW x \in PipeIds, x = FileTable[p][fd].pipe, NEW ring, RingOk(ring),
           RingBecomes(x, ring),
           UNCHANGED <<PipeEndpointList, FileTable, Live>>,
           NEW call \in CallSet, CallBecomes(p, call),
           call # NoCall => call.fd = fd /\ call.op = FileTable[p][fd].end
    PROVE  /\ PipeInv' /\ Pipes[x] # NoPipe /\ Pipes'[x] # NoPipe /\ Pipes'[x].ring = ring
           /\ \A y \in PipeIds : y # x => Pipes'[y] = Pipes[y]
<1>1. /\ Counted(Pipes, PipeEndpointList) /\ p \in Processes
      /\ TableTracked(FileTable[p], p, PipeEndpointList)
  BY DEF PipeInv
<1>2. PICK old : old = Pipes[x]
  OBVIOUS
<1>3. PICK node \in Nodes : /\ node = FileTable[p][fd] /\ node.pipe = x
                            /\ Entry(p, fd, node) \in DOMAIN PipeEndpointList
                            /\ Entry(p, fd, node).Node = node
  BY <1>1, EntryFacts DEF TableTracked
<1>4. old # NoPipe
  BY <1>1, <1>2, <1>3, EntryHasPipe
<1>5. old \in PipeSet /\ PipeCounted(old, x, PipeEndpointList)
  BY <1>1, <1>2 DEF Counted
<1>6. PICK new : new = [old EXCEPT !.ring = ring] /\ Pipes' = [Pipes EXCEPT ![x] = new]
  BY <1>2 DEF RingBecomes
<1>7. new.ring = ring /\ new.References = old.References /\ new \in PipeSet
  BY <1>5, <1>6 DEF PipeSet, RingOk
<1>8. PICK e \in Ends : old.References[e] # 0
  BY <1>4, <1>5 DEF PipeCounted
<1>9. new # NoPipe
  BY <1>7, <1>8, NoPipeFacts
<1>10. PipeCounted(new, x, PipeEndpointList)
  BY <1>5, <1>7, <1>8 DEF PipeCounted
<1>11. Pipes'[x] = new /\ \A y \in PipeIds : y # x => Pipes'[y] = Pipes[y]
  BY <1>1, <1>6 DEF Counted
<1>12. Counted(Pipes', PipeEndpointList)
  BY <1>1, <1>6, <1>7, <1>10, <1>11 DEF Counted
<1>13. \A q \in Processes : CallSound(q)'
  <2> TAKE q \in Processes
  <2>1. CASE q = p
    BY <1>1, <2>1 DEF CallSound, CallBecomes, PipeInv
  <2>2. CASE q # p
    BY <1>1, <2>2 DEF CallSound, CallBecomes, PipeInv
  <2> QED
    BY <2>1, <2>2
<1>14. PipeInv'
  BY <1>1, <1>12, <1>13 DEF CallBecomes, PipeInv
<1> QED
  BY <1>2, <1>4, <1>7, <1>9, <1>11, <1>14

\* The calls that sleep are calls.
LEMMA CallFacts ==
    ASSUME NEW call, NEW fd \in FileDescriptors, NEW left \in Nat, NEW data \in Seq(Bytes)
    PROVE  /\ NoCall \in CallSet
           /\ SleepsInRead(call, fd, left) => call \in CallSet /\ call.fd = fd /\ call.op = "read"
           /\ SleepsInWrite(call, fd, data) => call \in CallSet /\ call.fd = fd /\ call.op = "write"
<1>1. PICK no : no = <<>>
  OBVIOUS
<1>2. no \in Seq(Bytes) /\ fd \in Nat
  BY <1>1, EmptySeq, PipesAssumption DEF FileDescriptors
<1>3. NoCall = [op |-> "none", fd |-> 0, left |-> 0, data |-> no]
  BY <1>1 DEF NoCall
<1>4. NoCall \in CallSet
  BY <1>2, <1>3 DEF CallSet
<1>5. ASSUME SleepsInRead(call, fd, left)
      PROVE  call \in CallSet /\ call.fd = fd /\ call.op = "read"
  BY <1>2, <1>3, <1>5 DEF CallSet, SleepsInRead
<1>6. ASSUME SleepsInWrite(call, fd, data)
      PROVE  call \in CallSet /\ call.fd = fd /\ call.op = "write"
  BY <1>2, <1>3, <1>6 DEF CallSet, SleepsInWrite
<1> QED
  BY <1>4, <1>5, <1>6

\* What a read takes is what was written first.
LEMMA ReadOnGood ==
    ASSUME PipeInv, NEW p \in Live, NEW fd \in FileDescriptors, FileTable[p][fd] # NoFile,
           FileTable[p][fd].end = "read", NEW left \in Nat, NEW nonblock, ReadOn(p, fd, left, nonblock)
    PROVE  PipeInv' /\ \E x \in PipeIds, n \in Nat : Received(x, n)
<1>1. PICK x \in PipeIds : x = FileTable[p][fd].pipe
  BY NodeFacts DEF PipeInv, TableTracked
<1>2. PICK ring : ring = Pipes[x].ring /\ RingOk(ring)
  BY DEF PipeInv, Counted, PipeCounted
<1>3. PICK full \in Seq(Bytes) : full = Contents(ring) /\ Len(full) = ring.BufferedBytes
  BY <1>2, ContentsType
<1>4. PICK n \in 0 .. ring.BufferedBytes : n <= left /\ n = Min({left, ring.BufferedBytes})
  <2>1. ring.BufferedBytes \in Nat
    BY <1>2, ContentsType, CapacityAssumption
  <2>2. PICK b \in Nat : b = ring.BufferedBytes
    BY <2>1
  <2>3. PICK S : S = {left, b}
    OBVIOUS
  <2>4. S \subseteq Nat /\ S # {} /\ left \in S /\ b \in S
    BY <2>2, <2>3
  <2>5. Min(S) \in S /\ \A m \in S : Min(S) <= m
    BY <2>4, MinIsSmallest
  <2>6. Min(S) \in Nat /\ Min(S) <= left /\ Min(S) <= b
    BY <2>4, <2>5
  <2> QED
    BY <2>2, <2>3, <2>6
<1>5. /\ RingOk(TakeBytes(ring, n))
      /\ FirstBytes(ring, n) = SubSeq(full, 1, n)
      /\ Contents(TakeBytes(ring, n)) = SubSeq(full, n + 1, Len(full))
  BY <1>2, <1>3, TakeBytesTakesOldest
<1>6. PICK new : new = TakeBytes(ring, n) /\ RingOk(new)
  BY <1>5
<1>7. /\ RingBecomes(x, new) /\ Moved' = FirstBytes(ring, n)
      /\ UNCHANGED <<PipeEndpointList, FileTable, Live>>
  BY <1>1, <1>2, <1>4, <1>6 DEF ReadOn, RingBecomes
<1>8. PICK call \in CallSet : /\ CallBecomes(p, call)
                              /\ call # NoCall => call.fd = fd /\ call.op = "read"
  <2>1. PICK rest \in Nat : rest = left - n
    BY <1>3, <1>4
  <2>2. PICK sleep : SleepsInRead(sleep, fd, rest)
    BY DEF SleepsInRead
  <2>3. CallBecomes(p, NoCall) \/ CallBecomes(p, sleep)
    BY <1>1, <1>2, <1>4, <2>1, <2>2 DEF ReadOn, SleepsInRead, CallBecomes
  <2>4. /\ NoCall \in CallSet
        /\ sleep \in CallSet /\ sleep.fd = fd /\ sleep.op = "read"
    <3>1. PICK data \in Seq(Bytes) : data = <<>>
      BY EmptySeq
    <3> QED
      BY <2>2, CallFacts
  <2> QED
    BY <2>3, <2>4
<1>9. /\ PipeInv' /\ Pipes[x] # NoPipe /\ Pipes'[x] # NoPipe /\ Pipes'[x].ring = new
      /\ \A y \in PipeIds : y # x => Pipes'[y] = Pipes[y]
  BY <1>1, <1>6, <1>7, <1>8, RingStep
<1>10. n \in Nat /\ n \in 0 .. Len(full)
  BY <1>3, <1>4
<1>11. Received(x, n)
  BY <1>2, <1>3, <1>5, <1>6, <1>7, <1>9, <1>10 DEF Received
<1> QED
  BY <1>9, <1>10, <1>11

\* What a write hands over fits, and goes behind what was written before.
LEMMA WriteOnGood ==
    ASSUME PipeInv, NEW p \in Live, NEW fd \in FileDescriptors, FileTable[p][fd] # NoFile,
           FileTable[p][fd].end = "write", NEW data \in Seq(Bytes), NEW nonblock, NEW woken \in BOOLEAN,
           WriteOn(p, fd, data, nonblock, woken)
    PROVE  PipeInv' /\ \E x \in PipeIds : Sent(x)
<1>1. PICK x \in PipeIds : x = FileTable[p][fd].pipe
  BY NodeFacts DEF PipeInv, TableTracked
<1>2. PICK ring : ring = Pipes[x].ring /\ RingOk(ring)
  BY DEF PipeInv, Counted, PipeCounted
<1>3. PICK space \in Nat : space = AvailableSpace(ring) /\ space = Capacity - Len(Contents(ring))
  BY <1>2, ContentsType, CapacityAssumption DEF AvailableSpace
<1>4. PICK n \in 0 .. Len(data) : n <= space /\ n = Accepted(Pipes[x], data, woken)
  <2>1. PICK len \in Nat : len = Len(data)
    OBVIOUS
  <2>2. PICK S : S = {len, space}
    OBVIOUS
  <2>3. PICK T : T = {len, ChunkSize, space}
    OBVIOUS
  <2>4. S \subseteq Nat /\ len \in S /\ space \in S /\ T \subseteq Nat /\ len \in T /\ space \in T
    BY <2>2, <2>3, PipesAssumption
  <2>5. /\ Min(S) \in S /\ \A m \in S : Min(S) <= m
        /\ Min(T) \in T /\ \A m \in T : Min(T) <= m
    BY <2>4, MinIsSmallest
  <2>6. /\ Min(S) \in 0 .. len /\ Min(S) <= space /\ Min(T) \in 0 .. len /\ Min(T) <= space
        /\ 0 \in 0 .. len /\ 0 <= space
    <3>1. PICK m \in Nat, k \in Nat : m = Min(S) /\ k = Min(T)
      BY <2>4, <2>5
    <3>2. m <= len /\ m <= space /\ k <= len /\ k <= space
      BY <2>4, <2>5, <3>1
    <3> QED
      BY <3>1, <3>2
  <2>7. PICK readers : readers = Pipes[x].References["read"]
    OBVIOUS
  <2>8. Accepted(Pipes[x], data, woken) =
          CASE readers # 0 -> Min(S)
            [] readers = 0 /\ woken -> Min(T)
            [] OTHER -> 0
    BY <1>2, <1>3, <2>1, <2>2, <2>3, <2>7 DEF Accepted
  <2> QED
    BY <2>1, <2>6, <2>8
<1>5. PICK some \in Seq(Bytes) : some = SubSeq(data, 1, n) /\ Len(some) = n
  BY <1>4, Parts
<1>6. /\ RingOk(PutBytes(ring, some))
      /\ Contents(PutBytes(ring, some)) = Contents(ring) \o some
  BY <1>2, <1>3, <1>4, <1>5, PutBytesAppends
<1>7. PICK new : new = PutBytes(ring, some) /\ RingOk(new)
  BY <1>6
<1>8. /\ RingBecomes(x, new) /\ Moved' = some
      /\ UNCHANGED <<PipeEndpointList, FileTable, Live>>
  BY <1>1, <1>2, <1>4, <1>5, <1>7 DEF WriteOn, RingBecomes
<1>9. PICK call \in CallSet : /\ CallBecomes(p, call)
                              /\ call # NoCall => call.fd = fd /\ call.op = "write"
  <2>1. PICK rest \in Seq(Bytes) : rest = SubSeq(data, n + 1, Len(data))
    BY <1>4, Parts
  <2>2. PICK sleep : SleepsInWrite(sleep, fd, rest)
    BY DEF SleepsInWrite
  <2>3. CallBecomes(p, NoCall) \/ CallBecomes(p, sleep)
    BY <1>1, <1>4, <2>1, <2>2 DEF WriteOn, SleepsInWrite, CallBecomes
  <2>4. /\ NoCall \in CallSet
        /\ sleep \in CallSet /\ sleep.fd = fd /\ sleep.op = "write"
    BY <2>1, <2>2, CallFacts, 0 \in Nat
  <2> QED
    BY <2>3, <2>4
<1>10. /\ PipeInv' /\ Pipes[x] # NoPipe /\ Pipes'[x] # NoPipe /\ Pipes'[x].ring = new
       /\ \A y \in PipeIds : y # x => Pipes'[y] = Pipes[y]
  BY <1>1, <1>7, <1>8, <1>9, RingStep
<1>11. Sent(x)
  BY <1>2, <1>3, <1>4, <1>5, <1>6, <1>7, <1>8, <1>10 DEF Sent
<1> QED
  BY <1>10, <1>11

\* read, from the program or after a sleep
LEMMA ReadGood ==
    ASSUME PipeInv, NEW p \in Processes,
           (\E fd \in FileDescriptors : Read(p, fd)) \/ ResumeRead(p)
    PROVE  PipeInv' /\ \E x \in PipeIds, n \in Nat : Received(x, n)
<1>1. CASE ResumeRead(p)
  <2>1. /\ Call[p].op = "read" /\ Call[p] # NoCall /\ Call[p].left \in Nat
        /\ ReadOn(p, Call[p].fd, Call[p].left, FALSE)
    <3>1. Call[p].op = "read" /\ ReadOn(p, Call[p].fd, Call[p].left, FALSE)
      BY <1>1 DEF ResumeRead
    <3>2. PICK c \in CallSet : c = Call[p]
      BY DEF PipeInv
    <3>3. c.left \in Nat
      BY DEF CallSet
    <3>4. NoCall.op = "none"
      BY DEF NoCall
    <3> QED
      BY <3>1, <3>2, <3>3, <3>4
  <2>2. /\ p \in Live /\ Call[p].fd \in FileDescriptors
        /\ FileTable[p][Call[p].fd] # NoFile /\ FileTable[p][Call[p].fd].end = "read"
    BY <2>1 DEF PipeInv, CallSound
  <2> QED
    BY <2>1, <2>2, ReadOnGood
<1>2. ASSUME NEW fd \in FileDescriptors, Read(p, fd)
      PROVE  PipeInv' /\ \E x \in PipeIds, n \in Nat : Received(x, n)
  <2>1. PICK count \in Nat, nonblock \in BOOLEAN : ReadOn(p, fd, count, nonblock)
    BY <1>2, PipesAssumption DEF Read
  <2>2. p \in Live /\ FileTable[p][fd] # NoFile /\ FileTable[p][fd].end = "read"
    BY <1>2 DEF Read, MayCall, OpenFiles
  <2> QED
    BY <2>1, <2>2, ReadOnGood
<1> QED
  BY <1>1, <1>2

\* write, from the program or after a sleep
LEMMA WriteGood ==
    ASSUME PipeInv, NEW p \in Processes,
           (\E fd \in FileDescriptors : Write(p, fd)) \/ ResumeWrite(p)
    PROVE  PipeInv' /\ \E x \in PipeIds : Sent(x)
<1>1. CASE ResumeWrite(p)
  <2>1. /\ Call[p].op = "write" /\ Call[p] # NoCall /\ Call[p].data \in Seq(Bytes)
        /\ WriteOn(p, Call[p].fd, Call[p].data, FALSE, TRUE)
    <3>1. Call[p].op = "write" /\ WriteOn(p, Call[p].fd, Call[p].data, FALSE, TRUE)
      BY <1>1 DEF ResumeWrite
    <3>2. PICK c \in CallSet : c = Call[p]
      BY DEF PipeInv
    <3>3. c.data \in Seq(Bytes)
      BY DEF CallSet
    <3>4. NoCall.op = "none"
      BY DEF NoCall
    <3> QED
      BY <3>1, <3>2, <3>3, <3>4
  <2>2. /\ p \in Live /\ Call[p].fd \in FileDescriptors
        /\ FileTable[p][Call[p].fd] # NoFile /\ FileTable[p][Call[p].fd].end = "write"
    BY <2>1 DEF PipeInv, CallSound
  <2> QED
    BY <2>1, <2>2, WriteOnGood
<1>2. ASSUME NEW fd \in FileDescriptors, Write(p, fd)
      PROVE  PipeInv' /\ \E x \in PipeIds : Sent(x)
  <2>1. PICK data \in Seq(Bytes), nonblock \in BOOLEAN : WriteOn(p, fd, data, nonblock, FALSE)
    BY <1>2, PipesAssumption DEF Write
  <2>2. p \in Live /\ FileTable[p][fd] # NoFile /\ FileTable[p][fd].end = "write"
    BY <1>2 DEF Write, MayCall, OpenFiles
  <2> QED
    BY <2>1, <2>2, WriteOnGood
<1> QED
  BY <1>1, <1>2
-----------------------------------------------------------------------------
(* The steps of the channels                                               *)

\* What the channels see of a step that is none of theirs.
LEMMA NothingMaps ==
    ASSUME SamePipes(Pipes, Pipes'), Moved' = <<>>
    PROVE  Channel!Next
<1>1. FreePipes' = FreePipes
  BY DEF FreePipes, SamePipes
<1>2. [x \in PipeIds |-> Contents(Pipes[x].ring)]' = [x \in PipeIds |-> Contents(Pipes[x].ring)]
  BY DEF SamePipes
<1> QED
  BY <1>1, <1>2 DEF Channel!Next, Channel!Nothing

\* A pipe that is deleted takes its unread bytes along.
LEMMA ClosedMaps ==
    ASSUME NEW x \in PipeIds, AtMostClosed(Pipes, Pipes', x), Moved' = <<>>
    PROVE  Channel!Next
<1>1. CASE Pipes'[x] # NoPipe \/ Pipes[x] = NoPipe
  <2>1. SamePipes(Pipes, Pipes')
    <3> SUFFICES ASSUME NEW y \in PipeIds
                 PROVE  Pipes'[y].ring = Pipes[y].ring /\ (Pipes'[y] = NoPipe <=> Pipes[y] = NoPipe)
      BY DEF SamePipes
    <3> QED
      BY <1>1 DEF AtMostClosed
  <2> QED
    BY <2>1, NothingMaps
<1>2. CASE Pipes'[x] = NoPipe /\ Pipes[x] # NoPipe
  <2>1. (PipeIds \ FreePipes)' = (PipeIds \ FreePipes) \ {x} /\ x \in PipeIds \ FreePipes
    BY <1>2 DEF FreePipes, AtMostClosed
  <2>2. PICK q : q = [y \in PipeIds |-> Contents(Pipes[y].ring)]
    OBVIOUS
  <2>3. [y \in PipeIds |-> Contents(Pipes[y].ring)]' = [q EXCEPT ![x] = <<>>]
    BY <1>2, <2>2, NoPipeFacts DEF AtMostClosed
  <2>4. Channel!Discard(x)
    BY <2>1, <2>2, <2>3 DEF Channel!Discard
  <2> QED
    BY <2>4 DEF Channel!Next
<1> QED
  BY <1>1, <1>2

\* A new pipe is empty.
LEMMA OpenMaps ==
    ASSUME NEW x \in PipeIds, Pipes[x] = NoPipe, Pipes'[x] # NoPipe, Moved' = <<>>,
           \A y \in PipeIds : Pipes'[y].ring = Pipes[y].ring /\ (y # x => Pipes'[y] = Pipes[y])
    PROVE  Channel!Next
<1>1. (PipeIds \ FreePipes)' = (PipeIds \ FreePipes) \cup {x} /\ x \notin PipeIds \ FreePipes
  BY DEF FreePipes
<1>2. [y \in PipeIds |-> Contents(Pipes[y].ring)]' = [y \in PipeIds |-> Contents(Pipes[y].ring)]
  OBVIOUS
<1>3. Channel!Open(x)
  BY <1>1, <1>2 DEF Channel!Open
<1> QED
  BY <1>3 DEF Channel!Next

\* A read of nothing is no step of the channels.
LEMMA ReceivedMaps ==
    ASSUME PipeInv, NEW x \in PipeIds, NEW n \in Nat, Received(x, n)
    PROVE  Channel!Next
<1>1. PICK old \in Seq(Bytes) : old = Contents(Pipes[x].ring)
  BY ContentsType DEF PipeInv, Counted, PipeCounted
<1>2. PICK q : q = [y \in PipeIds |-> Contents(Pipes[y].ring)]
  OBVIOUS
<1>3. q[x] = old
  BY <1>1, <1>2
<1>4. /\ n \in 0 .. Len(old)
      /\ Moved' = SubSeq(old, 1, n)
      /\ Contents(Pipes'[x].ring) = SubSeq(old, n + 1, Len(old))
  BY <1>1 DEF Received
<1>5. [y \in PipeIds |-> Contents(Pipes[y].ring)]' = [q EXCEPT ![x] = SubSeq(old, n + 1, Len(old))]
  BY <1>2, <1>4 DEF Received
<1>6. (PipeIds \ FreePipes)' = PipeIds \ FreePipes /\ x \in PipeIds \ FreePipes
  BY DEF FreePipes, Received
<1>7. CASE n = 0
  <2>1. SubSeq(old, 1, n) = <<>> /\ SubSeq(old, n + 1, Len(old)) = old
    BY <1>7
  <2>2. [y \in PipeIds |-> Contents(Pipes[y].ring)]' = q
    BY <1>2, <1>3, <1>5, <2>1
  <2>3. Moved' = <<>>
    BY <1>4, <2>1
  <2> QED
    BY <1>2, <1>6, <2>2, <2>3 DEF Channel!Next, Channel!Nothing
<1>8. CASE n # 0
  <2>1. n \in 1 .. Len(q[x])
    BY <1>3, <1>4, <1>8
  <2>2. Channel!Receive(x)
    BY <1>2, <1>3, <1>4, <1>5, <1>6, <2>1 DEF Channel!Receive
  <2> QED
    BY <2>2 DEF Channel!Next
<1> QED
  BY <1>7, <1>8

\* Neither is a write of nothing.
LEMMA SentMaps ==
    ASSUME PipeInv, NEW x \in PipeIds, Sent(x)
    PROVE  Channel!Next
<1>1. PICK old \in Seq(Bytes) : old = Contents(Pipes[x].ring)
  BY ContentsType DEF PipeInv, Counted, PipeCounted
<1>2. PICK q : q = [y \in PipeIds |-> Contents(Pipes[y].ring)]
  OBVIOUS
<1>3. q[x] = old
  BY <1>1, <1>2
<1>4. PICK data \in Seq(Bytes) : /\ Moved' = data /\ Len(data) <= Capacity - Len(old)
                                 /\ Contents(Pipes'[x].ring) = old \o data
  BY <1>1 DEF Sent
<1>5. [y \in PipeIds |-> Contents(Pipes[y].ring)]' = [q EXCEPT ![x] = old \o data]
  BY <1>2, <1>4 DEF Sent
<1>6. (PipeIds \ FreePipes)' = PipeIds \ FreePipes /\ x \in PipeIds \ FreePipes
  BY DEF FreePipes, Sent
<1>7. CASE Len(data) = 0
  <2>1. data = <<>> /\ old \o data = old
    BY <1>7
  <2>2. [y \in PipeIds |-> Contents(Pipes[y].ring)]' = q
    BY <1>2, <1>3, <1>5, <2>1
  <2>3. Moved' = <<>>
    BY <1>4, <2>1
  <2> QED
    BY <1>2, <1>6, <2>2, <2>3 DEF Channel!Next, Channel!Nothing
<1>8. CASE Len(data) # 0
  <2>1. PICK n \in Nat : n = Len(data)
    OBVIOUS
  <2>2. n \in 1 .. Capacity - Len(q[x]) /\ data \in [1 .. n -> Bytes]
    BY <1>3, <1>4, <1>8, <2>1, CapacityAssumption
  <2>3. Channel!Send(x)
    BY <1>2, <1>3, <1>4, <1>5, <1>6, <2>2 DEF Channel!Send
  <2> QED
    BY <2>3 DEF Channel!Next
<1> QED
  BY <1>7, <1>8

-----------------------------------------------------------------------------
(* The theorems                                                            *)

\* No pipe, no file and no call at first.
LEMMA InitGood == Init => PipeInv /\ Channel!Init
<1> SUFFICES ASSUME Init PROVE PipeInv /\ Channel!Init
  OBVIOUS
<1>1. IsABag(PipeEndpointList) /\ DOMAIN PipeEndpointList = {}
  BY DEF Init, EmptyBag, SetToBag, IsABag
<1>2. \A n : IsFiniteSet(Entries(PipeEndpointList, n)) /\ Cardinality(Entries(PipeEndpointList, n)) = 0
  <2> TAKE n
  <2>1. Entries(PipeEndpointList, n) = {}
    BY <1>1, EntriesElements
  <2> QED
    BY <2>1, FS_EmptySet
<1>3. ASSUME NEW x \in PipeIds
      PROVE  PipeCounted(NoPipe, x, PipeEndpointList)
  BY <1>2, NoPipeFacts DEF PipeCounted
<1>4. Pipes \in [PipeIds -> PipeSet] /\ \A x \in PipeIds : Pipes[x] = NoPipe
  BY NoPipeFacts DEF Init
<1>5. Counted(Pipes, PipeEndpointList)
  BY <1>1, <1>3, <1>4 DEF Counted
<1>6. /\ DOMAIN FileTable = Processes
      /\ \A p \in Processes : TableTracked(FileTable[p], p, PipeEndpointList)
  BY DEF Init, EmptyTable, TableTracked
<1>7. Live \subseteq Processes
  BY PipesAssumption DEF Init
<1>8. NoCall \in CallSet
  BY EmptySeq DEF NoCall, CallSet
<1>9. Call \in [Processes -> CallSet] /\ \A p \in Processes : CallSound(p)
  BY <1>8 DEF Init, CallSound
<1>10. PipeInv
  BY <1>5, <1>6, <1>7, <1>9 DEF PipeInv
<1>11. PipeIds \ FreePipes = {} /\ [x \in PipeIds |-> Contents(Pipes[x].ring)] = [x \in PipeIds |-> <<>>]
  BY <1>4, NoPipeFacts DEF FreePipes
<1>12. Channel!Init
  BY <1>11 DEF Init, Channel!Init
<1> QED
  BY <1>10, <1>12

\* Every step keeps the invariant, and is one of the channels or none of theirs.
LEMMA StepGood ==
    PipeInv /\ [Next]_vars =>
        /\ PipeInv'
        /\ [Channel!Next]_<<PipeIds \ FreePipes, [x \in PipeIds |-> Contents(Pipes[x].ring)], Moved>>
<1> SUFFICES ASSUME PipeInv, [Next]_vars
             PROVE  /\ PipeInv'
                    /\ \/ Channel!Next
                       \/ UNCHANGED <<PipeIds \ FreePipes, [x \in PipeIds |-> Contents(Pipes[x].ring)], Moved>>
  OBVIOUS
<1>1. CASE UNCHANGED vars
  BY <1>1 DEF vars, PipeInv, CallSound, FreePipes
<1>2. ASSUME NEW p \in Processes, NEW x \in PipeIds, CreatePipe(p, x)
      PROVE  PipeInv' /\ Channel!Next
  BY <1>2, CreatePipeGood, OpenMaps
<1>3. ASSUME NEW p \in Processes, NEW fd \in FileDescriptors, Close(p, fd)
      PROVE  PipeInv' /\ Channel!Next
  BY <1>3, CloseGood, ClosedMaps
<1>4. ASSUME NEW p \in Processes, (\E fd \in FileDescriptors : Read(p, fd)) \/ ResumeRead(p)
      PROVE  PipeInv' /\ Channel!Next
  BY <1>4, ReadGood, ReceivedMaps
<1>5. ASSUME NEW p \in Processes, (\E fd \in FileDescriptors : Write(p, fd)) \/ ResumeWrite(p)
      PROVE  PipeInv' /\ Channel!Next
  BY <1>5, WriteGood, SentMaps
<1>6. ASSUME NEW p \in Processes, NEW fd \in FileDescriptors, NEW other \in FileDescriptors,
             Dup2(p, fd, other)
      PROVE  PipeInv' /\ Channel!Next
  BY <1>6, Dup2Good, ClosedMaps
<1>7. ASSUME NEW p \in Processes, NEW fd \in FileDescriptors, NEW other \in FileDescriptors,
             DupFd(p, fd, other)
      PROVE  PipeInv' /\ Channel!Next
  BY <1>7, DupFdGood, NothingMaps
<1>8. ASSUME NEW p \in Processes, NEW child \in Processes, Fork(p, child)
      PROVE  PipeInv' /\ Channel!Next
  BY <1>8, ForkGood, NothingMaps
<1>9. ASSUME NEW p \in Processes, Exit(p) \/ Execve(p) \/ Interrupted(p)
      PROVE  PipeInv' /\ Channel!Next
  BY <1>9, ExitGood, ExecveGood, InterruptedGood, NothingMaps
<1> QED
  BY <1>1, <1>2, <1>3, <1>4, <1>5, <1>6, <1>7, <1>8, <1>9 DEF Next, Resume

\* References, entries, files and sleeping calls agree in every reachable state.
THEOREM PipesStayGood == Spec => []PipeInv
<1>1. Init => PipeInv
  BY InitGood
<1>2. PipeInv /\ [Next]_vars => PipeInv'
  BY StepGood
<1> QED
  BY <1>1, <1>2, PTL DEF Spec

\* The counters of a pipe are exactly its tracked descriptors, and it is deleted
\* with the last of them: DuplicatePipeDescriptor, ClosePipe and CreatePipe never
\* miscount, in whatever order programs dup, fork, close, exec and exit.
THEOREM CountsTracked == Spec => []CountsAreTracked
<1>1. PipeInv => CountsAreTracked
  BY NoPipeFacts DEF PipeInv, Counted, PipeCounted, CountsAreTracked, Tracked, FreePipes
<1> QED
  BY <1>1, PipesStayGood, PTL

\* No descriptor outlives its pipe, and so no read or write finds one deleted.
THEOREM FilesTracked == Spec => []OpenFilesAreTracked
<1>1. PipeInv => OpenFilesAreTracked
  BY DEF PipeInv, TableTracked, OpenFilesAreTracked, OpenFiles, BagIn, BagToSet
<1> QED
  BY <1>1, PipesStayGood, PTL

\* The ring buffer, its offsets and the chunked, sleeping, interrupted calls
\* implement a bounded queue of bytes for every pipe.
THEOREM PipesAreChannels == Spec => ImplementsChannel
<1>1. Init => Channel!Init
  BY InitGood
<1>2. PipeInv /\ [Next]_vars =>
        [Channel!Next]_<<PipeIds \ FreePipes, [x \in PipeIds |-> Contents(Pipes[x].ring)], Moved>>
  BY StepGood
<1> QED
  BY <1>1, <1>2, PipesStayGood, PTL DEF Spec, ImplementsChannel, Channel!Spec
=============================================================================
