--------------------------- MODULE RtmpChunkProofs --------------------------
(* Theorems about RtmpChunk, for any catalogue of messages, any chunk sizes  *)
(* and windows, any mixture of the chunk streams and any cut of the reads.   *)
EXTENDS RtmpChunk, SequenceTheorems, TLAPS

-----------------------------------------------------------------------------
(* What BuildChunk makes of the messages s                                   *)

\* Message j of s is the last one before message i on its chunk stream, or j
\* is 0 and i is the first one.
Links(s, j, i) ==
  /\ j \in 0..(i - 1)
  /\ j # 0 => s[j].cs = s[i].cs
  /\ \A h \in (j + 1)..(i - 1) : s[h].cs # s[i].cs
Linked(s) == \A i \in 1..Len(s) : \E j \in 0..(i - 1) : Links(s, j, i)
Prev(s, i) == CHOOSE j \in 0..(i - 1) : Links(s, j, i)

\* Its header, whether it is written in full, the time that travels, the delta
\* and the format of its first chunk.
HeadOf(s, i) == IF i = 0 THEN Blank
                ELSE [len |-> s[i].len, type |-> s[i].type, sid |-> s[i].sid,
                      ts |-> s[i].ts]
IsFull(s, i) == LET j == Prev(s, i) IN
                j = 0 \/ s[i].ts < s[j].ts \/ s[i].sid # s[j].sid
TimeOf(s, i) == IF IsFull(s, i) THEN s[i].ts ELSE s[i].ts - s[Prev(s, i)].ts
DeltaOf(s, i) == IF i = 0 THEN 0 ELSE IF IsFull(s, i) THEN 0 ELSE TimeOf(s, i)
FormatOf(s, i) ==
  LET j == Prev(s, i) IN
  IF IsFull(s, i) THEN 0
  ELSE IF s[i].len # s[j].len \/ s[i].type # s[j].type THEN 1
  ELSE IF TimeOf(s, i) # DeltaOf(s, j) THEN 2 ELSE 3

\* The number of chunks of m; the chunks of message i of s.
Count(m) == (m.len + OutChunk - 1) \div OutChunk
Pieces(s, i) == Chunks(i, s[i], FormatOf(s, i), TimeOf(s, i))

\* The format of chunk k of message i, the number of its units that come before
\* the body, and the number of its body units.
ChunkFormat(s, i, k) == IF k = 1 THEN FormatOf(s, i) ELSE 3
Lead(s, i, k) == 1 + (3 - ChunkFormat(s, i, k))
                 + (IF TimeOf(s, i) < Cap THEN 0 ELSE 2)
Load(s, i, k) == Smaller(OutChunk, s[i].len - (k - 1) * OutChunk)

Units == ({"basic"} \X [fmt : 0..3, cs : ChunkStreams])
         \cup ({"ts"} \X (0..Cap))
         \cup ({"lentype"} \X [len : Nat \ {0}, type : {"size", "window", "data"}])
         \cup ({"sid"} \X Nat)
         \cup ({"ext"} \X (0..(Digit - 1)))
         \cup ({"body"} \X BodyBytes)

-----------------------------------------------------------------------------
(* Numbers                                                                   *)

LEMMA SizesAre ==
  /\ OutChunk \in Nat /\ OutChunk >= 1 /\ InChunk \in Nat /\ InChunk >= 1
  /\ InChunk <= OutChunk /\ MaxSent \in Nat
  /\ Window \in Nat /\ Window >= 1 /\ NewWindow \in Nat /\ NewWindow >= 1
  /\ Digit \in Nat /\ Digit >= 1 /\ Digit * Digit \in Nat /\ Digit * Digit >= 2
  /\ Cap \in Nat /\ Cap >= 1 /\ Cap < Digit * Digit
<1>1. Digit \in Nat /\ Digit * Digit \in Nat
  <2>1. \A z \in Nat : z * z \in Nat
    OBVIOUS
  <2> QED BY <2>1, SizesAssumption
<1>2. Cap \in Nat /\ Cap >= 1 /\ Cap < Digit * Digit
  BY <1>1, SizesAssumption
<1>3. Digit # 0
  <2>1. Digit = 0 => Digit * Digit = 0
    BY <1>1
  <2> QED BY <2>1, <1>1, <1>2
<1> QED BY <1>1, <1>2, <1>3, SizesAssumption

LEMMA Multiples ==
  ASSUME NEW c \in Nat, c >= 1
  PROVE  /\ \A k \in Nat : k * c \in Nat /\ (k + 1) * c = k * c + c
         /\ \A k \in Nat \ {0} : (k - 1) * c \in Nat /\ k * c = (k - 1) * c + c
         /\ \A k \in Nat, h \in Nat : k < h => k * c + c <= h * c
         /\ 0 * c = 0 /\ 1 * c = c
<1>1. \A k \in Nat : k * c \in Nat /\ (k + 1) * c = k * c + c
  OBVIOUS
<1>2. \A k \in Nat \ {0} : (k - 1) * c \in Nat /\ k * c = (k - 1) * c + c
  <2> SUFFICES ASSUME NEW k \in Nat \ {0}
               PROVE  (k - 1) * c \in Nat /\ k * c = (k - 1) * c + c
    OBVIOUS
  <2>1. k - 1 \in Nat /\ k - 1 + 1 = k
    OBVIOUS
  <2> QED BY <2>1, <1>1
<1>3. \A k \in Nat, h \in Nat : k < h => k * c + c <= h * c
  <2> SUFFICES ASSUME NEW k \in Nat, NEW h \in Nat, k < h
               PROVE  k * c + c <= h * c
    OBVIOUS
  <2>1. PICK d \in Nat : h = k + 1 + d
    <3>1. h - k - 1 \in Nat /\ h = k + 1 + (h - k - 1)
      OBVIOUS
    <3> QED BY <3>1
  <2>2. \A x \in Nat, y \in Nat : (x + y) * c = x * c + y * c /\ x * c \in Nat
    OBVIOUS
  <2>3. h * c = (k + 1) * c + d * c /\ d * c \in Nat /\ (k + 1) * c \in Nat
    BY <2>1, <2>2
  <2> QED BY <2>3, <1>1
<1>4. 0 * c = 0 /\ 1 * c = c
  OBVIOUS
<1> QED BY <1>1, <1>2, <1>3, <1>4

LEMMA Division ==
  \A a \in Nat, c \in Nat \ {0} : /\ a \div c \in Nat /\ a % c \in Nat /\ a % c < c
                                  /\ ((a \div c) * c) + (a % c) = a
OBVIOUS

\* A message has as many chunks as its length needs.
LEMMA CountIs ==
  ASSUME NEW m \in Catalogue
  PROVE  /\ Count(m) \in Nat /\ Count(m) >= 1
         /\ (Count(m) - 1) * OutChunk < m.len /\ m.len <= Count(m) * OutChunk
<1> DEFINE c == OutChunk
           a == m.len + c - 1
           q == a \div c
           r == a % c
<1>1. c \in Nat /\ c >= 1 /\ m.len \in Nat /\ m.len >= 1
  BY SizesAre, CatalogueAssumption
<1>2. a \in Nat /\ a >= c /\ c \in Nat \ {0}
  BY <1>1
<1>3. q \in Nat /\ r \in Nat /\ r < c /\ q * c + r = a /\ q * c \in Nat
  BY <1>1, <1>2, Division, Multiples
<1>4. q >= 1
  <2>1. q = 0 => q * c = 0
    BY <1>1, Multiples
  <2> QED BY <2>1, <1>2, <1>3
<1>5. (q - 1) * c \in Nat /\ q * c = (q - 1) * c + c
  <2>1. \A z \in Nat \ {0} : (z - 1) * c \in Nat /\ z * c = (z - 1) * c + c
    BY <1>1, Multiples
  <2>2. q \in Nat \ {0}
    BY <1>3, <1>4
  <2> HIDE DEF q
  <2> QED BY <2>1, <2>2
<1> HIDE DEF q, r
<1>6. (q - 1) * c < m.len /\ m.len <= q * c
  BY <1>1, <1>3, <1>5
<1> QED BY <1>3, <1>4, <1>6 DEF Count, q

\* Chunk k of message i: where it begins in the body and what it carries.
LEMMA LoadIs ==
  ASSUME NEW s \in Seq(Catalogue), NEW i \in 1..Len(s), NEW k \in 1..Count(s[i])
  PROVE  /\ k \in Nat /\ k >= 1
         /\ (k - 1) * OutChunk \in Nat /\ (k - 1) * OutChunk < s[i].len
         /\ Load(s, i, k) \in Nat /\ Load(s, i, k) >= 1
         /\ Load(s, i, k) <= OutChunk
         /\ (k - 1) * OutChunk + Load(s, i, k) <= s[i].len
         /\ k = Count(s[i]) => (k - 1) * OutChunk + Load(s, i, k) = s[i].len
         /\ k # Count(s[i]) => /\ k + 1 \in 1..Count(s[i])
                               /\ Load(s, i, k) = OutChunk
                               /\ (k - 1) * OutChunk + OutChunk < s[i].len
<1> DEFINE c == OutChunk
           n == Count(s[i])
           f == (k - 1) * c
<1>1. s[i] \in Catalogue /\ s[i].len \in Nat
  BY CatalogueAssumption, ElementOfSeq
<1>2. n \in Nat /\ n >= 1 /\ (n - 1) * c < s[i].len /\ s[i].len <= n * c
  BY <1>1, CountIs
<1>3. c \in Nat /\ c >= 1
  BY SizesAre
<1>4. k \in Nat /\ k >= 1 /\ k <= n /\ k - 1 \in Nat /\ n - 1 \in Nat
  BY <1>2
<1>5. f \in Nat /\ k * c = f + c /\ (n - 1) * c \in Nat /\ n * c = (n - 1) * c + c
  BY <1>2, <1>3, <1>4, Multiples
<1>6. f <= (n - 1) * c
  <2>1. CASE k = n
    BY <2>1, <1>5
  <2>2. CASE k # n
    <3>1. k - 1 < n - 1
      BY <2>2, <1>4, <1>2
    <3>2. f + c <= (n - 1) * c
      BY <3>1, <1>3, <1>4, Multiples
    <3> QED BY <3>2, <1>3, <1>5
  <2> QED BY <2>1, <2>2
<1>7. k = n => f = (n - 1) * c
  OBVIOUS
<1>8. k # n => f + c <= (n - 1) * c
  <2> HAVE k # n
  <2>1. k - 1 < n - 1
    BY <1>4, <1>2
  <2> QED BY <2>1, <1>3, <1>4, Multiples
<1>9. k # n => k + 1 \in 1..n
  BY <1>4, <1>2
<1>10. Load(s, i, k) = IF c < s[i].len - f THEN c ELSE s[i].len - f
  BY DEF Load, Smaller
<1>11. n * c = (n - 1) * c + c /\ (n - 1) * c \in Nat
  BY <1>5
<1> HIDE DEF f, n
<1>12. f < s[i].len
  BY <1>1, <1>2, <1>5, <1>6, <1>11
<1>13. /\ Load(s, i, k) \in Nat /\ Load(s, i, k) >= 1
       /\ Load(s, i, k) <= c /\ f + Load(s, i, k) <= s[i].len
  BY <1>1, <1>3, <1>5, <1>10, <1>12
<1>14. k = n => f + Load(s, i, k) = s[i].len
  BY <1>1, <1>2, <1>3, <1>5, <1>7, <1>10, <1>11
<1>15. k # n => Load(s, i, k) = c /\ f + c < s[i].len
  BY <1>1, <1>2, <1>3, <1>5, <1>8, <1>10, <1>11
<1> QED BY <1>4, <1>5, <1>9, <1>12, <1>13, <1>14, <1>15 DEF f, n

-----------------------------------------------------------------------------
(* Messages and their predecessors                                           *)

LEMMA MessageIs ==
  ASSUME NEW s \in Seq(Catalogue), NEW i \in 1..Len(s)
  PROVE  /\ s[i] \in Catalogue /\ s[i].cs \in ChunkStreams /\ s[i].cs \in Nat
         /\ s[i].type \in {"size", "window", "data"}
         /\ s[i].len \in Nat /\ s[i].len >= 1 /\ s[i].sid \in Nat
         /\ s[i].ts \in Nat /\ s[i].ts < Digit * Digit
         /\ s[i] = [cs |-> s[i].cs, type |-> s[i].type, len |-> s[i].len,
                    sid |-> s[i].sid, ts |-> s[i].ts]
<1>1. s[i] \in Catalogue
  BY ElementOfSeq
<1>2. s[i] \in [cs : Nat, type : {"size", "window", "data"},
                len : Nat \ {0}, sid : Nat, ts : 0..(Digit * Digit - 1)]
  BY <1>1, CatalogueAssumption
<1>3. s[i].cs \in ChunkStreams
  BY <1>1 DEF ChunkStreams
<1>4. s[i].ts \in 0..(Digit * Digit - 1)
  BY <1>2
<1>5. s[i].ts \in Nat /\ s[i].ts < Digit * Digit
  BY <1>4, SizesAre
<1> QED BY <1>1, <1>2, <1>3, <1>5

LEMMA PrevIs ==
  ASSUME NEW s \in Seq(Catalogue), NEW i \in 1..Len(s), NEW j \in 0..(i - 1),
         Links(s, j, i)
  PROVE  Prev(s, i) = j
<1>1. Prev(s, i) \in 0..(i - 1) /\ Links(s, Prev(s, i), i)
  BY DEF Prev
<1> DEFINE q == Prev(s, i)
<1> HIDE DEF q
<1>2. q \in Nat /\ j \in Nat /\ q <= i - 1 /\ j <= i - 1 /\ i \in Nat
      /\ Links(s, q, i)
  BY <1>1 DEF q
<1>3. ~(q < j)
  <2> SUFFICES ASSUME q < j PROVE FALSE
    OBVIOUS
  <2>1. j # 0 /\ j \in (q + 1)..(i - 1)
    BY <1>2
  <2> QED BY <2>1, <1>2 DEF Links
<1>4. ~(j < q)
  <2> SUFFICES ASSUME j < q PROVE FALSE
    OBVIOUS
  <2>1. q # 0 /\ q \in (j + 1)..(i - 1)
    BY <1>2
  <2> QED BY <2>1, <1>2 DEF Links
<1>5. q = j
  BY <1>2, <1>3, <1>4
<1> QED BY <1>5 DEF q

LEMMA TimeIs ==
  ASSUME NEW s \in Seq(Catalogue), Linked(s), NEW i \in 1..Len(s)
  PROVE  /\ Prev(s, i) \in 0..(i - 1) /\ Links(s, Prev(s, i), i)
         /\ ~IsFull(s, i) => Prev(s, i) \in 1..Len(s) /\ s[Prev(s, i)].ts <= s[i].ts
         /\ TimeOf(s, i) \in Nat /\ TimeOf(s, i) < Digit * Digit
         /\ TimeOf(s, i) <= s[i].ts
         /\ FormatOf(s, i) \in 0..3 /\ (FormatOf(s, i) = 0 <=> IsFull(s, i))
<1>1. PICK j \in 0..(i - 1) : Links(s, j, i)
  BY DEF Linked
<1>2. Prev(s, i) = j
  BY <1>1, PrevIs
<1>3. s[i].ts \in Nat /\ s[i].ts < Digit * Digit /\ s[i].sid \in Nat
  BY MessageIs
<1>4. j # 0 => j \in 1..Len(s) /\ s[j].ts \in Nat
  <2> HAVE j # 0
  <2>1. j \in 1..Len(s)
    OBVIOUS
  <2> QED BY <2>1, MessageIs
<1>5. ~IsFull(s, i) => j \in 1..Len(s) /\ s[j].ts \in Nat /\ s[j].ts <= s[i].ts
  BY <1>2, <1>3, <1>4 DEF IsFull
<1>6. /\ TimeOf(s, i) \in Nat /\ TimeOf(s, i) < Digit * Digit
      /\ TimeOf(s, i) <= s[i].ts
  <2>1. CASE IsFull(s, i)
    BY <2>1, <1>3 DEF TimeOf
  <2>2. CASE ~IsFull(s, i)
    <3>1. TimeOf(s, i) = s[i].ts - s[j].ts
      BY <2>2, <1>2 DEF TimeOf
    <3>2. Digit * Digit \in Nat
      BY SizesAre
    <3> QED BY <3>1, <3>2, <2>2, <1>3, <1>5
  <2> QED BY <2>1, <2>2
<1>7. FormatOf(s, i) \in 0..3 /\ (FormatOf(s, i) = 0 <=> IsFull(s, i))
  BY DEF FormatOf
<1> QED BY <1>1, <1>2, <1>5, <1>6, <1>7

LEMMA DeltaIs ==
  ASSUME NEW s \in Seq(Catalogue), Linked(s), NEW i \in 0..Len(s)
  PROVE  DeltaOf(s, i) \in Nat /\ DeltaOf(s, i) < Digit * Digit
<1>1. i = 0 \/ i \in 1..Len(s)
  OBVIOUS
<1>2. i \in 1..Len(s) => TimeOf(s, i) \in Nat /\ TimeOf(s, i) < Digit * Digit
  BY TimeIs
<1> QED BY <1>1, <1>2, SizesAre DEF DeltaOf

\* A message that is built later changes nothing for the earlier ones.
LEMMA Stable ==
  ASSUME NEW s \in Seq(Catalogue), Linked(s), NEW m \in Catalogue
  PROVE  LET t == Append(s, m) IN
         /\ t \in Seq(Catalogue) /\ Len(t) = Len(s) + 1 /\ t[Len(s) + 1] = m
         /\ \A i \in 1..Len(s) :
              /\ i \in 1..Len(t) /\ t[i] = s[i] /\ Prev(t, i) = Prev(s, i)
              /\ IsFull(t, i) = IsFull(s, i) /\ TimeOf(t, i) = TimeOf(s, i)
              /\ FormatOf(t, i) = FormatOf(s, i) /\ Pieces(t, i) = Pieces(s, i)
              /\ Links(t, Prev(s, i), i)
         /\ \A i \in 0..Len(s) : HeadOf(t, i) = HeadOf(s, i)
                                 /\ DeltaOf(t, i) = DeltaOf(s, i)
<1> DEFINE t == Append(s, m)
<1>1. /\ t \in Seq(Catalogue) /\ Len(t) = Len(s) + 1 /\ t[Len(s) + 1] = m
      /\ \A i \in 1..Len(s) : t[i] = s[i]
  BY AppendProperties
<1> HIDE DEF t
<1>2. ASSUME NEW i \in 1..Len(s)
      PROVE  /\ i \in 1..Len(t) /\ t[i] = s[i] /\ Prev(t, i) = Prev(s, i)
             /\ IsFull(t, i) = IsFull(s, i) /\ TimeOf(t, i) = TimeOf(s, i)
             /\ DeltaOf(t, i) = DeltaOf(s, i) /\ Links(t, Prev(s, i), i)
  <2> DEFINE j == Prev(s, i)
  <2>1. j \in 0..(i - 1) /\ Links(s, j, i)
    BY TimeIs
  <2> HIDE DEF j
  <2>2. i \in 1..Len(t) /\ t[i] = s[i] /\ i \in Nat
    BY <1>1
  <2>3. \A h \in 1..(i - 1) : t[h] = s[h]
    BY <1>1
  <2>4. j # 0 => t[j] = s[j]
    BY <2>1, <2>3
  <2>5. Links(t, j, i)
    <3>1. \A h \in (j + 1)..(i - 1) : h \in 1..(i - 1)
      BY <2>1
    <3> QED BY <2>1, <2>2, <2>3, <2>4, <3>1 DEF Links
  <2>6. Prev(t, i) = j
    BY <1>1, <2>1, <2>2, <2>5, PrevIs
  <2>7. IsFull(t, i) = IsFull(s, i)
    BY <2>2, <2>4, <2>6 DEF IsFull, j
  <2>8. ~IsFull(s, i) => j # 0
    BY DEF IsFull, j
  <2>9. TimeOf(t, i) = TimeOf(s, i)
    BY <2>2, <2>4, <2>6, <2>7, <2>8 DEF TimeOf, j
  <2>10. DeltaOf(t, i) = DeltaOf(s, i)
    BY <2>7, <2>9 DEF DeltaOf
  <2> QED BY <2>2, <2>5, <2>6, <2>7, <2>9, <2>10 DEF j
<1>3. \A i \in 0..Len(s) : /\ i = 0 \/ i \in 1..Len(s)
                           /\ HeadOf(t, i) = HeadOf(s, i)
                           /\ DeltaOf(t, i) = DeltaOf(s, i)
  <2> SUFFICES ASSUME NEW i \in 0..Len(s)
               PROVE  /\ i = 0 \/ i \in 1..Len(s)
                      /\ HeadOf(t, i) = HeadOf(s, i)
                      /\ DeltaOf(t, i) = DeltaOf(s, i)
    OBVIOUS
  <2>1. i = 0 \/ i \in 1..Len(s)
    OBVIOUS
  <2>2. i = 0 => HeadOf(t, i) = HeadOf(s, i) /\ DeltaOf(t, i) = DeltaOf(s, i)
    BY DEF HeadOf, DeltaOf
  <2>3. i \in 1..Len(s) => t[i] = s[i] /\ DeltaOf(t, i) = DeltaOf(s, i)
    BY <1>2
  <2> QED BY <2>1, <2>2, <2>3 DEF HeadOf
<1>4. ASSUME NEW i \in 1..Len(s)
      PROVE  FormatOf(t, i) = FormatOf(s, i) /\ Pieces(t, i) = Pieces(s, i)
  <2> DEFINE j == Prev(s, i)
  <2>1. j \in 0..(i - 1) /\ (~IsFull(s, i) => j \in 1..Len(s))
    BY TimeIs
  <2>2. j \in 0..Len(s)
    BY <2>1
  <2>3. DeltaOf(t, j) = DeltaOf(s, j)
    BY <1>3, <2>2
  <2>4. ~IsFull(s, i) => t[j] = s[j]
    BY <1>1, <2>1
  <2>5. FormatOf(t, i) = FormatOf(s, i)
    BY <1>2, <2>3, <2>4 DEF FormatOf
  <2> QED BY <1>2, <2>5 DEF Pieces
<1> QED BY <1>1, <1>2, <1>3, <1>4 DEF t

-----------------------------------------------------------------------------
(* The units of a chunk                                                      *)

LEMMA Joined ==
  ASSUME NEW S, NEW x \in Seq(S), NEW y \in Seq(S)
  PROVE  /\ x \o y \in Seq(S) /\ Len(x \o y) = Len(x) + Len(y)
         /\ \A u \in 1..Len(x) : (x \o y)[u] = x[u]
         /\ \A u \in 1..Len(y) : (x \o y)[Len(x) + u] = y[u]
<1>1. /\ x \o y \in Seq(S) /\ Len(x \o y) = Len(x) + Len(y)
      /\ \A u \in 1..(Len(x) + Len(y)) :
             (x \o y)[u] = IF u <= Len(x) THEN x[u] ELSE y[u - Len(x)]
  BY ConcatProperties
<1>2. Len(x) \in Nat /\ Len(y) \in Nat
  OBVIOUS
<1>3. ASSUME NEW u \in 1..Len(x) PROVE (x \o y)[u] = x[u]
  <2>1. u \in 1..(Len(x) + Len(y)) /\ u <= Len(x)
    BY <1>2
  <2> QED BY <2>1, <1>1
<1>4. ASSUME NEW u \in 1..Len(y) PROVE (x \o y)[Len(x) + u] = y[u]
  <2>1. /\ Len(x) + u \in 1..(Len(x) + Len(y)) /\ ~(Len(x) + u <= Len(x))
        /\ Len(x) + u - Len(x) = u
    BY <1>2
  <2> QED BY <2>1, <1>1
<1> QED BY <1>1, <1>3, <1>4

\* The same in a form that is cited as a whole.
Halves(S, x, y) ==
  /\ x \o y \in Seq(S) /\ Len(x \o y) = Len(x) + Len(y)
  /\ \A u \in 1..Len(x) : (x \o y)[u] = x[u]
  /\ \A u \in 1..Len(y) : (x \o y)[Len(x) + u] = y[u]
LEMMA TwoHalves ==
  ASSUME NEW S, NEW x \in Seq(S), NEW y \in Seq(S)
  PROVE  Halves(S, x, y)
BY Joined DEF Halves

Joins(x, y, z) == (x \o y) \o z = x \o (y \o z)
LEMMA Associative ==
  ASSUME NEW S, NEW x \in Seq(S), NEW y \in Seq(S), NEW z \in Seq(S)
  PROVE  Joins(x, y, z)
BY ConcatAssociative DEF Joins

LEMMA ThreeParts ==
  ASSUME NEW S, NEW x \in Seq(S), NEW y \in Seq(S), NEW z \in Seq(S)
  PROVE  LET w == x \o y \o z IN
         /\ w \in Seq(S) /\ Len(w) = Len(x) + Len(y) + Len(z)
         /\ \A u \in 1..Len(x) : w[u] = x[u]
         /\ \A u \in 1..Len(y) : w[Len(x) + u] = y[u]
         /\ \A u \in 1..Len(z) : w[Len(x) + Len(y) + u] = z[u]
<1>1. PICK v \in Seq(S) : v = x \o y
  BY Joined
<1>2. /\ Len(v) = Len(x) + Len(y)
      /\ \A u \in 1..Len(x) : v[u] = x[u]
      /\ \A u \in 1..Len(y) : v[Len(x) + u] = y[u]
  BY <1>1, Joined
<1>3. /\ v \o z \in Seq(S) /\ Len(v \o z) = Len(v) + Len(z)
      /\ \A u \in 1..Len(v) : (v \o z)[u] = v[u]
      /\ \A u \in 1..Len(z) : (v \o z)[Len(v) + u] = z[u]
  BY Joined
<1>4. Len(x) \in Nat /\ Len(y) \in Nat /\ Len(z) \in Nat
  OBVIOUS
<1>5. \A u \in 1..Len(x) : u \in 1..Len(v)
  BY <1>2, <1>4
<1>6. \A u \in 1..Len(y) : Len(x) + u \in 1..Len(v)
  BY <1>2, <1>4
<1>7. /\ \A u \in 1..Len(x) : (v \o z)[u] = x[u]
      /\ \A u \in 1..Len(y) : (v \o z)[Len(x) + u] = y[u]
      /\ \A u \in 1..Len(z) : (v \o z)[Len(x) + Len(y) + u] = z[u]
  BY <1>2, <1>3, <1>5, <1>6, Zenon
<1> QED BY <1>1, <1>2, <1>3, <1>7

\* x, y, z and b are the parts of their concatenation.
Parts(S, x, y, z, b) ==
  LET w == x \o y \o z \o b IN
  /\ w \in Seq(S) /\ Len(w) = Len(x) + Len(y) + Len(z) + Len(b)
  /\ \A u \in 1..Len(x) : w[u] = x[u]
  /\ \A u \in 1..Len(y) : w[Len(x) + u] = y[u]
  /\ \A u \in 1..Len(z) : w[Len(x) + Len(y) + u] = z[u]
  /\ \A u \in 1..Len(b) : w[Len(x) + Len(y) + Len(z) + u] = b[u]

LEMMA FourParts ==
  ASSUME NEW S, NEW x \in Seq(S), NEW y \in Seq(S), NEW z \in Seq(S), NEW b \in Seq(S)
  PROVE  Parts(S, x, y, z, b)
<1>1. PICK v \in Seq(S) : v = x \o y
  BY Joined
<1>2. /\ Len(v) = Len(x) + Len(y)
      /\ \A u \in 1..Len(x) : v[u] = x[u]
      /\ \A u \in 1..Len(y) : v[Len(x) + u] = y[u]
  BY <1>1, Joined
<1>3. LET w == v \o z \o b IN
      /\ w \in Seq(S) /\ Len(w) = Len(v) + Len(z) + Len(b)
      /\ \A u \in 1..Len(v) : w[u] = v[u]
      /\ \A u \in 1..Len(z) : w[Len(v) + u] = z[u]
      /\ \A u \in 1..Len(b) : w[Len(v) + Len(z) + u] = b[u]
  BY ThreeParts
<1>4. Len(x) \in Nat /\ Len(y) \in Nat /\ Len(z) \in Nat
  OBVIOUS
<1>5. \A u \in 1..Len(x) : u \in 1..Len(v)
  BY <1>2, <1>4
<1>6. \A u \in 1..Len(y) : Len(x) + u \in 1..Len(v)
  BY <1>2, <1>4
<1>7. LET w == v \o z \o b IN
      /\ \A u \in 1..Len(x) : w[u] = x[u]
      /\ \A u \in 1..Len(y) : w[Len(x) + u] = y[u]
      /\ \A u \in 1..Len(z) : w[Len(x) + Len(y) + u] = z[u]
      /\ \A u \in 1..Len(b) : w[Len(x) + Len(y) + Len(z) + u] = b[u]
  BY <1>2, <1>3, <1>5, <1>6, Zenon
<1> QED BY <1>1, <1>2, <1>3, <1>7 DEF Parts

LEMMA HeaderUnitsAre ==
  ASSUME NEW s \in Seq(Catalogue), NEW i \in 1..Len(s), NEW f \in 0..3, NEW t \in Nat
  PROVE  LET h == HeaderUnits(f, s[i], t) IN
         /\ h \in Seq(Units) /\ Len(h) = 3 - f
         /\ f <= 2 => h[1] = <<"ts", Field24(t)>>
         /\ f <= 1 => h[2] = <<"lentype", [len |-> s[i].len, type |-> s[i].type]>>
         /\ f = 0 => h[3] = <<"sid", s[i].sid>>
         /\ \A u \in 1..(3 - f) : h[u][1] \in {"ts", "lentype", "sid"}
<1> DEFINE a == <<"ts", Field24(t)>>
           b == <<"lentype", [len |-> s[i].len, type |-> s[i].type]>>
           c == <<"sid", s[i].sid>>
           h == SubSeq(<<a, b, c>>, 1, 3 - f)
<1>1. s[i].len \in Nat \ {0} /\ s[i].type \in {"size", "window", "data"}
      /\ s[i].sid \in Nat
  <2>1. /\ s[i].len \in Nat /\ s[i].len >= 1 /\ s[i].sid \in Nat
        /\ s[i].type \in {"size", "window", "data"}
    BY MessageIs
  <2> QED BY <2>1
<1>2. Field24(t) \in 0..Cap
  BY SizesAre DEF Field24, Smaller
<1>3. a \in Units /\ b \in Units /\ c \in Units
  BY <1>1, <1>2 DEF Units
<1>4. a[1] = "ts" /\ b[1] = "lentype" /\ c[1] = "sid"
  OBVIOUS
<1> HIDE DEF a, b, c
<1>5. <<a, b, c>> \in Seq(Units) /\ Len(<<a, b, c>>) = 3
      /\ <<a, b, c>>[1] = a /\ <<a, b, c>>[2] = b /\ <<a, b, c>>[3] = c
  BY <1>3
<1>6. \A u \in 1..(3 - f) : <<a, b, c>>[u] \in Units
  BY <1>5
<1>7. /\ h \in Seq(Units) /\ Len(h) = IF 1 <= 3 - f THEN 3 - f - 1 + 1 ELSE 0
      /\ \A u \in 1..(3 - f - 1 + 1) : h[u] = <<a, b, c>>[1 + u - 1]
  BY <1>6, SubSeqProperties
<1>8. Len(h) = 3 - f /\ \A u \in 1..(3 - f) : h[u] = <<a, b, c>>[u]
  <2>1. \A u \in 1..(3 - f) : u \in 1..(3 - f - 1 + 1) /\ 1 + u - 1 = u
    OBVIOUS
  <2>2. Len(h) = 3 - f
    BY <1>7
  <2> HIDE DEF h
  <2> QED BY <1>7, <2>1, <2>2
<1> HIDE DEF h
<1>9. /\ f <= 2 => h[1] = a
      /\ f <= 1 => h[2] = b
      /\ f = 0 => h[3] = c
  BY <1>8, <1>5
<1>10. \A u \in 1..(3 - f) : h[u] \in {a, b, c}
  BY <1>8, <1>5
<1> QED BY <1>4, <1>7, <1>8, <1>9, <1>10 DEF HeaderUnits, h, a, b, c

LEMMA ExtUnitsAre ==
  ASSUME NEW t \in Nat, t < Digit * Digit
  PROVE  /\ ExtUnits(t) \in Seq(Units)
         /\ Len(ExtUnits(t)) = IF t < Cap THEN 0 ELSE 2
         /\ \A u \in 1..Len(ExtUnits(t)) : ExtUnits(t)[u][1] = "ext"
<1> DEFINE d == Digit
           q == t \div d
           r == t % d
           a == <<"ext", r>>
           b == <<"ext", q>>
<1>1. d \in Nat /\ d >= 1 /\ d * d \in Nat
  BY SizesAre
<1>2. q \in Nat /\ r \in Nat /\ r < d /\ (q * d) + r = t /\ q * d \in Nat
  <2>1. d \in Nat \ {0}
    BY <1>1
  <2>2. q \in Nat /\ r \in Nat /\ r < d /\ (q * d) + r = t
    BY <2>1, Division
  <2>3. q * d \in Nat
    BY <2>2, <1>1, Multiples
  <2> QED BY <2>2, <2>3
<1>3. q < d
  <2>1. CASE d < q
    <3>1. d * d + d <= q * d
      BY <2>1, <1>1, <1>2, Multiples
    <3> QED BY <3>1, <1>1, <1>2
  <2>2. d = q => q * d = d * d
    OBVIOUS
  <2> HIDE DEF q, r, d
  <2>3. d # q
    BY <2>2, <1>1, <1>2 DEF d
  <2> QED BY <2>1, <2>3, <1>1, <1>2
<1>4. q \in 0..(Digit - 1) /\ r \in 0..(Digit - 1)
  BY <1>1, <1>2, <1>3
<1>5. a \in Units /\ b \in Units
  BY <1>4 DEF Units
<1>6. a[1] = "ext" /\ b[1] = "ext"
  OBVIOUS
<1>7. ExtUnits(t) = IF t < Cap THEN <<>> ELSE <<a, b>>
  BY DEF ExtUnits
<1> HIDE DEF a, b
<1>8. /\ <<a, b>> \in Seq(Units) /\ Len(<<a, b>>) = 2
      /\ <<a, b>>[1] = a /\ <<a, b>>[2] = b
  BY <1>5
<1>9. CASE t < Cap
  <2>1. ExtUnits(t) = <<>> /\ <<>> \in Seq(Units) /\ Len(<<>>) = 0
    BY <1>7, <1>9
  <2> QED BY <2>1, <1>9
<1>10. CASE ~(t < Cap)
  <2>1. ExtUnits(t) = <<a, b>>
    BY <1>7, <1>10
  <2>2. \A u \in 1..2 : <<a, b>>[u] \in {a, b}
    BY <1>8
  <2> QED BY <2>1, <2>2, <1>6, <1>8, <1>10
<1> QED BY <1>9, <1>10

\* Chunk k of message i.
LEMMA Shape ==
  ASSUME NEW s \in Seq(Catalogue), Linked(s), Len(s) <= MaxSent,
         NEW i \in 1..Len(s), NEW k \in 1..Count(s[i])
  PROVE  LET w == Pieces(s, i)[k]
             l == Lead(s, i, k)
             f == ChunkFormat(s, i, k)
         IN  /\ w \in Seq(Units) /\ Len(w) = l + Load(s, i, k)
             /\ l \in Nat /\ l >= 1 /\ f \in 0..3
             /\ w[1] = <<"basic", [fmt |-> f, cs |-> s[i].cs]>>
             /\ f <= 2 => w[2] = <<"ts", Field24(TimeOf(s, i))>>
             /\ f <= 1 => w[3] = <<"lentype", [len |-> s[i].len, type |-> s[i].type]>>
             /\ f = 0 => w[4] = <<"sid", s[i].sid>>
             /\ \A u \in 2..l : w[u][1] \notin {"basic", "body"}
             /\ \A u \in (5 - f)..l : w[u][1] = "ext"
             /\ \A u \in 1..Load(s, i, k) :
                  w[l + u] = <<"body", <<i, (k - 1) * OutChunk + u>> >>
<1> DEFINE t == TimeOf(s, i)
           f == ChunkFormat(s, i, k)
           n == Load(s, i, k)
           bh == << <<"basic", [fmt |-> f, cs |-> s[i].cs]>> >>
           mh == HeaderUnits(f, s[i], t)
           et == ExtUnits(t)
           bd == [j \in 1..n |-> <<"body", <<i, (k - 1) * OutChunk + j>> >>]
           ch == bh \o mh \o et \o bd
           l == Lead(s, i, k)
<1>1. Pieces(s, i)[k] = ch
  BY DEF Pieces, Chunks, Count, ChunkFormat, Load
<1>2. /\ t \in Nat /\ t < Digit * Digit /\ f \in 0..3
      /\ s[i].cs \in ChunkStreams
  <2>1. t \in Nat /\ t < Digit * Digit /\ FormatOf(s, i) \in 0..3
    BY TimeIs
  <2>2. s[i].cs \in ChunkStreams
    BY MessageIs
  <2>3. f \in 0..3
    BY <2>1 DEF ChunkFormat
  <2> QED BY <2>1, <2>2, <2>3
<1>3. n \in Nat /\ n >= 1 /\ (k - 1) * OutChunk \in Nat
  BY LoadIs
<1> HIDE DEF t, f, n
<1>4. bh \in Seq(Units) /\ Len(bh) = 1 /\ bh[1] = <<"basic", [fmt |-> f, cs |-> s[i].cs]>>
  <2>1. <<"basic", [fmt |-> f, cs |-> s[i].cs]>> \in Units
    BY <1>2 DEF Units
  <2> QED BY <2>1
<1>5. /\ mh \in Seq(Units) /\ Len(mh) = 3 - f
      /\ f <= 2 => mh[1] = <<"ts", Field24(t)>>
      /\ f <= 1 => mh[2] = <<"lentype", [len |-> s[i].len, type |-> s[i].type]>>
      /\ f = 0 => mh[3] = <<"sid", s[i].sid>>
      /\ \A u \in 1..(3 - f) : mh[u][1] \in {"ts", "lentype", "sid"}
  BY <1>2, HeaderUnitsAre
<1>6. /\ et \in Seq(Units) /\ Len(et) = IF t < Cap THEN 0 ELSE 2
      /\ \A u \in 1..Len(et) : et[u][1] = "ext"
  BY <1>2, ExtUnitsAre
<1>7. bd \in Seq(Units) /\ Len(bd) = n
      /\ \A u \in 1..n : bd[u] = <<"body", <<i, (k - 1) * OutChunk + u>> >>
  <2>1. \A u \in 1..n : <<"body", <<i, (k - 1) * OutChunk + u>> >> \in Units
    <3> SUFFICES ASSUME NEW u \in 1..n
                 PROVE  <<"body", <<i, (k - 1) * OutChunk + u>> >> \in Units
      OBVIOUS
    <3>1. (k - 1) * OutChunk + u \in Nat \ {0} /\ i \in 1..MaxSent
      BY <1>3, SizesAre
    <3> QED BY <3>1 DEF Units, BodyBytes
  <2>2. bd \in [1..n -> Units]
    BY <2>1
  <2> QED BY <2>2, <1>3
<1> HIDE DEF bh, mh, et, bd
<1>8. /\ ch \in Seq(Units) /\ Len(ch) = Len(bh) + Len(mh) + Len(et) + Len(bd)
      /\ \A u \in 1..Len(bh) : ch[u] = bh[u]
      /\ \A u \in 1..Len(mh) : ch[Len(bh) + u] = mh[u]
      /\ \A u \in 1..Len(et) : ch[Len(bh) + Len(mh) + u] = et[u]
      /\ \A u \in 1..Len(bd) : ch[Len(bh) + Len(mh) + Len(et) + u] = bd[u]
  <2>1. /\ bh \in Seq(Units) /\ mh \in Seq(Units) /\ et \in Seq(Units)
        /\ bd \in Seq(Units)
    BY <1>4, <1>5, <1>6, <1>7
  <2>2. Parts(Units, bh, mh, et, bd)
    BY <2>1, FourParts
  <2> QED BY <2>2, Zenon DEF Parts
<1> HIDE DEF ch
<1>9. l = 1 + (3 - f) + Len(et) /\ Len(et) \in Nat
  BY <1>6 DEF l, Lead, f, t
<1> HIDE DEF l
<1>10. l \in Nat /\ l >= 1 /\ Len(ch) = l + n /\ l >= 4 - f
  <2>1. Len(bh) = 1 /\ Len(mh) = 3 - f /\ Len(bd) = n
    BY <1>4, <1>5, <1>7
  <2>2. Len(ch) = Len(bh) + Len(mh) + Len(et) + Len(bd)
    BY <1>8
  <2> QED BY <2>1, <2>2, <1>2, <1>3, <1>9
<1>11. ch[1] = <<"basic", [fmt |-> f, cs |-> s[i].cs]>>
  BY <1>4, <1>8
<1>12. \A u \in 1..(3 - f) : ch[1 + u] = mh[u]
  BY <1>4, <1>5, <1>8
<1>13. \A u \in 1..Len(et) : ch[(4 - f) + u] = et[u]
  <2>1. Len(bh) + Len(mh) = 4 - f
    BY <1>2, <1>4, <1>5
  <2> QED BY <2>1, <1>8
<1>14. \A u \in 1..n : ch[l + u] = bd[u]
  <2>1. Len(bh) + Len(mh) + Len(et) = l
    BY <1>2, <1>4, <1>5, <1>9
  <2> QED BY <2>1, <1>7, <1>8
<1>15. f <= 2 => ch[2] = mh[1]
  <2>1. f <= 2 => 1 \in 1..(3 - f)
    BY <1>2
  <2>2. 1 + 1 = 2
    OBVIOUS
  <2> QED BY <2>1, <2>2, <1>12
<1>16. f <= 1 => ch[3] = mh[2]
  <2>1. f <= 1 => 2 \in 1..(3 - f)
    BY <1>2
  <2>2. 1 + 2 = 3
    OBVIOUS
  <2> QED BY <2>1, <2>2, <1>12
<1>17. f = 0 => ch[4] = mh[3]
  <2>1. f = 0 => 3 \in 1..(3 - f)
    BY <1>2
  <2>2. 1 + 3 = 4
    OBVIOUS
  <2> QED BY <2>1, <2>2, <1>12
<1>18. ASSUME NEW u \in (5 - f)..l PROVE ch[u][1] = "ext"
  <2>1. u - (4 - f) \in 1..Len(et) /\ (4 - f) + (u - (4 - f)) = u
    BY <1>2, <1>9
  <2> QED BY <2>1, <1>13, <1>6
<1>19. ASSUME NEW u \in 2..l PROVE ch[u][1] \notin {"basic", "body"}
  <2>1. CASE u <= 4 - f
    <3>1. u - 1 \in 1..(3 - f) /\ 1 + (u - 1) = u
      BY <2>1, <1>2
    <3>2. ch[u] = mh[u - 1] /\ mh[u - 1][1] \in {"ts", "lentype", "sid"}
      BY <3>1, <1>12, <1>5
    <3> QED BY <3>2
  <2>2. CASE u > 4 - f
    <3>1. u \in (5 - f)..l
      BY <2>2, <1>2
    <3> QED BY <3>1, <1>18
  <2> QED BY <2>1, <2>2, <1>2
<1>20. \A u \in 1..n : ch[l + u] = <<"body", <<i, (k - 1) * OutChunk + u>> >>
  BY <1>14, <1>7
<1>21. f <= 2 => ch[2] = <<"ts", Field24(t)>>
  BY <1>15, <1>5
<1>22. /\ f <= 1 => ch[3] = <<"lentype", [len |-> s[i].len, type |-> s[i].type]>>
       /\ f = 0 => ch[4] = <<"sid", s[i].sid>>
  <2>1. f <= 1 => f <= 2
    BY <1>2
  <2> QED BY <2>1, <1>16, <1>17, <1>5
<1> QED
  BY <1>1, <1>2, <1>8, <1>10, <1>11, <1>18, <1>19, <1>20, <1>21, <1>22
     DEF l, f, n, t

-----------------------------------------------------------------------------
(* The chunks in a stream                                                    *)

Sound(s) == s \in Seq(Catalogue) /\ Linked(s) /\ Len(s) <= MaxSent

Starts(st) == {p \in 1..Len(st) : st[p][1] = "basic"}

\* Chunk k of message i is in st from p on, and a chunk or nothing follows it.
PieceAt(st, s, p, i, k) ==
  /\ p \in Starts(st) /\ i \in 1..Len(s) /\ k \in 1..Count(s[i])
  /\ LET w == Pieces(s, i)[k] IN
       /\ \A u \in 1..Len(w) : p + u - 1 \in 1..Len(st) /\ st[p + u - 1] = w[u]
       /\ p + Len(w) = Len(st) + 1 \/ p + Len(w) \in Starts(st)

\* Whatever looks like the beginning of a chunk is one.
Identified(st, s) ==
  \A p \in Starts(st) : \E i \in 1..Len(s) : \E k \in 1..Count(s[i]) :
     PieceAt(st, s, p, i, k)

\* The body tells which chunk it is.
LEMMA OneIdentity ==
  ASSUME NEW s, Sound(s), NEW st \in Seq(Units), NEW p, NEW i, NEW k, NEW g, NEW h,
         PieceAt(st, s, p, i, k), PieceAt(st, s, p, g, h)
  PROVE  i = g /\ k = h
<1> DEFINE v == Pieces(s, i)[k]
           w == Pieces(s, g)[h]
           l == Lead(s, i, k)
           e == Lead(s, g, h)
           c == OutChunk
<1>0. s \in Seq(Catalogue) /\ Linked(s) /\ Len(s) <= MaxSent
  BY DEF Sound
<1>1. /\ i \in 1..Len(s) /\ k \in 1..Count(s[i]) /\ p \in Nat
      /\ g \in 1..Len(s) /\ h \in 1..Count(s[g])
      /\ \A u \in 1..Len(v) : st[p + u - 1] = v[u]
      /\ \A u \in 1..Len(w) : st[p + u - 1] = w[u]
  BY DEF PieceAt, Starts
<1>2. /\ l \in Nat /\ l >= 1 /\ Len(v) = l + Load(s, i, k)
      /\ \A u \in 2..l : v[u][1] \notin {"basic", "body"}
      /\ \A u \in 1..Load(s, i, k) : v[l + u] = <<"body", <<i, (k - 1) * c + u>> >>
  BY <1>0, <1>1, Shape
<1>3. /\ e \in Nat /\ e >= 1 /\ Len(w) = e + Load(s, g, h)
      /\ \A u \in 2..e : w[u][1] \notin {"basic", "body"}
      /\ \A u \in 1..Load(s, g, h) : w[e + u] = <<"body", <<g, (h - 1) * c + u>> >>
  BY <1>0, <1>1, Shape
<1>4. /\ Load(s, i, k) \in Nat /\ Load(s, i, k) >= 1 /\ k \in Nat /\ k >= 1
      /\ Load(s, g, h) \in Nat /\ Load(s, g, h) >= 1 /\ h \in Nat /\ h >= 1
  BY <1>0, <1>1, LoadIs
<1>5. v[l + 1] = <<"body", <<i, (k - 1) * c + 1>> >> /\ l + 1 \in 1..Len(v)
  BY <1>2, <1>4
<1>6. w[e + 1] = <<"body", <<g, (h - 1) * c + 1>> >> /\ e + 1 \in 1..Len(w)
  BY <1>3, <1>4
<1> HIDE DEF v, w, l, e
<1>7. ~(l < e)
  <2> SUFFICES ASSUME l < e PROVE FALSE
    OBVIOUS
  <2>1. l + 1 \in 2..e /\ l + 1 \in 1..Len(w)
    BY <1>2, <1>3, <1>4
  <2>2. w[l + 1] = v[l + 1]
    BY <2>1, <1>1, <1>5
  <2> QED BY <2>1, <2>2, <1>3, <1>5
<1>8. ~(e < l)
  <2> SUFFICES ASSUME e < l PROVE FALSE
    OBVIOUS
  <2>1. e + 1 \in 2..l /\ e + 1 \in 1..Len(v)
    BY <1>2, <1>3, <1>4
  <2>2. v[e + 1] = w[e + 1]
    BY <2>1, <1>1, <1>6
  <2> QED BY <2>1, <2>2, <1>2, <1>6
<1>9. l = e
  BY <1>2, <1>3, <1>7, <1>8
<1>10. v[l + 1] = w[l + 1]
  BY <1>1, <1>5, <1>6, <1>9
<1>11. <<i, (k - 1) * c + 1>> = <<g, (h - 1) * c + 1>>
  BY <1>5, <1>6, <1>9, <1>10
<1>12. i = g /\ (k - 1) * c + 1 = (h - 1) * c + 1
  BY <1>11
<1>13. c \in Nat /\ c >= 1 /\ k - 1 \in Nat /\ h - 1 \in Nat
  BY <1>4, SizesAre
<1>14. (k - 1) * c \in Nat /\ (h - 1) * c \in Nat
  BY <1>13, Multiples
<1>15. /\ k - 1 < h - 1 => (k - 1) * c + c <= (h - 1) * c
       /\ h - 1 < k - 1 => (h - 1) * c + c <= (k - 1) * c
  BY <1>13, Multiples
<1>16. ~(k - 1 < h - 1) /\ ~(h - 1 < k - 1)
  BY <1>12, <1>13, <1>14, <1>15
<1> QED BY <1>4, <1>12, <1>16

\* A chunk is written behind the stream.
LEMMA Longer ==
  ASSUME NEW s, Sound(s), NEW st \in Seq(Units), Identified(st, s),
         NEW g \in 1..Len(s), NEW h \in 1..Count(s[g])
  PROVE  LET t == st \o Pieces(s, g)[h] IN
         /\ t \in Seq(Units) /\ Identified(t, s)
         /\ PieceAt(t, s, Len(st) + 1, g, h)
         /\ \A p, i, k : PieceAt(t, s, p, i, k) <=>
              \/ PieceAt(st, s, p, i, k)
              \/ p = Len(st) + 1 /\ i = g /\ k = h
<1> DEFINE w == Pieces(s, g)[h]
           t == st \o w
           n == Len(st)
<1>0. s \in Seq(Catalogue) /\ Linked(s) /\ Len(s) <= MaxSent
  BY DEF Sound
<1>1. /\ w \in Seq(Units) /\ Len(w) \in Nat /\ Len(w) >= 2
      /\ w[1][1] = "basic" /\ \A u \in 2..Len(w) : w[u][1] # "basic"
  <2> DEFINE l == Lead(s, g, h)
             b == Load(s, g, h)
  <2>1. /\ w \in Seq(Units) /\ Len(w) = l + b /\ l \in Nat /\ l >= 1
        /\ w[1] = <<"basic", [fmt |-> ChunkFormat(s, g, h), cs |-> s[g].cs]>>
        /\ \A u \in 2..l : w[u][1] \notin {"basic", "body"}
        /\ \A u \in 1..b : w[l + u] = <<"body", <<g, (h - 1) * OutChunk + u>> >>
    BY <1>0, Shape
  <2>2. b \in Nat /\ b >= 1
    BY <1>0, LoadIs
  <2> HIDE DEF l, b, w
  <2>3. ASSUME NEW u \in 2..Len(w) PROVE w[u][1] # "basic"
    <3>1. CASE u <= l
      BY <3>1, <2>1
    <3>2. CASE u > l
      <4>1. u - l \in 1..b /\ l + (u - l) = u
        BY <3>2, <2>1, <2>2
      <4>2. w[u] = <<"body", <<g, (h - 1) * OutChunk + (u - l)>> >>
        BY <4>1, <2>1
      <4> QED BY <4>2
    <3> QED BY <3>1, <3>2, <2>1
  <2> QED BY <2>1, <2>2, <2>3
<1>2. /\ t \in Seq(Units) /\ Len(t) = n + Len(w) /\ n \in Nat
      /\ \A u \in 1..n : t[u] = st[u]
      /\ \A u \in 1..Len(w) : t[n + u] = w[u]
  BY <1>1, Joined
<1> HIDE DEF w, t, n
<1>3. \A p : p \in Starts(t) <=> p \in Starts(st) \/ p = n + 1
  <2> SUFFICES ASSUME NEW p
               PROVE  p \in Starts(t) <=> p \in Starts(st) \/ p = n + 1
    OBVIOUS
  <2>1. ASSUME p \in Starts(t), p # n + 1 PROVE p \in Starts(st)
    <3>1. p \in 1..Len(t) /\ t[p][1] = "basic"
      BY <2>1 DEF Starts
    <3>2. CASE p <= n
      <4>1. p \in 1..n
        BY <3>1, <3>2, <1>2
      <4>2. p \in 1..Len(st) /\ st[p][1] = "basic"
        BY <4>1, <3>1, <1>2 DEF n
      <4> QED BY <4>2 DEF Starts
    <3>3. CASE p > n
      <4>1. p - n \in 2..Len(w) /\ p - n \in 1..Len(w) /\ n + (p - n) = p
        BY <3>1, <3>3, <2>1, <1>1, <1>2
      <4>2. t[p] = w[p - n]
        BY <4>1, <1>2
      <4> QED BY <4>1, <4>2, <3>1, <1>1
    <3> QED BY <3>1, <3>2, <3>3, <1>1, <1>2
  <2>2. ASSUME p \in Starts(st) PROVE p \in Starts(t)
    <3>1. p \in 1..n /\ st[p][1] = "basic"
      BY <2>2 DEF Starts, n
    <3>2. p \in 1..Len(t) /\ t[p][1] = "basic"
      BY <3>1, <1>1, <1>2
    <3> QED BY <3>2 DEF Starts
  <2>3. ASSUME p = n + 1 PROVE p \in Starts(t)
    <3>1. 1 \in 1..Len(w) /\ n + 1 \in 1..Len(t)
      BY <1>1, <1>2
    <3>2. t[n + 1] = w[1]
      BY <3>1, <1>2
    <3> QED BY <3>1, <3>2, <2>3, <1>1 DEF Starts
  <2> QED BY <2>1, <2>2, <2>3
<1>4. ASSUME NEW p, NEW i, NEW k, PieceAt(st, s, p, i, k)
      PROVE  PieceAt(t, s, p, i, k)
  <2> DEFINE v == Pieces(s, i)[k]
  <2>1. /\ p \in Starts(st) /\ i \in 1..Len(s) /\ k \in 1..Count(s[i])
        /\ \A u \in 1..Len(v) : p + u - 1 \in 1..Len(st) /\ st[p + u - 1] = v[u]
        /\ p + Len(v) = Len(st) + 1 \/ p + Len(v) \in Starts(st)
    BY <1>4 DEF PieceAt
  <2> HIDE DEF v
  <2>2. p \in Starts(t)
    BY <2>1, <1>3
  <2>3. \A u \in 1..n : u \in 1..Len(t) /\ t[u] = st[u]
    BY <1>1, <1>2
  <2>4. \A u \in 1..Len(v) : p + u - 1 \in 1..Len(t) /\ t[p + u - 1] = v[u]
    BY <2>1, <2>3 DEF n
  <2>5. p + Len(v) \in Starts(t)
    BY <2>1, <1>3 DEF n
  <2> QED BY <2>1, <2>2, <2>4, <2>5 DEF PieceAt, v
<1>5. PieceAt(t, s, n + 1, g, h)
  <2>1. n + 1 \in Starts(t)
    BY <1>3
  <2>2. ASSUME NEW u \in 1..Len(w)
        PROVE  n + 1 + u - 1 \in 1..Len(t) /\ t[n + 1 + u - 1] = w[u]
    <3>1. n + 1 + u - 1 = n + u /\ n + u \in 1..Len(t)
      BY <1>1, <1>2
    <3> QED BY <3>1, <1>2
  <2>3. n + 1 + Len(w) = Len(t) + 1
    BY <1>1, <1>2
  <2> QED BY <2>1, <2>2, <2>3 DEF PieceAt, w
<1>6. Identified(t, s)
  <2> SUFFICES ASSUME NEW p \in Starts(t)
               PROVE  \E i \in 1..Len(s) : \E k \in 1..Count(s[i]) :
                         PieceAt(t, s, p, i, k)
    BY DEF Identified
  <2>1. p = n + 1 => PieceAt(t, s, p, g, h)
    BY <1>5
  <2>2. p \in Starts(st) => \E i \in 1..Len(s) : \E k \in 1..Count(s[i]) :
                               PieceAt(st, s, p, i, k)
    BY DEF Identified
  <2> QED BY <2>1, <2>2, <1>3, <1>4
<1>7. ASSUME NEW p, NEW i, NEW k, PieceAt(t, s, p, i, k)
      PROVE  \/ PieceAt(st, s, p, i, k)
             \/ p = n + 1 /\ i = g /\ k = h
  <2>1. p \in Starts(st) \/ p = n + 1
    BY <1>7, <1>3 DEF PieceAt
  <2>2. CASE p = n + 1
    BY <2>2, <1>2, <1>5, <1>7, OneIdentity
  <2>3. CASE p \in Starts(st)
    <3>1. PICK i0, k0 : PieceAt(st, s, p, i0, k0)
      BY <2>3 DEF Identified
    <3>2. i0 = i /\ k0 = k
      BY <3>1, <1>2, <1>4, <1>7, OneIdentity
    <3> QED BY <3>1, <3>2
  <2> QED BY <2>1, <2>2, <2>3
<1>8. \A p, i, k : PieceAt(t, s, p, i, k) <=>
              \/ PieceAt(st, s, p, i, k)
              \/ p = n + 1 /\ i = g /\ k = h
  BY <1>4, <1>5, <1>7
<1> QED BY <1>2, <1>5, <1>6, <1>8 DEF t, w, n

\* The beginning of the stream is taken off.
LEMMA Shorter ==
  ASSUME NEW s, Sound(s), NEW st \in Seq(Units), Identified(st, s),
         NEW n \in 0..Len(st)
  PROVE  LET t == SubSeq(st, n + 1, Len(st)) IN
         /\ t \in Seq(Units) /\ Len(t) = Len(st) - n /\ Identified(t, s)
         /\ \A p : p \in Starts(t) <=> p \in Nat \ {0} /\ p + n \in Starts(st)
         /\ \A p, i, k : PieceAt(t, s, p, i, k) <=>
              p \in Nat \ {0} /\ PieceAt(st, s, p + n, i, k)
<1> DEFINE t == SubSeq(st, n + 1, Len(st))
           m == Len(st)
<1>1. t \in Seq(Units) /\ Len(t) = m - n /\ m \in Nat /\ n \in Nat /\ n <= m
      /\ \A u \in 1..(m - n) : t[u] = st[u + n]
  <2>1. m \in Nat /\ n \in Nat /\ n <= m
    OBVIOUS
  <2>2. \A u \in (n + 1)..m : st[u] \in Units
    BY <2>1, ElementOfSeq
  <2>3. /\ t \in Seq(Units)
        /\ Len(t) = IF n + 1 <= m THEN m - (n + 1) + 1 ELSE 0
        /\ \A u \in 1..(m - (n + 1) + 1) : t[u] = st[n + 1 + u - 1]
    BY <2>1, <2>2, SubSeqProperties
  <2> HIDE DEF t
  <2>4. Len(t) = m - n
    BY <2>1, <2>3
  <2>5. \A u \in 1..(m - n) : u \in 1..(m - (n + 1) + 1) /\ n + 1 + u - 1 = u + n
    BY <2>1
  <2>6. \A u \in 1..(m - n) : t[u] = st[u + n]
    BY <2>3, <2>5
  <2> QED BY <2>1, <2>3, <2>4, <2>6
<1> HIDE DEF t, m
<1>2. \A p : p \in Starts(t) <=> p \in Nat \ {0} /\ p + n \in Starts(st)
  <2> SUFFICES ASSUME NEW p
               PROVE  p \in Starts(t) <=> p \in Nat \ {0} /\ p + n \in Starts(st)
    OBVIOUS
  <2>1. ASSUME p \in Starts(t) PROVE p \in Nat \ {0} /\ p + n \in Starts(st)
    <3>1. p \in 1..(m - n) /\ t[p][1] = "basic"
      BY <2>1, <1>1 DEF Starts
    <3>2. p \in Nat \ {0} /\ p + n \in 1..m /\ st[p + n][1] = "basic"
      BY <3>1, <1>1
    <3> QED BY <3>2 DEF Starts, m
  <2>2. ASSUME p \in Nat \ {0}, p + n \in Starts(st) PROVE p \in Starts(t)
    <3>1. p + n \in 1..m /\ st[p + n][1] = "basic"
      BY <2>2 DEF Starts, m
    <3>2. p \in 1..(m - n)
      BY <3>1, <2>2, <1>1
    <3> QED BY <3>1, <3>2, <1>1 DEF Starts
  <2> QED BY <2>1, <2>2
<1>3. ASSUME NEW p \in Nat \ {0}, NEW i, NEW k, PieceAt(st, s, p + n, i, k)
      PROVE  PieceAt(t, s, p, i, k)
  <2> DEFINE v == Pieces(s, i)[k]
  <2>1. /\ p + n \in Starts(st) /\ i \in 1..Len(s) /\ k \in 1..Count(s[i])
        /\ \A u \in 1..Len(v) : p + n + u - 1 \in 1..m /\ st[p + n + u - 1] = v[u]
        /\ p + n + Len(v) = m + 1 \/ p + n + Len(v) \in Starts(st)
    BY <1>3 DEF PieceAt, m
  <2>2. Len(v) \in Nat
    BY <2>1, Shape, LoadIs DEF Sound
  <2> HIDE DEF v
  <2>3. p \in Starts(t)
    BY <2>1, <1>2
  <2>4. ASSUME NEW u \in 1..Len(v)
        PROVE  p + u - 1 \in 1..Len(t) /\ t[p + u - 1] = v[u]
    <3>1. p + n + u - 1 \in 1..m /\ st[p + n + u - 1] = v[u]
      BY <2>1
    <3>2. p + u - 1 \in 1..(m - n) /\ p + u - 1 + n = p + n + u - 1
      BY <3>1, <1>1, <2>2
    <3>3. t[p + u - 1] = st[p + n + u - 1]
      BY <3>2, <1>1
    <3> QED BY <3>1, <3>2, <3>3, <1>1
  <2>5. p + Len(v) = Len(t) + 1 \/ p + Len(v) \in Starts(t)
    <3>1. p + Len(v) \in Nat \ {0} /\ p + Len(v) + n = p + n + Len(v)
      BY <2>2, <1>1
    <3>2. CASE p + n + Len(v) = m + 1
      BY <3>2, <1>1, <2>2
    <3>3. CASE p + n + Len(v) \in Starts(st)
      BY <3>1, <3>3, <1>2
    <3> QED BY <3>2, <3>3, <2>1
  <2> QED BY <2>1, <2>3, <2>4, <2>5 DEF PieceAt, v
<1>4. Identified(t, s)
  <2> SUFFICES ASSUME NEW p \in Starts(t)
               PROVE  \E i \in 1..Len(s) : \E k \in 1..Count(s[i]) :
                         PieceAt(t, s, p, i, k)
    BY DEF Identified
  <2>1. p \in Nat \ {0} /\ p + n \in Starts(st)
    BY <1>2
  <2>2. \E i \in 1..Len(s) : \E k \in 1..Count(s[i]) : PieceAt(st, s, p + n, i, k)
    BY <2>1 DEF Identified
  <2> QED BY <2>1, <2>2, <1>3
<1>5. ASSUME NEW p, NEW i, NEW k, PieceAt(t, s, p, i, k)
      PROVE  p \in Nat \ {0} /\ PieceAt(st, s, p + n, i, k)
  <2>1. p \in Nat \ {0} /\ p + n \in Starts(st)
    BY <1>5, <1>2 DEF PieceAt
  <2>2. PICK i0, k0 : PieceAt(st, s, p + n, i0, k0)
    BY <2>1 DEF Identified
  <2>3. i0 = i /\ k0 = k
    BY <2>1, <2>2, <1>1, <1>3, <1>5, OneIdentity
  <2> QED BY <2>1, <2>2, <2>3
<1> QED BY <1>1, <1>2, <1>3, <1>4, <1>5 DEF t, m

\* Another message is built.
LEMMA Later ==
  ASSUME NEW s, Sound(s), NEW st \in Seq(Units), Identified(st, s),
         NEW m \in Catalogue, Sound(Append(s, m))
  PROVE  /\ Identified(st, Append(s, m))
         /\ \A p, i, k : PieceAt(st, Append(s, m), p, i, k) <=> PieceAt(st, s, p, i, k)
<1> DEFINE t == Append(s, m)
<1>1. \A i \in 1..Len(s) : i \in 1..Len(t) /\ t[i] = s[i] /\ Pieces(t, i) = Pieces(s, i)
  BY Stable DEF Sound
<1> HIDE DEF t
<1>2. ASSUME NEW p, NEW i, NEW k, PieceAt(st, s, p, i, k)
      PROVE  PieceAt(st, t, p, i, k)
  BY <1>1, <1>2 DEF PieceAt
<1>3. Identified(st, t)
  <2> SUFFICES ASSUME NEW p \in Starts(st)
               PROVE  \E i \in 1..Len(t) : \E k \in 1..Count(t[i]) :
                         PieceAt(st, t, p, i, k)
    BY DEF Identified
  <2>1. PICK i \in 1..Len(s) : \E k \in 1..Count(s[i]) : PieceAt(st, s, p, i, k)
    BY DEF Identified
  <2> QED BY <2>1, <1>1, <1>2
<1>4. ASSUME NEW p, NEW i, NEW k, PieceAt(st, t, p, i, k)
      PROVE  PieceAt(st, s, p, i, k)
  <2>1. p \in Starts(st)
    BY <1>4 DEF PieceAt
  <2>2. PICK i0, k0 : PieceAt(st, s, p, i0, k0)
    BY <2>1 DEF Identified
  <2>3. i0 = i /\ k0 = k
    BY <2>2, <1>2, <1>4, OneIdentity DEF t
  <2> QED BY <2>2, <2>3
<1> QED BY <1>2, <1>3, <1>4 DEF t

-----------------------------------------------------------------------------
(* The road of a chunk: built, written, read                                 *)

Stream == buf \o net

\* Message j of s is the last one on chunk stream c, or there is none.
LastOn(s, c, j) == /\ j \in 0..Len(s) /\ (j # 0 => s[j].cs = c)
                   /\ \A h \in (j + 1)..Len(s) : s[h].cs # c

\* The sender remembers the last message of each chunk stream.
SenderInv ==
  /\ Linked(sent)
  /\ \A c \in ChunkStreams : \E j \in 0..Len(sent) :
       LastOn(sent, c, j) /\ outPrev[c] = HeadOf(sent, j)
       /\ outDelta[c] = DeltaOf(sent, j)
PendingInv ==
  /\ pending \in [ChunkStreams -> Seq(Seq(Units))]
  /\ \A c \in ChunkStreams : \A x \in 1..Len(pending[c]) :
       \E i \in 1..Len(sent) : \E k \in 1..Count(sent[i]) :
         sent[i].cs = c /\ pending[c][x] = Pieces(sent, i)[k]
StreamInv == /\ buf \in Seq(Units) /\ net \in Seq(Units)
             /\ Identified(Stream, sent)
RoadInv == SenderInv /\ PendingInv /\ StreamInv

\* Chunk k of message i is in the stream at p; it is number x of those that are
\* still to be written.
Flight(p, i, k) == PieceAt(Stream, sent, p, i, k)
Waits(x, i, k) ==
  /\ i \in 1..Len(sent) /\ k \in 1..Count(sent[i])
  /\ x \in 1..Len(pending[sent[i].cs])
  /\ pending[sent[i].cs][x] = Pieces(sent, i)[k]

LEMMA SentIsSound ==
  ASSUME TypeOK, RoadInv
  PROVE  Sound(sent) /\ sent \in Seq(Catalogue) /\ Linked(sent) /\ Len(sent) <= MaxSent
BY DEF TypeOK, RoadInv, SenderInv, Sound

LEMMA PiecesDiffer ==
  ASSUME NEW s, Sound(s), NEW i \in 1..Len(s), NEW k \in 1..Count(s[i]),
         NEW g \in 1..Len(s), NEW h \in 1..Count(s[g]),
         Pieces(s, i)[k] = Pieces(s, g)[h]
  PROVE  i = g /\ k = h
<1> DEFINE w == Pieces(s, i)[k]
<1>1. w \in Seq(Units) /\ Len(w) \in Nat /\ Len(w) >= 1 /\ w[1][1] = "basic"
  <2>1. /\ w \in Seq(Units) /\ Len(w) = Lead(s, i, k) + Load(s, i, k)
        /\ Lead(s, i, k) \in Nat /\ Lead(s, i, k) >= 1
        /\ w[1] = <<"basic", [fmt |-> ChunkFormat(s, i, k), cs |-> s[i].cs]>>
    BY Shape DEF Sound
  <2>2. Load(s, i, k) \in Nat
    BY LoadIs DEF Sound
  <2> QED BY <2>1, <2>2
<1>2. \A u \in 1..Len(w) : 1 + u - 1 = u /\ u \in 1..Len(w)
  BY <1>1
<1>3. 1 \in Starts(w) /\ 1 + Len(w) = Len(w) + 1
  BY <1>1 DEF Starts
<1>4. PieceAt(w, s, 1, i, k)
  BY <1>2, <1>3 DEF PieceAt
<1>5. PieceAt(w, s, 1, g, h)
  BY <1>2, <1>3 DEF PieceAt
<1> QED BY <1>1, <1>4, <1>5, OneIdentity

\* What BuildChunk decides for m when message j is the last one on its chunk
\* stream is what the definitions above say of the new message.
LEMMA BuiltRight ==
  ASSUME TypeOK, RoadInv, NEW m \in Catalogue, NEW j \in 0..Len(sent),
         LastOn(sent, m.cs, j), outPrev[m.cs] = HeadOf(sent, j),
         outDelta[m.cs] = DeltaOf(sent, j)
  PROVE  LET t == Append(sent, m)
             n == Len(sent) + 1
         IN  /\ Links(t, j, n) /\ FormatOf(t, n) = Format(m)
             /\ TimeOf(t, n) = IF Format(m) = 0 THEN m.ts ELSE m.ts - outPrev[m.cs].ts
             /\ DeltaOf(t, n) = IF Format(m) = 0 THEN 0 ELSE m.ts - outPrev[m.cs].ts
             /\ Linked(t)
             /\ HeadOf(t, n) = [len |-> m.len, type |-> m.type, sid |-> m.sid,
                                ts |-> m.ts]
<1> DEFINE t == Append(sent, m)
           n == Len(sent) + 1
           pr == outPrev[m.cs]
<1>0. sent \in Seq(Catalogue) /\ Linked(sent) /\ Len(sent) \in Nat
  BY SentIsSound
<1>1. /\ t \in Seq(Catalogue) /\ Len(t) = n /\ t[n] = m
      /\ \A i \in 1..Len(sent) : t[i] = sent[i] /\ Links(t, Prev(sent, i), i)
                                 /\ Prev(sent, i) \in 0..(i - 1)
      /\ \A i \in 0..Len(sent) : DeltaOf(t, i) = DeltaOf(sent, i)
  BY <1>0, Stable, TimeIs
<1> HIDE DEF t
<1>2. n \in Nat /\ n - 1 = Len(sent) /\ j \in 0..(n - 1) /\ n # 0 /\ n \in 1..Len(t)
  BY <1>0, <1>1
<1>3. j # 0 => j \in 1..Len(sent)
  OBVIOUS
<1>4. Links(t, j, n)
  <2>1. j # 0 => t[j].cs = t[n].cs
    BY <1>1, <1>3 DEF LastOn
  <2>2. ASSUME NEW h \in (j + 1)..(n - 1) PROVE t[h].cs # t[n].cs
    <3>1. h \in 1..Len(sent) /\ h \in (j + 1)..Len(sent)
      BY <1>2, <1>0
    <3>2. t[h] = sent[h] /\ sent[h].cs # m.cs
      BY <3>1, <1>1 DEF LastOn
    <3> QED BY <3>2, <1>1
  <2> QED BY <1>2, <2>1, <2>2 DEF Links
<1> HIDE DEF n
<1>5. Prev(t, n) = j
  BY <1>1, <1>2, <1>4, PrevIs
<1>6. j = 0 => pr = Blank
  BY DEF HeadOf
<1>7. j # 0 => /\ t[j] = sent[j] /\ pr # Blank
               /\ pr.len = sent[j].len /\ pr.type = sent[j].type
               /\ pr.sid = sent[j].sid /\ pr.ts = sent[j].ts
  <2> HAVE j # 0
  <2>1. t[j] = sent[j] /\ sent[j].len >= 1 /\ sent[j].len \in Nat
    BY <1>0, <1>1, <1>3, MessageIs
  <2>2. pr = [len |-> sent[j].len, type |-> sent[j].type, sid |-> sent[j].sid,
              ts |-> sent[j].ts]
    BY DEF HeadOf
  <2>3. Blank.len = 0
    BY DEF Blank
  <2>4. pr.len = sent[j].len
    BY <2>2
  <2>5. pr # Blank
    BY <2>1, <2>3, <2>4
  <2> QED BY <2>1, <2>2, <2>5
<1>8. IsFull(t, n) <=> pr = Blank \/ m.ts < pr.ts \/ m.sid # pr.sid
  <2>1. IsFull(t, n) <=> j = 0 \/ m.ts < t[j].ts \/ m.sid # t[j].sid
    BY <1>1, <1>5 DEF IsFull
  <2> QED BY <2>1, <1>6, <1>7
<1>9. ~IsFull(t, n) => j # 0
  BY <1>5 DEF IsFull
<1>10. TimeOf(t, n) = IF IsFull(t, n) THEN m.ts ELSE m.ts - pr.ts
  BY <1>1, <1>5, <1>7, <1>9 DEF TimeOf
<1>11. DeltaOf(t, n) = IF IsFull(t, n) THEN 0 ELSE m.ts - pr.ts
  BY <1>2, <1>10 DEF DeltaOf
<1>12. DeltaOf(t, j) = outDelta[m.cs]
  BY <1>1
<1>13. FormatOf(t, n) =
         IF IsFull(t, n) THEN 0
         ELSE IF m.len # pr.len \/ m.type # pr.type THEN 1
         ELSE IF m.ts - pr.ts # outDelta[m.cs] THEN 2 ELSE 3
  <2>1. CASE IsFull(t, n)
    BY <2>1 DEF FormatOf
  <2>2. CASE ~IsFull(t, n)
    <3>1. TimeOf(t, n) = m.ts - pr.ts /\ t[j] = sent[j]
          /\ pr.len = t[j].len /\ pr.type = t[j].type
      BY <2>2, <1>7, <1>9, <1>10
    <3> QED BY <2>2, <3>1, <1>1, <1>5, <1>12 DEF FormatOf
  <2> QED BY <2>1, <2>2
<1>14. Format(m) =
         IF pr = Blank \/ m.ts < pr.ts \/ m.sid # pr.sid THEN 0
         ELSE IF m.len # pr.len \/ m.type # pr.type THEN 1
         ELSE IF m.ts - pr.ts # outDelta[m.cs] THEN 2 ELSE 3
  BY DEF Format
<1>15. FormatOf(t, n) = Format(m)
  BY <1>8, <1>13, <1>14
<1>16. Format(m) = 0 <=> IsFull(t, n)
  BY <1>8, <1>14
<1>17. Linked(t)
  <2> SUFFICES ASSUME NEW i \in 1..Len(t) PROVE \E h \in 0..(i - 1) : Links(t, h, i)
    BY DEF Linked
  <2>1. i = n \/ i \in 1..Len(sent)
    BY <1>1, <1>2, <1>0
  <2> QED BY <2>1, <1>1, <1>2, <1>4
<1>18. HeadOf(t, n) = [len |-> m.len, type |-> m.type, sid |-> m.sid, ts |-> m.ts]
  BY <1>1, <1>2 DEF HeadOf
<1> QED BY <1>4, <1>10, <1>11, <1>15, <1>16, <1>17, <1>18 DEF t, n

LEMMA PiecesAre ==
  ASSUME NEW s, Sound(s), NEW i \in 1..Len(s)
  PROVE  /\ Pieces(s, i) \in Seq(Seq(Units))
         /\ Len(Pieces(s, i)) = Count(s[i]) /\ Count(s[i]) \in Nat
<1>1. Count(s[i]) \in Nat /\ Count(s[i]) >= 1
  BY MessageIs, CountIs DEF Sound
<1>2. \A k \in 1..Count(s[i]) : Pieces(s, i)[k] \in Seq(Units)
  BY Shape DEF Sound
<1>3. Pieces(s, i) = [k \in 1..Count(s[i]) |-> Pieces(s, i)[k]]
  BY DEF Pieces, Chunks, Count
<1>4. Pieces(s, i) \in [1..Count(s[i]) -> Seq(Units)]
  BY <1>2, <1>3
<1> QED BY <1>1, <1>4

\* What Build does to the road.
LEMMA BuildEffect ==
  ASSUME TypeOK, RoadInv, NEW m \in Catalogue, Build(m)
  PROVE  LET n == Len(sent) + 1 IN
         /\ RoadInv' /\ Stream' = Stream /\ Sound(sent') /\ sent' = Append(sent, m)
         /\ \A p, i, k : Flight(p, i, k)' <=> Flight(p, i, k)
         /\ \A x, i, k : Waits(x, i, k)' <=>
              \/ Waits(x, i, k)
              \/ /\ i = n /\ k \in 1..Count(m)
                 /\ x = Len(pending[m.cs]) + k
<1> DEFINE n == Len(sent) + 1
           t == Append(sent, m)
           d == m.cs
           w == Pieces(t, n)
<1>0. /\ Sound(sent) /\ sent \in Seq(Catalogue) /\ Linked(sent) /\ Len(sent) <= MaxSent
      /\ d \in ChunkStreams /\ Len(sent) \in Nat /\ Len(sent) < MaxSent
      /\ sent' = t /\ buf' = buf /\ net' = net /\ MaxSent \in Nat
  BY SentIsSound, SizesAre DEF Build, ChunkStreams
<1>1. PICK j \in 0..Len(sent) : LastOn(sent, d, j) /\ outPrev[d] = HeadOf(sent, j)
                                /\ outDelta[d] = DeltaOf(sent, j)
  BY <1>0 DEF RoadInv, SenderInv
<1>2. /\ Links(t, j, n) /\ FormatOf(t, n) = Format(m)
      /\ TimeOf(t, n) = IF Format(m) = 0 THEN m.ts ELSE m.ts - outPrev[d].ts
      /\ DeltaOf(t, n) = IF Format(m) = 0 THEN 0 ELSE m.ts - outPrev[d].ts
      /\ Linked(t)
      /\ HeadOf(t, n) = [len |-> m.len, type |-> m.type, sid |-> m.sid, ts |-> m.ts]
  BY <1>1, BuiltRight
<1>3. /\ t \in Seq(Catalogue) /\ Len(t) = n /\ t[n] = m /\ n \in 1..Len(t)
      /\ \A i \in 1..Len(sent) : i \in 1..Len(t) /\ t[i] = sent[i]
                                 /\ Pieces(t, i) = Pieces(sent, i)
      /\ \A i \in 0..Len(sent) : HeadOf(t, i) = HeadOf(sent, i)
                                 /\ DeltaOf(t, i) = DeltaOf(sent, i)
  BY <1>0, Stable
<1>4. Sound(t)
  BY <1>0, <1>2, <1>3 DEF Sound
<1>5. w \in Seq(Seq(Units)) /\ Len(w) = Count(m) /\ Count(m) \in Nat
  BY <1>3, <1>4, PiecesAre
<1>6. w = Chunks(n, m, Format(m), IF Format(m) = 0 THEN m.ts ELSE m.ts - outPrev[d].ts)
  BY <1>2, <1>3 DEF Pieces
<1>7. /\ outPrev' = [outPrev EXCEPT ![d] = HeadOf(t, n)]
      /\ outDelta' = [outDelta EXCEPT ![d] = DeltaOf(t, n)]
      /\ pending' = [pending EXCEPT ![d] = @ \o w]
  <2>1. /\ outDelta' = [outDelta EXCEPT ![d] = IF Format(m) = 0 THEN 0
                                              ELSE IF Format(m) = 0 THEN m.ts
                                              ELSE m.ts - outPrev[d].ts]
        /\ outPrev' = [outPrev EXCEPT ![d] = [len |-> m.len, type |-> m.type,
                                             sid |-> m.sid, ts |-> m.ts]]
        /\ pending' = [pending EXCEPT ![d] = @ \o
              Chunks(n, m, Format(m), IF Format(m) = 0 THEN m.ts ELSE m.ts - outPrev[d].ts)]
    BY DEF Build
  <2>2. DeltaOf(t, n) = IF Format(m) = 0 THEN 0
                        ELSE IF Format(m) = 0 THEN m.ts ELSE m.ts - outPrev[d].ts
    BY <1>2
  <2> HIDE DEF t, w, d, n
  <2> QED BY <2>1, <2>2, <1>2, <1>6
<1> HIDE DEF t, w
<1>8. /\ outPrev \in [ChunkStreams -> Headers]
      /\ outDelta \in [ChunkStreams -> 0..(Digit * Digit - 1)]
      /\ pending \in [ChunkStreams -> Seq(Seq(Units))]
  BY DEF TypeOK, RoadInv, PendingInv
<1>9. /\ outPrev'[d] = HeadOf(t, n) /\ outDelta'[d] = DeltaOf(t, n)
      /\ pending'[d] = pending[d] \o w /\ pending[d] \in Seq(Seq(Units))
      /\ \A c \in ChunkStreams : c # d => /\ outPrev'[c] = outPrev[c]
                                          /\ outDelta'[c] = outDelta[c]
                                          /\ pending'[c] = pending[c]
  <2> HIDE DEF d, n
  <2> QED BY <1>0, <1>7, <1>8
<1>10. /\ pending'[d] \in Seq(Seq(Units))
       /\ Len(pending'[d]) = Len(pending[d]) + Count(m)
       /\ \A x \in 1..Len(pending[d]) : pending'[d][x] = pending[d][x]
       /\ \A k \in 1..Count(m) : pending'[d][Len(pending[d]) + k] = w[k]
       /\ Len(pending[d]) \in Nat
  <2> DEFINE e == pending[d]
  <2>1. e \in Seq(Seq(Units)) /\ pending'[d] = e \o w
    BY <1>9
  <2> HIDE DEF e
  <2>2. /\ e \o w \in Seq(Seq(Units)) /\ Len(e \o w) = Len(e) + Len(w)
        /\ \A u \in 1..Len(e) : (e \o w)[u] = e[u]
        /\ \A u \in 1..Len(w) : (e \o w)[Len(e) + u] = w[u]
    <3>1. Halves(Seq(Units), e, w)
      BY <1>5, <2>1, TwoHalves
    <3> QED BY <3>1, Zenon DEF Halves
  <2>3. Len(e) \in Nat
    BY <2>1
  <2> QED BY <1>5, <2>1, <2>2, <2>3 DEF e
<1>11. SenderInv'
  <2>1. Linked(sent')
    BY <1>0, <1>2 DEF t
  <2>2. ASSUME NEW c \in ChunkStreams
        PROVE  \E i \in 0..Len(t) : LastOn(t, c, i) /\ outPrev'[c] = HeadOf(t, i)
                                    /\ outDelta'[c] = DeltaOf(t, i)
    <3>1. CASE c = d
      <4>1. LastOn(t, c, n)
        <5>1. \A h \in (n + 1)..Len(t) : FALSE
          BY <1>0, <1>3
        <5> QED BY <5>1, <1>0, <1>3, <3>1 DEF LastOn
      <4> QED BY <4>1, <3>1, <1>3, <1>9
    <3>2. CASE c # d
      <4>1. PICK i \in 0..Len(sent) : LastOn(sent, c, i)
                   /\ outPrev[c] = HeadOf(sent, i) /\ outDelta[c] = DeltaOf(sent, i)
        BY DEF RoadInv, SenderInv
      <4>2. i \in 0..Len(t) /\ (i # 0 => i \in 1..Len(sent))
        BY <1>0, <1>3
      <4>3. ASSUME NEW h \in (i + 1)..Len(t) PROVE t[h].cs # c
        <5>1. h = n \/ (h \in (i + 1)..Len(sent) /\ h \in 1..Len(sent))
          BY <1>0, <1>3
        <5>2. CASE h = n
          BY <5>2, <1>3, <3>2
        <5>3. CASE h \in (i + 1)..Len(sent) /\ h \in 1..Len(sent)
          BY <5>3, <4>1, <1>3 DEF LastOn
        <5> QED BY <5>1, <5>2, <5>3
      <4>4. LastOn(t, c, i)
        BY <4>1, <4>2, <4>3, <1>3 DEF LastOn
      <4> QED BY <4>1, <4>2, <4>4, <1>3, <1>9, <3>2
    <3> QED BY <3>1, <3>2
  <2> QED BY <1>0, <2>1, <2>2 DEF SenderInv
<1>12. \A k \in 1..Count(m) : sent'[n].cs = d /\ w[k] = Pieces(sent', n)[k]
                              /\ n \in 1..Len(sent') /\ Count(sent'[n]) = Count(m)
  BY <1>0, <1>3 DEF w
<1>13. PendingInv'
  <2>1. pending' \in [ChunkStreams -> Seq(Seq(Units))]
    BY <1>7, <1>8, <1>9, <1>10
  <2>2. ASSUME NEW c \in ChunkStreams, NEW x \in 1..Len(pending'[c])
        PROVE  \E i \in 1..Len(sent') : \E k \in 1..Count(sent'[i]) :
                  sent'[i].cs = c /\ pending'[c][x] = Pieces(sent', i)[k]
    <3>0. SUFFICES \E i \in 1..Len(t) : \E k \in 1..Count(t[i]) :
                      t[i].cs = c /\ pending'[c][x] = Pieces(t, i)[k]
      BY <1>0
    <3>1. CASE pending'[c][x] = pending[c][x] /\ x \in 1..Len(pending[c])
      <4>1. PICK i \in 1..Len(sent) : \E k \in 1..Count(sent[i]) :
                sent[i].cs = c /\ pending[c][x] = Pieces(sent, i)[k]
        BY <3>1 DEF RoadInv, PendingInv
      <4> QED BY <3>1, <4>1, <1>3
    <3>2. CASE ~(pending'[c][x] = pending[c][x] /\ x \in 1..Len(pending[c]))
      <4>1. c = d
        BY <3>2, <1>9
      <4>2. ~(x \in 1..Len(pending[d]))
        BY <3>2, <4>1, <1>10
      <4>3. x - Len(pending[d]) \in 1..Count(m)
            /\ Len(pending[d]) + (x - Len(pending[d])) = x
        BY <4>1, <4>2, <1>5, <1>10
      <4>4. PICK k \in 1..Count(m) : k = x - Len(pending[d])
        BY <4>3
      <4>5. pending'[d][x] = w[k]
        BY <4>3, <4>4, <1>10
      <4>6. w[k] = Pieces(t, n)[k] /\ n \in 1..Len(t) /\ t[n] = m
        BY <1>3 DEF w
      <4>7. t[n].cs = c /\ k \in 1..Count(t[n])
        BY <4>1, <4>4, <4>6
      <4> QED BY <4>1, <4>5, <4>6, <4>7
    <3> QED BY <3>1, <3>2
  <2> QED BY <2>1, <2>2, Zenon DEF PendingInv, ChunkStreams
<1>14. Stream' = Stream
  BY <1>0 DEF Stream
<1>15. Stream \in Seq(Units) /\ Identified(Stream, sent)
  BY DEF RoadInv, StreamInv, Stream
<1>16. /\ Identified(Stream, t)
       /\ \A p, i, k : PieceAt(Stream, t, p, i, k) <=> PieceAt(Stream, sent, p, i, k)
  BY <1>0, <1>4, <1>15, Later DEF t
<1>17. StreamInv'
  BY <1>0, <1>14, <1>16 DEF RoadInv, StreamInv
<1>18. \A p, i, k : Flight(p, i, k)' <=> Flight(p, i, k)
  BY <1>0, <1>14, <1>16 DEF Flight
<1>19. ASSUME NEW x, NEW i, NEW k, Waits(x, i, k) PROVE Waits(x, i, k)'
  <2>1. /\ i \in 1..Len(sent) /\ k \in 1..Count(sent[i])
        /\ x \in 1..Len(pending[sent[i].cs])
        /\ pending[sent[i].cs][x] = Pieces(sent, i)[k]
        /\ sent[i].cs \in ChunkStreams
    BY <1>0, <1>19, MessageIs DEF Waits
  <2>2. x \in 1..Len(pending'[sent[i].cs]) /\ pending'[sent[i].cs][x] = Pieces(sent, i)[k]
    <3>1. CASE sent[i].cs = d
      BY <2>1, <3>1, <1>5, <1>10
    <3>2. CASE sent[i].cs # d
      BY <2>1, <3>2, <1>9
    <3> QED BY <3>1, <3>2
  <2> QED BY <2>1, <2>2, <1>0, <1>3 DEF Waits
<1>20. ASSUME NEW x, NEW i, NEW k \in 1..Count(m), i = n, x = Len(pending[d]) + k
       PROVE  Waits(x, i, k)'
  <2> DEFINE o == Len(pending[d])
             q == Len(pending'[d])
  <2>1. o \in Nat /\ Count(m) \in Nat /\ q = o + Count(m)
    BY <1>5, <1>10
  <2> HIDE DEF o, q
  <2>2. o + k \in 1..q /\ x = o + k
    BY <2>1, <1>20 DEF o
  <2>3. pending'[d][x] = w[k]
    BY <1>10, <2>2 DEF o
  <2>4. sent'[i].cs = d /\ w[k] = Pieces(sent', i)[k] /\ i \in 1..Len(sent')
        /\ k \in 1..Count(sent'[i])
    BY <1>12, <1>20
  <2>5. x \in 1..Len(pending'[d])
    BY <2>2 DEF q
  <2>6. x \in 1..Len(pending'[sent'[i].cs])
        /\ pending'[sent'[i].cs][x] = Pieces(sent', i)[k]
    BY <2>3, <2>4, <2>5
  <2> QED BY <2>4, <2>6, Zenon DEF Waits
<1>21. ASSUME NEW x, NEW i, NEW k, Waits(x, i, k)'
       PROVE  \/ Waits(x, i, k)
              \/ i = n /\ k \in 1..Count(m) /\ x = Len(pending[d]) + k
  <2> DEFINE c == t[i].cs
  <2>1. /\ i \in 1..Len(t) /\ k \in 1..Count(t[i])
        /\ x \in 1..Len(pending'[c]) /\ pending'[c][x] = Pieces(t, i)[k]
        /\ c \in ChunkStreams
    BY <1>0, <1>3, <1>21, MessageIs DEF Waits
  <2> HIDE DEF c
  <2>2. CASE pending'[c][x] = pending[c][x] /\ x \in 1..Len(pending[c])
    <3>1. PICK g \in 1..Len(sent) : \E h \in 1..Count(sent[g]) :
              sent[g].cs = c /\ pending[c][x] = Pieces(sent, g)[h]
      BY <2>1, <2>2 DEF RoadInv, PendingInv
    <3>2. PICK h \in 1..Count(sent[g]) :
              sent[g].cs = c /\ pending[c][x] = Pieces(sent, g)[h]
      BY <3>1
    <3>3. g \in 1..Len(t) /\ h \in 1..Count(t[g]) /\ Pieces(t, i)[k] = Pieces(t, g)[h]
      BY <2>1, <2>2, <3>2, <1>3
    <3>4. i = g /\ k = h
      BY <2>1, <3>3, <1>4, PiecesDiffer
    <3> QED BY <3>2, <3>4, <2>2 DEF Waits
  <2>3. CASE ~(pending'[c][x] = pending[c][x] /\ x \in 1..Len(pending[c]))
    <3>1. c = d
      BY <2>1, <2>3, <1>9
    <3>2. ~(x \in 1..Len(pending[d]))
      BY <2>3, <3>1, <1>10
    <3>3. PICK h \in 1..Count(m) : x = Len(pending[d]) + h
      <4>1. x - Len(pending[d]) \in 1..Count(m)
            /\ x = Len(pending[d]) + (x - Len(pending[d]))
        BY <2>1, <3>1, <3>2, <1>5, <1>10
      <4> QED BY <4>1
    <3>4. pending'[c][x] = Pieces(t, n)[h]
      BY <3>1, <3>3, <1>10 DEF w
    <3>5. n \in 1..Len(t) /\ h \in 1..Count(t[n]) /\ Pieces(t, i)[k] = Pieces(t, n)[h]
      BY <2>1, <3>4, <1>3
    <3>6. i = n /\ k = h
      BY <2>1, <3>5, <1>4, PiecesDiffer
    <3> QED BY <3>3, <3>6
  <2> QED BY <2>2, <2>3
<1>22. \A x, i, k : Waits(x, i, k)' <=>
              \/ Waits(x, i, k)
              \/ i = n /\ k \in 1..Count(m) /\ x = Len(pending[d]) + k
  <2> SUFFICES ASSUME NEW x, NEW i, NEW k
               PROVE  Waits(x, i, k)' <=>
                      \/ Waits(x, i, k)
                      \/ i = n /\ k \in 1..Count(m) /\ x = Len(pending[d]) + k
    OBVIOUS
  <2>1. Waits(x, i, k) => Waits(x, i, k)'
    BY <1>19
  <2>2. i = n /\ k \in 1..Count(m) /\ x = Len(pending[d]) + k => Waits(x, i, k)'
    BY <1>20
  <2>3. Waits(x, i, k)' => \/ Waits(x, i, k)
                           \/ i = n /\ k \in 1..Count(m) /\ x = Len(pending[d]) + k
    BY <1>21
  <2> QED BY <2>1, <2>2, <2>3
<1> QED
  BY <1>0, <1>4, <1>11, <1>13, <1>14, <1>17, <1>18, <1>22 DEF RoadInv, t

\* What Put does to the road.
LEMMA PutEffect ==
  ASSUME TypeOK, RoadInv, NEW c \in ChunkStreams, Put(c)
  PROVE  /\ RoadInv' /\ sent' = sent
         /\ \E g \in 1..Len(sent) : \E h \in 1..Count(sent[g]) :
              /\ sent[g].cs = c /\ Waits(1, g, h)
              /\ \A p, i, k : Flight(p, i, k)' <=>
                   \/ Flight(p, i, k)
                   \/ p = Len(Stream) + 1 /\ i = g /\ k = h
         /\ \A x, i, k : Waits(x, i, k)' <=>
              /\ x \in Nat \ {0} /\ i \in 1..Len(sent)
              /\ IF sent[i].cs = c THEN Waits(x + 1, i, k) ELSE Waits(x, i, k)
         /\ Stream' \in Seq(Units) /\ Stream \in Seq(Units)
         /\ Len(Stream') > Len(Stream) /\ Stream' # <<>>
<1> DEFINE e == pending[c]
<1>0. /\ Sound(sent) /\ sent \in Seq(Catalogue) /\ sent' = sent /\ buf' = buf
      /\ outPrev' = outPrev /\ outDelta' = outDelta
      /\ e # <<>> /\ net' = net \o Head(e)
      /\ pending' = [pending EXCEPT ![c] = Tail(@)]
      /\ pending \in [ChunkStreams -> Seq(Seq(Units))]
      /\ buf \in Seq(Units) /\ net \in Seq(Units) /\ Identified(Stream, sent)
  BY SentIsSound DEF Put, RoadInv, PendingInv, StreamInv
<1>1. /\ e \in Seq(Seq(Units)) /\ Tail(e) \in Seq(Seq(Units)) /\ Len(e) \in Nat
      /\ Len(e) >= 1 /\ Len(Tail(e)) = Len(e) - 1 /\ Head(e) = e[1]
      /\ \A x \in 1..(Len(e) - 1) : Tail(e)[x] = e[x + 1]
  <2>1. e \in Seq(Seq(Units)) /\ e # <<>>
    BY <1>0
  <2> HIDE DEF e
  <2>2. /\ Tail(e) \in Seq(Seq(Units)) /\ Len(Tail(e)) = Len(e) - 1
        /\ \A x \in 1..Len(Tail(e)) : Tail(e)[x] = e[x + 1]
    BY <2>1, HeadTailProperties
  <2>3. Len(e) \in Nat \ {0} /\ Head(e) = e[1]
    BY <2>1, EmptySeq
  <2> QED BY <2>1, <2>2, <2>3
<1>2. pending'[c] = Tail(e) /\ \A d \in ChunkStreams : d # c => pending'[d] = pending[d]
  BY <1>0
<1>3. PICK g \in 1..Len(sent) : \E h \in 1..Count(sent[g]) :
              sent[g].cs = c /\ e[1] = Pieces(sent, g)[h]
  <2>1. 1 \in 1..Len(e)
    BY <1>1
  <2> QED BY <2>1 DEF RoadInv, PendingInv
<1>4. PICK h \in 1..Count(sent[g]) : sent[g].cs = c /\ e[1] = Pieces(sent, g)[h]
  BY <1>3
<1>5. Waits(1, g, h)
  <2>1. 1 \in 1..Len(e)
    BY <1>1
  <2> QED BY <2>1, <1>4 DEF Waits
<1> DEFINE w == Pieces(sent, g)[h]
<1>6. w \in Seq(Units) /\ Len(w) \in Nat /\ Len(w) >= 1
  <2>1. /\ w \in Seq(Units) /\ Len(w) = Lead(sent, g, h) + Load(sent, g, h)
        /\ Lead(sent, g, h) \in Nat /\ Lead(sent, g, h) >= 1
    BY <1>0, Shape DEF Sound
  <2>2. Load(sent, g, h) \in Nat
    BY <1>0, LoadIs
  <2> QED BY <2>1, <2>2
<1>7. Stream' = Stream \o w
  <2>1. Stream' = buf \o (net \o w)
    BY <1>0, <1>1, <1>4 DEF Stream
  <2>2. (buf \o net) \o w = buf \o (net \o w)
    <3>1. Joins(buf, net, w)
      BY <1>0, <1>6, Associative
    <3> QED BY <3>1, Zenon DEF Joins
  <2> QED BY <2>1, <2>2 DEF Stream
<1>8. Stream \in Seq(Units) /\ Len(Stream) \in Nat
  BY <1>0 DEF Stream
<1>9. /\ Stream' \in Seq(Units) /\ Identified(Stream', sent)
      /\ PieceAt(Stream', sent, Len(Stream) + 1, g, h)
      /\ \A p, i, k : PieceAt(Stream', sent, p, i, k) <=>
              \/ PieceAt(Stream, sent, p, i, k)
              \/ p = Len(Stream) + 1 /\ i = g /\ k = h
  <2> DEFINE st == Stream
  <2>1. st \in Seq(Units) /\ Identified(st, sent) /\ Stream' = st \o w
    BY <1>0, <1>7, <1>8
  <2> HIDE DEF st
  <2>2. LET t == st \o Pieces(sent, g)[h] IN
        /\ t \in Seq(Units) /\ Identified(t, sent)
        /\ PieceAt(t, sent, Len(st) + 1, g, h)
        /\ \A p, i, k : PieceAt(t, sent, p, i, k) <=>
              \/ PieceAt(st, sent, p, i, k)
              \/ p = Len(st) + 1 /\ i = g /\ k = h
    BY <1>0, <2>1, Longer
  <2> QED BY <2>1, <2>2 DEF st
<1>10. \A p, i, k : Flight(p, i, k)' <=>
                   \/ Flight(p, i, k)
                   \/ p = Len(Stream) + 1 /\ i = g /\ k = h
  <2>1. \A p, i, k : Flight(p, i, k)' <=> PieceAt(Stream', sent, p, i, k)
    BY <1>0 DEF Flight
  <2>2. \A p, i, k : Flight(p, i, k) <=> PieceAt(Stream, sent, p, i, k)
    BY DEF Flight
  <2>3. \A p, i, k : PieceAt(Stream', sent, p, i, k) <=>
              \/ PieceAt(Stream, sent, p, i, k)
              \/ p = Len(Stream) + 1 /\ i = g /\ k = h
    BY <1>9
  <2> QED BY <2>1, <2>2, <2>3
<1>11. StreamInv'
  <2>1. net' \in Seq(Units)
    BY <1>0, <1>1, <1>4, <1>6, Joined
  <2> QED BY <2>1, <1>0, <1>9 DEF StreamInv
<1>12. SenderInv'
  BY <1>0 DEF SenderInv, RoadInv
<1>13. PendingInv'
  <2>1. pending' \in [ChunkStreams -> Seq(Seq(Units))]
    BY <1>0, <1>1
  <2>2. ASSUME NEW d \in ChunkStreams, NEW x \in 1..Len(pending'[d])
        PROVE  \E i \in 1..Len(sent) : \E k \in 1..Count(sent[i]) :
                  sent[i].cs = d /\ pending'[d][x] = Pieces(sent, i)[k]
    <3>1. CASE d = c
      <4>1. x + 1 \in 1..Len(e) /\ pending'[d][x] = e[x + 1]
        BY <3>1, <1>1, <1>2
      <4>2. \E i \in 1..Len(sent) : \E k \in 1..Count(sent[i]) :
                 sent[i].cs = c /\ e[x + 1] = Pieces(sent, i)[k]
        BY <4>1 DEF RoadInv, PendingInv
      <4> QED BY <3>1, <4>1, <4>2, Zenon
    <3>2. CASE d # c
      <4>1. x \in 1..Len(pending[d]) /\ pending'[d][x] = pending[d][x]
        BY <3>2, <1>2
      <4>2. \E i \in 1..Len(sent) : \E k \in 1..Count(sent[i]) :
                 sent[i].cs = d /\ pending[d][x] = Pieces(sent, i)[k]
        BY <4>1 DEF RoadInv, PendingInv
      <4> QED BY <4>1, <4>2, Zenon
    <3> QED BY <3>1, <3>2
  <2>3. sent' = sent
    BY <1>0
  <2>4. \A c1 \in ChunkStreams : \A x \in 1..Len(pending'[c1]) :
           \E i \in 1..Len(sent') : \E k \in 1..Count(sent'[i]) :
                  sent'[i].cs = c1 /\ pending'[c1][x] = Pieces(sent', i)[k]
    <3> SUFFICES ASSUME NEW c1 \in ChunkStreams, NEW x \in 1..Len(pending'[c1])
                 PROVE  \E i \in 1..Len(sent') : \E k \in 1..Count(sent'[i]) :
                          sent'[i].cs = c1 /\ pending'[c1][x] = Pieces(sent', i)[k]
      OBVIOUS
    <3>1. PICK i \in 1..Len(sent) : \E k \in 1..Count(sent[i]) :
                  sent[i].cs = c1 /\ pending'[c1][x] = Pieces(sent, i)[k]
      BY <2>2
    <3> QED BY <3>1, <2>3
  <2> QED BY <2>1, <2>4, Zenon DEF PendingInv
<1>14. ASSUME NEW x, NEW i, NEW k
       PROVE  Waits(x, i, k)' <=>
              /\ x \in Nat \ {0} /\ i \in 1..Len(sent)
              /\ IF sent[i].cs = c THEN Waits(x + 1, i, k) ELSE Waits(x, i, k)
  <2>1. Waits(x, i, k)' <=>
          /\ i \in 1..Len(sent) /\ k \in 1..Count(sent[i])
          /\ x \in 1..Len(pending'[sent[i].cs])
          /\ pending'[sent[i].cs][x] = Pieces(sent, i)[k]
    BY <1>0 DEF Waits
  <2>2. i \in 1..Len(sent) => sent[i].cs \in ChunkStreams
    BY <1>0, MessageIs
  <2>3. CASE ~(i \in 1..Len(sent))
    BY <2>1, <2>3
  <2>4. CASE i \in 1..Len(sent) /\ sent[i].cs # c
    <3>1. Len(pending[sent[i].cs]) \in Nat
      BY <1>0, <2>2, <2>4
    <3>2. pending'[sent[i].cs] = pending[sent[i].cs]
      BY <1>2, <2>2, <2>4
    <3>3. Waits(x, i, k)' <=> Waits(x, i, k)
      BY <2>1, <2>4, <3>2 DEF Waits
    <3>4. Waits(x, i, k) => x \in Nat \ {0}
      BY <3>1 DEF Waits
    <3> QED BY <2>4, <3>3, <3>4
  <2>5. CASE i \in 1..Len(sent) /\ sent[i].cs = c
    <3>1. x \in 1..Len(pending'[c]) <=> x \in Nat \ {0} /\ x + 1 \in 1..Len(e)
      BY <1>1, <1>2
    <3>2. x \in 1..Len(pending'[c]) => pending'[c][x] = e[x + 1]
      BY <1>1, <1>2
    <3> QED BY <2>1, <2>5, <3>1, <3>2 DEF Waits
  <2> QED BY <2>3, <2>4, <2>5
<1>15. Len(Stream') > Len(Stream) /\ Stream' # <<>>
  <2>1. Len(Stream \o w) = Len(Stream) + Len(w)
    BY <1>6, <1>8, Joined
  <2>2. Len(Stream') > Len(Stream) /\ Len(Stream') # 0
    BY <2>1, <1>6, <1>7, <1>8
  <2> QED BY <2>2
<1>16. RoadInv'
  BY <1>11, <1>12, <1>13 DEF RoadInv
<1>17. \A x, i, k : Waits(x, i, k)' <=>
              /\ x \in Nat \ {0} /\ i \in 1..Len(sent)
              /\ IF sent[i].cs = c THEN Waits(x + 1, i, k) ELSE Waits(x, i, k)
  BY <1>14
<1> HIDE DEF e, w
<1> QED BY <1>0, <1>4, <1>5, <1>8, <1>9, <1>10, <1>15, <1>16, <1>17

LEMMA RoadStays ==
  ASSUME TypeOK, RoadInv, UNCHANGED senderVars,
         buf' \in Seq(Units), net' \in Seq(Units), Stream' = Stream
  PROVE  /\ RoadInv' /\ sent' = sent
         /\ \A p, i, k : Flight(p, i, k)' <=> Flight(p, i, k)
         /\ \A x, i, k : Waits(x, i, k)' <=> Waits(x, i, k)
<1>1. sent' = sent /\ pending' = pending /\ outPrev' = outPrev /\ outDelta' = outDelta
  BY DEF senderVars
<1>2. SenderInv'
  <2>1. SenderInv
    BY DEF RoadInv
  <2> QED BY <2>1, <1>1, Zenon DEF SenderInv, ChunkStreams
<1>3. PendingInv'
  <2>1. PendingInv
    BY DEF RoadInv
  <2>2. pending' \in [ChunkStreams -> Seq(Seq(Units))]
    BY <2>1, <1>1 DEF PendingInv
  <2>3. \A c \in ChunkStreams : \A x \in 1..Len(pending'[c]) :
          \E i \in 1..Len(sent') : \E k \in 1..Count(sent'[i]) :
            sent'[i].cs = c /\ pending'[c][x] = Pieces(sent', i)[k]
    <3> SUFFICES ASSUME NEW c \in ChunkStreams, NEW x \in 1..Len(pending'[c])
                 PROVE  \E i \in 1..Len(sent') : \E k \in 1..Count(sent'[i]) :
                          sent'[i].cs = c /\ pending'[c][x] = Pieces(sent', i)[k]
      OBVIOUS
    <3>1. x \in 1..Len(pending[c]) /\ pending'[c][x] = pending[c][x]
      BY <1>1
    <3>2. PICK i \in 1..Len(sent) : \E k \in 1..Count(sent[i]) :
            sent[i].cs = c /\ pending[c][x] = Pieces(sent, i)[k]
      BY <2>1, <3>1, Zenon DEF PendingInv
    <3>3. PICK k \in 1..Count(sent[i]) :
            sent[i].cs = c /\ pending[c][x] = Pieces(sent, i)[k]
      BY <3>2
    <3>4. /\ i \in 1..Len(sent') /\ k \in 1..Count(sent'[i]) /\ sent'[i].cs = c
          /\ Pieces(sent', i) = Pieces(sent, i)
      BY <1>1, <3>3
    <3> QED BY <3>1, <3>3, <3>4
  <2> QED BY <2>2, <2>3, Zenon DEF PendingInv, ChunkStreams
<1>4. StreamInv'
  BY <1>1 DEF RoadInv, StreamInv
<1>5. \A p, i, k : Flight(p, i, k)' <=> Flight(p, i, k)
  BY <1>1 DEF Flight
<1>6. \A x, i, k : Waits(x, i, k)' <=> Waits(x, i, k)
  BY <1>1 DEF Waits
<1> QED BY <1>1, <1>2, <1>3, <1>4, <1>5, <1>6 DEF RoadInv

LEMMA RoadShrinks ==
  ASSUME TypeOK, RoadInv, UNCHANGED senderVars, net' = net,
         NEW n \in 0..Len(buf), buf' = SubSeq(buf, n + 1, Len(buf))
  PROVE  /\ RoadInv' /\ sent' = sent
         /\ Stream \in Seq(Units) /\ Stream' \in Seq(Units)
         /\ Len(Stream') = Len(Stream) - n /\ Len(buf') = Len(buf) - n
         /\ \A p : p \in Starts(Stream') <=> p \in Nat \ {0} /\ p + n \in Starts(Stream)
         /\ \A p, i, k : Flight(p, i, k)' <=> p \in Nat \ {0} /\ Flight(p + n, i, k)
         /\ \A x, i, k : Waits(x, i, k)' <=> Waits(x, i, k)
<1>1. sent' = sent /\ pending' = pending /\ outPrev' = outPrev /\ outDelta' = outDelta
  BY DEF senderVars
<1>2. SenderInv'
  <2>1. SenderInv
    BY DEF RoadInv
  <2> QED BY <2>1, <1>1, Zenon DEF SenderInv, ChunkStreams
<1>3. PendingInv'
  <2>1. PendingInv
    BY DEF RoadInv
  <2>2. pending' \in [ChunkStreams -> Seq(Seq(Units))]
    BY <2>1, <1>1 DEF PendingInv
  <2>3. \A c \in ChunkStreams : \A x \in 1..Len(pending'[c]) :
          \E i \in 1..Len(sent') : \E k \in 1..Count(sent'[i]) :
            sent'[i].cs = c /\ pending'[c][x] = Pieces(sent', i)[k]
    <3> SUFFICES ASSUME NEW c \in ChunkStreams, NEW x \in 1..Len(pending'[c])
                 PROVE  \E i \in 1..Len(sent') : \E k \in 1..Count(sent'[i]) :
                          sent'[i].cs = c /\ pending'[c][x] = Pieces(sent', i)[k]
      OBVIOUS
    <3>1. x \in 1..Len(pending[c]) /\ pending'[c][x] = pending[c][x]
      BY <1>1
    <3>2. PICK i \in 1..Len(sent) : \E k \in 1..Count(sent[i]) :
            sent[i].cs = c /\ pending[c][x] = Pieces(sent, i)[k]
      BY <2>1, <3>1, Zenon DEF PendingInv
    <3>3. PICK k \in 1..Count(sent[i]) :
            sent[i].cs = c /\ pending[c][x] = Pieces(sent, i)[k]
      BY <3>2
    <3>4. /\ i \in 1..Len(sent') /\ k \in 1..Count(sent'[i]) /\ sent'[i].cs = c
          /\ Pieces(sent', i) = Pieces(sent, i)
      BY <1>1, <3>3
    <3> QED BY <3>1, <3>3, <3>4
  <2> QED BY <2>2, <2>3, Zenon DEF PendingInv, ChunkStreams
<1>4. /\ buf \in Seq(Units) /\ net \in Seq(Units) /\ Identified(Stream, sent)
      /\ Sound(sent)
  BY SentIsSound DEF RoadInv, StreamInv
<1> DEFINE a == SubSeq(buf, 1, n)
           b == SubSeq(buf, n + 1, Len(buf))
<1>5. Len(buf) \in Nat /\ n \in Nat /\ n <= Len(buf) /\ Len(net) \in Nat
  BY <1>4
<1>6. a \in Seq(Units) /\ Len(a) = n
  <2>1. \A u \in 1..n : buf[u] \in Units
    BY <1>4, <1>5, ElementOfSeq
  <2>2. a \in Seq(Units) /\ Len(a) = IF 1 <= n THEN n - 1 + 1 ELSE 0
    BY <1>5, <2>1, SubSeqProperties
  <2> HIDE DEF a
  <2> QED BY <2>2, <1>5
<1>7. b \in Seq(Units) /\ Len(b) = Len(buf) - n
  <2>1. \A u \in (n + 1)..Len(buf) : buf[u] \in Units
    BY <1>4, <1>5, ElementOfSeq
  <2>2. b \in Seq(Units)
        /\ Len(b) = IF n + 1 <= Len(buf) THEN Len(buf) - (n + 1) + 1 ELSE 0
    BY <1>5, <2>1, SubSeqProperties
  <2> HIDE DEF b
  <2> QED BY <2>2, <1>5
<1>8. a \o b = buf
  <2>1. 1 \in 1..Len(buf) + 1 /\ n \in (1 - 1)..Len(buf) /\ Len(buf) \in n..Len(buf)
    BY <1>5
  <2>2. SubSeq(buf, 1, n) \o SubSeq(buf, n + 1, Len(buf)) = SubSeq(buf, 1, Len(buf))
    BY <1>4, <2>1, ConcatAdjacentSubSeq
  <2>3. SubSeq(buf, 1, Len(buf)) = buf
    BY <1>4, SubSeqFull
  <2> QED BY <2>2, <2>3
<1> HIDE DEF a, b
<1>9. Stream = a \o (b \o net)
  <2>1. Joins(a, b, net)
    BY <1>4, <1>6, <1>7, Associative
  <2>2. (a \o b) \o net = a \o (b \o net)
    BY <2>1, Zenon DEF Joins
  <2> QED BY <1>8, <2>2 DEF Stream
<1>10. Stream' = b \o net
  BY DEF Stream, b
<1> DEFINE r == b \o net
<1>11. r \in Seq(Units) /\ Len(r) = Len(b) + Len(net)
  BY <1>4, <1>7, Joined
<1> HIDE DEF r
<1>12. Halves(Units, a, r)
  BY <1>6, <1>11, TwoHalves
<1>13. /\ Stream \in Seq(Units) /\ Len(Stream) = n + Len(r)
       /\ \A u \in 1..Len(r) : Stream[n + u] = r[u]
  BY <1>6, <1>9, <1>12 DEF Halves, r
<1> DEFINE c == SubSeq(Stream, n + 1, Len(Stream))
<1>14. Len(r) \in Nat /\ n \in 0..Len(Stream)
  BY <1>5, <1>11, <1>13
<1>15. c = r
  <2> DEFINE m == Len(Stream)
  <2>1. m \in Nat /\ m = n + Len(r)
    BY <1>13, <1>14, <1>5
  <2>2. \A u \in (n + 1)..m : Stream[u] \in Units
    BY <1>5, <1>13, ElementOfSeq
  <2>3. /\ c \in Seq(Units)
        /\ Len(c) = IF n + 1 <= m THEN m - (n + 1) + 1 ELSE 0
        /\ \A u \in 1..(m - (n + 1) + 1) : c[u] = Stream[n + 1 + u - 1]
    BY <1>5, <2>1, <2>2, SubSeqProperties
  <2> HIDE DEF c, m
  <2>4. Len(c) = Len(r)
    BY <1>5, <1>14, <2>1, <2>3
  <2>5. ASSUME NEW u \in 1..Len(r) PROVE c[u] = r[u]
    <3>1. u \in 1..(m - (n + 1) + 1) /\ n + 1 + u - 1 = n + u
      BY <1>5, <1>14, <2>1
    <3> QED BY <3>1, <2>3, <1>13
  <2> QED BY <1>11, <2>3, <2>4, <2>5, SeqEqual
<1>16. Stream' = c
  BY <1>10, <1>15 DEF r
<1> HIDE DEF c
<1>17. /\ c \in Seq(Units) /\ Len(c) = Len(Stream) - n /\ Identified(c, sent)
       /\ \A p : p \in Starts(c) <=> p \in Nat \ {0} /\ p + n \in Starts(Stream)
       /\ \A p, i, k : PieceAt(c, sent, p, i, k) <=>
              p \in Nat \ {0} /\ PieceAt(Stream, sent, p + n, i, k)
  <2> DEFINE st == Stream
  <2>1. st \in Seq(Units) /\ Identified(st, sent) /\ n \in 0..Len(st)
    BY <1>4, <1>13, <1>14
  <2> HIDE DEF st
  <2>2. LET t == SubSeq(st, n + 1, Len(st)) IN
         /\ t \in Seq(Units) /\ Len(t) = Len(st) - n /\ Identified(t, sent)
         /\ \A p : p \in Starts(t) <=> p \in Nat \ {0} /\ p + n \in Starts(st)
         /\ \A p, i, k : PieceAt(t, sent, p, i, k) <=>
              p \in Nat \ {0} /\ PieceAt(st, sent, p + n, i, k)
    BY <1>4, <2>1, Shorter
  <2> QED BY <2>2 DEF st, c
<1>18. \A p, i, k : Flight(p, i, k)' <=> p \in Nat \ {0} /\ Flight(p + n, i, k)
  <2>1. \A p, i, k : Flight(p, i, k)' <=> PieceAt(c, sent, p, i, k)
    BY <1>1, <1>16 DEF Flight
  <2>2. \A p, i, k : Flight(p + n, i, k) <=> PieceAt(Stream, sent, p + n, i, k)
    BY DEF Flight
  <2>3. \A p, i, k : PieceAt(c, sent, p, i, k) <=>
              p \in Nat \ {0} /\ PieceAt(Stream, sent, p + n, i, k)
    BY <1>17
  <2> QED BY <2>1, <2>2, <2>3
<1>19. \A x, i, k : Waits(x, i, k)' <=> Waits(x, i, k)
  BY <1>1 DEF Waits
<1>20. StreamInv'
  BY <1>1, <1>4, <1>7, <1>16, <1>17 DEF StreamInv, b
<1>21. Len(buf') = Len(buf) - n
  BY <1>7 DEF b
<1>22. RoadInv'
  BY <1>2, <1>3, <1>20 DEF RoadInv
<1> QED BY <1>1, <1>13, <1>16, <1>17, <1>18, <1>19, <1>21, <1>22

-----------------------------------------------------------------------------
(* The chunk at the front of the buffer                                      *)

LEMMA UnitIs ==
  ASSUME NEW u \in Units
  PROVE  /\ u[1] = "basic" => u[2] \in [fmt : 0..3, cs : ChunkStreams]
         /\ u[1] = "ext" => u[2] \in 0..(Digit - 1)
         /\ u[1] = "body" => u[2] \in BodyBytes
BY DEF Units

\* What the receiver sees of chunk h of message g when it is at the front.
Seen(g, h) ==
  /\ Flight(1, g, h) /\ fmt = ChunkFormat(sent, g, h) /\ csid = sent[g].cs
  /\ \A u \in 1..Len(buf) : u <= Len(Pieces(sent, g)[h])
                            => buf[u] = Pieces(sent, g)[h][u]
  /\ HeaderThere =>
       /\ fmt <= 2 => Field(1) = Field24(TimeOf(sent, g))
       /\ fmt <= 1 => Field(2) = [len |-> sent[g].len, type |-> sent[g].type]
       /\ fmt = 0 => Field(3) = sent[g].sid

LEMMA FrontPiece ==
  ASSUME TypeOK, RoadInv, buf # <<>>, buf[1][1] = "basic"
  PROVE  /\ fmt \in 0..3 /\ csid \in ChunkStreams /\ Len(buf) \in Nat /\ Len(buf) >= 1
         /\ HeaderThere <=> Len(buf) >= 2 /\ Len(buf) >= 4 - fmt
         /\ \E g \in 1..Len(sent) : \E h \in 1..Count(sent[g]) : Seen(g, h)
<1>0. /\ buf \in Seq(Units) /\ net \in Seq(Units) /\ Identified(Stream, sent)
      /\ Sound(sent)
  BY SentIsSound DEF RoadInv, StreamInv
<1>1. Len(buf) \in Nat /\ Len(buf) >= 1 /\ buf[1] \in Units
  <2>1. Len(buf) \in Nat \ {0}
    BY <1>0, EmptySeq
  <2> QED BY <2>1, <1>0, ElementOfSeq
<1>2. buf[1][2] \in [fmt : 0..3, cs : ChunkStreams]
  BY <1>1, UnitIs
<1>3. fmt \in 0..3 /\ csid \in ChunkStreams
  BY <1>2 DEF fmt, csid
<1>4. HeaderThere <=> Len(buf) >= 2 /\ Len(buf) >= 4 - fmt
  <2>1. fmt \in Nat
    BY <1>3
  <2> QED BY <1>1, <2>1 DEF HeaderThere, HeadLen
<1>5. /\ Len(Stream) \in Nat /\ Len(Stream) >= Len(buf)
      /\ \A u \in 1..Len(buf) : Stream[u] = buf[u]
  <2>1. Halves(Units, buf, net)
    BY <1>0, TwoHalves
  <2>2. Len(Stream) = Len(buf) + Len(net) /\ \A u \in 1..Len(buf) : Stream[u] = buf[u]
    BY <2>1, Zenon DEF Halves, Stream
  <2>3. Len(net) \in Nat
    BY <1>0
  <2> QED BY <1>1, <2>2, <2>3
<1>6. 1 \in Starts(Stream)
  <2>1. 1 \in 1..Len(Stream) /\ 1 \in 1..Len(buf)
    BY <1>1, <1>5
  <2> QED BY <2>1, <1>5 DEF Starts
<1>7a. PICK g \in 1..Len(sent) : \E h \in 1..Count(sent[g]) :
                                    PieceAt(Stream, sent, 1, g, h)
  BY <1>0, <1>6 DEF Identified
<1>7. PICK h \in 1..Count(sent[g]) : PieceAt(Stream, sent, 1, g, h)
  BY <1>7a
<1> DEFINE w == Pieces(sent, g)[h]
           l == Lead(sent, g, h)
           f == ChunkFormat(sent, g, h)
<1>8. /\ Len(w) = l + Load(sent, g, h) /\ l \in Nat /\ l >= 1 /\ f \in 0..3
      /\ w[1] = <<"basic", [fmt |-> f, cs |-> sent[g].cs]>>
      /\ f <= 2 => w[2] = <<"ts", Field24(TimeOf(sent, g))>>
      /\ f <= 1 => w[3] = <<"lentype", [len |-> sent[g].len, type |-> sent[g].type]>>
      /\ f = 0 => w[4] = <<"sid", sent[g].sid>>
  BY <1>0, Shape DEF Sound
<1>9. Load(sent, g, h) \in Nat /\ Load(sent, g, h) >= 1
  BY <1>0, LoadIs DEF Sound
<1>10. l >= 4 - f
  BY <1>8 DEF Lead
<1>11. \A u \in 1..Len(w) : Stream[1 + u - 1] = w[u]
  BY <1>7 DEF PieceAt
<1> HIDE DEF w, l, f
<1>12. Len(w) \in Nat /\ Len(w) >= 5 - f /\ Len(w) >= 2
  BY <1>8, <1>9, <1>10
<1>13. \A u \in 1..Len(buf) : u <= Len(w) => buf[u] = w[u]
  <2> SUFFICES ASSUME NEW u \in 1..Len(buf), u <= Len(w) PROVE buf[u] = w[u]
    OBVIOUS
  <2>1. u \in 1..Len(w) /\ 1 + u - 1 = u
    BY <1>12
  <2> QED BY <2>1, <1>5, <1>11
<1>14. buf[1] = w[1]
  BY <1>1, <1>12, <1>13
<1>15. fmt = f /\ csid = sent[g].cs
  BY <1>8, <1>14 DEF fmt, csid
<1>16. ASSUME HeaderThere
       PROVE  /\ fmt <= 2 => Field(1) = Field24(TimeOf(sent, g))
              /\ fmt <= 1 => Field(2) = [len |-> sent[g].len, type |-> sent[g].type]
              /\ fmt = 0 => Field(3) = sent[g].sid
  <2>1. Len(buf) >= 4 - f /\ f \in Nat
    BY <1>4, <1>8, <1>15, <1>16
  <2>2. /\ f <= 2 => 2 \in 1..Len(buf) /\ 2 <= Len(w)
        /\ f <= 1 => 3 \in 1..Len(buf) /\ 3 <= Len(w)
        /\ f = 0 => 4 \in 1..Len(buf) /\ 4 <= Len(w)
    BY <2>1, <1>1, <1>12
  <2>3. /\ f <= 2 => buf[2] = w[2]
        /\ f <= 1 => buf[3] = w[3]
        /\ f = 0 => buf[4] = w[4]
    BY <2>2, <1>13
  <2>4. 1 + 1 = 2 /\ 1 + 2 = 3 /\ 1 + 3 = 4
    OBVIOUS
  <2> QED BY <2>3, <2>4, <1>8, <1>15 DEF Field
<1>17. Seen(g, h)
  BY <1>7, <1>13, <1>15, <1>16 DEF Seen, Flight, w, f
<1> QED BY <1>1, <1>3, <1>4, <1>17

LEMMA PlusIs ==
  ASSUME NEW a \in Nat, NEW b \in Nat
  PROVE  Plus(a, b) \in 0..(Digit * Digit - 1)
         /\ (a + b < Digit * Digit => Plus(a, b) = a + b)
<1> DEFINE q == Digit * Digit
<1>1. q \in Nat /\ q >= 1 /\ q \in Nat \ {0}
  BY SizesAre
<1> HIDE DEF q
<1>2. (a + b) % q \in Nat /\ (a + b) % q < q
  BY <1>1, Division
<1>3. a + b < q => (a + b) % q = a + b
  BY <1>1
<1>4. (a + b) % q \in 0..(q - 1)
  BY <1>1, <1>2
<1> QED BY <1>3, <1>4 DEF Plus, q

LEMMA ReadExtIs ==
  ASSUME NEW x \in 0..(Digit - 1), NEW y \in 0..(Digit - 1)
  PROVE  ReadExt(x, y) \in 0..(Digit * Digit - 1)
<1> DEFINE d == Digit
<1>1. d \in Nat /\ d >= 1 /\ d * d \in Nat
  BY SizesAre
<1>2. x \in Nat /\ y \in Nat /\ x < d /\ y < d
  BY <1>1
<1> HIDE DEF d
<1>3. x * d + d <= d * d /\ x * d \in Nat
  BY <1>1, <1>2, Multiples
<1>4. d * x = x * d
  BY <1>1, <1>2
<1>5. ReadExt(x, y) = d * x + y
  BY DEF ReadExt, d
<1>6. d * x + y \in Nat /\ d * x + y < d * d
  BY <1>1, <1>2, <1>3, <1>4
<1>7. d * x + y \in 0..(d * d - 1)
  BY <1>1, <1>6
<1> QED BY <1>5, <1>7 DEF d

LEMMA HeadersAre ==
  ASSUME TypeOK, NEW c \in ChunkStreams
  PROVE  /\ inPrev[c] \in Headers /\ packet[c].head \in Headers
         /\ inPrev[c].len \in Nat /\ inPrev[c].sid \in Nat
         /\ inPrev[c].ts \in Nat /\ inPrev[c].ts \in 0..(Digit * Digit - 1)
         /\ inPrev[c].type \in {"none", "size", "window", "data"}
         /\ packet[c].head.ts \in 0..(Digit * Digit - 1)
         /\ inDelta[c] \in Nat /\ inDelta[c] \in 0..(Digit * Digit - 1)
         /\ inExt[c] \in BOOLEAN
         /\ packet[c] \in Packets /\ packet[c].body \in Seq(BodyBytes)
         /\ Len(packet[c].body) \in Nat
         /\ packet[c].cap \in Nat \cup {-1}
         /\ packet[c] # NoPacket => Len(packet[c].body) < packet[c].cap
         /\ packet[c] = NoPacket => packet[c].body = <<>> /\ Len(packet[c].body) = 0
                                    /\ packet[c].head = Blank
<1>1. /\ inPrev[c] \in Headers /\ packet[c] \in Packets
      /\ inDelta[c] \in 0..(Digit * Digit - 1) /\ inExt[c] \in BOOLEAN
      /\ packet[c] # NoPacket => Len(packet[c].body) < packet[c].cap
  BY DEF TypeOK
<1>2. /\ packet[c].head \in Headers /\ packet[c].body \in Seq(BodyBytes)
      /\ packet[c].cap \in Nat \cup {-1}
  BY <1>1 DEF Packets
<1>3. packet[c] = NoPacket => packet[c].body = <<>> /\ packet[c].head = Blank
  BY DEF NoPacket
<1>4. \A h \in Headers : /\ h.len \in Nat /\ h.sid \in Nat
                         /\ h.ts \in 0..(Digit * Digit - 1)
                         /\ h.type \in {"none", "size", "window", "data"}
  BY DEF Headers
<1>5. \A z \in 0..(Digit * Digit - 1) : z \in Nat
  BY SizesAre
<1>6. Len(packet[c].body) \in Nat /\ Len(<<>>) = 0
  BY <1>2
<1> QED BY <1>1, <1>2, <1>3, <1>4, <1>5, <1>6

\* What a chunk with a complete header says is well formed, whatever chunk it is.
LEMMA TypedChunk ==
  ASSUME TypeOK, RoadInv, buf # <<>>, ~Misread, HeaderThere
  PROVE  /\ csid \in ChunkStreams /\ fmt \in 0..3 /\ ext \in BOOLEAN
         /\ BodyAt \in Nat /\ BodyAt >= 1 /\ BodyAt >= 1 + HeadLen
         /\ Capacity \in Nat /\ Len(packet[csid].body) < Capacity
         /\ ChunkLen \in Nat /\ ChunkLen >= 1
         /\ Len(packet[csid].body) + ChunkLen <= Capacity
         /\ Header \in Headers /\ Delta \in 0..(Digit * Digit - 1)
         /\ Len(buf) \in Nat
         /\ Len(buf) >= BodyAt + ChunkLen =>
              LET body == packet[csid].body \o [j \in 1..ChunkLen |-> buf[BodyAt + j][2]]
              IN  /\ body \in Seq(BodyBytes)
                  /\ Len(body) = Len(packet[csid].body) + ChunkLen
<1> DEFINE top == Digit * Digit - 1
<1>0. buf[1][1] = "basic"
  BY DEF Misread
<1>1. /\ fmt \in 0..3 /\ csid \in ChunkStreams /\ Len(buf) \in Nat
      /\ Len(buf) >= 2 /\ Len(buf) >= 4 - fmt
  BY <1>0, FrontPiece
<1>2. PICK g \in 1..Len(sent) : \E h \in 1..Count(sent[g]) : Seen(g, h)
  BY <1>0, FrontPiece
<1>3. /\ fmt <= 2 => Field(1) = Field24(TimeOf(sent, g))
      /\ fmt <= 1 => Field(2) = [len |-> sent[g].len, type |-> sent[g].type]
      /\ fmt = 0 => Field(3) = sent[g].sid
  BY <1>2 DEF Seen
<1>4. sent \in Seq(Catalogue) /\ Linked(sent) /\ buf \in Seq(Units)
  BY SentIsSound DEF RoadInv, StreamInv
<1>5. /\ sent[g].len \in Nat /\ sent[g].len >= 1 /\ sent[g].sid \in Nat
      /\ sent[g].type \in {"none", "size", "window", "data"}
  <2>1. /\ sent[g].len \in Nat /\ sent[g].len >= 1 /\ sent[g].sid \in Nat
        /\ sent[g].type \in {"size", "window", "data"}
    BY <1>4, MessageIs
  <2> QED BY <2>1
<1>6. Field24(TimeOf(sent, g)) \in 0..top /\ Field24(TimeOf(sent, g)) \in Nat
  <2>1. TimeOf(sent, g) \in Nat
    BY <1>4, TimeIs
  <2> QED BY <2>1, SizesAre DEF Field24, Smaller
<1>7. /\ fmt \in {0, 1, 2} => Field(1) \in 0..top /\ Field(1) \in Nat
      /\ fmt \in {0, 1} => /\ Field(2).len \in Nat /\ Field(2).len >= 1
                           /\ Field(2).type \in {"none", "size", "window", "data"}
      /\ fmt = 0 => Field(3) \in Nat
  BY <1>3, <1>5, <1>6
<1> DEFINE c == csid
           pk == packet[c]
<1>8. /\ inPrev[c].len \in Nat /\ inPrev[c].sid \in Nat /\ inPrev[c].ts \in Nat
      /\ inPrev[c].type \in {"none", "size", "window", "data"}
      /\ pk.head.ts \in 0..top
      /\ inDelta[c] \in 0..top /\ inDelta[c] \in Nat /\ inExt[c] \in BOOLEAN
      /\ pk.body \in Seq(BodyBytes) /\ Len(pk.body) \in Nat
      /\ pk.cap \in Nat \cup {-1}
      /\ pk # NoPacket => Len(pk.body) < pk.cap
      /\ pk = NoPacket => Len(pk.body) = 0
  BY <1>1, HeadersAre
<1>9. ext \in BOOLEAN
  BY <1>8 DEF ext
<1>10. /\ HeadLen \in Nat /\ BodyAt \in Nat /\ BodyAt >= 1 + HeadLen
       /\ HeadLen = 3 - fmt
       /\ ext => BodyAt = 3 + HeadLen
       /\ ~ext => BodyAt = 1 + HeadLen
  <2>1. HeadLen \in Nat /\ HeadLen = 3 - fmt
    BY <1>1 DEF HeadLen
  <2>2. BodyAt = 1 + HeadLen + (IF ext THEN 2 ELSE 0)
    BY DEF BodyAt
  <2> HIDE DEF top, c, pk
  <2>3. CASE ext
    <3>1. BodyAt = 1 + HeadLen + 2
      BY <2>2, <2>3
    <3> QED BY <2>1, <2>3, <3>1
  <2>4. CASE ~ext
    <3>1. BodyAt = 1 + HeadLen + 0
      BY <2>2, <2>4
    <3> QED BY <2>1, <2>4, <3>1
  <2> QED BY <2>3, <2>4
<1>11. inChunk \in Nat /\ inChunk >= 1
  BY SizesAre DEF TypeOK
<1>12. Capacity \in Nat /\ Len(pk.body) < Capacity
  <2>1. CASE Started
    <3>1. pk # NoPacket /\ Capacity = pk.cap
      BY <2>1 DEF Started, Capacity
    <3> QED BY <3>1, <1>8
  <2>2. CASE ~Started
    <3>1. pk = NoPacket /\ Capacity = MsgLen
      BY <2>2 DEF Started, Capacity
    <3>2. MsgLen \in Nat /\ MsgLen >= 1
      <4>1. CASE fmt \in {0, 1}
        BY <4>1, <1>7 DEF MsgLen
      <4>2. CASE ~(fmt \in {0, 1})
        BY <4>2, <1>8, <1>11 DEF MsgLen
      <4> QED BY <4>1, <4>2
    <3> QED BY <3>1, <3>2, <1>8
  <2> QED BY <2>1, <2>2
<1>13. ChunkLen \in Nat /\ ChunkLen >= 1 /\ Len(pk.body) + ChunkLen <= Capacity
  <2>1. Space = Capacity - Len(pk.body)
    BY DEF Space
  <2>2. ChunkLen = IF Space < inChunk THEN Space ELSE inChunk
    BY DEF ChunkLen, Smaller
  <2>3. Len(pk.body) \in Nat
    BY <1>8
  <2>4. \A x, y, z \in Nat : y < x /\ z >= 1 =>
          LET q == IF x - y < z THEN x - y ELSE z IN
          q \in Nat /\ q >= 1 /\ y + q <= x
    OBVIOUS
  <2> DEFINE q == IF Capacity - Len(pk.body) < inChunk THEN Capacity - Len(pk.body)
                  ELSE inChunk
  <2>5. q \in Nat /\ q >= 1 /\ Len(pk.body) + q <= Capacity
    BY <2>3, <2>4, <1>11, <1>12
  <2>6. ChunkLen = q
    BY <2>1, <2>2
  <2> HIDE DEF q, pk
  <2> QED BY <2>5, <2>6
<1>14. \A i \in (2 + HeadLen)..Len(buf) : i <= BodyAt + ChunkLen =>
          buf[i][1] = (IF i <= BodyAt THEN "ext" ELSE "body")
  <2> SUFFICES ASSUME NEW i \in (2 + HeadLen)..Len(buf), i <= BodyAt + ChunkLen
               PROVE  buf[i][1] = (IF i <= BodyAt THEN "ext" ELSE "body")
    OBVIOUS
  <2>1. i \in (2 + HeadLen)..Smaller(BodyAt + ChunkLen, Len(buf))
    BY <1>1, <1>10, <1>13 DEF Smaller
  <2> QED BY <2>1 DEF Misread
<1>15. \A i \in 1..Len(buf) : buf[i] \in Units
  BY <1>4, ElementOfSeq
<1>16. ASSUME ExtUsed PROVE ExtValue \in 0..top /\ ExtValue \in Nat
  <2>1. ext /\ Len(buf) >= BodyAt
    BY <1>16 DEF ExtUsed
  <2>2. BodyAt = 3 + HeadLen
    BY <2>1, <1>10
  <2>3. /\ BodyAt - 1 \in (2 + HeadLen)..Len(buf) /\ BodyAt - 1 <= BodyAt
        /\ BodyAt - 1 <= BodyAt + ChunkLen /\ BodyAt - 1 \in 1..Len(buf)
        /\ BodyAt \in (2 + HeadLen)..Len(buf) /\ BodyAt <= BodyAt
        /\ BodyAt <= BodyAt + ChunkLen /\ BodyAt \in 1..Len(buf)
    BY <2>1, <2>2, <1>1, <1>10, <1>13
  <2>4. buf[BodyAt - 1][1] = "ext" /\ buf[BodyAt][1] = "ext"
    BY <2>3, <1>14
  <2>5. buf[BodyAt - 1][2] \in 0..(Digit - 1) /\ buf[BodyAt][2] \in 0..(Digit - 1)
    BY <2>3, <2>4, <1>15, UnitIs
  <2>6. ExtValue \in 0..top
    BY <2>5, ReadExtIs DEF ExtValue
  <2>7. \A z \in 0..top : z \in Nat
    BY SizesAre
  <2> QED BY <2>6, <2>7
<1>17. Timestamp \in 0..top
  <2>1. CASE ExtUsed
    <3>1. Timestamp = Plus(ExtValue, inPrev[c].ts)
      BY <2>1 DEF Timestamp
    <3> QED BY <3>1, <2>1, <1>8, <1>16, PlusIs
  <2>2. CASE ~ExtUsed /\ fmt = 0
    <3>1. Timestamp = Field(1)
      BY <2>2 DEF Timestamp
    <3> QED BY <3>1, <2>2, <1>7
  <2>3. CASE ~ExtUsed /\ fmt \in {1, 2}
    <3>1. Timestamp = Plus(Field(1), inPrev[c].ts)
      BY <2>3 DEF Timestamp
    <3> QED BY <3>1, <2>3, <1>7, <1>8, PlusIs
  <2>4. CASE ~ExtUsed /\ fmt = 3
    <3>1. Timestamp = IF pk.head.ts = 0 THEN Plus(inDelta[c], inPrev[c].ts)
                      ELSE pk.head.ts
      BY <2>4 DEF Timestamp
    <3> QED BY <3>1, <1>8, PlusIs
  <2> QED BY <2>1, <2>2, <2>3, <2>4, <1>1
<1>18. Delta \in 0..top
  <2>1. CASE ExtUsed
    BY <2>1, <1>16 DEF Delta
  <2>2. CASE ~ExtUsed /\ fmt = 0
    <3>1. Delta = 0
      BY <2>2 DEF Delta
    <3> QED BY <3>1, SizesAre
  <2>3. CASE ~ExtUsed /\ fmt \in {1, 2}
    BY <2>3, <1>7 DEF Delta
  <2>4. CASE ~ExtUsed /\ fmt = 3
    BY <2>4, <1>8 DEF Delta
  <2> QED BY <2>1, <2>2, <2>3, <2>4, <1>1
<1>19. Header \in Headers
  <2>1. (IF fmt \in {0, 1} THEN Field(2).len ELSE inPrev[c].len) \in Nat
    BY <1>7, <1>8
  <2>2. (IF fmt \in {0, 1} THEN Field(2).type ELSE inPrev[c].type)
           \in {"none", "size", "window", "data"}
    BY <1>7, <1>8
  <2>3. (IF fmt = 0 THEN Field(3) ELSE inPrev[c].sid) \in Nat
    BY <1>7, <1>8
  <2> QED BY <2>1, <2>2, <2>3, <1>17 DEF Header, Headers
<1>20. ASSUME Len(buf) >= BodyAt + ChunkLen
       PROVE  LET body == pk.body \o [j \in 1..ChunkLen |-> buf[BodyAt + j][2]]
              IN  /\ body \in Seq(BodyBytes)
                  /\ Len(body) = Len(pk.body) + ChunkLen
  <2> DEFINE n == ChunkLen
             tail == [j \in 1..n |-> buf[BodyAt + j][2]]
  <2>1. ASSUME NEW j \in 1..n PROVE buf[BodyAt + j][2] \in BodyBytes
    <3> DEFINE i == BodyAt + j
    <3>1. /\ i \in (2 + HeadLen)..Len(buf) /\ i <= BodyAt + ChunkLen
          /\ ~(i <= BodyAt) /\ i \in 1..Len(buf)
      BY <1>1, <1>10, <1>13, <1>20
    <3> HIDE DEF i
    <3>2. buf[i][1] = "body" /\ buf[i] \in Units
      BY <3>1, <1>14, <1>15
    <3>3. buf[i][2] \in BodyBytes
      BY <3>2, UnitIs
    <3> QED BY <3>3 DEF i
  <2>2. n \in Nat
    BY <1>13
  <2> HIDE DEF n
  <2>3. tail \in [1..n -> BodyBytes]
    BY <2>1
  <2>4. tail \in Seq(BodyBytes) /\ Len(tail) = n
    BY <2>2, <2>3
  <2> HIDE DEF tail
  <2>5. pk.body \in Seq(BodyBytes)
    BY <1>8
  <2>6. Halves(BodyBytes, pk.body, tail)
    BY <2>4, <2>5, TwoHalves
  <2>7. pk.body \o tail \in Seq(BodyBytes) /\ Len(pk.body \o tail) = Len(pk.body) + n
    BY <2>4, <2>6 DEF Halves
  <2> QED BY <2>7 DEF tail, n
<1>21. BodyAt >= 1
  BY <1>10
<1> QED BY <1>1, <1>9, <1>10, <1>12, <1>13, <1>18, <1>19, <1>20, <1>21

-----------------------------------------------------------------------------
(* Types, and bytes counted once                                             *)

\* While nothing is being parsed, lastLeft is what is left; what is left has
\* arrived; what has arrived has been acknowledged or counted.
CountInv == /\ ~parsing => lastLeft = Len(buf)
            /\ Len(buf) <= arrived /\ acked + inBytes = arrived

BaseInv == TypeOK /\ RoadInv /\ CountInv

LEMMA InitBase == Init => BaseInv
<1> SUFFICES ASSUME Init PROVE BaseInv
  OBVIOUS
<1>1. /\ Blank \in Headers /\ 0 \in 0..(Digit * Digit - 1)
      /\ NoPacket \in Packets
  <2>1. 0 \in 0..(Digit * Digit - 1)
    BY SizesAre
  <2>2. Blank \in Headers
    BY <2>1 DEF Blank, Headers
  <2>3. <<>> \in Seq(BodyBytes) /\ -1 \in Nat \cup {-1}
    OBVIOUS
  <2> QED BY <2>1, <2>2, <2>3 DEF NoPacket, Packets
<1>2. TypeOK
  <2>1. <<>> \in Seq(Catalogue) /\ Len(<<>>) = 0 /\ 0 <= MaxSent
    BY SizesAre
  <2>2. /\ outPrev \in [ChunkStreams -> Headers] /\ inPrev \in [ChunkStreams -> Headers]
        /\ outDelta \in [ChunkStreams -> 0..(Digit * Digit - 1)]
        /\ inDelta \in [ChunkStreams -> 0..(Digit * Digit - 1)]
        /\ inExt \in [ChunkStreams -> BOOLEAN]
        /\ packet \in [ChunkStreams -> Packets]
        /\ \A c \in ChunkStreams : packet[c] = NoPacket
    BY <1>1 DEF Init
  <2>3. /\ sent = <<>> /\ inChunk = InChunk /\ parsing = FALSE /\ lost = FALSE
        /\ ackSize = Window /\ inBytes = 0 /\ lastLeft = 0 /\ acked = 0 /\ arrived = 0
    BY DEF Init
  <2>4. sent \in Seq(Catalogue) /\ Len(sent) <= MaxSent
    BY <2>1, <2>3
  <2>5. /\ inChunk \in {InChunk, OutChunk} /\ parsing \in BOOLEAN /\ lost \in BOOLEAN
        /\ ackSize \in {Window, NewWindow} /\ lastLeft \in 0..arrived
        /\ inBytes \in Nat /\ acked \in Nat /\ arrived \in Nat
    <3>1. parsing \in BOOLEAN /\ lost \in BOOLEAN
      BY <2>3, Zenon
    <3>2. 0 \in 0..0 /\ 0 \in Nat
      OBVIOUS
    <3>3. /\ inChunk \in {InChunk, OutChunk} /\ ackSize \in {Window, NewWindow}
          /\ lastLeft \in 0..arrived /\ inBytes \in Nat /\ acked \in Nat
          /\ arrived \in Nat
      BY <2>3, <3>2, Zenon
    <3> QED BY <3>1, <3>3, Zenon
  <2> QED BY <2>2, <2>4, <2>5 DEF TypeOK
<1>3. sent = <<>> /\ buf = <<>> /\ net = <<>> /\ Len(<<>>) = 0
      /\ \A i \in 1..0 : FALSE
  BY DEF Init
<1>4. SenderInv
  <2>1. Linked(sent)
    BY <1>3 DEF Linked
  <2>2. ASSUME NEW c \in ChunkStreams
        PROVE  \E j \in 0..Len(sent) : LastOn(sent, c, j)
                 /\ outPrev[c] = HeadOf(sent, j) /\ outDelta[c] = DeltaOf(sent, j)
    <3>1. 0 \in 0..Len(sent) /\ \A h \in (0 + 1)..Len(sent) : FALSE
      BY <1>3
    <3>2. LastOn(sent, c, 0)
      BY <3>1 DEF LastOn
    <3>3. outPrev[c] = HeadOf(sent, 0) /\ outDelta[c] = DeltaOf(sent, 0)
      BY DEF Init, HeadOf, DeltaOf
    <3> QED BY <3>1, <3>2, <3>3
  <2> QED BY <2>1, <2>2 DEF SenderInv
<1>5. PendingInv
  <2>1. pending = [c \in ChunkStreams |-> <<>>] /\ <<>> \in Seq(Seq(Units))
    BY DEF Init
  <2> QED BY <2>1, <1>3 DEF PendingInv
<1>6. StreamInv
  <2>1. Stream = <<>> /\ <<>> \in Seq(Units)
    BY <1>3 DEF Stream
  <2>2. Starts(Stream) = {}
    BY <1>3, <2>1 DEF Starts
  <2> QED BY <1>3, <2>1, <2>2 DEF StreamInv, Identified
<1>7. CountInv
  BY <1>3 DEF Init, CountInv
<1> QED BY <1>2, <1>4, <1>5, <1>6, <1>7 DEF BaseInv, RoadInv

LEMMA BuildBase ==
  ASSUME BaseInv, NEW m \in Catalogue, Build(m)
  PROVE  BaseInv'
<1>1. TypeOK /\ RoadInv /\ CountInv
  BY DEF BaseInv
<1>2. /\ RoadInv' /\ Sound(sent') /\ sent' = Append(sent, m)
  BY <1>1, BuildEffect
<1>3. /\ UNCHANGED <<net, buf, parsing, chunkVars, ackVars, lost>>
      /\ m.cs \in ChunkStreams
  BY DEF Build, ChunkStreams
<1>4. CountInv'
  BY <1>1, <1>3 DEF CountInv, ackVars
<1>5. /\ m.len \in Nat /\ m.sid \in Nat /\ m.ts \in 0..(Digit * Digit - 1)
      /\ m.type \in {"none", "size", "window", "data"}
  <2>1. m \in [cs : Nat, type : {"size", "window", "data"},
               len : Nat \ {0}, sid : Nat, ts : 0..(Digit * Digit - 1)]
    BY CatalogueAssumption
  <2> QED BY <2>1
<1> DEFINE t == IF Format(m) = 0 THEN m.ts ELSE m.ts - outPrev[m.cs].ts
<1>6. /\ outDelta' = [outDelta EXCEPT ![m.cs] = IF Format(m) = 0 THEN 0 ELSE t]
      /\ outPrev' = [outPrev EXCEPT ![m.cs] = [len |-> m.len, type |-> m.type,
                                               sid |-> m.sid, ts |-> m.ts]]
  BY DEF Build
<1>7. [len |-> m.len, type |-> m.type, sid |-> m.sid, ts |-> m.ts] \in Headers
  BY <1>5 DEF Headers
<1>8. (IF Format(m) = 0 THEN 0 ELSE t) \in 0..(Digit * Digit - 1)
  <2>1. CASE Format(m) = 0
    BY <2>1, SizesAre
  <2>2. CASE Format(m) # 0
    <3>1. ~(m.ts < outPrev[m.cs].ts)
      BY <2>2 DEF Format
    <3>2. outPrev[m.cs].ts \in 0..(Digit * Digit - 1)
      <4>1. outPrev[m.cs] \in Headers
        BY <1>1, <1>3 DEF TypeOK
      <4> QED BY <4>1 DEF Headers
    <3>3. m.ts - outPrev[m.cs].ts \in 0..(Digit * Digit - 1)
      BY <3>1, <3>2, <1>5, SizesAre
    <3> QED BY <3>3, <2>2
  <2> QED BY <2>1, <2>2
<1>9. outPrev' \in [ChunkStreams -> Headers]
      /\ outDelta' \in [ChunkStreams -> 0..(Digit * Digit - 1)]
  <2> HIDE DEF t
  <2>1. outPrev \in [ChunkStreams -> Headers]
        /\ outDelta \in [ChunkStreams -> 0..(Digit * Digit - 1)]
    BY <1>1 DEF TypeOK
  <2> QED BY <2>1, <1>6, <1>7, <1>8
<1>10. sent' \in Seq(Catalogue) /\ Len(sent') <= MaxSent
  BY <1>2 DEF Sound
<1>11. TypeOK'
  BY <1>1, <1>3, <1>9, <1>10 DEF TypeOK, chunkVars, ackVars
<1> QED BY <1>2, <1>4, <1>11 DEF BaseInv

LEMMA PutBase ==
  ASSUME BaseInv, NEW c \in ChunkStreams, Put(c)
  PROVE  BaseInv'
<1>1. TypeOK /\ RoadInv /\ CountInv
  BY DEF BaseInv
<1>2. RoadInv'
  BY <1>1, PutEffect
<1>3. UNCHANGED <<outPrev, outDelta, sent, buf, parsing, chunkVars, ackVars, lost>>
  BY DEF Put
<1>4. CountInv'
  BY <1>1, <1>3 DEF CountInv, ackVars
<1>5. TypeOK'
  BY <1>1, <1>3 DEF TypeOK, chunkVars, ackVars
<1> QED BY <1>2, <1>4, <1>5 DEF BaseInv

\* A read moves bytes from the net to the buffer.
LEMMA ArriveEffect ==
  ASSUME TypeOK, RoadInv, Arrive
  PROVE  /\ buf' \in Seq(Units) /\ net' \in Seq(Units) /\ Stream' = Stream
         /\ \E k \in 1..Len(net) :
              LET count == inBytes + Len(buf) + k - lastLeft
              IN  /\ Len(buf') = Len(buf) + k /\ k \in Nat
                  /\ arrived' = arrived + k
                  /\ IF count >= ackSize
                     THEN acked' = acked + count /\ inBytes' = 0
                     ELSE inBytes' = count /\ acked' = acked
<1>1. PICK k \in 1..Len(net) :
        LET count == inBytes + Len(buf) + k - lastLeft
        IN  /\ buf' = buf \o SubSeq(net, 1, k)
            /\ net' = SubSeq(net, k + 1, Len(net))
            /\ arrived' = arrived + k
            /\ IF count >= ackSize
               THEN acked' = acked + count /\ inBytes' = 0
               ELSE inBytes' = count /\ UNCHANGED acked
  BY DEF Arrive
<1>2. buf \in Seq(Units) /\ net \in Seq(Units) /\ Len(net) \in Nat /\ k \in Nat
      /\ k <= Len(net) /\ k >= 1
  BY DEF RoadInv, StreamInv
<1> DEFINE a == SubSeq(net, 1, k)
           b == SubSeq(net, k + 1, Len(net))
<1>3. a \in Seq(Units) /\ Len(a) = k
  <2>1. \A u \in 1..k : net[u] \in Units
    BY <1>2, ElementOfSeq
  <2>2. a \in Seq(Units) /\ Len(a) = IF 1 <= k THEN k - 1 + 1 ELSE 0
    BY <1>2, <2>1, SubSeqProperties
  <2> HIDE DEF a
  <2> QED BY <2>2, <1>2
<1>4. b \in Seq(Units)
  <2>1. \A u \in (k + 1)..Len(net) : net[u] \in Units
    BY <1>2, ElementOfSeq
  <2> QED BY <1>2, <2>1, SubSeqProperties
<1>5. a \o b = net
  <2>1. 1 \in 1..Len(net) + 1 /\ k \in (1 - 1)..Len(net) /\ Len(net) \in k..Len(net)
    BY <1>2
  <2>2. SubSeq(net, 1, k) \o SubSeq(net, k + 1, Len(net)) = SubSeq(net, 1, Len(net))
    BY <1>2, <2>1, ConcatAdjacentSubSeq
  <2>3. SubSeq(net, 1, Len(net)) = net
    BY <1>2, SubSeqFull
  <2> QED BY <2>2, <2>3
<1>6. buf' = buf \o a /\ net' = b
  BY <1>1
<1> HIDE DEF a, b
<1>7. Halves(Units, buf, a)
  BY <1>2, <1>3, TwoHalves
<1>8. buf' \in Seq(Units) /\ Len(buf') = Len(buf) + k
  BY <1>3, <1>6, <1>7 DEF Halves
<1>9. Stream' = Stream
  <2>1. Joins(buf, a, b)
    BY <1>2, <1>3, <1>4, Associative
  <2>2. (buf \o a) \o b = buf \o (a \o b)
    BY <2>1, Zenon DEF Joins
  <2> QED BY <2>2, <1>5, <1>6 DEF Stream
<1> QED BY <1>1, <1>2, <1>4, <1>6, <1>8, <1>9

LEMMA ArriveBase ==
  ASSUME BaseInv, Arrive
  PROVE  BaseInv'
<1>1. TypeOK /\ RoadInv /\ CountInv
  BY DEF BaseInv
<1>2. /\ ~parsing /\ parsing' = TRUE
      /\ UNCHANGED <<senderVars, chunkVars, ackSize, lastLeft, lost>>
  BY DEF Arrive
<1>3. buf' \in Seq(Units) /\ net' \in Seq(Units) /\ Stream' = Stream
  BY <1>1, ArriveEffect
<1>4. RoadInv'
  BY <1>1, <1>2, <1>3, RoadStays
<1>5. PICK k \in 1..Len(net) :
              LET count == inBytes + Len(buf) + k - lastLeft
              IN  /\ Len(buf') = Len(buf) + k /\ k \in Nat
                  /\ arrived' = arrived + k
                  /\ IF count >= ackSize
                     THEN acked' = acked + count /\ inBytes' = 0
                     ELSE inBytes' = count /\ acked' = acked
  BY <1>1, ArriveEffect
<1>6. /\ lastLeft = Len(buf) /\ Len(buf) \in Nat /\ Len(buf) <= arrived
      /\ acked + inBytes = arrived /\ inBytes \in Nat /\ acked \in Nat
      /\ arrived \in Nat /\ lastLeft \in 0..arrived
  BY <1>1, <1>2 DEF CountInv, TypeOK, RoadInv, StreamInv
<1> DEFINE count == inBytes + Len(buf) + k - lastLeft
<1>7. count = inBytes + k
  BY <1>5, <1>6
<1>8. /\ Len(buf') = Len(buf) + k /\ k \in Nat /\ arrived' = arrived + k
      /\ \/ acked' = acked + (inBytes + k) /\ inBytes' = 0
         \/ inBytes' = inBytes + k /\ acked' = acked
  BY <1>5, <1>7
<1>9. /\ acked' + inBytes' = arrived' /\ inBytes' \in Nat /\ acked' \in Nat
      /\ arrived' \in Nat /\ Len(buf') <= arrived' /\ lastLeft \in 0..arrived'
  BY <1>6, <1>8
<1>10. CountInv'
  BY <1>2, <1>9 DEF CountInv
<1>11. TypeOK'
  BY <1>1, <1>2, <1>9 DEF TypeOK, chunkVars, senderVars
<1> QED BY <1>4, <1>10, <1>11 DEF BaseInv

LEMMA StopBase ==
  ASSUME BaseInv, ParseStop
  PROVE  BaseInv'
<1>1. TypeOK /\ RoadInv /\ CountInv
  BY DEF BaseInv
<1>2. /\ parsing' = FALSE /\ lastLeft' = Len(buf)
      /\ UNCHANGED <<senderVars, net, buf, chunkVars, ackSize, inBytes, acked,
                     arrived, lost>>
  BY DEF ParseStop, Return
<1>3. buf' \in Seq(Units) /\ net' \in Seq(Units) /\ Stream' = Stream
  BY <1>1, <1>2 DEF RoadInv, StreamInv, Stream
<1>4. RoadInv'
  BY <1>1, <1>2, <1>3, RoadStays
<1>5. CountInv'
  BY <1>1, <1>2 DEF CountInv
<1>6. Len(buf) \in 0..arrived
  BY <1>1 DEF CountInv, TypeOK, RoadInv, StreamInv
<1>7. TypeOK'
  BY <1>1, <1>2, <1>6 DEF TypeOK, chunkVars, senderVars
<1> QED BY <1>4, <1>5, <1>7 DEF BaseInv

LEMMA PartBase ==
  ASSUME BaseInv, ParsePart
  PROVE  BaseInv'
<1>1. TypeOK /\ RoadInv /\ CountInv
  BY DEF BaseInv
<1>2. /\ parsing' = FALSE /\ lastLeft' = Len(buf)
      /\ UNCHANGED <<senderVars, net, buf, inPrev, inChunk, delivered, ackSize,
                     inBytes, acked, arrived, lost>>
      /\ buf # <<>> /\ ~Misread /\ HeaderThere
      /\ inDelta' = [inDelta EXCEPT ![csid] = Delta]
      /\ inExt' = [inExt EXCEPT ![csid] = ext]
      /\ packet' = [packet EXCEPT ![csid] =
                  [cap |-> Capacity, body |-> @.body, head |-> Header]]
  BY DEF ParsePart, ReadHeader, Return
<1>3. buf' \in Seq(Units) /\ net' \in Seq(Units) /\ Stream' = Stream
  BY <1>1, <1>2 DEF RoadInv, StreamInv, Stream
<1>4. RoadInv'
  BY <1>1, <1>2, <1>3, RoadStays
<1>5. CountInv'
  BY <1>1, <1>2 DEF CountInv
<1>6. Len(buf) \in 0..arrived
  BY <1>1 DEF CountInv, TypeOK, RoadInv, StreamInv
<1>7. /\ csid \in ChunkStreams /\ ext \in BOOLEAN /\ Delta \in 0..(Digit * Digit - 1)
      /\ Header \in Headers /\ Capacity \in Nat /\ Len(packet[csid].body) < Capacity
  BY <1>1, <1>2, TypedChunk
<1> DEFINE c == csid
           pk == [cap |-> Capacity, body |-> packet[c].body, head |-> Header]
<1>8. pk \in Packets /\ Len(pk.body) < pk.cap
  <2>1. packet[c].body \in Seq(BodyBytes)
    BY <1>1, <1>7, HeadersAre
  <2> QED BY <2>1, <1>7 DEF Packets
<1>9. packet' = [packet EXCEPT ![c] = pk]
  BY <1>2
<1>10. /\ packet \in [ChunkStreams -> Packets] /\ inExt \in [ChunkStreams -> BOOLEAN]
       /\ inDelta \in [ChunkStreams -> 0..(Digit * Digit - 1)]
       /\ \A d \in ChunkStreams :
             packet[d] # NoPacket => Len(packet[d].body) < packet[d].cap
  BY <1>1 DEF TypeOK
<1> HIDE DEF pk, c
<1>11. packet' \in [ChunkStreams -> Packets]
       /\ \A d \in ChunkStreams :
             packet'[d] # NoPacket => Len(packet'[d].body) < packet'[d].cap
  <2>1. \A d \in ChunkStreams : packet'[d] = IF d = c THEN pk ELSE packet[d]
    BY <1>9, <1>10
  <2> QED BY <2>1, <1>8, <1>9, <1>10
<1>12. inExt' \in [ChunkStreams -> BOOLEAN]
       /\ inDelta' \in [ChunkStreams -> 0..(Digit * Digit - 1)]
  BY <1>2, <1>7, <1>10
<1>13. TypeOK'
  BY <1>1, <1>2, <1>6, <1>11, <1>12 DEF TypeOK, senderVars
<1> QED BY <1>4, <1>5, <1>13 DEF BaseInv

LEMMA ChunkBase ==
  ASSUME BaseInv, ParseChunk
  PROVE  BaseInv'
<1>1. TypeOK /\ RoadInv /\ CountInv
  BY DEF BaseInv
<1> DEFINE c == csid
           n == BodyAt + ChunkLen
           body == packet[c].body \o [j \in 1..ChunkLen |-> buf[BodyAt + j][2]]
           pk == [cap |-> Capacity, body |-> body, head |-> Header]
<1>2. /\ parsing /\ buf # <<>> /\ ~Misread /\ HeaderThere /\ Len(buf) >= n
      /\ inDelta' = [inDelta EXCEPT ![c] = Delta]
      /\ inExt' = [inExt EXCEPT ![c] = ext]
      /\ inPrev' = [inPrev EXCEPT ![c] = Header]
      /\ buf' = SubSeq(buf, n + 1, Len(buf))
      /\ UNCHANGED <<senderVars, net, parsing, inBytes, lastLeft, acked, arrived, lost>>
  BY DEF ParseChunk, ReadHeader
<1>3. /\ c \in ChunkStreams /\ ext \in BOOLEAN /\ Delta \in 0..(Digit * Digit - 1)
      /\ Header \in Headers /\ Capacity \in Nat
      /\ Len(packet[c].body) + ChunkLen <= Capacity
      /\ n \in 0..Len(buf)
      /\ body \in Seq(BodyBytes) /\ Len(body) = Len(packet[c].body) + ChunkLen
  <2>1. /\ csid \in ChunkStreams /\ ext \in BOOLEAN /\ BodyAt \in Nat
        /\ Capacity \in Nat /\ ChunkLen \in Nat
        /\ Len(packet[csid].body) + ChunkLen <= Capacity
        /\ Header \in Headers /\ Delta \in 0..(Digit * Digit - 1) /\ Len(buf) \in Nat
    BY <1>1, <1>2, TypedChunk
  <2>2. body \in Seq(BodyBytes) /\ Len(body) = Len(packet[c].body) + ChunkLen
    BY <1>1, <1>2, TypedChunk
  <2>3. n \in 0..Len(buf)
    BY <2>1, <1>2
  <2> QED BY <2>1, <2>2, <2>3
<1>4. /\ inChunk' \in {InChunk, OutChunk} /\ ackSize' \in {Window, NewWindow}
      /\ \/ packet' = [packet EXCEPT ![c] = NoPacket]
         \/ /\ packet' = [packet EXCEPT ![c] = pk]
            /\ Len(body) # Capacity
  <2>1. inChunk \in {InChunk, OutChunk} /\ ackSize \in {Window, NewWindow}
    BY <1>1 DEF TypeOK
  <2>2. IF Len(body) = Capacity THEN Complete(body)
        ELSE /\ packet' = [packet EXCEPT ![c] = pk]
             /\ UNCHANGED <<delivered, inChunk, ackSize>>
    BY DEF ParseChunk
  <2> HIDE DEF body, pk
  <2>3. CASE Len(body) = Capacity
    <3>1. /\ packet' = [packet EXCEPT ![c] = NoPacket]
          /\ inChunk' = IF Header.type = "size" THEN OutChunk ELSE inChunk
          /\ ackSize' = IF Header.type = "window" THEN NewWindow ELSE ackSize
      BY <2>2, <2>3 DEF Complete
    <3> QED BY <3>1, <2>1
  <2>4. CASE Len(body) # Capacity
    BY <2>1, <2>2, <2>4
  <2> QED BY <2>3, <2>4
<1> HIDE DEF body
<1>5. pk \in Packets /\ (Len(body) # Capacity => Len(pk.body) < pk.cap)
  <2>1. Len(packet[c].body) \in Nat /\ Len(body) \in Nat
    BY <1>1, <1>3, HeadersAre
  <2> QED BY <2>1, <1>3 DEF Packets
<1>6. NoPacket \in Packets
  <2>1. 0 \in 0..(Digit * Digit - 1)
    BY SizesAre
  <2>2. Blank \in Headers
    BY <2>1 DEF Blank, Headers
  <2>3. <<>> \in Seq(BodyBytes) /\ -1 \in Nat \cup {-1}
    OBVIOUS
  <2> QED BY <2>2, <2>3 DEF NoPacket, Packets
<1>7. /\ packet \in [ChunkStreams -> Packets] /\ inExt \in [ChunkStreams -> BOOLEAN]
      /\ inDelta \in [ChunkStreams -> 0..(Digit * Digit - 1)]
      /\ inPrev \in [ChunkStreams -> Headers]
      /\ \A d \in ChunkStreams :
             packet[d] # NoPacket => Len(packet[d].body) < packet[d].cap
  BY <1>1 DEF TypeOK
<1> HIDE DEF pk, c, n
<1>8. packet' \in [ChunkStreams -> Packets]
      /\ \A d \in ChunkStreams :
             packet'[d] # NoPacket => Len(packet'[d].body) < packet'[d].cap
  <2>1. CASE packet' = [packet EXCEPT ![c] = NoPacket]
    <3>1. \A d \in ChunkStreams : packet'[d] = IF d = c THEN NoPacket ELSE packet[d]
      BY <2>1, <1>7
    <3> QED BY <3>1, <2>1, <1>6, <1>7
  <2>2. CASE packet' = [packet EXCEPT ![c] = pk] /\ Len(body) # Capacity
    <3>1. \A d \in ChunkStreams : packet'[d] = IF d = c THEN pk ELSE packet[d]
      BY <2>2, <1>7
    <3> QED BY <3>1, <2>2, <1>5, <1>7
  <2> QED BY <2>1, <2>2, <1>4
<1>9. /\ inExt' \in [ChunkStreams -> BOOLEAN]
      /\ inDelta' \in [ChunkStreams -> 0..(Digit * Digit - 1)]
      /\ inPrev' \in [ChunkStreams -> Headers]
  BY <1>2, <1>3, <1>7
<1>10. RoadInv' /\ Len(buf') = Len(buf) - n
  BY <1>1, <1>2, <1>3, RoadShrinks
<1>11. Len(buf) \in Nat /\ n \in Nat /\ Len(buf) <= arrived /\ arrived \in Nat
       /\ acked + inBytes = arrived
  BY <1>1, <1>3 DEF CountInv, TypeOK, RoadInv, StreamInv
<1>12. CountInv'
  <2>1. Len(buf') <= arrived
    BY <1>10, <1>11
  <2> QED BY <2>1, <1>2, <1>11 DEF CountInv
<1>13. TypeOK'
  BY <1>1, <1>2, <1>4, <1>8, <1>9 DEF TypeOK, senderVars
<1> QED BY <1>10, <1>12, <1>13 DEF BaseInv

LEMMA NextBase == BaseInv /\ [Next]_vars => BaseInv'
<1> SUFFICES ASSUME BaseInv, [Next]_vars PROVE BaseInv'
  OBVIOUS
<1>1. ASSUME NEW m \in Catalogue, Build(m) PROVE BaseInv'
  BY <1>1, BuildBase
<1>2. ASSUME NEW c \in ChunkStreams, Put(c) PROVE BaseInv'
  BY <1>2, PutBase
<1>3. CASE Arrive
  BY <1>3, ArriveBase
<1>4. CASE ParseStop
  BY <1>4, StopBase
<1>5. CASE ParsePart
  BY <1>5, PartBase
<1>6. CASE ParseChunk
  BY <1>6, ChunkBase
<1>7. ASSUME UNCHANGED <<senderVars, net, buf, parsing, chunkVars, ackVars>>,
             lost' \in BOOLEAN
      PROVE  BaseInv'
  <2>1. TypeOK /\ RoadInv /\ CountInv
    BY DEF BaseInv
  <2>2. buf' \in Seq(Units) /\ net' \in Seq(Units) /\ Stream' = Stream
    BY <1>7, <2>1 DEF RoadInv, StreamInv, Stream
  <2>3. RoadInv'
    BY <1>7, <2>1, <2>2, RoadStays
  <2>4. CountInv'
    BY <1>7, <2>1 DEF CountInv, ackVars
  <2>5. TypeOK'
    BY <1>7, <2>1 DEF TypeOK, senderVars, chunkVars, ackVars
  <2> QED BY <2>3, <2>4, <2>5 DEF BaseInv
<1>8. CASE LoseTrack
  BY <1>7, <1>8 DEF LoseTrack
<1>9. CASE UNCHANGED vars
  <2>1. lost \in BOOLEAN
    BY DEF BaseInv, TypeOK
  <2> QED BY <2>1, <1>7, <1>9 DEF vars
<1> QED
  BY <1>1, <1>2, <1>3, <1>4, <1>5, <1>6, <1>8, <1>9 DEF Next, Receiver

\* The types of the parser's state hold in every state, for every catalogue,
\* chunk size and window: a packet never takes more than its message's length,
\* whatever mixture of chunks and whatever part of them has arrived.
THEOREM ChunkTypes == Spec => []TypeOK
<1>1. BaseInv => TypeOK
  BY DEF BaseInv
<1> QED BY <1>1, InitBase, NextBase, PTL DEF Spec

\* Every byte is counted once for the acknowledgements, however often ParseMessage
\* stops in a chunk and starts again with bytes it has seen.
THEOREM BytesCountedOnce == Spec => []CountedOnce
<1>1. BaseInv => CountedOnce
  BY DEF BaseInv, CountInv, CountedOnce
<1> QED BY <1>1, InitBase, NextBase, PTL DEF Spec

-----------------------------------------------------------------------------
(* The order on the road                                                     *)

\* Chunk k of message i comes before chunk h of message g.
Less(i, k, g, h) == i < g \/ (i = g /\ k < h)

\* The chunks of one chunk stream are in the order in which they were built,
\* those that are still to be written behind those that are in the stream.
OrderInv ==
  /\ \A p, q, i, k, g, h :
       p < q /\ Flight(p, i, k) /\ Flight(q, g, h) /\ sent[i].cs = sent[g].cs
         => Less(i, k, g, h)
  /\ \A x, y, i, k, g, h :
       x < y /\ Waits(x, i, k) /\ Waits(y, g, h) /\ sent[i].cs = sent[g].cs
         => Less(i, k, g, h)
  /\ \A p, y, i, k, g, h :
       Flight(p, i, k) /\ Waits(y, g, h) /\ sent[i].cs = sent[g].cs
         => Less(i, k, g, h)

OnRoad(i, k) == (\E p : Flight(p, i, k)) \/ (\E x : Waits(x, i, k))

LEMMA RoadTypes ==
  ASSUME TypeOK, RoadInv, NEW i, NEW k
  PROVE  /\ \A p : Flight(p, i, k) =>
              /\ p \in Nat /\ p >= 1 /\ p <= Len(Stream) /\ p \in Starts(Stream)
              /\ i \in 1..Len(sent) /\ k \in 1..Count(sent[i]) /\ k \in Nat
         /\ \A x : Waits(x, i, k) =>
              /\ x \in Nat /\ x >= 1 /\ x <= Len(pending[sent[i].cs])
              /\ i \in 1..Len(sent) /\ k \in 1..Count(sent[i]) /\ k \in Nat
<1>1. sent \in Seq(Catalogue) /\ Len(sent) \in Nat
  BY SentIsSound
<1>2. Stream \in Seq(Units) /\ Len(Stream) \in Nat
  <2>1. buf \in Seq(Units) /\ net \in Seq(Units)
    BY DEF RoadInv, StreamInv
  <2>2. Halves(Units, buf, net)
    BY <2>1, TwoHalves
  <2>3. Stream \in Seq(Units)
    BY <2>2 DEF Halves, Stream
  <2> QED BY <2>3
<1>3. ASSUME NEW p, Flight(p, i, k)
      PROVE  /\ p \in Nat /\ p >= 1 /\ p <= Len(Stream) /\ p \in Starts(Stream)
             /\ i \in 1..Len(sent) /\ k \in 1..Count(sent[i]) /\ k \in Nat
  <2>1. p \in Starts(Stream) /\ i \in 1..Len(sent) /\ k \in 1..Count(sent[i])
    BY <1>3 DEF Flight, PieceAt
  <2>2. p \in 1..Len(Stream)
    BY <2>1 DEF Starts
  <2>3. k \in Nat
    BY <2>1, <1>1, LoadIs
  <2> QED BY <2>1, <2>2, <2>3, <1>2
<1>4. ASSUME NEW x, Waits(x, i, k)
      PROVE  /\ x \in Nat /\ x >= 1 /\ x <= Len(pending[sent[i].cs])
             /\ i \in 1..Len(sent) /\ k \in 1..Count(sent[i]) /\ k \in Nat
  <2>1. /\ x \in 1..Len(pending[sent[i].cs]) /\ i \in 1..Len(sent)
        /\ k \in 1..Count(sent[i])
    BY <1>4 DEF Waits
  <2>2. sent[i].cs \in ChunkStreams
    BY <2>1, <1>1, MessageIs
  <2>3. pending[sent[i].cs] \in Seq(Seq(Units))
    BY <2>2 DEF RoadInv, PendingInv
  <2>4. Len(pending[sent[i].cs]) \in Nat
    BY <2>3
  <2>5. k \in Nat
    BY <2>1, <1>1, LoadIs
  <2> QED BY <2>1, <2>4, <2>5
<1> QED BY <1>3, <1>4

\* A new message goes to the end of the road.
LEMMA BuildOrder ==
  ASSUME TypeOK, RoadInv, OrderInv, NEW m \in Catalogue, Build(m)
  PROVE  /\ OrderInv'
         /\ \A i, k : OnRoad(i, k)' <=> \/ OnRoad(i, k)
                                        \/ i = Len(sent) + 1 /\ k \in 1..Count(m)
<1> DEFINE n == Len(sent) + 1
           t == Append(sent, m)
           c == m.cs
           e == Len(pending[c])
<1>1. /\ sent' = t
      /\ \A p, i, k : Flight(p, i, k)' <=> Flight(p, i, k)
      /\ \A x, i, k : Waits(x, i, k)' <=>
              \/ Waits(x, i, k)
              \/ i = n /\ k \in 1..Count(m) /\ x = e + k
  BY BuildEffect
<1>2. /\ sent \in Seq(Catalogue) /\ Len(sent) \in Nat /\ n \in Nat
      /\ t[n] = m /\ \A i \in 1..Len(sent) : t[i] = sent[i] /\ i < n
      /\ Count(m) \in Nat /\ c \in ChunkStreams
  <2>1. sent \in Seq(Catalogue) /\ Len(sent) \in Nat
    BY SentIsSound
  <2>2. t[n] = m /\ \A i \in 1..Len(sent) : t[i] = sent[i]
    BY <2>1, AppendProperties
  <2>3. Count(m) \in Nat /\ c \in ChunkStreams
    BY CountIs DEF ChunkStreams
  <2>4. n \in Nat /\ \A i \in 1..Len(sent) : i < n
    BY <2>1
  <2> QED BY <2>1, <2>2, <2>3, <2>4
<1>3. e \in Nat
  <2>1. pending[c] \in Seq(Seq(Units))
    BY <1>2 DEF RoadInv, PendingInv
  <2> QED BY <2>1
<1>4. \A i, k : OnRoad(i, k)' <=> \/ OnRoad(i, k)
                                  \/ i = n /\ k \in 1..Count(m)
  <2>1. ASSUME NEW i, NEW k
        PROVE  (\E x : Waits(x, i, k)') <=> \/ \E x : Waits(x, i, k)
                                            \/ i = n /\ k \in 1..Count(m)
    <3> HIDE DEF n, e
    <3>1. ASSUME NEW x, Waits(x, i, k)'
          PROVE  \/ \E y : Waits(y, i, k)
                 \/ i = n /\ k \in 1..Count(m)
      BY <1>1, <3>1
    <3>2. ASSUME NEW x, Waits(x, i, k) PROVE \E y : Waits(y, i, k)'
      BY <1>1, <3>2
    <3>3. ASSUME i = n, k \in 1..Count(m) PROVE \E y : Waits(y, i, k)'
      <4>1. PICK y : y = e + k
        OBVIOUS
      <4>2. Waits(y, i, k)'
        BY <4>1, <1>1, <3>3
      <4> QED BY <4>2
    <3> QED BY <3>1, <3>2, <3>3, Zenon
  <2>2. ASSUME NEW i, NEW k
        PROVE  (\E p : Flight(p, i, k)') <=> (\E p : Flight(p, i, k))
    BY <1>1
  <2> QED BY <2>1, <2>2, Zenon DEF OnRoad
<1>5. ASSUME NEW i, NEW k, NEW x, Waits(x, i, k)
      PROVE  /\ i \in 1..Len(sent) /\ i < n /\ t[i] = sent[i] /\ x \in Nat
             /\ sent[i].cs = c => x <= e
  <2>1. x \in Nat /\ x <= Len(pending[sent[i].cs]) /\ i \in 1..Len(sent)
    BY <1>5, RoadTypes
  <2> QED BY <2>1, <1>2
<1>6. ASSUME NEW i, NEW k, NEW p, Flight(p, i, k)
      PROVE  i \in 1..Len(sent) /\ i < n /\ t[i] = sent[i]
  <2>1. i \in 1..Len(sent)
    BY <1>6, RoadTypes
  <2> QED BY <2>1, <1>2
<1> HIDE DEF n, t, e
<1>7. ASSUME NEW p, NEW q, NEW i, NEW k, NEW g, NEW h,
             p < q, Flight(p, i, k)', Flight(q, g, h)', t[i].cs = t[g].cs
      PROVE  Less(i, k, g, h)
  <2>1. Flight(p, i, k) /\ Flight(q, g, h)
    BY <1>1, <1>7
  <2>2. sent[i].cs = sent[g].cs
    BY <2>1, <1>6, <1>7
  <2> QED BY <2>1, <2>2, <1>7 DEF OrderInv
<1>8. ASSUME NEW x, NEW y, NEW i, NEW k, NEW g, NEW h,
             x < y, Waits(x, i, k)', Waits(y, g, h)', t[i].cs = t[g].cs
      PROVE  Less(i, k, g, h)
  <2>1. CASE Waits(x, i, k) /\ Waits(y, g, h)
    <3>1. sent[i].cs = sent[g].cs
      BY <2>1, <1>5, <1>8
    <3> QED BY <2>1, <3>1, <1>8 DEF OrderInv
  <2>2. CASE Waits(x, i, k) /\ g = n
    <3>1. i < n
      BY <2>2, <1>5
    <3> QED BY <2>2, <3>1 DEF Less
  <2>3. CASE /\ i = n /\ k \in 1..Count(m) /\ x = e + k
             /\ Waits(y, g, h)
    <3>1. t[g] = sent[g] /\ y \in Nat /\ (sent[g].cs = c => y <= e)
      BY <2>3, <1>5
    <3>2. y <= e
      BY <3>1, <2>3, <1>2, <1>8
    <3>3. k \in Nat
      BY <2>3, <1>2
    <3>4. FALSE
      BY <2>3, <3>1, <3>2, <3>3, <1>3, <1>8
    <3> QED BY <3>4
  <2>4. CASE /\ i = n /\ k \in 1..Count(m) /\ x = e + k
             /\ g = n /\ h \in 1..Count(m) /\ y = e + h
    <3>1. k \in Nat /\ h \in Nat
      BY <2>4, <1>2
    <3>2. k < h
      BY <3>1, <2>4, <1>3, <1>8
    <3> QED BY <2>4, <3>2 DEF Less
  <2>5. \/ Waits(x, i, k)
        \/ i = n /\ k \in 1..Count(m) /\ x = e + k
    BY <1>1, <1>8
  <2>6. \/ Waits(y, g, h)
        \/ g = n /\ h \in 1..Count(m) /\ y = e + h
    BY <1>1, <1>8
  <2> QED BY <2>1, <2>2, <2>3, <2>4, <2>5, <2>6, Zenon
<1>9. ASSUME NEW p, NEW y, NEW i, NEW k, NEW g, NEW h,
             Flight(p, i, k)', Waits(y, g, h)', t[i].cs = t[g].cs
      PROVE  Less(i, k, g, h)
  <2>1. Flight(p, i, k) /\ i < n
    BY <1>1, <1>6, <1>9
  <2>2. CASE Waits(y, g, h)
    <3>1. sent[i].cs = sent[g].cs
      BY <2>1, <2>2, <1>5, <1>6, <1>9
    <3> QED BY <2>1, <2>2, <3>1 DEF OrderInv
  <2>3. CASE g = n
    BY <2>1, <2>3 DEF Less
  <2> QED BY <2>2, <2>3, <1>1, <1>9
<1>10. OrderInv'
  BY <1>1, <1>7, <1>8, <1>9, Zenon DEF OrderInv, Less
<1> QED BY <1>4, <1>10 DEF n

\* A chunk that is written goes from the one end to the other.
LEMMA PutOrder ==
  ASSUME TypeOK, RoadInv, OrderInv, NEW c \in ChunkStreams, Put(c)
  PROVE  /\ OrderInv'
         /\ \A i, k : OnRoad(i, k)' <=> OnRoad(i, k)
<1>1. PICK g0 \in 1..Len(sent) : \E h \in 1..Count(sent[g0]) :
              /\ sent[g0].cs = c /\ Waits(1, g0, h)
              /\ \A p, i, k : Flight(p, i, k)' <=>
                   \/ Flight(p, i, k)
                   \/ p = Len(Stream) + 1 /\ i = g0 /\ k = h
  BY PutEffect
<1>2. PICK h0 \in 1..Count(sent[g0]) :
              /\ sent[g0].cs = c /\ Waits(1, g0, h0)
              /\ \A p, i, k : Flight(p, i, k)' <=>
                   \/ Flight(p, i, k)
                   \/ p = Len(Stream) + 1 /\ i = g0 /\ k = h0
  BY <1>1
<1>3. /\ sent' = sent
      /\ \A x, i, k : Waits(x, i, k)' <=>
              /\ x \in Nat \ {0} /\ i \in 1..Len(sent)
              /\ IF sent[i].cs = c THEN Waits(x + 1, i, k) ELSE Waits(x, i, k)
  BY PutEffect
<1>4. Sound(sent)
  BY SentIsSound
<1>5. ASSUME NEW i, NEW k, Waits(1, i, k), sent[i].cs = c
      PROVE  i = g0 /\ k = h0
  <2>1. i \in 1..Len(sent) /\ k \in 1..Count(sent[i])
    BY <1>5 DEF Waits
  <2>2. Pieces(sent, i)[k] = Pieces(sent, g0)[h0]
    BY <1>2, <1>5 DEF Waits
  <2> QED BY <2>1, <2>2, <1>2, <1>4, PiecesDiffer
<1>6. ASSUME NEW i, NEW k PROVE OnRoad(i, k)' <=> OnRoad(i, k)
  <2>1. ASSUME NEW p, Flight(p, i, k)' PROVE OnRoad(i, k)
    BY <2>1, <1>2 DEF OnRoad
  <2>2. ASSUME NEW x, Waits(x, i, k)' PROVE OnRoad(i, k)
    BY <2>2, <1>3 DEF OnRoad
  <2>3. ASSUME NEW p, Flight(p, i, k) PROVE \E q : Flight(q, i, k)'
    BY <2>3, <1>2
  <2>4. ASSUME NEW x, Waits(x, i, k)
        PROVE  (\E q : Flight(q, i, k)') \/ (\E y : Waits(y, i, k)')
    <3>1. x \in Nat /\ x >= 1 /\ i \in 1..Len(sent)
      BY <2>4, RoadTypes
    <3>2. CASE sent[i].cs # c
      <4>1. x \in Nat \ {0}
        BY <3>1
      <4> QED BY <3>1, <3>2, <4>1, <2>4, <1>3
    <3>3. CASE sent[i].cs = c /\ x = 1
      BY <3>3, <2>4, <1>2, <1>5
    <3>4. CASE sent[i].cs = c /\ x # 1
      <4>1. x - 1 \in Nat \ {0} /\ x - 1 + 1 = x
        BY <3>1, <3>4
      <4>2. Waits(x - 1 + 1, i, k)
        BY <4>1, <2>4
      <4> DEFINE y == x - 1
      <4> HIDE DEF y
      <4>3. Waits(y, i, k)'
        BY <3>1, <3>4, <4>1, <4>2, <1>3 DEF y
      <4> QED BY <4>3
    <3> QED BY <3>2, <3>3, <3>4
  <2> QED BY <2>1, <2>2, <2>3, <2>4, Zenon DEF OnRoad
<1> DEFINE e == Len(Stream) + 1
<1>7. ASSUME NEW p, NEW i, NEW k, Flight(p, i, k) PROVE p < e /\ p \in Nat
  <2>1. Len(Stream) \in Nat
    BY PutEffect
  <2>2. p \in Nat /\ p <= Len(Stream)
    BY <1>7, RoadTypes
  <2> QED BY <2>1, <2>2
<1>8. e \in Nat
  <2>1. Len(Stream) \in Nat
    BY PutEffect
  <2> QED BY <2>1
<1> HIDE DEF e
<1>9. ASSUME NEW p, NEW q, NEW i, NEW k, NEW g, NEW h,
             p < q, Flight(p, i, k)', Flight(q, g, h)', sent[i].cs = sent[g].cs
      PROVE  Less(i, k, g, h)
  <2>1. Flight(p, i, k) \/ (p = e /\ i = g0 /\ k = h0)
    BY <1>2, <1>9 DEF e
  <2>2. Flight(q, g, h) \/ (q = e /\ g = g0 /\ h = h0)
    BY <1>2, <1>9 DEF e
  <2>3. q <= e /\ q \in Nat
    BY <2>2, <1>7, <1>8
  <2>4. p # e
    BY <2>3, <1>8, <1>9
  <2>5. Flight(p, i, k)
    BY <2>1, <2>4
  <2> QED BY <2>2, <2>5, <1>2, <1>9 DEF OrderInv
<1>10. ASSUME NEW x, NEW i, NEW k, Waits(x, i, k)'
       PROVE  /\ x \in Nat
              /\ IF sent[i].cs = c THEN Waits(x + 1, i, k) ELSE Waits(x, i, k)
  <2>1. x \in Nat \ {0}
    BY <1>3, <1>10
  <2> QED BY <2>1, <1>3, <1>10
<1>11. ASSUME NEW x, NEW y, NEW i, NEW k, NEW g, NEW h,
             x < y, Waits(x, i, k)', Waits(y, g, h)', sent[i].cs = sent[g].cs
      PROVE  Less(i, k, g, h)
  <2>1. x \in Nat /\ y \in Nat
    BY <1>10, <1>11
  <2>2. x + 1 < y + 1
    BY <2>1, <1>11
  <2>3. CASE sent[i].cs = c
    <3>1. Waits(x + 1, i, k) /\ Waits(y + 1, g, h)
      BY <2>3, <1>10, <1>11
    <3> QED BY <3>1, <2>2, <1>11 DEF OrderInv
  <2>4. CASE sent[i].cs # c
    <3>1. Waits(x, i, k) /\ Waits(y, g, h)
      BY <2>4, <1>10, <1>11
    <3> QED BY <3>1, <1>11 DEF OrderInv
  <2> QED BY <2>3, <2>4
<1>12. ASSUME NEW p, NEW y, NEW i, NEW k, NEW g, NEW h,
             Flight(p, i, k)', Waits(y, g, h)', sent[i].cs = sent[g].cs
      PROVE  Less(i, k, g, h)
  <2>1. Flight(p, i, k) \/ (i = g0 /\ k = h0)
    BY <1>2, <1>12
  <2>2. y \in Nat /\ IF sent[g].cs = c THEN Waits(y + 1, g, h) ELSE Waits(y, g, h)
    BY <1>10, <1>12
  <2>3. CASE Flight(p, i, k)
    BY <2>2, <2>3, <1>12 DEF OrderInv
  <2>4. CASE i = g0 /\ k = h0
    <3>1. sent[g].cs = c /\ Waits(y + 1, g, h) /\ Waits(1, i, k)
      BY <2>2, <2>4, <1>2, <1>12
    <3>2. y + 1 > 1
      <4>1. y # 0
        BY <1>3, <1>12
      <4> QED BY <4>1, <2>2
    <3>3. 1 < y + 1
      BY <3>2, <2>2
    <3> QED BY <3>1, <3>3, <1>12 DEF OrderInv
  <2> QED BY <2>1, <2>3, <2>4
<1>13. OrderInv'
  BY <1>3, <1>9, <1>11, <1>12, Zenon DEF OrderInv, Less
<1> QED BY <1>6, <1>13

LEMMA StayOrder ==
  ASSUME TypeOK, RoadInv, OrderInv, UNCHANGED senderVars,
         buf' \in Seq(Units), net' \in Seq(Units), Stream' = Stream
  PROVE  OrderInv' /\ \A i, k : OnRoad(i, k)' <=> OnRoad(i, k)
<1>1. /\ sent' = sent
      /\ \A p, i, k : Flight(p, i, k)' <=> Flight(p, i, k)
      /\ \A x, i, k : Waits(x, i, k)' <=> Waits(x, i, k)
  BY RoadStays
<1>2. OrderInv'
  <2>1. ASSUME NEW p, NEW q, NEW i, NEW k, NEW g, NEW h,
               p < q, Flight(p, i, k)', Flight(q, g, h)', sent[i].cs = sent[g].cs
        PROVE  Less(i, k, g, h)
    BY <2>1, <1>1 DEF OrderInv
  <2>2. ASSUME NEW x, NEW y, NEW i, NEW k, NEW g, NEW h,
               x < y, Waits(x, i, k)', Waits(y, g, h)', sent[i].cs = sent[g].cs
        PROVE  Less(i, k, g, h)
    BY <2>2, <1>1 DEF OrderInv
  <2>3. ASSUME NEW p, NEW y, NEW i, NEW k, NEW g, NEW h,
               Flight(p, i, k)', Waits(y, g, h)', sent[i].cs = sent[g].cs
        PROVE  Less(i, k, g, h)
    BY <2>3, <1>1 DEF OrderInv
  <2> QED BY <1>1, <2>1, <2>2, <2>3, Zenon DEF OrderInv, Less
<1>3. \A i, k : OnRoad(i, k)' <=> OnRoad(i, k)
  BY <1>1, Zenon DEF OnRoad
<1> QED BY <1>2, <1>3

\* When chunks leave the stream the others stay in their order.
LEMMA ShrinkStays ==
  ASSUME TypeOK, RoadInv, OrderInv, UNCHANGED senderVars, net' = net,
         NEW n \in 0..Len(buf), n \in Nat, buf' = SubSeq(buf, n + 1, Len(buf))
  PROVE  OrderInv'
<1>1. /\ sent' = sent
      /\ \A p, i, k : Flight(p, i, k)' <=> p \in Nat \ {0} /\ Flight(p + n, i, k)
      /\ \A x, i, k : Waits(x, i, k)' <=> Waits(x, i, k)
  BY RoadShrinks
<1>2. \A p, q : p \in Nat \ {0} /\ q \in Nat \ {0} /\ p < q => p + n < q + n
  OBVIOUS
<1>3. ASSUME NEW p, NEW q, NEW i, NEW k, NEW g, NEW h,
             p < q, Flight(p, i, k)', Flight(q, g, h)', sent[i].cs = sent[g].cs
      PROVE  Less(i, k, g, h)
  BY <1>3, <1>1, <1>2 DEF OrderInv
<1>4. ASSUME NEW x, NEW y, NEW i, NEW k, NEW g, NEW h,
             x < y, Waits(x, i, k)', Waits(y, g, h)', sent[i].cs = sent[g].cs
      PROVE  Less(i, k, g, h)
  BY <1>4, <1>1 DEF OrderInv
<1>5. ASSUME NEW p, NEW y, NEW i, NEW k, NEW g, NEW h,
             Flight(p, i, k)', Waits(y, g, h)', sent[i].cs = sent[g].cs
      PROVE  Less(i, k, g, h)
  BY <1>5, <1>1 DEF OrderInv
<1> QED BY <1>1, <1>3, <1>4, <1>5, Zenon DEF OrderInv, Less

\* The chunk at the front is taken off.
LEMMA ShrinkOrder ==
  ASSUME TypeOK, RoadInv, OrderInv, UNCHANGED senderVars, net' = net,
         NEW g0, NEW h0, Flight(1, g0, h0),
         NEW n \in 0..Len(buf), n = Len(Pieces(sent, g0)[h0]),
         buf' = SubSeq(buf, n + 1, Len(buf))
  PROVE  /\ OrderInv'
         /\ \A i, k : OnRoad(i, k)' <=> OnRoad(i, k) /\ ~(i = g0 /\ k = h0)
         /\ Stream' # <<>> => 1 \in Starts(Stream')
<1>1. /\ sent' = sent
      /\ Stream \in Seq(Units) /\ Stream' \in Seq(Units)
      /\ Len(Stream') = Len(Stream) - n
      /\ \A p : p \in Starts(Stream') <=> p \in Nat \ {0} /\ p + n \in Starts(Stream)
      /\ \A p, i, k : Flight(p, i, k)' <=> p \in Nat \ {0} /\ Flight(p + n, i, k)
      /\ \A x, i, k : Waits(x, i, k)' <=> Waits(x, i, k)
  BY RoadShrinks
<1>2. Sound(sent) /\ n \in Nat /\ g0 \in 1..Len(sent) /\ h0 \in 1..Count(sent[g0])
  BY SentIsSound, RoadTypes DEF Flight, PieceAt, RoadInv, StreamInv
<1>4. OrderInv'
  BY <1>2, ShrinkStays
<1>5. Len(Stream) \in Nat /\ Len(Stream') \in Nat
  BY <1>1
<1> DEFINE w == Pieces(sent, g0)[h0]
           l == Lead(sent, g0, h0)
<1>6. \A u \in 2..n : u \in 1..Len(Stream) /\ u \notin Starts(Stream)
  <2>1. /\ Len(w) = l + Load(sent, g0, h0) /\ l \in Nat /\ l >= 1
        /\ \A u \in 2..l : w[u][1] \notin {"basic", "body"}
        /\ \A u \in 1..Load(sent, g0, h0) :
             w[l + u] = <<"body", <<g0, (h0 - 1) * OutChunk + u>> >>
    BY <1>2, Shape DEF Sound
  <2>2. Load(sent, g0, h0) \in Nat
    BY <1>2, LoadIs DEF Sound
  <2>3. \A u \in 1..Len(w) : 1 + u - 1 \in 1..Len(Stream) /\ Stream[1 + u - 1] = w[u]
    BY DEF Flight, PieceAt
  <2> HIDE DEF w, l
  <2>4. SUFFICES ASSUME NEW u \in 2..n
                 PROVE  u \in 1..Len(Stream) /\ u \notin Starts(Stream)
    OBVIOUS
  <2>5. u \in 1..Len(w) /\ 1 + u - 1 = u
    BY <1>2 DEF w
  <2>6. u \in 1..Len(Stream) /\ Stream[u] = w[u]
    BY <2>3, <2>5
  <2>7. CASE u <= l
    <3>1. u \in 2..l
      BY <2>1, <2>7
    <3>2. w[u][1] # "basic"
      BY <3>1, <2>1
    <3> QED BY <3>2, <2>6 DEF Starts
  <2>8. CASE ~(u <= l)
    <3>1. u - l \in 1..Load(sent, g0, h0) /\ l + (u - l) = u
      BY <2>1, <2>2, <2>8, <1>2 DEF w
    <3>2. w[u][1] = "body"
      BY <3>1, <2>1
    <3> QED BY <3>2, <2>6 DEF Starts
  <2> QED BY <2>7, <2>8
<1>7. n >= 1
  <2>1. /\ Len(w) = l + Load(sent, g0, h0) /\ l \in Nat /\ l >= 1
    BY <1>2, Shape DEF Sound
  <2>2. Load(sent, g0, h0) \in Nat
    BY <1>2, LoadIs DEF Sound
  <2> HIDE DEF w, l
  <2> QED BY <2>1, <2>2 DEF w
<1> HIDE DEF w, l
<1>8. ASSUME NEW i, NEW k PROVE OnRoad(i, k)' <=> OnRoad(i, k) /\ ~(i = g0 /\ k = h0)
  <2>1. ASSUME NEW p, Flight(p, i, k)' PROVE OnRoad(i, k) /\ ~(i = g0 /\ k = h0)
    <3>1. p \in Nat \ {0} /\ Flight(p + n, i, k)
      BY <2>1, <1>1
    <3>2. OnRoad(i, k)
      BY <3>1 DEF OnRoad
    <3>3. ASSUME i = g0, k = h0 PROVE FALSE
      <4>1. 1 < p + n
        BY <3>1, <1>2, <1>7
      <4>2. Flight(p + n, g0, h0) /\ sent[g0].cs = sent[g0].cs
        BY <3>1, <3>3
      <4>3. Less(g0, h0, g0, h0)
        BY <4>1, <4>2 DEF OrderInv
      <4>4. g0 \in Nat /\ h0 \in Nat
        BY <1>2, LoadIs DEF Sound
      <4> QED BY <4>3, <4>4 DEF Less
    <3> QED BY <3>2, <3>3
  <2>2. ASSUME NEW x, Waits(x, i, k)' PROVE OnRoad(i, k) /\ ~(i = g0 /\ k = h0)
    <3>1. Waits(x, i, k)
      BY <2>2, <1>1
    <3>2. OnRoad(i, k)
      BY <3>1 DEF OnRoad
    <3>3. ASSUME i = g0, k = h0 PROVE FALSE
      <4>1. Less(g0, h0, g0, h0)
        BY <3>1, <3>3 DEF OrderInv
      <4>2. g0 \in Nat /\ h0 \in Nat
        BY <1>2, LoadIs DEF Sound
      <4> QED BY <4>1, <4>2 DEF Less
    <3> QED BY <3>2, <3>3
  <2>3. ASSUME NEW p, Flight(p, i, k), ~(i = g0 /\ k = h0) PROVE \E q : Flight(q, i, k)'
    <3>1. p \in Nat /\ p >= 1 /\ p <= Len(Stream) /\ p \in Starts(Stream)
      BY <2>3, RoadTypes
    <3>2. p # 1
      <4> SUFFICES ASSUME p = 1 PROVE FALSE
        OBVIOUS
      <4>1. PieceAt(Stream, sent, 1, i, k) /\ PieceAt(Stream, sent, 1, g0, h0)
        BY <2>3 DEF Flight
      <4>2. i = g0 /\ k = h0
        BY <4>1, <1>1, <1>2, OneIdentity
      <4> QED BY <4>2, <2>3
    <3>3. ~(p \in 2..n)
      BY <3>1, <1>6
    <3>4. p - n \in Nat \ {0} /\ p - n + n = p
      BY <3>1, <3>2, <3>3, <1>2
    <3> DEFINE q == p - n
    <3> HIDE DEF q
    <3>5. q \in Nat \ {0} /\ Flight(q + n, i, k)
      BY <3>4, <2>3 DEF q
    <3>6. Flight(q, i, k)'
      BY <3>5, <1>1
    <3> QED BY <3>6
  <2>4. ASSUME NEW x, Waits(x, i, k) PROVE \E y : Waits(y, i, k)'
    BY <2>4, <1>1
  <2> QED BY <2>1, <2>2, <2>3, <2>4, Zenon DEF OnRoad
<1>9. Stream' # <<>> => 1 \in Starts(Stream')
  <2> HAVE Stream' # <<>>
  <2> DEFINE v == Stream'
  <2>1. Len(v) # 0
    <3>1. v \in Seq(Units) /\ v # <<>>
      BY <1>1
    <3> HIDE DEF v
    <3> QED BY <3>1, EmptySeq
  <2>2. 1 + n = Len(Stream) + 1 \/ 1 + n \in Starts(Stream)
    BY DEF Flight, PieceAt
  <2>3. n # Len(Stream)
    BY <2>1, <1>1, <1>5
  <2>4. 1 + n \in Starts(Stream)
    BY <2>2, <2>3, <1>2, <1>5
  <2> QED BY <2>4, <1>1
<1> QED BY <1>4, <1>8, <1>9

-----------------------------------------------------------------------------
(* Where the receiver is                                                     *)

\* Some message of s needs an extended timestamp.
Late(s) == \E i \in 1..Len(s) : s[i].ts >= Cap

\* h is the header of message i, its timestamp if extended ones do not occur.
Holds(s, h, i) ==
  LET w == HeadOf(s, i) IN /\ h.len = w.len /\ h.type = w.type /\ h.sid = w.sid
                           /\ ~Late(s) => h.ts = w.ts

\* x and e are what the header of message i leaves in in_ext_ and in_deltas_.
AsOf(s, x, e, i) == /\ x <=> (i # 0 /\ TimeOf(s, i) >= Cap)
                    /\ ~Late(s) => e = DeltaOf(s, i)

\* The body units of message i that its first n chunks carry.
Part(i, n) == [u \in 1..(n * OutChunk) |-> <<i, u>>]

\* What the receiver knows of a chunk stream (the packet pk, the previous header
\* hd, x of in_ext_ and e of in_deltas_) when message j was the last one to be
\* delivered, and n chunks of message i have been taken since; i is 0 when no
\* header has been read since.
Stage(s, pk, hd, x, e, j, i, n) ==
  IF i = 0
  THEN n = 0 /\ pk = NoPacket /\ Holds(s, hd, j) /\ AsOf(s, x, e, j)
  ELSE /\ Links(s, j, i) /\ n + 1 \in 1..Count(s[i])
       /\ pk.cap = s[i].len /\ pk.body = Part(i, n)
       /\ Holds(s, pk.head, i) /\ AsOf(s, x, e, i)
       /\ Holds(s, hd, IF n = 0 THEN j ELSE i)

Done(i) == \E e \in 1..Len(delivered) : Number(delivered[e]) = i
LastDone(c, j) ==
  /\ j # 0 => sent[j].cs = c
  /\ \A g \in 1..Len(sent) : sent[g].cs = c => (Done(g) <=> g <= j)

\* A chunk of c is on the road unless it has been taken.
Where(c, j, i, n) ==
  \A g \in 1..Len(sent) : sent[g].cs = c =>
    \A h \in 1..Count(sent[g]) : OnRoad(g, h) <=> ~(g <= j \/ (g = i /\ h <= n))

At(c, j, i, n) ==
  /\ i # 0 => sent[i].cs = c
  /\ LastDone(c, j) /\ Where(c, j, i, n)
  /\ Stage(sent, packet[c], inPrev[c], inExt[c], inDelta[c], j, i, n)

ReceiverInv ==
  \A c \in ChunkStreams : \E j \in 0..Len(sent) : \E i \in 0..Len(sent) :
    \E n \in Nat : At(c, j, i, n)

\* The stream begins with a chunk, which is not complete while nothing is parsed.
FrontInv ==
  /\ Stream # <<>> => 1 \in Starts(Stream)
  /\ ~parsing /\ Stream # <<>> =>
       \E g \in 1..Len(sent) : \E h \in 1..Count(sent[g]) :
         Flight(1, g, h) /\ Len(buf) < Len(Pieces(sent, g)[h])

\* The announcement of the chunk size is ahead of what depends on it.
LongInv ==
  /\ \A i \in 1..Len(sent) : sent[i].len > InChunk =>
       \E z \in 1..Len(sent) :
         /\ sent[z].type = "size" /\ \A x, k : ~Waits(x, z, k)
         /\ \A p, k, q, h : Flight(p, z, k) /\ Flight(q, i, h) => p < q
  /\ \A z \in 1..Len(sent) :
       Done(z) /\ sent[z].type = "size" => inChunk = OutChunk

\* What Intact says of the k-th message that was delivered, D being all of them.
Right(s, D, k) ==
  LET d == D[k]
      i == Number(d)
  IN  /\ i \in 1..Len(s) /\ d.cs = s[i].cs
      /\ d.type = s[i].type /\ d.sid = s[i].sid
      /\ d.body = [u \in 1..s[i].len |-> <<i, u>>]
      /\ ~Late(s) => d.ts = s[i].ts
      /\ \A h \in 1..(i - 1) : s[h].cs = d.cs =>
           \E e \in 1..(k - 1) : Number(D[e]) = h
      /\ \A e \in 1..(k - 1) : Number(D[e]) # i

Messages == [cs : ChunkStreams, type : {"none", "size", "window", "data"}, sid : Nat,
             ts : 0..(Digit * Digit - 1), body : Seq(BodyBytes)]
DeliveredInv == /\ delivered \in Seq(Messages)
                /\ \A k \in 1..Len(delivered) : Right(sent, delivered, k)

Reading == ~lost /\ FrontInv /\ LongInv /\ ReceiverInv /\ DeliveredInv

\* The inductive invariant.
ChunkInv == BaseInv /\ OrderInv /\ (~Repeats => Reading)

\* The chunk at the front of the stream is the one that the receiver is at, and
\* the receiver knows the chunk size with which it was made.
LEMMA FrontIs ==
  ASSUME TypeOK, RoadInv, OrderInv, LongInv, ReceiverInv, NEW g, NEW h, Flight(1, g, h),
         NEW c, c = sent[g].cs
  PROVE  /\ \E j \in 0..Len(sent) : \E i \in 0..Len(sent) : \E n \in Nat :
              At(c, j, i, n) /\ Links(sent, j, g) /\ h = n + 1 /\ (i = 0 \/ i = g)
         /\ inChunk = OutChunk \/ sent[g].len <= InChunk
<1>1. /\ sent \in Seq(Catalogue) /\ Len(sent) \in Nat
      /\ g \in 1..Len(sent) /\ g \in Nat /\ h \in 1..Count(sent[g]) /\ h \in Nat /\ h >= 1
      /\ c \in ChunkStreams
  <2>1. sent \in Seq(Catalogue) /\ g \in 1..Len(sent) /\ h \in 1..Count(sent[g])
        /\ Len(sent) \in Nat
    <3>1. sent \in Seq(Catalogue)
      BY SentIsSound
    <3>2. g \in 1..Len(sent) /\ h \in 1..Count(sent[g])
      BY RoadTypes
    <3> QED BY <3>1, <3>2
  <2>2. h \in Nat /\ h >= 1 /\ c \in ChunkStreams
    BY <2>1, LoadIs, MessageIs
  <2> QED BY <2>1, <2>2
<1>2. \A x \in 1..Len(sent) : Count(sent[x]) \in Nat /\ Count(sent[x]) >= 1
  <2> SUFFICES ASSUME NEW x \in 1..Len(sent)
               PROVE  Count(sent[x]) \in Nat /\ Count(sent[x]) >= 1
    OBVIOUS
  <2>1. sent[x] \in Catalogue
    BY <1>1, MessageIs
  <2> QED BY <2>1, CountIs
<1>3. PICK j \in 0..Len(sent) : \E i \in 0..Len(sent) : \E n \in Nat : At(c, j, i, n)
  BY <1>1 DEF ReceiverInv
<1>4. PICK i \in 0..Len(sent) : \E n \in Nat : At(c, j, i, n)
  BY <1>3
<1>5. PICK n \in Nat : At(c, j, i, n)
  BY <1>4
<1>6. /\ \A x \in 1..Len(sent) : sent[x].cs = c =>
           \A y \in 1..Count(sent[x]) : OnRoad(x, y) <=> ~(x <= j \/ (x = i /\ y <= n))
      /\ i = 0 => n = 0
      /\ i # 0 => Links(sent, j, i) /\ n + 1 \in 1..Count(sent[i]) /\ sent[i].cs = c
  BY <1>5 DEF At, Where, Stage
<1>7. OnRoad(g, h)
  BY DEF OnRoad
<1>8. ~(g <= j) /\ ~(g = i /\ h <= n)
  BY <1>1, <1>6, <1>7
\* What comes before it has been taken.
<1>9. ASSUME NEW x \in 1..Len(sent), NEW y \in 1..Count(sent[x]), sent[x].cs = c,
             x < g \/ (x = g /\ y < h)
      PROVE  x <= j \/ (x = i /\ y <= n)
  <2>1. SUFFICES ASSUME OnRoad(x, y) PROVE FALSE
    BY <2>1, <1>6, <1>9
  <2>2. x \in Nat /\ y \in Nat
    BY <1>2, <1>1
  <2>3. ASSUME NEW q, Flight(q, x, y) PROVE FALSE
    <3>1. q \in Nat /\ q >= 1
      BY <2>3, RoadTypes
    <3>2. CASE q = 1
      <4>1. PieceAt(Stream, sent, 1, x, y) /\ PieceAt(Stream, sent, 1, g, h)
        BY <2>3, <3>2 DEF Flight
      <4>2. Stream \in Seq(Units)
        BY TwoHalves, Zenon DEF RoadInv, StreamInv, Halves, Stream
      <4>3. x = g /\ y = h
        BY <4>1, <4>2, SentIsSound, OneIdentity
      <4> QED BY <4>3, <1>9, <1>1
    <3>3. CASE q # 1
      <4>1. 1 < q
        BY <3>1, <3>3
      <4>2. Less(g, h, x, y)
        BY <4>1, <2>3, <1>9 DEF OrderInv
      <4> QED BY <4>2, <2>2, <1>1, <1>9 DEF Less
    <3> QED BY <3>2, <3>3
  <2>4. ASSUME NEW q, Waits(q, x, y) PROVE FALSE
    <3>1. Less(g, h, x, y)
      BY <2>4, <1>9 DEF OrderInv
    <3> QED BY <3>1, <2>2, <1>1, <1>9 DEF Less
  <2> QED BY <2>1, <2>3, <2>4 DEF OnRoad
<1>10. i = 0 \/ i = g
  <2> SUFFICES ASSUME i # 0, i # g PROVE FALSE
    OBVIOUS
  <2>1. /\ i \in 1..Len(sent) /\ Links(sent, j, i) /\ n + 1 \in 1..Count(sent[i])
        /\ sent[i].cs = c /\ j < i
    BY <1>6 DEF Links
  <2>2. CASE i < g
    <3>1. i <= j \/ (i = i /\ n + 1 <= n)
      BY <2>1, <2>2, <1>9
    <3> QED BY <3>1, <2>1
  <2>3. CASE g < i
    <3>1. g \in (j + 1)..(i - 1)
      BY <2>1, <2>3, <1>1, <1>8
    <3> QED BY <3>1, <2>1 DEF Links
  <2> QED BY <2>2, <2>3, <1>1
<1>11. Links(sent, j, g)
  <2>1. j \in 0..(g - 1)
    BY <1>1, <1>8
  <2>2. j # 0 => sent[j].cs = sent[g].cs
    BY <1>5 DEF At, LastDone
  <2>3. ASSUME NEW x \in (j + 1)..(g - 1), sent[x].cs = sent[g].cs PROVE FALSE
    <3>1. x \in 1..Len(sent) /\ x < g /\ x \in Nat /\ x > j
      BY <1>1
    <3>2. 1 \in 1..Count(sent[x])
      BY <3>1, <1>2
    <3>3. x <= j \/ (x = i /\ 1 <= n)
      BY <3>1, <3>2, <2>3, <1>9
    <3> QED BY <3>1, <3>3, <1>10
  <2> QED BY <2>1, <2>2, <2>3 DEF Links
<1>12. h = n + 1
  <2>1. n + 1 <= h
    BY <1>1, <1>6, <1>8, <1>10
  <2>2. ASSUME n + 1 < h PROVE FALSE
    <3>1. n + 1 \in 1..Count(sent[g])
      BY <2>2, <1>1, <1>2
    <3>2. g <= j \/ (g = i /\ n + 1 <= n)
      BY <3>1, <2>2, <1>1, <1>9
    <3> QED BY <3>2, <1>8
  <2> QED BY <2>1, <2>2, <1>1
<1>13. ASSUME sent[g].len > InChunk PROVE inChunk = OutChunk
  <2>1. PICK z \in 1..Len(sent) :
          /\ sent[z].type = "size" /\ \A x, k : ~Waits(x, z, k)
          /\ \A p, k, q, y : Flight(p, z, k) /\ Flight(q, g, y) => p < q
    BY <1>1, <1>13 DEF LongInv
  <2>2. ASSUME NEW k, OnRoad(z, k) PROVE FALSE
    <3>1. PICK p : Flight(p, z, k)
      BY <2>1, <2>2 DEF OnRoad
    <3>2. p < 1 /\ p \in Nat /\ p >= 1
      BY <3>1, <2>1, RoadTypes
    <3> QED BY <3>2
  <2> DEFINE d == sent[z].cs
  <2>3. d \in ChunkStreams
    BY <1>1, MessageIs
  <2>4. PICK jz \in 0..Len(sent) : \E iz \in 0..Len(sent) : \E nz \in Nat :
          At(d, jz, iz, nz)
    BY <2>3 DEF ReceiverInv
  <2>5. PICK iz \in 0..Len(sent) : \E nz \in Nat : At(d, jz, iz, nz)
    BY <2>4
  <2>6. PICK nz \in Nat : At(d, jz, iz, nz)
    BY <2>5
  <2>7. z <= jz
    <3> SUFFICES ASSUME ~(z <= jz) PROVE FALSE
      OBVIOUS
    <3>1. Count(sent[z]) \in 1..Count(sent[z])
      BY <1>2
    <3>2. z = iz /\ Count(sent[z]) <= nz
      BY <3>1, <2>2, <2>6 DEF At, Where
    <3>3. iz # 0
      BY <3>2, <1>1
    <3>4. nz + 1 \in 1..Count(sent[z])
      BY <3>2, <3>3, <2>6 DEF At, Stage
    <3>5. Count(sent[z]) \in Nat
      BY <1>2
    <3> QED BY <3>2, <3>4, <3>5
  <2>8. Done(z)
    BY <2>6, <2>7 DEF At, LastDone
  <2> QED BY <2>1, <2>8 DEF LongInv
<1>14. inChunk = OutChunk \/ sent[g].len <= InChunk
  <2>1. sent[g].len \in Nat /\ InChunk \in Nat
    BY <1>1, MessageIs, SizesAre
  <2> QED BY <2>1, <1>13
<1> QED BY <1>5, <1>10, <1>11, <1>12, <1>14

-----------------------------------------------------------------------------
(* What the receiver makes of the chunk at the front                         *)

\* Chunk h of message g is at the front, and its header has arrived.
Here(g, h, j, i, n) ==
  /\ g \in 1..Len(sent) /\ h \in 1..Count(sent[g]) /\ j \in 0..Len(sent) /\ n \in Nat
  /\ Seen(g, h) /\ At(csid, j, i, n) /\ Links(sent, j, g) /\ h = n + 1
  /\ i = 0 \/ i = g
  /\ inChunk = OutChunk \/ sent[g].len <= InChunk

\* The first chunk of a message, seen for the first time; the first chunk, seen
\* again after its header has been read; another one.
First(g, h, j) ==
  /\ h = 1 /\ fmt = FormatOf(sent, g) /\ packet[csid] = NoPacket
  /\ Holds(sent, inPrev[csid], j) /\ AsOf(sent, inExt[csid], inDelta[csid], j)
Begun(g) ==
  /\ packet[csid].cap = sent[g].len /\ Holds(sent, packet[csid].head, g)
  /\ AsOf(sent, inExt[csid], inDelta[csid], g)
FirstAgain(g, h, j) ==
  h = 1 /\ fmt = FormatOf(sent, g) /\ Begun(g) /\ Holds(sent, inPrev[csid], j)
Further(g, h) == h # 1 /\ fmt = 3 /\ Begun(g) /\ Holds(sent, inPrev[csid], g)

LEMMA HereIs ==
  ASSUME TypeOK, RoadInv, NEW g, NEW h, NEW j, NEW i, NEW n, Here(g, h, j, i, n)
  PROVE  /\ g # 0 /\ csid \in ChunkStreams /\ csid = sent[g].cs
         /\ fmt = ChunkFormat(sent, g, h) /\ fmt \in 0..3
         /\ Prev(sent, g) = j /\ j \in 0..(g - 1)
         /\ First(g, h, j) \/ FirstAgain(g, h, j) \/ Further(g, h)
         /\ packet[csid].body = Part(g, n) /\ Len(packet[csid].body) = (h - 1) * OutChunk
         /\ packet[csid] = NoPacket <=> i = 0
<1>1. /\ sent \in Seq(Catalogue) /\ Linked(sent) /\ Len(sent) \in Nat
      /\ g \in 1..Len(sent) /\ h \in 1..Count(sent[g]) /\ n \in Nat /\ h = n + 1
      /\ h - 1 = n /\ Links(sent, j, g) /\ (i = 0 \/ i = g) /\ g # 0
      /\ j \in 0..(g - 1)
  BY SentIsSound DEF Here, Links
<1>2. csid = sent[g].cs /\ fmt = ChunkFormat(sent, g, h)
  BY DEF Here, Seen
<1>3. csid \in ChunkStreams /\ fmt \in 0..3
  <2>1. FormatOf(sent, g) \in 0..3 /\ sent[g].cs \in ChunkStreams
    BY <1>1, TimeIs, MessageIs
  <2> QED BY <2>1, <1>2 DEF ChunkFormat
<1>4. Prev(sent, g) = j
  BY <1>1, PrevIs
<1>5. h = 1 => fmt = FormatOf(sent, g)
  BY <1>2 DEF ChunkFormat
<1>6. h # 1 => fmt = 3
  BY <1>2 DEF ChunkFormat
<1>7. OutChunk \in Nat /\ 0 * OutChunk = 0 /\ n * OutChunk \in Nat
  BY <1>1, SizesAre, Multiples
<1>8. Stage(sent, packet[csid], inPrev[csid], inExt[csid], inDelta[csid], j, i, n)
  BY DEF Here, At
<1>9. CASE i = 0
  <2>1. /\ n = 0 /\ packet[csid] = NoPacket
        /\ Holds(sent, inPrev[csid], j) /\ AsOf(sent, inExt[csid], inDelta[csid], j)
    BY <1>8, <1>9 DEF Stage
  <2>2. h = 1
    BY <2>1, <1>1
  <2>3. Part(g, n) = <<>> /\ Len(Part(g, n)) = 0
    <3>1. n * OutChunk = 0
      BY <2>1, <1>7
    <3>2. Part(g, n) = [u \in 1..0 |-> <<g, u>>]
      BY <3>1 DEF Part
    <3> QED BY <3>2
  <2>4. packet[csid].body = <<>>
    BY <2>1 DEF NoPacket
  <2>5. First(g, h, j)
    BY <2>1, <2>2, <1>5 DEF First
  <2>6. Len(packet[csid].body) = (h - 1) * OutChunk
    BY <2>1, <2>3, <2>4, <1>1, <1>7
  <2> QED BY <2>1, <2>3, <2>4, <2>5, <2>6, <1>1, <1>2, <1>3, <1>4, <1>9
<1>10. CASE i = g
  <2>1. /\ packet[csid].cap = sent[g].len /\ packet[csid].body = Part(g, n)
        /\ Holds(sent, packet[csid].head, g)
        /\ AsOf(sent, inExt[csid], inDelta[csid], g)
        /\ Holds(sent, inPrev[csid], IF n = 0 THEN j ELSE g)
    BY <1>1, <1>8, <1>10 DEF Stage
  <2>2. Begun(g)
    BY <2>1 DEF Begun
  <2>3. n = 0 <=> h = 1
    BY <1>1
  <2>4. FirstAgain(g, h, j) \/ Further(g, h)
    BY <2>1, <2>2, <2>3, <1>5, <1>6 DEF FirstAgain, Further
  <2>5. Len(packet[csid].body) = n * OutChunk
    BY <2>1, <1>7 DEF Part
  <2>6. packet[csid] # NoPacket
    <3>1. sent[g].len \in Nat
      BY <1>1, MessageIs
    <3>2. NoPacket.cap = -1
      BY DEF NoPacket
    <3>3. \A z \in Nat : z # -1
      OBVIOUS
    <3> QED BY <3>1, <3>2, <3>3, <2>1
  <2> QED BY <2>1, <2>4, <2>5, <2>6, <1>1, <1>2, <1>3, <1>4, <1>10
<1> QED BY <1>1, <1>9, <1>10

\* The extended timestamp is seen where there is one; this is where a message that
\* repeats another one would go wrong.
LEMMA ExtRight ==
  ASSUME TypeOK, RoadInv, ~Repeats, HeaderThere,
         NEW g, NEW h, NEW j, NEW i, NEW n, Here(g, h, j, i, n)
  PROVE  /\ ext <=> TimeOf(sent, g) >= Cap
         /\ BodyAt = Lead(sent, g, h)
         /\ fmt = 0 => IsFull(sent, g)
         /\ fmt # 0 /\ h = 1 =>
              /\ ~IsFull(sent, g) /\ j \in 1..Len(sent) /\ sent[j].sid = sent[g].sid
              /\ sent[j].cs = sent[g].cs
              /\ sent[j].ts <= sent[g].ts /\ TimeOf(sent, g) = sent[g].ts - sent[j].ts
              /\ fmt # 1 => sent[j].len = sent[g].len /\ sent[j].type = sent[g].type
              /\ fmt = 3 => TimeOf(sent, g) = DeltaOf(sent, j)
<1>1. /\ g # 0 /\ csid = sent[g].cs /\ fmt = ChunkFormat(sent, g, h) /\ fmt \in 0..3
      /\ Prev(sent, g) = j
      /\ First(g, h, j) \/ FirstAgain(g, h, j) \/ Further(g, h)
  BY HereIs
<1>2. /\ sent \in Seq(Catalogue) /\ Linked(sent) /\ g \in 1..Len(sent)
      /\ Links(sent, j, g) /\ Len(sent) \in Nat
  BY SentIsSound DEF Here
<1>3. /\ TimeOf(sent, g) \in Nat /\ TimeOf(sent, g) <= sent[g].ts
      /\ FormatOf(sent, g) = 0 <=> IsFull(sent, g)
      /\ ~IsFull(sent, g) => j \in 1..Len(sent) /\ sent[j].ts <= sent[g].ts
  BY <1>1, <1>2, TimeIs
<1>4. Cap \in Nat /\ Cap >= 1
  BY SizesAre
<1>5. h = 1 => fmt = FormatOf(sent, g)
  BY <1>1 DEF ChunkFormat
<1>6. h # 1 => fmt = 3
  BY <1>1 DEF ChunkFormat
<1>7. ASSUME fmt # 0, h = 1
      PROVE  /\ ~IsFull(sent, g) /\ j \in 1..Len(sent) /\ sent[j].sid = sent[g].sid
             /\ sent[j].cs = sent[g].cs
             /\ sent[j].ts <= sent[g].ts /\ TimeOf(sent, g) = sent[g].ts - sent[j].ts
             /\ fmt # 1 => sent[j].len = sent[g].len /\ sent[j].type = sent[g].type
             /\ fmt = 3 => TimeOf(sent, g) = DeltaOf(sent, j)
  <2>1. ~IsFull(sent, g) /\ j \in 1..Len(sent) /\ sent[j].ts <= sent[g].ts
    BY <1>3, <1>5, <1>7
  <2>2. sent[j].sid = sent[g].sid /\ j # 0
    BY <1>1, <2>1 DEF IsFull
  <2>3. sent[j].cs = sent[g].cs
    BY <1>2, <2>2 DEF Links
  <2>4. TimeOf(sent, g) = sent[g].ts - sent[j].ts
    BY <1>1, <2>1 DEF TimeOf
  <2>5. fmt = IF sent[g].len # sent[j].len \/ sent[g].type # sent[j].type THEN 1
              ELSE IF TimeOf(sent, g) # DeltaOf(sent, j) THEN 2 ELSE 3
    BY <1>1, <1>5, <1>7, <2>1 DEF FormatOf
  <2> QED BY <2>1, <2>2, <2>3, <2>4, <2>5
<1>8. ext <=> TimeOf(sent, g) >= Cap
  <2>1. CASE fmt # 3
    <3>1. Field(1) = Field24(TimeOf(sent, g))
      BY <2>1, <1>1 DEF Here, Seen
    <3>2. ext <=> Field24(TimeOf(sent, g)) = Cap
      BY <3>1, <2>1 DEF ext
    <3> QED BY <3>2, <1>3, <1>4 DEF Field24, Smaller
  <2>2. CASE fmt = 3 /\ Begun(g)
    <3>1. inExt[csid] <=> TimeOf(sent, g) >= Cap
      BY <2>2, <1>1 DEF Begun, AsOf
    <3> QED BY <3>1, <2>2 DEF ext
  <2>3. CASE fmt = 3 /\ First(g, h, j)
    <3>1. /\ j \in 1..Len(sent) /\ j # 0 /\ TimeOf(sent, g) = DeltaOf(sent, j)
          /\ sent[j].len = sent[g].len /\ sent[j].type = sent[g].type
          /\ sent[j].sid = sent[g].sid /\ sent[j].cs = sent[g].cs
          /\ sent[j].ts <= sent[g].ts /\ TimeOf(sent, g) = sent[g].ts - sent[j].ts
      BY <2>3, <1>7 DEF First
    <3>2. ext <=> TimeOf(sent, j) >= Cap
      BY <2>3, <3>1 DEF First, AsOf, ext
    <3>3. CASE ~IsFull(sent, j)
      BY <3>1, <3>2, <3>3 DEF DeltaOf
    <3>4. CASE IsFull(sent, j)
      <4>1. TimeOf(sent, g) = 0 /\ TimeOf(sent, j) = sent[j].ts
        BY <3>1, <3>4 DEF DeltaOf, TimeOf
      <4>2. sent[j].ts \in Nat /\ sent[g].ts \in Nat
        BY <1>2, <3>1, MessageIs
      <4>3. sent[j].ts = sent[g].ts
        BY <3>1, <4>1, <4>2
      <4>4. sent[j] = sent[g]
        <5>1. /\ sent[j] = [cs |-> sent[j].cs, type |-> sent[j].type, len |-> sent[j].len,
                            sid |-> sent[j].sid, ts |-> sent[j].ts]
              /\ sent[g] = [cs |-> sent[g].cs, type |-> sent[g].type, len |-> sent[g].len,
                            sid |-> sent[g].sid, ts |-> sent[g].ts]
          BY <1>2, <3>1, MessageIs
        <5> QED BY <5>1, <3>1, <4>3
      <4>5. ~(sent[j].ts >= Cap)
        <5> SUFFICES ASSUME sent[j].ts >= Cap PROVE FALSE
          OBVIOUS
        <5>1. j < g /\ \A k \in (j + 1)..(g - 1) : sent[k].cs # sent[j].cs
          BY <1>2, <3>1, SMT DEF Links
        <5>2. DOMAIN sent = 1..Len(sent)
          BY <1>2
        <5> QED BY <5>1, <5>2, <4>4, <3>1, <1>2 DEF Repeats
      <4>6. ~(TimeOf(sent, j) >= Cap) /\ ~(TimeOf(sent, g) >= Cap)
        BY <4>1, <4>5, <1>4
      <4> QED BY <4>6, <3>2
    <3> QED BY <3>3, <3>4
  <2> QED BY <2>1, <2>2, <2>3, <1>1 DEF FirstAgain, Further
<1>9. BodyAt = Lead(sent, g, h)
  <2>1. TimeOf(sent, g) < Cap <=> ~ext
    BY <1>3, <1>4, <1>8
  <2> QED BY <2>1, <1>1 DEF BodyAt, HeadLen, Lead
<1>10. fmt = 0 => IsFull(sent, g)
  BY <1>3, <1>5, <1>6
<1> QED BY <1>7, <1>8, <1>9, <1>10

\* The packet's capacity is the message's length, and the chunk takes what the
\* sender has put in it.
LEMMA LengthRight ==
  ASSUME TypeOK, RoadInv, ~Repeats, HeaderThere,
         NEW g, NEW h, NEW j, NEW i, NEW n, Here(g, h, j, i, n)
  PROVE  Capacity = sent[g].len /\ ChunkLen = Load(sent, g, h)
<1>1. /\ csid = sent[g].cs /\ fmt \in 0..3
      /\ First(g, h, j) \/ FirstAgain(g, h, j) \/ Further(g, h)
      /\ Len(packet[csid].body) = (h - 1) * OutChunk
      /\ g \in 1..Len(sent) /\ h \in 1..Count(sent[g])
      /\ inChunk = OutChunk \/ sent[g].len <= InChunk
      /\ sent \in Seq(Catalogue)
  BY HereIs, SentIsSound DEF Here
<1>2. sent[g].len \in Nat /\ sent[g].len >= 1
  BY <1>1, MessageIs
<1>3. Capacity = sent[g].len
  <2>1. CASE Begun(g)
    <3>1. packet[csid].cap = sent[g].len
      BY <2>1 DEF Begun
    <3>2. NoPacket.cap = -1
      BY DEF NoPacket
    <3>3. sent[g].len # -1
      BY <1>2
    <3> QED BY <3>1, <3>2, <3>3 DEF Capacity, Started
  <2>2. CASE First(g, h, j)
    <3>1. Capacity = MsgLen /\ h = 1
      BY <2>2 DEF First, Capacity, Started
    <3>2. CASE fmt \in {0, 1}
      <4>1. fmt <= 1
        BY <3>2
      <4>2. Field(2).len = sent[g].len
        BY <4>1 DEF Here, Seen
      <4> QED BY <3>1, <3>2, <4>2 DEF MsgLen
    <3>3. CASE fmt \notin {0, 1}
      <4>1. j \in 1..Len(sent) /\ j # 0 /\ sent[j].len = sent[g].len
        BY <3>1, <3>3, ExtRight
      <4>2. inPrev[csid].len = sent[j].len
        BY <2>2, <4>1 DEF First, Holds, HeadOf
      <4> QED BY <3>1, <3>3, <4>1, <4>2, <1>2 DEF MsgLen
    <3> QED BY <3>2, <3>3
  <2> QED BY <2>1, <2>2, <1>1 DEF FirstAgain, Further
<1>4. /\ h \in Nat /\ h >= 1 /\ (h - 1) * OutChunk \in Nat
      /\ (h - 1) * OutChunk < sent[g].len
  BY <1>1, LoadIs
<1>5. /\ OutChunk \in Nat /\ OutChunk >= 1 /\ InChunk \in Nat /\ InChunk <= OutChunk
      /\ inChunk \in {InChunk, OutChunk}
  BY SizesAre DEF TypeOK
<1> DEFINE f == (h - 1) * OutChunk
<1>6. ChunkLen = Smaller(sent[g].len - f, inChunk)
  BY <1>1, <1>3 DEF ChunkLen, Space
<1>7. Load(sent, g, h) = Smaller(OutChunk, sent[g].len - f)
  BY DEF Load
<1>8. h # 1 => f >= OutChunk
  <2> HAVE h # 1
  <2>1. 0 < h - 1 /\ h - 1 \in Nat /\ 0 \in Nat
    BY <1>4
  <2>2. 0 * OutChunk + OutChunk <= f /\ 0 * OutChunk = 0
    BY <2>1, <1>5, Multiples
  <2>3. f \in Nat
    BY <1>4
  <2> HIDE DEF f
  <2> QED BY <2>2, <2>3, <1>5
<1>9. h = 1 => f = 0
  BY <1>5
<1>10. f \in Nat /\ f < sent[g].len
  BY <1>4
<1> HIDE DEF f
<1>11. CASE inChunk = OutChunk
  <2>1. \A v, x, o \in Nat : Smaller(v - x, o) = Smaller(o, v - x)
    BY DEF Smaller
  <2>2. Smaller(sent[g].len - f, OutChunk) = Smaller(OutChunk, sent[g].len - f)
    BY <2>1, <1>2, <1>5, <1>10
  <2> QED BY <2>2, <1>3, <1>6, <1>7, <1>11
<1>12. CASE inChunk # OutChunk
  <2>1. sent[g].len <= InChunk /\ inChunk = InChunk
    BY <1>1, <1>5, <1>12
  <2>2. h = 1
    BY <2>1, <1>2, <1>5, <1>8, <1>10
  <2>3. \A v, y, o \in Nat : v <= y /\ y <= o => Smaller(v - 0, y) = Smaller(o, v - 0)
    BY DEF Smaller
  <2>4. Smaller(sent[g].len - 0, InChunk) = Smaller(OutChunk, sent[g].len - 0)
    BY <2>1, <2>3, <1>2, <1>5
  <2> QED BY <2>1, <2>2, <2>4, <1>3, <1>6, <1>7, <1>9
<1> QED BY <1>3, <1>11, <1>12

\* The header is that of the message, and so is what is kept of it.
LEMMA HeaderRight ==
  ASSUME TypeOK, RoadInv, ~Repeats, HeaderThere,
         NEW g, NEW h, NEW j, NEW i, NEW n, Here(g, h, j, i, n)
  PROVE  Holds(sent, Header, g) /\ AsOf(sent, ext, Delta, g)
<1>1. /\ g # 0 /\ csid = sent[g].cs /\ fmt \in 0..3 /\ csid \in ChunkStreams
      /\ First(g, h, j) \/ FirstAgain(g, h, j) \/ Further(g, h)
      /\ fmt = ChunkFormat(sent, g, h)
      /\ g \in 1..Len(sent) /\ h \in 1..Count(sent[g]) /\ j \in 0..(g - 1)
      /\ sent \in Seq(Catalogue) /\ Linked(sent) /\ Seen(g, h)
  BY HereIs, SentIsSound DEF Here
<1>2. /\ ext <=> TimeOf(sent, g) >= Cap
      /\ fmt = 0 => IsFull(sent, g)
      /\ fmt # 0 /\ h = 1 =>
              /\ ~IsFull(sent, g) /\ j \in 1..Len(sent) /\ sent[j].sid = sent[g].sid
              /\ sent[j].ts <= sent[g].ts /\ TimeOf(sent, g) = sent[g].ts - sent[j].ts
              /\ fmt # 1 => sent[j].len = sent[g].len /\ sent[j].type = sent[g].type
              /\ fmt = 3 => TimeOf(sent, g) = DeltaOf(sent, j)
  BY ExtRight
<1>3. /\ fmt <= 2 => Field(1) = Field24(TimeOf(sent, g))
      /\ fmt <= 1 => Field(2) = [len |-> sent[g].len, type |-> sent[g].type]
      /\ fmt = 0 => Field(3) = sent[g].sid
      /\ fmt = 0 => h = 1
  BY <1>1 DEF Seen, ChunkFormat
<1> DEFINE w == HeadOf(sent, g)
           pv == inPrev[csid]
<1>4. /\ w.len = sent[g].len /\ w.type = sent[g].type /\ w.sid = sent[g].sid
      /\ w.ts = sent[g].ts
  BY <1>1 DEF HeadOf
<1>6. ASSUME fmt # 0, h = 1
      PROVE  /\ pv.sid = sent[g].sid
             /\ fmt # 1 => pv.len = sent[g].len /\ pv.type = sent[g].type
             /\ ~Late(sent) => pv.ts = sent[j].ts
  <2>1. j # 0 /\ sent[j].sid = sent[g].sid
    BY <1>2, <1>6
  <2>2. Holds(sent, pv, j)
    BY <1>1, <1>6 DEF First, FirstAgain, Further
  <2>3. /\ pv.len = sent[j].len /\ pv.type = sent[j].type /\ pv.sid = sent[j].sid
        /\ ~Late(sent) => pv.ts = sent[j].ts
    BY <2>1, <2>2 DEF Holds, HeadOf
  <2> QED BY <2>1, <2>3, <1>2, <1>6
<1>7. ASSUME h # 1
      PROVE  /\ pv.sid = sent[g].sid /\ pv.len = sent[g].len /\ pv.type = sent[g].type
             /\ ~Late(sent) => pv.ts = sent[g].ts
             /\ fmt = 3 /\ Begun(g)
  <2>1. Holds(sent, pv, g) /\ fmt = 3 /\ Begun(g)
    BY <1>1, <1>7 DEF First, FirstAgain, Further
  <2> QED BY <2>1, <1>4 DEF Holds
<1>8. Header.len = sent[g].len /\ Header.type = sent[g].type
  <2>1. CASE fmt \in {0, 1}
    <3>1. fmt <= 1
      BY <2>1
    <3>2. Field(2).len = sent[g].len /\ Field(2).type = sent[g].type
      BY <3>1, <1>3
    <3> QED BY <2>1, <3>2 DEF Header
  <2>2. CASE fmt \notin {0, 1}
    <3>1. pv.len = sent[g].len /\ pv.type = sent[g].type
      BY <2>2, <1>6, <1>7
    <3> QED BY <2>2, <3>1 DEF Header
  <2> QED BY <2>1, <2>2
<1>9. Header.sid = sent[g].sid
  <2>1. CASE fmt = 0
    BY <2>1, <1>3 DEF Header
  <2>2. CASE fmt # 0
    <3>1. pv.sid = sent[g].sid
      BY <2>2, <1>6, <1>7
    <3> QED BY <2>2, <3>1 DEF Header
  <2> QED BY <2>1, <2>2
<1>10. TimeOf(sent, g) \in Nat /\ TimeOf(sent, g) <= sent[g].ts
       /\ sent[g].ts \in Nat /\ sent[g].ts < Digit * Digit
  BY <1>1, TimeIs, MessageIs
<1>11. ASSUME ~Late(sent)
       PROVE  Header.ts = sent[g].ts /\ Delta = DeltaOf(sent, g)
  <2>1. sent[g].ts < Cap /\ Cap \in Nat
    BY <1>1, <1>10, <1>11, SizesAre DEF Late
  <2>2. ~ext /\ ~ExtUsed /\ Field24(TimeOf(sent, g)) = TimeOf(sent, g)
    BY <2>1, <1>2, <1>10 DEF ExtUsed, Field24, Smaller
  <2>3. Header.ts = Timestamp
    BY DEF Header
  <2>4. /\ Timestamp = CASE fmt = 0 -> Field(1)
                         [] fmt \in {1, 2} -> Plus(Field(1), pv.ts)
                         [] fmt = 3 -> IF packet[csid].head.ts = 0
                                       THEN Plus(inDelta[csid], pv.ts)
                                       ELSE packet[csid].head.ts
        /\ Delta = CASE fmt = 0 -> 0
                     [] fmt \in {1, 2} -> Field(1)
                     [] fmt = 3 -> inDelta[csid]
    BY <2>2 DEF Timestamp, Delta
  <2>5. \A a \in Nat, b \in Nat : a + b < Digit * Digit => Plus(a, b) = a + b
    BY PlusIs
  <2>6. CASE fmt = 0
    <3>1. IsFull(sent, g) /\ Field(1) = TimeOf(sent, g)
      BY <2>2, <2>6, <1>2, <1>3
    <3>2. TimeOf(sent, g) = sent[g].ts /\ DeltaOf(sent, g) = 0
      BY <3>1, <1>1 DEF TimeOf, DeltaOf
    <3> QED BY <3>1, <3>2, <2>3, <2>4, <2>6
  <2>7. CASE fmt \in {1, 2}
    <3>1. h = 1 /\ fmt # 0 /\ fmt # 3 /\ fmt <= 2
      BY <2>7, <1>7
    <3>2. /\ ~IsFull(sent, g) /\ j \in 1..Len(sent) /\ sent[j].ts <= sent[g].ts
          /\ TimeOf(sent, g) = sent[g].ts - sent[j].ts
          /\ Field(1) = TimeOf(sent, g) /\ pv.ts = sent[j].ts
      BY <3>1, <2>2, <1>2, <1>3, <1>6, <1>11
    <3>3. DeltaOf(sent, g) = TimeOf(sent, g)
      BY <3>2, <1>1 DEF DeltaOf
    <3>4. sent[j].ts \in Nat
      BY <1>1, <3>2, MessageIs
    <3>5. TimeOf(sent, g) + sent[j].ts = sent[g].ts
      BY <3>2, <3>4, <1>10
    <3>6. Plus(TimeOf(sent, g), sent[j].ts) = sent[g].ts
      BY <3>4, <3>5, <2>5, <1>10
    <3>7. Timestamp = Plus(Field(1), pv.ts) /\ Delta = Field(1)
      BY <2>4, <2>7, <3>1
    <3> QED BY <3>2, <3>3, <3>6, <3>7, <2>3
  <2>8. CASE fmt = 3 /\ h # 1
    <3>1. pv.ts = sent[g].ts /\ Begun(g)
      BY <2>8, <1>7, <1>11
    <3>2. packet[csid].head.ts = sent[g].ts /\ inDelta[csid] = DeltaOf(sent, g)
      BY <3>1, <1>4, <1>11 DEF Begun, Holds, AsOf
    <3>3. Delta = DeltaOf(sent, g)
      BY <2>4, <2>8, <3>2
    <3>4. CASE sent[g].ts = 0
      <4>1. DeltaOf(sent, g) = 0
        BY <3>4, <1>1, <1>10 DEF DeltaOf
      <4>2. Plus(0, 0) = 0
        BY <2>5, SizesAre
      <4>3. Timestamp = Plus(inDelta[csid], pv.ts)
        BY <2>4, <2>8, <3>2, <3>4
      <4> QED BY <4>1, <4>2, <4>3, <3>1, <3>2, <3>3, <3>4, <2>3
    <3>5. CASE sent[g].ts # 0
      <4>1. Timestamp = sent[g].ts
        BY <2>4, <2>8, <3>2, <3>5
      <4> QED BY <4>1, <3>3, <2>3
    <3> QED BY <3>4, <3>5
  <2>9. CASE fmt = 3 /\ h = 1
    <3>1. /\ ~IsFull(sent, g) /\ j \in 1..Len(sent) /\ sent[j].ts <= sent[g].ts
          /\ TimeOf(sent, g) = sent[g].ts - sent[j].ts
          /\ TimeOf(sent, g) = DeltaOf(sent, j) /\ pv.ts = sent[j].ts
      BY <2>9, <1>2, <1>6, <1>11
    <3>2. DeltaOf(sent, g) = TimeOf(sent, g)
      BY <3>1, <1>1 DEF DeltaOf
    <3>3. sent[j].ts \in Nat
      BY <1>1, <3>1, MessageIs
    <3>4. TimeOf(sent, g) + sent[j].ts = sent[g].ts
      BY <3>1, <3>3, <1>10
    <3>5. Plus(TimeOf(sent, g), sent[j].ts) = sent[g].ts
      BY <3>3, <3>4, <2>5, <1>10
    <3>6. inDelta[csid] = TimeOf(sent, g)
      <4>1. CASE First(g, h, j)
        BY <4>1, <3>1, <1>11 DEF First, AsOf
      <4>2. CASE FirstAgain(g, h, j)
        BY <4>2, <3>2, <1>11 DEF FirstAgain, Begun, AsOf
      <4> QED BY <4>1, <4>2, <2>9, <1>1 DEF Further
    <3>7. packet[csid].head.ts = 0 \/ packet[csid].head.ts = sent[g].ts
      <4>1. CASE First(g, h, j)
        BY <4>1 DEF First, NoPacket, Blank
      <4>2. CASE FirstAgain(g, h, j)
        BY <4>2, <1>4, <1>11 DEF FirstAgain, Begun, Holds
      <4> QED BY <4>1, <4>2, <2>9, <1>1 DEF Further
    <3>8. Timestamp = sent[g].ts
      <4>1. CASE packet[csid].head.ts = 0
        <5>1. Timestamp = Plus(inDelta[csid], pv.ts)
          BY <2>4, <2>9, <4>1
        <5> QED BY <5>1, <3>1, <3>5, <3>6
      <4>2. CASE packet[csid].head.ts # 0
        <5>1. Timestamp = packet[csid].head.ts
          BY <2>4, <2>9, <4>2
        <5> QED BY <5>1, <4>2, <3>7
      <4> QED BY <4>1, <4>2
    <3>9. Delta = TimeOf(sent, g)
      BY <2>4, <2>9, <3>6
    <3> QED BY <3>2, <3>8, <3>9, <2>3
  <2> QED BY <2>6, <2>7, <2>8, <2>9, <1>1
<1>12. Holds(sent, Header, g)
  BY <1>4, <1>8, <1>9, <1>11 DEF Holds
<1>13. AsOf(sent, ext, Delta, g)
  BY <1>1, <1>2, <1>11 DEF AsOf
<1> QED BY <1>12, <1>13

\* The chunk is taken for what it is.
LEMMA PieceRight ==
  ASSUME TypeOK, RoadInv, ~Repeats, HeaderThere, buf # <<>>, buf[1][1] = "basic",
         NEW g, NEW h, NEW j, NEW i, NEW n, Here(g, h, j, i, n)
  PROVE  /\ ~Misread
         /\ BodyAt + ChunkLen = Len(Pieces(sent, g)[h])
         /\ BodyAt \in Nat /\ ChunkLen \in Nat
         /\ \A u \in 1..ChunkLen : BodyAt + u <= Len(buf) =>
              buf[BodyAt + u][2] = <<g, (h - 1) * OutChunk + u>>
<1>1. /\ fmt = ChunkFormat(sent, g, h) /\ fmt \in 0..3 /\ Seen(g, h)
      /\ g \in 1..Len(sent) /\ h \in 1..Count(sent[g])
      /\ sent \in Seq(Catalogue) /\ Linked(sent) /\ Len(sent) <= MaxSent
      /\ Len(buf) \in Nat
  BY HereIs, SentIsSound, FrontPiece DEF Here
<1>2. BodyAt = Lead(sent, g, h) /\ ChunkLen = Load(sent, g, h)
  BY ExtRight, LengthRight
<1> DEFINE w == Pieces(sent, g)[h]
           l == Lead(sent, g, h)
           y == Load(sent, g, h)
<1>3. /\ Len(w) = l + y /\ l \in Nat /\ l >= 1
      /\ \A u \in (5 - fmt)..l : w[u][1] = "ext"
      /\ \A u \in 1..y : w[l + u] = <<"body", <<g, (h - 1) * OutChunk + u>> >>
  BY <1>1, Shape
<1>4. y \in Nat
  BY <1>1, LoadIs
<1>5. \A u \in 1..Len(buf) : u <= Len(w) => buf[u] = w[u]
  BY <1>1 DEF Seen
<1>6. BodyAt = l /\ ChunkLen = y
  BY <1>2
<1> HIDE DEF w, l, y
<1>7. ASSUME NEW u \in 1..y, l + u <= Len(buf)
      PROVE  buf[l + u] = <<"body", <<g, (h - 1) * OutChunk + u>> >>
  <2>1. l + u \in 1..Len(buf) /\ l + u <= Len(w)
    BY <1>1, <1>3, <1>4, <1>7
  <2> QED BY <2>1, <1>3, <1>5
<1>8. ASSUME NEW u \in (2 + HeadLen)..Smaller(l + y, Len(buf))
      PROVE  buf[u][1] = IF u <= l THEN "ext" ELSE "body"
  <2>1. u \in Nat /\ u >= 5 - fmt /\ u <= l + y /\ u <= Len(buf) /\ u >= 1
    BY <1>1, <1>3, <1>4 DEF HeadLen, Smaller
  <2>2. CASE u <= l
    <3>1. u \in (5 - fmt)..l /\ u \in 1..Len(buf) /\ u <= Len(w)
      BY <2>1, <2>2, <1>1, <1>3, <1>4
    <3> QED BY <3>1, <2>2, <1>3, <1>5
  <2>3. CASE ~(u <= l)
    <3>1. u - l \in 1..y /\ l + (u - l) = u
      BY <2>1, <2>3, <1>3, <1>4
    <3>2. buf[l + (u - l)] = <<"body", <<g, (h - 1) * OutChunk + (u - l)>> >>
      BY <3>1, <2>1, <1>7
    <3>3. buf[u][1] = "body"
      BY <3>1, <3>2
    <3> QED BY <3>3, <2>3
  <2> QED BY <2>2, <2>3
<1>9. ~Misread
  BY <1>6, <1>8 DEF Misread
<1> QED BY <1>3, <1>4, <1>6, <1>7, <1>9 DEF w

LEMMA FrontHere ==
  ASSUME TypeOK, RoadInv, OrderInv, Reading, buf # <<>>
  PROVE  /\ buf[1][1] = "basic"
         /\ \E g \in 1..Len(sent) : \E h \in 1..Count(sent[g]) :
              \E j \in 0..Len(sent) : \E i \in 0..Len(sent) : \E n \in Nat :
                Here(g, h, j, i, n)
<1>1. buf \in Seq(Units) /\ net \in Seq(Units)
  BY DEF RoadInv, StreamInv
<1>2. Halves(Units, buf, net)
  BY <1>1, TwoHalves
<1>3. /\ Len(Stream) = Len(buf) + Len(net)
      /\ \A u \in 1..Len(buf) : Stream[u] = buf[u]
  BY <1>2, Zenon DEF Halves, Stream
<1>4. Len(buf) \in Nat /\ Len(buf) # 0 /\ Len(net) \in Nat
  BY <1>1, EmptySeq
<1>5. 1 \in 1..Len(buf) /\ Len(Stream) # 0
  BY <1>3, <1>4
<1>6. Stream # <<>>
  BY <1>5
<1>7. 1 \in Starts(Stream)
  BY <1>6 DEF Reading, FrontInv
<1>8. buf[1][1] = "basic"
  BY <1>3, <1>5, <1>7 DEF Starts
<1>9. PICK g \in 1..Len(sent) : \E h \in 1..Count(sent[g]) : Seen(g, h)
  BY <1>8, FrontPiece
<1>10. PICK h \in 1..Count(sent[g]) : Seen(g, h)
  BY <1>9
<1>11. Flight(1, g, h) /\ csid = sent[g].cs
  BY <1>10 DEF Seen
<1>12. LongInv /\ ReceiverInv
  BY DEF Reading
<1> DEFINE c == csid
<1>13. c = sent[g].cs
  BY <1>11
<1> HIDE DEF c
<1>14. /\ \E j \in 0..Len(sent) : \E i \in 0..Len(sent) : \E n \in Nat :
              At(c, j, i, n) /\ Links(sent, j, g) /\ h = n + 1 /\ (i = 0 \/ i = g)
       /\ inChunk = OutChunk \/ sent[g].len <= InChunk
  BY <1>11, <1>12, <1>13, FrontIs
<1>15. PICK j \in 0..Len(sent) : \E i \in 0..Len(sent) : \E n \in Nat :
              At(c, j, i, n) /\ Links(sent, j, g) /\ h = n + 1 /\ (i = 0 \/ i = g)
  BY <1>14
<1>16. PICK i \in 0..Len(sent) : \E n \in Nat :
              At(c, j, i, n) /\ Links(sent, j, g) /\ h = n + 1 /\ (i = 0 \/ i = g)
  BY <1>15
<1>17. PICK n \in Nat :
              At(c, j, i, n) /\ Links(sent, j, g) /\ h = n + 1 /\ (i = 0 \/ i = g)
  BY <1>16
<1>18. Here(g, h, j, i, n)
  BY <1>10, <1>14, <1>17 DEF Here, c
<1> QED BY <1>8, <1>18

\* Unless messages repeat, nothing is taken for anything else.
LEMMA NoMisread ==
  ASSUME TypeOK, RoadInv, OrderInv, Reading, ~Repeats, buf # <<>>
  PROVE  ~Misread
<1>1. buf[1][1] = "basic"
  BY FrontHere
<1>2. CASE ~HeaderThere
  BY <1>1, <1>2 DEF Misread
<1>3. CASE HeaderThere
  <2>1. PICK g, h, j, i, n : Here(g, h, j, i, n)
    BY FrontHere
  <2> QED BY <2>1, <1>1, <1>3, PieceRight
<1> QED BY <1>2, <1>3

-----------------------------------------------------------------------------
(* Later messages                                                            *)

LEMMA StageLater ==
  ASSUME NEW s \in Seq(Catalogue), Linked(s), NEW m \in Catalogue
  PROVE  LET t == Append(s, m) IN
         /\ ~Late(t) => ~Late(s)
         /\ \A pk, hd, x, e, n : \A j \in 0..Len(s), i \in 0..Len(s) :
              Stage(s, pk, hd, x, e, j, i, n) => Stage(t, pk, hd, x, e, j, i, n)
         /\ \A D : \A k : Right(s, D, k) => Right(t, D, k)
<1> DEFINE t == Append(s, m)
<1>1. /\ Len(t) = Len(s) + 1 /\ t \in Seq(Catalogue)
      /\ \A i \in 1..Len(s) :
              /\ i \in 1..Len(t) /\ t[i] = s[i] /\ TimeOf(t, i) = TimeOf(s, i)
              /\ Links(t, Prev(s, i), i)
      /\ \A i \in 0..Len(s) : HeadOf(t, i) = HeadOf(s, i)
                              /\ DeltaOf(t, i) = DeltaOf(s, i)
  BY Stable
<1> HIDE DEF t
<1>2. ~Late(t) => ~Late(s)
  BY <1>1 DEF Late
<1>3. ASSUME NEW h, NEW i \in 0..Len(s), Holds(s, h, i) PROVE Holds(t, h, i)
  BY <1>1, <1>2, <1>3 DEF Holds
<1>4. ASSUME NEW x, NEW e, NEW i \in 0..Len(s), AsOf(s, x, e, i)
      PROVE  AsOf(t, x, e, i)
  <2>1. i # 0 => TimeOf(t, i) = TimeOf(s, i)
    BY <1>1
  <2> QED BY <2>1, <1>1, <1>2, <1>4 DEF AsOf
<1>5. ASSUME NEW pk, NEW hd, NEW x, NEW e, NEW n, NEW j \in 0..Len(s),
             NEW i \in 0..Len(s), Stage(s, pk, hd, x, e, j, i, n)
      PROVE  Stage(t, pk, hd, x, e, j, i, n)
  <2>1. CASE i = 0
    <3>1. n = 0 /\ pk = NoPacket /\ Holds(s, hd, j) /\ AsOf(s, x, e, j)
      BY <1>5, <2>1 DEF Stage
    <3>2. Holds(t, hd, j) /\ AsOf(t, x, e, j)
      BY <3>1, <1>3, <1>4
    <3> QED BY <3>1, <3>2, <2>1 DEF Stage
  <2>2. CASE i # 0
    <3>1. /\ Links(s, j, i) /\ n + 1 \in 1..Count(s[i])
          /\ pk.cap = s[i].len /\ pk.body = Part(i, n)
          /\ Holds(s, pk.head, i) /\ AsOf(s, x, e, i)
          /\ Holds(s, hd, IF n = 0 THEN j ELSE i)
      BY <1>5, <2>2 DEF Stage
    <3>2. i \in 1..Len(s)
      BY <2>2
    <3>3. j \in 0..(i - 1)
      BY <3>1 DEF Links
    <3>4. Prev(s, i) = j
      BY <3>1, <3>2, <3>3, PrevIs
    <3>5. Links(t, j, i) /\ t[i] = s[i]
      BY <3>2, <3>4, <1>1
    <3>6. /\ Holds(t, pk.head, i) /\ AsOf(t, x, e, i)
          /\ Holds(t, hd, IF n = 0 THEN j ELSE i)
      <4>1. Holds(t, pk.head, i) /\ AsOf(t, x, e, i)
        BY <3>1, <1>3, <1>4
      <4>2. CASE n = 0
        BY <4>1, <4>2, <3>1, <1>3
      <4>3. CASE n # 0
        BY <4>1, <4>3, <3>1, <1>3
      <4> QED BY <4>2, <4>3
    <3> QED BY <3>1, <3>5, <3>6, <2>2 DEF Stage
  <2> QED BY <2>1, <2>2
<1>6. ASSUME NEW D, NEW k, Right(s, D, k) PROVE Right(t, D, k)
  <2> DEFINE d == D[k]
             i == Number(d)
  <2>1. /\ i \in 1..Len(s) /\ d.cs = s[i].cs
        /\ d.type = s[i].type /\ d.sid = s[i].sid
        /\ d.body = [u \in 1..s[i].len |-> <<i, u>>]
        /\ ~Late(s) => d.ts = s[i].ts
        /\ \A h \in 1..(i - 1) : s[h].cs = d.cs =>
             \E e \in 1..(k - 1) : Number(D[e]) = h
        /\ \A e \in 1..(k - 1) : Number(D[e]) # i
    BY <1>6 DEF Right
  <2> HIDE DEF d, i
  <2>2. i \in 1..Len(t) /\ t[i] = s[i]
    BY <2>1, <1>1
  <2>3. \A h \in 1..(i - 1) : t[h] = s[h]
    <3>1. \A h \in 1..(i - 1) : h \in 1..Len(s)
      <4>1. i \in Nat /\ i <= Len(s) /\ Len(s) \in Nat
        BY <2>1
      <4> QED BY <4>1
    <3> QED BY <3>1, <1>1
  <2>4. /\ i \in 1..Len(t) /\ d.cs = t[i].cs
        /\ d.type = t[i].type /\ d.sid = t[i].sid
        /\ d.body = [u \in 1..t[i].len |-> <<i, u>>]
        /\ ~Late(t) => d.ts = t[i].ts
        /\ \A h \in 1..(i - 1) : t[h].cs = d.cs =>
             \E e \in 1..(k - 1) : Number(D[e]) = h
        /\ \A e \in 1..(k - 1) : Number(D[e]) # i
    BY <2>1, <2>2, <2>3, <1>2
  <2> QED BY <2>4 DEF Right, d, i
<1> QED BY <1>2, <1>5, <1>6 DEF t

LEMMA RepeatsLater ==
  ASSUME sent \in Seq(Catalogue), NEW m \in Catalogue, sent' = Append(sent, m), ~Repeats'
  PROVE  ~Repeats
<1> SUFFICES ASSUME Repeats PROVE FALSE
  OBVIOUS
<1> DEFINE s == sent
           t == Append(sent, m)
<1>1. Len(s) \in Nat /\ DOMAIN s = 1..Len(s) /\ DOMAIN t = 1..(Len(s) + 1)
      /\ \A i \in 1..Len(s) : t[i] = s[i]
  BY AppendProperties
<1>2. PICK i \in DOMAIN s, j \in DOMAIN s :
         /\ i < j /\ s[i] = s[j] /\ s[i].ts >= Cap
         /\ \A k \in (i + 1)..(j - 1) : s[k].cs # s[i].cs
  BY DEF Repeats
<1> HIDE DEF t
<1>3. i \in DOMAIN t /\ j \in DOMAIN t /\ t[i] = s[i] /\ t[j] = s[j]
  BY <1>1, <1>2
<1>4. \A k \in (i + 1)..(j - 1) : t[k] = s[k]
  <2>1. \A k \in (i + 1)..(j - 1) : k \in 1..Len(s)
    BY <1>1, <1>2
  <2> QED BY <2>1, <1>1
<1>5. \A k \in (i + 1)..(j - 1) : t[k].cs # t[i].cs
  BY <1>2, <1>3, <1>4
<1>6. sent' = t
  BY DEF t
<1>7. Repeats'
  BY <1>2, <1>3, <1>5, <1>6 DEF Repeats
<1> QED BY <1>7

\* What does not touch chunk stream d leaves the receiver where it is on it.
LEMMA StillAt ==
  ASSUME sent' = sent, NEW d, NEW j, NEW i, NEW n, At(d, j, i, n),
         \A g \in 1..Len(sent) : sent[g].cs = d =>
           /\ Done(g)' <=> Done(g)
           /\ \A h : OnRoad(g, h)' <=> OnRoad(g, h),
         packet'[d] = packet[d], inPrev'[d] = inPrev[d],
         inExt'[d] = inExt[d], inDelta'[d] = inDelta[d]
  PROVE  At(d, j, i, n)'
<1>1. /\ i # 0 => sent[i].cs = d
      /\ LastDone(d, j) /\ Where(d, j, i, n)
      /\ Stage(sent, packet[d], inPrev[d], inExt[d], inDelta[d], j, i, n)
  BY DEF At
<1>2. LastDone(d, j)'
  <2>1. /\ j # 0 => sent[j].cs = d
        /\ \A g \in 1..Len(sent) : sent[g].cs = d => (Done(g)' <=> g <= j)
    BY <1>1 DEF LastDone
  <2> QED BY <2>1, Zenon DEF LastDone
<1>3. Where(d, j, i, n)'
  <2>1. \A g \in 1..Len(sent) : sent[g].cs = d =>
          \A h \in 1..Count(sent[g]) :
             OnRoad(g, h)' <=> ~(g <= j \/ (g = i /\ h <= n))
    BY <1>1 DEF Where
  <2> QED BY <2>1, Zenon DEF Where, Count
<1>4. Stage(sent', packet'[d], inPrev'[d], inExt'[d], inDelta'[d], j, i, n)
  BY <1>1
<1>5. (i # 0 => sent[i].cs = d)'
  BY <1>1
<1>6. Stage(sent, packet[d], inPrev[d], inExt[d], inDelta[d], j, i, n)'
  BY <1>4
<1> QED BY <1>2, <1>3, <1>5, <1>6, Zenon DEF At

-----------------------------------------------------------------------------
(* The receiver keeps track: the steps that do not parse a chunk             *)

LEMMA BuildReading ==
  ASSUME TypeOK, RoadInv, OrderInv, Reading, NEW m \in Catalogue, Build(m)
  PROVE  Reading'
<1> DEFINE s == sent
           t == Append(sent, m)
           n == Len(sent) + 1
<1>1. /\ sent \in Seq(Catalogue) /\ Linked(sent) /\ Len(sent) \in Nat
      /\ n \in Nat /\ \A i \in 1..Len(sent) : i < n
  BY SentIsSound
<1>2. /\ UNCHANGED <<net, buf, parsing, chunkVars, ackVars, lost>>
      /\ m.len <= InChunk \/ Announced
  BY DEF Build
<1>3. /\ sent' = t /\ Stream' = Stream
      /\ \A p, i, k : Flight(p, i, k)' <=> Flight(p, i, k)
      /\ \A x, i, k : Waits(x, i, k)' <=>
           \/ Waits(x, i, k)
           \/ i = n /\ k \in 1..Count(m) /\ x = Len(pending[m.cs]) + k
  BY BuildEffect
<1>4. /\ Len(t) = n /\ t[n] = m /\ t \in Seq(Catalogue)
      /\ \A i \in 1..Len(s) : /\ i \in 1..Len(t) /\ t[i] = s[i]
                              /\ Pieces(t, i) = Pieces(s, i)
  BY <1>1, Stable
<1>5. \A i, k : OnRoad(i, k)' <=> \/ OnRoad(i, k)
                                  \/ i = n /\ k \in 1..Count(m)
  BY BuildOrder
<1>6. /\ \A pk, hd, x, e, y : \A j \in 0..Len(s), i \in 0..Len(s) :
           Stage(s, pk, hd, x, e, j, i, y) => Stage(t, pk, hd, x, e, j, i, y)
      /\ \A D : \A k : Right(s, D, k) => Right(t, D, k)
  BY <1>1, StageLater
<1>7. m.len \in Nat /\ InChunk \in Nat
  BY CatalogueAssumption, SizesAre
<1> HIDE DEF t, n
<1>8. \A i \in 1..Len(t) : i = n \/ i \in 1..Len(s)
  BY <1>1, <1>4 DEF n
<1>9. \A i : Done(i)' <=> Done(i)
  BY <1>2, Zenon DEF Done, chunkVars
<1>10. ~Done(n)
  <2> SUFFICES ASSUME Done(n) PROVE FALSE
    OBVIOUS
  <2>1. PICK e \in 1..Len(delivered) : Number(delivered[e]) = n
    BY DEF Done
  <2>2. Right(s, delivered, e)
    BY <2>1 DEF Reading, DeliveredInv
  <2>3. n \in 1..Len(s)
    BY <2>1, <2>2 DEF Right
  <2> QED BY <2>3, <1>1
<1>11. FrontInv'
  <2>1. FrontInv
    BY DEF Reading
  <2>2. Stream' # <<>> => 1 \in Starts(Stream')
    BY <2>1, <1>3 DEF FrontInv
  <2>3. ASSUME ~parsing, Stream # <<>>
        PROVE  \E g \in 1..Len(t) : \E h \in 1..Count(t[g]) :
                 Flight(1, g, h)' /\ Len(buf') < Len(Pieces(t, g)[h])
    <3>1. PICK g \in 1..Len(s) : \E h \in 1..Count(s[g]) :
                 Flight(1, g, h) /\ Len(buf) < Len(Pieces(s, g)[h])
      BY <2>1, <2>3 DEF FrontInv
    <3>2. PICK h \in 1..Count(s[g]) :
                 Flight(1, g, h) /\ Len(buf) < Len(Pieces(s, g)[h])
      BY <3>1
    <3> QED BY <3>1, <3>2, <1>2, <1>3, <1>4
  <2> QED BY <2>2, <2>3, <1>2, <1>3, Zenon DEF FrontInv
<1>12. LongInv'
  <2>1. LongInv
    BY DEF Reading
  <2>2. ASSUME NEW i \in 1..Len(sent'), sent'[i].len > InChunk
        PROVE  \E z \in 1..Len(sent') :
                 /\ sent'[z].type = "size" /\ \A x, k : ~Waits(x, z, k)'
                 /\ \A p, k, q, h : Flight(p, z, k)' /\ Flight(q, i, h)' => p < q
    <3>0. i \in 1..Len(t) /\ t[i].len > InChunk
      BY <2>2, <1>3
    <3>1. CASE i = n
      <4>1. Announced
        BY <3>0, <3>1, <1>2, <1>4, <1>7
      <4>2. PICK z \in DOMAIN sent : sent[z].type = "size" /\ pending[sent[z].cs] = <<>>
        BY <4>1 DEF Announced
      <4>3. z \in 1..Len(s) /\ z < n
        BY <1>1, <4>2
      <4>4. \A x, k : ~Waits(x, z, k)
        <5>1. Len(<<>>) = 0 /\ \A x \in 1..0 : FALSE
          OBVIOUS
        <5> QED BY <5>1, <4>2 DEF Waits
      <4>5. \A x, k : ~Waits(x, z, k)'
        BY <4>3, <4>4, <1>1, <1>3
      <4>6. \A q, h : ~Flight(q, i, h)'
        <5> SUFFICES ASSUME NEW q, NEW h, Flight(q, i, h)' PROVE FALSE
          OBVIOUS
        <5>1. Flight(q, i, h)
          BY <1>3
        <5>2. i \in 1..Len(s)
          BY <5>1, RoadTypes
        <5> QED BY <5>2, <3>1, <1>1
      <4>7. z \in 1..Len(sent') /\ sent'[z].type = "size"
        BY <4>2, <4>3, <1>3, <1>4
      <4> QED BY <4>5, <4>6, <4>7
    <3>2. CASE i \in 1..Len(s)
      <4>1. s[i].len > InChunk
        BY <3>0, <3>2, <1>4
      <4>2. PICK z \in 1..Len(sent) :
              /\ sent[z].type = "size" /\ \A x, k : ~Waits(x, z, k)
              /\ \A p, k, q, h : Flight(p, z, k) /\ Flight(q, i, h) => p < q
        BY <2>1, <3>2, <4>1 DEF LongInv
      <4>3. z # n
        BY <4>2, <1>1
      <4>4. \A x, k : ~Waits(x, z, k)'
        BY <4>2, <4>3, <1>3
      <4>5. \A p, k, q, h : Flight(p, z, k)' /\ Flight(q, i, h)' => p < q
        BY <4>2, <1>3
      <4>6. z \in 1..Len(sent') /\ sent'[z].type = "size"
        BY <4>2, <1>3, <1>4
      <4> QED BY <4>4, <4>5, <4>6
    <3> QED BY <3>0, <3>1, <3>2, <1>8
  <2>3. ASSUME NEW z \in 1..Len(sent'), Done(z)', sent'[z].type = "size"
        PROVE  inChunk' = OutChunk
    <3>0. z \in 1..Len(t) /\ t[z].type = "size"
      BY <2>3, <1>3
    <3>1. z \in 1..Len(s) /\ Done(z)
      BY <2>3, <3>0, <1>8, <1>9, <1>10
    <3>2. inChunk = OutChunk
      BY <2>1, <3>0, <3>1, <1>4 DEF LongInv
    <3> QED BY <3>2, <1>2 DEF chunkVars
  <2> QED BY <2>2, <2>3, Zenon DEF LongInv
<1>13. ReceiverInv'
  <2> SUFFICES ASSUME NEW c \in ChunkStreams
               PROVE  \E j \in 0..Len(t) : \E i \in 0..Len(t) : \E y \in Nat :
                        At(c, j, i, y)'
    BY <1>3, Zenon DEF ReceiverInv, ChunkStreams
  <2>1. PICK j \in 0..Len(s) : \E i \in 0..Len(s) : \E y \in Nat : At(c, j, i, y)
    BY DEF Reading, ReceiverInv
  <2>2. PICK i \in 0..Len(s) : \E y \in Nat : At(c, j, i, y)
    BY <2>1
  <2>3. PICK y \in Nat : At(c, j, i, y)
    BY <2>2
  <2>4. /\ i # 0 => s[i].cs = c
        /\ j # 0 => s[j].cs = c
        /\ \A g \in 1..Len(s) : s[g].cs = c => (Done(g) <=> g <= j)
        /\ \A g \in 1..Len(s) : s[g].cs = c =>
             \A h \in 1..Count(s[g]) :
               OnRoad(g, h) <=> ~(g <= j \/ (g = i /\ h <= y))
        /\ Stage(s, packet[c], inPrev[c], inExt[c], inDelta[c], j, i, y)
    BY <2>3 DEF At, LastDone, Where
  <2>5. /\ j \in 0..Len(t) /\ i \in 0..Len(t) /\ j < n /\ i < n
        /\ j # 0 => j \in 1..Len(s)
        /\ i # 0 => i \in 1..Len(s)
    BY <1>1, <1>4 DEF n
  <2>6. (i # 0 => t[i].cs = c) /\ (j # 0 => t[j].cs = c)
    BY <2>4, <2>5, <1>4
  <2>7. ASSUME NEW g \in 1..Len(t), t[g].cs = c PROVE Done(g)' <=> g <= j
    <3>1. CASE g = n
      <4>1. ~(g <= j)
        BY <2>5, <3>1, <1>1
      <4> QED BY <4>1, <3>1, <1>9, <1>10
    <3>2. CASE g \in 1..Len(s)
      BY <2>4, <2>7, <3>2, <1>4, <1>9
    <3> QED BY <3>1, <3>2, <1>8
  <2>8. ASSUME NEW g \in 1..Len(t), t[g].cs = c, NEW h \in 1..Count(t[g])
        PROVE  OnRoad(g, h)' <=> ~(g <= j \/ (g = i /\ h <= y))
    <3>1. CASE g = n
      <4>1. ~(g <= j) /\ g # i /\ h \in 1..Count(m)
        BY <2>5, <3>1, <1>1, <1>4
      <4> QED BY <4>1, <3>1, <1>5
    <3>2. CASE g \in 1..Len(s)
      <4>1. g # n /\ t[g] = s[g]
        BY <3>2, <1>1, <1>4
      <4> QED BY <4>1, <2>4, <2>8, <3>2, <1>5
    <3> QED BY <3>1, <3>2, <1>8
  <2>9. Stage(t, packet'[c], inPrev'[c], inExt'[c], inDelta'[c], j, i, y)
    <3>1. Stage(t, packet[c], inPrev[c], inExt[c], inDelta[c], j, i, y)
      BY <2>4, <1>6
    <3> QED BY <3>1, <1>2 DEF chunkVars
  <2>10. LastDone(c, j)'
    BY <2>6, <2>7, <1>3, Zenon DEF LastDone
  <2>11. Where(c, j, i, y)'
    BY <2>8, <1>3, Zenon DEF Where
  <2>12. At(c, j, i, y)'
    BY <2>6, <2>9, <2>10, <2>11, <1>3, Zenon DEF At
  <2> QED BY <2>5, <2>12
<1>14. DeliveredInv'
  <2>1. delivered \in Seq(Messages) /\ delivered' = delivered
    BY <1>2 DEF Reading, DeliveredInv, chunkVars
  <2>2. \A k \in 1..Len(delivered) : Right(t, delivered, k)
    BY <1>6 DEF Reading, DeliveredInv
  <2> QED BY <2>1, <2>2, <1>3 DEF DeliveredInv
<1>15. ~lost'
  BY <1>2 DEF Reading
<1> QED BY <1>11, <1>12, <1>13, <1>14, <1>15, Zenon DEF Reading

LEMMA PutReading ==
  ASSUME TypeOK, RoadInv, OrderInv, Reading, NEW c \in ChunkStreams, Put(c)
  PROVE  Reading'
<1>1. PICK g0 \in 1..Len(sent) : \E h \in 1..Count(sent[g0]) :
              /\ sent[g0].cs = c /\ Waits(1, g0, h)
              /\ \A p, i, k : Flight(p, i, k)' <=>
                   \/ Flight(p, i, k)
                   \/ p = Len(Stream) + 1 /\ i = g0 /\ k = h
  BY PutEffect
<1>2. PICK h0 \in 1..Count(sent[g0]) :
              /\ sent[g0].cs = c /\ Waits(1, g0, h0)
              /\ \A p, i, k : Flight(p, i, k)' <=>
                   \/ Flight(p, i, k)
                   \/ p = Len(Stream) + 1 /\ i = g0 /\ k = h0
  BY <1>1
<1>3. /\ sent' = sent
      /\ \A x, i, k : Waits(x, i, k)' <=>
              /\ x \in Nat \ {0} /\ i \in 1..Len(sent)
              /\ IF sent[i].cs = c THEN Waits(x + 1, i, k) ELSE Waits(x, i, k)
      /\ Stream \in Seq(Units)
  BY PutEffect
<1>4. UNCHANGED <<buf, parsing, chunkVars, lost>>
  BY DEF Put
<1>5. Sound(sent) /\ Len(sent) \in Nat /\ Len(Stream) \in Nat
  BY SentIsSound, <1>3
<1>6. \A i, k : OnRoad(i, k)' <=> OnRoad(i, k)
  BY PutOrder
<1>7. \A i : Done(i)' <=> Done(i)
  BY <1>4, Zenon DEF Done, chunkVars
<1>8. FrontInv'
  <2>1. FrontInv /\ Identified(Stream, sent) /\ buf \in Seq(Units) /\ net \in Seq(Units)
    BY DEF Reading, RoadInv, StreamInv
  <2>2. ASSUME NEW g, NEW h, Flight(1, g, h)' PROVE 1 \in Starts(Stream')
    BY <2>2 DEF Flight, PieceAt
  <2>3. CASE Stream = <<>>
    <3>1. Len(Stream) + 1 = 1
      BY <2>3
    <3>2. Flight(1, g0, h0)'
      BY <3>1, <1>2
    <3>3. Len(buf) = 0
      <4>1. Halves(Units, buf, net)
        BY <2>1, TwoHalves
      <4>2. Len(Stream) = Len(buf) + Len(net)
        BY <4>1, Zenon DEF Halves, Stream
      <4>3. Len(buf) \in Nat /\ Len(net) \in Nat /\ Len(Stream) = 0
        BY <2>1, <2>3
      <4>4. \A x, y \in Nat : x + y = 0 => x = 0
        OBVIOUS
      <4>5. Len(buf) + Len(net) = 0
        BY <4>2, <4>3, Zenon
      <4> QED BY <4>3, <4>4, <4>5, Zenon
    <3>4. Len(Pieces(sent, g0)[h0]) >= 1 /\ Len(Pieces(sent, g0)[h0]) \in Nat
      <4>1. /\ Len(Pieces(sent, g0)[h0]) = Lead(sent, g0, h0) + Load(sent, g0, h0)
            /\ Lead(sent, g0, h0) \in Nat /\ Lead(sent, g0, h0) >= 1
        BY <1>5, Shape DEF Sound
      <4>2. Load(sent, g0, h0) \in Nat
        BY <1>5, LoadIs DEF Sound
      <4> QED BY <4>1, <4>2
    <3>5. Len(buf) < Len(Pieces(sent, g0)[h0])
      BY <3>3, <3>4
    <3>6. 1 \in Starts(Stream')
      BY <2>2, <3>2
    <3>7. \E g \in 1..Len(sent) : \E h \in 1..Count(sent[g]) :
            Flight(1, g, h)' /\ Len(buf) < Len(Pieces(sent, g)[h])
      BY <3>2, <3>5
    <3> QED BY <3>6, <3>7, <1>3, <1>4, Zenon DEF FrontInv
  <2>4. CASE Stream # <<>>
    <3>1. 1 \in Starts(Stream)
      BY <2>1, <2>4 DEF FrontInv
    <3>2. \E g, h : PieceAt(Stream, sent, 1, g, h)
      BY <2>1, <3>1 DEF Identified
    <3>3. PICK g, h : Flight(1, g, h)
      BY <3>2 DEF Flight
    <3>4. 1 \in Starts(Stream')
      BY <2>2, <3>3, <1>2
    <3>5. ~parsing => \E x \in 1..Len(sent) : \E y \in 1..Count(sent[x]) :
            Flight(1, x, y)' /\ Len(buf) < Len(Pieces(sent, x)[y])
      BY <2>1, <2>4, <1>2 DEF FrontInv
    <3> QED BY <3>4, <3>5, <1>3, <1>4, Zenon DEF FrontInv
  <2> QED BY <2>3, <2>4
<1>9. LongInv'
  <2>1. LongInv
    BY DEF Reading
  <2>2. ASSUME NEW i \in 1..Len(sent), sent[i].len > InChunk
        PROVE  \E z \in 1..Len(sent) :
                 /\ sent[z].type = "size" /\ \A x, k : ~Waits(x, z, k)'
                 /\ \A p, k, q, h : Flight(p, z, k)' /\ Flight(q, i, h)' => p < q
    <3>1. PICK z \in 1..Len(sent) :
              /\ sent[z].type = "size" /\ \A x, k : ~Waits(x, z, k)
              /\ \A p, k, q, h : Flight(p, z, k) /\ Flight(q, i, h) => p < q
      BY <2>1, <2>2 DEF LongInv
    <3>2. \A x, k : ~Waits(x, z, k)'
      BY <3>1, <1>3
    <3>3. ASSUME NEW p, NEW k, NEW q, NEW h, Flight(p, z, k)', Flight(q, i, h)'
          PROVE  p < q
      <4>1. Flight(p, z, k)
        BY <3>1, <3>3, <1>2
      <4>2. p \in Nat /\ p <= Len(Stream)
        BY <4>1, RoadTypes
      <4>3. CASE Flight(q, i, h)
        BY <3>1, <4>1, <4>3
      <4>4. CASE q = Len(Stream) + 1
        BY <4>2, <4>4, <1>5
      <4> QED BY <4>3, <4>4, <3>3, <1>2
    <3> QED BY <3>1, <3>2, <3>3
  <2>3. ASSUME NEW z \in 1..Len(sent), Done(z)', sent[z].type = "size"
        PROVE  inChunk' = OutChunk
    <3>1. inChunk = OutChunk
      BY <2>1, <2>3, <1>7 DEF LongInv
    <3> QED BY <3>1, <1>4 DEF chunkVars
  <2> QED BY <2>2, <2>3, <1>3, Zenon DEF LongInv
<1>10. ReceiverInv'
  <2> SUFFICES ASSUME NEW d \in ChunkStreams
               PROVE  \E j \in 0..Len(sent) : \E i \in 0..Len(sent) : \E n \in Nat :
                        At(d, j, i, n)'
    BY <1>3, Zenon DEF ReceiverInv, ChunkStreams
  <2>1. PICK j \in 0..Len(sent), i \in 0..Len(sent), n \in Nat : At(d, j, i, n)
    BY DEF Reading, ReceiverInv
  <2>2. At(d, j, i, n)'
    BY <2>1, <1>3, <1>4, <1>6, <1>7, StillAt DEF chunkVars
  <2> QED BY <2>1, <2>2
<1>11. DeliveredInv' /\ ~lost'
  BY <1>3, <1>4 DEF DeliveredInv, Reading, chunkVars
<1> QED BY <1>8, <1>9, <1>10, <1>11, Zenon DEF Reading

\* When nothing is added to the road the announcements stay ahead.
LEMMA StayLong ==
  ASSUME TypeOK, LongInv, sent' = sent, NEW n \in Nat,
         \A p, i, k : Flight(p, i, k)' => p \in Nat /\ Flight(p + n, i, k),
         \A x, i, k : Waits(x, i, k)' => Waits(x, i, k),
         \A z \in 1..Len(sent) :
           Done(z)' /\ sent[z].type = "size" => inChunk' = OutChunk
  PROVE  LongInv'
<1>1. ASSUME NEW i \in 1..Len(sent), sent[i].len > InChunk
      PROVE  \E z \in 1..Len(sent) :
               /\ sent[z].type = "size" /\ \A x, k : ~Waits(x, z, k)'
               /\ \A p, k, q, h : Flight(p, z, k)' /\ Flight(q, i, h)' => p < q
  <2>1. PICK z \in 1..Len(sent) :
            /\ sent[z].type = "size" /\ \A x, k : ~Waits(x, z, k)
            /\ \A p, k, q, h : Flight(p, z, k) /\ Flight(q, i, h) => p < q
    BY <1>1 DEF LongInv
  <2>2. \A x, k : ~Waits(x, z, k)'
    BY <2>1
  <2>3. ASSUME NEW p, NEW k, NEW q, NEW h, Flight(p, z, k)', Flight(q, i, h)'
        PROVE  p < q
    <3>1. p \in Nat /\ q \in Nat /\ Flight(p + n, z, k) /\ Flight(q + n, i, h)
      BY <2>3
    <3>2. p + n < q + n
      BY <2>1, <3>1
    <3> QED BY <3>1, <3>2
  <2> QED BY <2>1, <2>2, <2>3
<1> QED BY <1>1, Zenon DEF LongInv

\* A step that moves nothing on the road and reads nothing.
LEMMA StayReading ==
  ASSUME TypeOK, RoadInv, OrderInv, Reading, UNCHANGED <<senderVars, chunkVars, lost>>,
         buf' \in Seq(Units), net' \in Seq(Units), Stream' = Stream, FrontInv'
  PROVE  Reading'
<1>1. /\ sent' = sent
      /\ \A p, i, k : Flight(p, i, k)' <=> Flight(p, i, k)
      /\ \A x, i, k : Waits(x, i, k)' <=> Waits(x, i, k)
  BY RoadStays
<1>2. \A i, k : OnRoad(i, k)' <=> OnRoad(i, k)
  BY StayOrder
<1>3. \A i : Done(i)' <=> Done(i)
  BY Zenon DEF Done, chunkVars
<1>4. LongInv'
  <2>1. \A p, i, k : Flight(p, i, k)' => p \in Nat /\ Flight(p + 0, i, k)
    <3>1. \A p \in Nat : p + 0 = p
      OBVIOUS
    <3> QED BY <3>1, <1>1, RoadTypes
  <2>2. LongInv /\ inChunk' = inChunk
    BY DEF Reading, chunkVars
  <2>3. \A z \in 1..Len(sent) :
          Done(z)' /\ sent[z].type = "size" => inChunk' = OutChunk
    BY <2>2, <1>3 DEF LongInv
  <2> QED BY <2>1, <2>2, <2>3, <1>1, StayLong
<1>5. ReceiverInv'
  <2> SUFFICES ASSUME NEW d \in ChunkStreams
               PROVE  \E j \in 0..Len(sent) : \E i \in 0..Len(sent) : \E n \in Nat :
                        At(d, j, i, n)'
    BY <1>1, Zenon DEF ReceiverInv, ChunkStreams
  <2>1. PICK j \in 0..Len(sent), i \in 0..Len(sent), n \in Nat : At(d, j, i, n)
    BY DEF Reading, ReceiverInv
  <2>2. At(d, j, i, n)'
    BY <2>1, <1>1, <1>2, <1>3, StillAt DEF chunkVars
  <2> QED BY <2>1, <2>2
<1>6. DeliveredInv' /\ ~lost'
  BY <1>1 DEF DeliveredInv, Reading, chunkVars
<1> QED BY <1>4, <1>5, <1>6, Zenon DEF Reading

-----------------------------------------------------------------------------
(* The receiver keeps track: the steps of ParseMessage                       *)

LEMMA StopReading ==
  ASSUME TypeOK, RoadInv, OrderInv, Reading, ~Repeats, ParseStop
  PROVE  Reading'
<1>1. /\ ~HeaderThere /\ parsing' = FALSE
      /\ UNCHANGED <<senderVars, net, buf, chunkVars, lost>>
  BY DEF ParseStop, Return
<1>2. /\ buf' \in Seq(Units) /\ net' \in Seq(Units) /\ Stream' = Stream
      /\ buf \in Seq(Units) /\ net \in Seq(Units)
  BY <1>1 DEF RoadInv, StreamInv, Stream
<1>3. /\ sent' = sent
      /\ \A p, i, k : Flight(p, i, k)' <=> Flight(p, i, k)
  BY <1>1, <1>2, RoadStays
<1>4. Sound(sent)
  BY SentIsSound
<1>5. FrontInv'
  <2>1. FrontInv /\ Identified(Stream, sent)
    BY DEF Reading, RoadInv, StreamInv
  <2>2. ASSUME Stream # <<>>
        PROVE  \E g \in 1..Len(sent) : \E h \in 1..Count(sent[g]) :
                 Flight(1, g, h) /\ Len(buf) < Len(Pieces(sent, g)[h])
    <3>1. ASSUME NEW g \in 1..Len(sent), NEW h \in 1..Count(sent[g])
          PROVE  /\ Len(Pieces(sent, g)[h]) \in Nat
                 /\ Len(Pieces(sent, g)[h]) >= 5 - ChunkFormat(sent, g, h)
                 /\ Len(Pieces(sent, g)[h]) >= 2
                 /\ ChunkFormat(sent, g, h) \in 0..3
      <4> DEFINE l == Lead(sent, g, h)
                 f == ChunkFormat(sent, g, h)
                 v == Len(Pieces(sent, g)[h])
      <4>1. v = l + Load(sent, g, h) /\ l \in Nat /\ l >= 1 /\ f \in 0..3
        BY <1>4, Shape DEF Sound
      <4>2. Load(sent, g, h) \in Nat /\ Load(sent, g, h) >= 1
        BY <1>4, LoadIs DEF Sound
      <4>3. l >= 4 - f
        BY <4>1 DEF Lead
      <4> HIDE DEF l, f, v
      <4>4. v \in Nat /\ v >= 5 - f /\ v >= 2
        BY <4>1, <4>2, <4>3
      <4> QED BY <4>1, <4>4 DEF v, f
    <3>2. CASE buf = <<>>
      <4>1. 1 \in Starts(Stream)
        BY <2>1, <2>2 DEF FrontInv
      <4>2. PICK g \in 1..Len(sent) : \E h \in 1..Count(sent[g]) :
                    PieceAt(Stream, sent, 1, g, h)
        BY <2>1, <4>1 DEF Identified
      <4>3. PICK h \in 1..Count(sent[g]) : PieceAt(Stream, sent, 1, g, h)
        BY <4>2
      <4>4. Flight(1, g, h)
        BY <4>3 DEF Flight
      <4>5. Len(buf) = 0
        BY <3>2
      <4> DEFINE v == Len(Pieces(sent, g)[h])
      <4>6. v \in Nat /\ v >= 2
        BY <3>1
      <4> HIDE DEF v
      <4>7. Len(buf) < v
        BY <4>5, <4>6
      <4> QED BY <4>4, <4>7 DEF v
    <3>3. CASE buf # <<>>
      <4>1. buf[1][1] = "basic"
        BY <3>3, FrontHere
      <4>2. /\ fmt \in 0..3 /\ Len(buf) \in Nat
            /\ ~(Len(buf) >= 2 /\ Len(buf) >= 4 - fmt)
            /\ \E g \in 1..Len(sent) : \E h \in 1..Count(sent[g]) : Seen(g, h)
        BY <3>3, <4>1, <1>1, FrontPiece
      <4>3. PICK g \in 1..Len(sent) : \E h \in 1..Count(sent[g]) : Seen(g, h)
        BY <4>2
      <4>4. PICK h \in 1..Count(sent[g]) : Seen(g, h)
        BY <4>3
      <4>5. Flight(1, g, h) /\ fmt = ChunkFormat(sent, g, h)
        BY <4>4 DEF Seen
      <4> DEFINE v == Len(Pieces(sent, g)[h])
      <4>6. v \in Nat /\ v >= 5 - fmt /\ v >= 2
        BY <3>1, <4>5
      <4> HIDE DEF v
      <4>7. Len(buf) < v
        BY <4>2, <4>6
      <4> QED BY <4>5, <4>7 DEF v
    <3> QED BY <3>2, <3>3
  <2> QED BY <2>1, <2>2, <1>1, <1>2, <1>3, Zenon DEF FrontInv
<1> QED BY <1>1, <1>2, <1>5, StayReading

LEMMA PartReading ==
  ASSUME TypeOK, RoadInv, OrderInv, Reading, ~Repeats, ParsePart
  PROVE  Reading'
<1>1. /\ parsing' = FALSE /\ buf # <<>> /\ HeaderThere
      /\ Len(buf) < BodyAt + ChunkLen
      /\ UNCHANGED <<senderVars, net, buf, inPrev, inChunk, delivered, lost>>
      /\ inDelta' = [inDelta EXCEPT ![csid] = Delta]
      /\ inExt' = [inExt EXCEPT ![csid] = ext]
      /\ packet' = [packet EXCEPT ![csid] =
                  [cap |-> Capacity, body |-> packet[csid].body, head |-> Header]]
  BY DEF ParsePart, ReadHeader, Return
<1>2. /\ buf' \in Seq(Units) /\ net' \in Seq(Units) /\ Stream' = Stream
  BY <1>1 DEF RoadInv, StreamInv, Stream
<1>3. /\ sent' = sent
      /\ \A p, i, k : Flight(p, i, k)' <=> Flight(p, i, k)
      /\ \A x, i, k : Waits(x, i, k)' <=> Waits(x, i, k)
  BY <1>1, <1>2, RoadStays
<1>4. \A i, k : OnRoad(i, k)' <=> OnRoad(i, k)
  BY <1>1, <1>2, StayOrder
<1>5. \A i : Done(i)' <=> Done(i)
  BY <1>1, Zenon DEF Done
<1>a. PICK g \in 1..Len(sent) : \E h \in 1..Count(sent[g]) :
        \E j \in 0..Len(sent) : \E i \in 0..Len(sent) : \E n \in Nat :
          Here(g, h, j, i, n)
  BY <1>1, FrontHere
<1>b. PICK h \in 1..Count(sent[g]) :
        \E j \in 0..Len(sent) : \E i \in 0..Len(sent) : \E n \in Nat :
          Here(g, h, j, i, n)
  BY <1>a
<1>6. PICK j \in 0..Len(sent), i \in 0..Len(sent), n \in Nat : Here(g, h, j, i, n)
  BY <1>b
<1>7. /\ g \in 1..Len(sent) /\ h \in 1..Count(sent[g]) /\ h = n + 1
      /\ At(csid, j, i, n) /\ Links(sent, j, g) /\ (i = 0 \/ i = g)
      /\ Flight(1, g, h)
  BY <1>6 DEF Here, Seen
<1>8. /\ g # 0 /\ csid = sent[g].cs /\ csid \in ChunkStreams
      /\ First(g, h, j) \/ FirstAgain(g, h, j) \/ Further(g, h)
      /\ packet[csid].body = Part(g, n)
  BY <1>6, HereIs
<1>9. Capacity = sent[g].len
  BY <1>1, <1>6, LengthRight
<1>10. Holds(sent, Header, g) /\ AsOf(sent, ext, Delta, g)
  BY <1>1, <1>6, HeaderRight
<1>11. BodyAt + ChunkLen = Len(Pieces(sent, g)[h])
  <2>1. buf[1][1] = "basic"
    BY <1>1, FrontHere
  <2> QED BY <2>1, <1>1, <1>6, PieceRight
<1>12. FrontInv'
  <2>1. Stream' # <<>> => 1 \in Starts(Stream')
    BY <1>2 DEF Reading, FrontInv
  <2>2. \E x \in 1..Len(sent) : \E y \in 1..Count(sent[x]) :
          Flight(1, x, y)' /\ Len(buf) < Len(Pieces(sent, x)[y])
    BY <1>1, <1>3, <1>7, <1>11
  <2> QED BY <2>1, <2>2, <1>1, <1>3, Zenon DEF FrontInv
<1>13. LongInv'
  <2>1. \A p, x, k : Flight(p, x, k)' => p \in Nat /\ Flight(p + 0, x, k)
    <3>1. \A p \in Nat : p + 0 = p
      OBVIOUS
    <3> QED BY <3>1, <1>3, RoadTypes
  <2>2. LongInv /\ inChunk' = inChunk
    BY <1>1 DEF Reading
  <2>3. \A z \in 1..Len(sent) :
          Done(z)' /\ sent[z].type = "size" => inChunk' = OutChunk
    BY <2>2, <1>5 DEF LongInv
  <2> QED BY <2>1, <2>2, <2>3, <1>3, StayLong
<1> DEFINE c == csid
           pk == [cap |-> Capacity, body |-> packet[c].body, head |-> Header]
<1>14. /\ packet'[c] = pk /\ inExt'[c] = ext /\ inDelta'[c] = Delta
       /\ inPrev'[c] = inPrev[c]
       /\ \A d \in ChunkStreams \ {c} : /\ packet'[d] = packet[d] /\ inExt'[d] = inExt[d]
                                        /\ inDelta'[d] = inDelta[d]
  <2>1. /\ packet \in [ChunkStreams -> Packets] /\ inExt \in [ChunkStreams -> BOOLEAN]
        /\ inDelta \in [ChunkStreams -> 0..(Digit * Digit - 1)]
    BY DEF TypeOK
  <2> HIDE DEF pk
  <2> QED BY <2>1, <1>1, <1>8 DEF pk
<1>15. Stage(sent, packet'[c], inPrev'[c], inExt'[c], inDelta'[c], j, g, n)
  <2>1. Holds(sent, inPrev[c], IF n = 0 THEN j ELSE g)
    <3>1. n = 0 <=> h = 1
      BY <1>7
    <3> QED BY <3>1, <1>8 DEF First, FirstAgain, Further
  <2>2. Stage(sent, pk, inPrev[c], ext, Delta, j, g, n)
    BY <2>1, <1>7, <1>8, <1>9, <1>10 DEF Stage
  <2> HIDE DEF pk
  <2> QED BY <2>2, <1>14
<1>16. PICK b : b = c
  OBVIOUS
<1> HIDE DEF c
<1>17. At(b, j, g, n)'
  <2>1. /\ LastDone(b, j)
        /\ \A x \in 1..Len(sent) : sent[x].cs = b =>
             \A y \in 1..Count(sent[x]) : OnRoad(x, y) <=> ~(x <= j \/ (x = i /\ y <= n))
    BY <1>7, <1>16 DEF At, Where, c
  <2>2. LastDone(b, j)'
    <3>1. /\ j # 0 => sent[j].cs = b
          /\ \A x \in 1..Len(sent) : sent[x].cs = b => (Done(x)' <=> x <= j)
      BY <2>1, <1>5 DEF LastDone
    <3> QED BY <3>1, <1>3, Zenon DEF LastDone
  <2>3. ASSUME NEW x \in 1..Len(sent), sent[x].cs = b, NEW y \in 1..Count(sent[x])
        PROVE  OnRoad(x, y)' <=> ~(x <= j \/ (x = g /\ y <= n))
    <3>1. OnRoad(x, y)' <=> ~(x <= j \/ (x = i /\ y <= n))
      BY <2>1, <2>3, <1>4
    <3>2. CASE i = g
      BY <3>1, <3>2
    <3>3. CASE i = 0
      <4>1. n = 0
        BY <1>7, <3>3 DEF At, Stage
      <4>2. y \in Nat /\ y >= 1 /\ x # 0
        <5>1. sent \in Seq(Catalogue)
          BY SentIsSound
        <5> QED BY <5>1, LoadIs
      <4> QED BY <3>1, <3>3, <4>1, <4>2
    <3> QED BY <3>2, <3>3, <1>7
  <2>4. Where(b, j, g, n)'
    BY <2>3, <1>3, Zenon DEF Where
  <2>5. (g # 0 => sent[g].cs = b)'
    BY <1>3, <1>8, <1>16 DEF c
  <2>6. Stage(sent, packet[b], inPrev[b], inExt[b], inDelta[b], j, g, n)'
    BY <1>3, <1>15, <1>16
  <2> QED BY <2>2, <2>4, <2>5, <2>6, Zenon DEF At
<1>18. ReceiverInv'
  <2> SUFFICES ASSUME NEW d \in ChunkStreams
               PROVE  \E x \in 0..Len(sent) : \E y \in 0..Len(sent) : \E z \in Nat :
                        At(d, x, y, z)'
    BY <1>3, Zenon DEF ReceiverInv, ChunkStreams
  <2>1. CASE d = c
    <3>1. g \in 0..Len(sent) /\ d = b
      BY <2>1, <1>7, <1>16
    <3> QED BY <3>1, <1>17
  <2>2. CASE d # c
    <3>1. PICK x \in 0..Len(sent), y \in 0..Len(sent), z \in Nat : At(d, x, y, z)
      BY DEF Reading, ReceiverInv
    <3>2. /\ packet'[d] = packet[d] /\ inExt'[d] = inExt[d]
          /\ inDelta'[d] = inDelta[d] /\ inPrev'[d] = inPrev[d]
      BY <2>2, <1>1, <1>14
    <3>3. At(d, x, y, z)'
      BY <3>1, <3>2, <1>3, <1>4, <1>5, StillAt
    <3> QED BY <3>1, <3>3
  <2> QED BY <2>1, <2>2
<1>19. DeliveredInv' /\ ~lost'
  BY <1>1, <1>3 DEF DeliveredInv, Reading
<1> QED BY <1>12, <1>13, <1>18, <1>19, Zenon DEF Reading

\* A chunk continues the body where the last one ended.
LEMMA BodyGrows ==
  ASSUME NEW g, NEW f \in Nat, NEW y \in Nat
  PROVE  [u \in 1..f |-> <<g, u>>] \o [u \in 1..y |-> <<g, f + u>>]
         = [u \in 1..(f + y) |-> <<g, u>>]
<1> DEFINE S == {<<g, u>> : u \in Nat}
           a == [u \in 1..f |-> <<g, u>>]
           b == [u \in 1..y |-> <<g, f + u>>]
           r == [u \in 1..(f + y) |-> <<g, u>>]
<1>1. a \in Seq(S) /\ Len(a) = f /\ b \in Seq(S) /\ Len(b) = y
      /\ r \in Seq(S) /\ Len(r) = f + y
  OBVIOUS
<1>2. /\ \A u \in 1..f : a[u] = <<g, u>>
      /\ \A u \in 1..y : b[u] = <<g, f + u>>
      /\ \A u \in 1..(f + y) : r[u] = <<g, u>>
  OBVIOUS
<1> HIDE DEF a, b, r, S
<1>3. /\ a \o b \in Seq(S) /\ Len(a \o b) = Len(a) + Len(b)
      /\ \A u \in 1..Len(a) : (a \o b)[u] = a[u]
      /\ \A u \in 1..Len(b) : (a \o b)[Len(a) + u] = b[u]
  <2>1. Halves(S, a, b)
    BY <1>1, TwoHalves
  <2> QED BY <2>1, Zenon DEF Halves
<1>4. PICK v : v = a \o b
  OBVIOUS
<1>5. ASSUME NEW u \in 1..(f + y) PROVE v[u] = r[u]
  <2>1. CASE u <= f
    <3>1. u \in 1..Len(a) /\ u \in 1..f
      BY <2>1, <1>1
    <3> QED BY <3>1, <1>2, <1>3, <1>4
  <2>2. CASE ~(u <= f)
    <3>1. u - f \in 1..y /\ f + (u - f) = u
      BY <2>2
    <3>2. v[f + (u - f)] = <<g, f + (u - f)>>
      BY <3>1, <1>1, <1>2, <1>3, <1>4
    <3> QED BY <3>1, <3>2, <1>2
  <2> QED BY <2>1, <2>2
<1>6. v = r
  <2>1. v \in Seq(S) /\ Len(v) = f + y
    BY <1>1, <1>3, <1>4
  <2>2. \A u \in 1..Len(v) : v[u] = r[u]
    BY <2>1, <1>5
  <2> QED BY <2>1, <2>2, <1>1, SeqEqual
<1> QED BY <1>4, <1>6 DEF a, b, r

\* The body after the chunk, and whether that is all of it.
LEMMA BodyRight ==
  ASSUME TypeOK, RoadInv, ~Repeats, HeaderThere, buf # <<>>, buf[1][1] = "basic",
         NEW g, NEW h, NEW j, NEW i, NEW n, Here(g, h, j, i, n),
         Len(buf) >= BodyAt + ChunkLen
  PROVE  LET b == packet[csid].body \o [u \in 1..ChunkLen |-> buf[BodyAt + u][2]]
         IN  /\ Len(b) = Capacity <=> h = Count(sent[g])
             /\ h = Count(sent[g]) => b = [u \in 1..sent[g].len |-> <<g, u>>]
             /\ h # Count(sent[g]) => b = Part(g, h) /\ h + 1 \in 1..Count(sent[g])
<1> DEFINE f == (h - 1) * OutChunk
           y == Load(sent, g, h)
           a == [u \in 1..ChunkLen |-> buf[BodyAt + u][2]]
           b == packet[csid].body \o a
<1>1. /\ g \in 1..Len(sent) /\ h \in 1..Count(sent[g]) /\ sent \in Seq(Catalogue)
      /\ n \in Nat /\ h - 1 = n
  BY SentIsSound DEF Here
<1>2. packet[csid].body = Part(g, n)
  BY HereIs
<1>3. Capacity = sent[g].len /\ ChunkLen = y
  BY LengthRight
<1>4. /\ BodyAt \in Nat /\ ChunkLen \in Nat
      /\ \A u \in 1..ChunkLen : BodyAt + u <= Len(buf) =>
              buf[BodyAt + u][2] = <<g, f + u>>
  BY PieceRight
<1>5. Len(buf) \in Nat
  BY FrontPiece
<1>6. /\ h \in Nat /\ f \in Nat /\ y \in Nat /\ y >= 1 /\ f + y <= sent[g].len
      /\ h = Count(sent[g]) => f + y = sent[g].len
      /\ h # Count(sent[g]) => /\ h + 1 \in 1..Count(sent[g])
                               /\ y = OutChunk
                               /\ f + OutChunk < sent[g].len
  BY <1>1, LoadIs
<1>7. f = n * OutChunk /\ h * OutChunk = f + OutChunk
  <2>1. OutChunk \in Nat /\ OutChunk >= 1 /\ h \in Nat \ {0}
    BY <1>1, <1>6, SizesAre
  <2> QED BY <2>1, <1>1, Multiples
<1>8. sent[g].len \in Nat
  BY <1>1, MessageIs
<1> HIDE DEF f, y
<1>9. a = [u \in 1..y |-> <<g, f + u>>]
  <2>1. \A u \in 1..y : BodyAt + u <= Len(buf)
    BY <1>3, <1>4, <1>5, <1>6
  <2>2. \A u \in 1..y : buf[BodyAt + u][2] = <<g, f + u>>
    BY <2>1, <1>3, <1>4
  <2> QED BY <2>2, <1>3
<1>10. b = [u \in 1..(f + y) |-> <<g, u>>]
  <2>1. packet[csid].body = [u \in 1..f |-> <<g, u>>]
    BY <1>2, <1>7 DEF Part
  <2>2. [u \in 1..f |-> <<g, u>>] \o [u \in 1..y |-> <<g, f + u>>]
         = [u \in 1..(f + y) |-> <<g, u>>]
    BY <1>6, BodyGrows
  <2> HIDE DEF a
  <2> QED BY <2>1, <2>2, <1>9
<1> HIDE DEF a, b
<1>11. Len(b) = f + y
  <2>1. f + y \in Nat
    BY <1>6
  <2> QED BY <2>1, <1>10
<1>12. Len(b) = Capacity <=> h = Count(sent[g])
  <2>1. h # Count(sent[g]) => OutChunk \in Nat /\ f + y < sent[g].len
    BY <1>6
  <2>2. f + y < sent[g].len => f + y # sent[g].len
    BY <1>6, <1>8
  <2> QED BY <2>1, <2>2, <1>3, <1>6, <1>11
<1>13. h = Count(sent[g]) => b = [u \in 1..sent[g].len |-> <<g, u>>]
  BY <1>6, <1>10
<1>14. h # Count(sent[g]) => b = Part(g, h) /\ h + 1 \in 1..Count(sent[g])
  BY <1>6, <1>7, <1>10 DEF Part
<1> QED BY <1>12, <1>13, <1>14 DEF b, a

\* D is right, and r, which is message i of s, has come after it.
Follows(s, D, r, i) ==
  LET F == Append(D, r) IN
  /\ F \in Seq(Messages)
  /\ \A k \in 1..Len(F) : Right(s, F, k)
  /\ \A x : (\E e \in 1..Len(F) : Number(F[e]) = x)
           <=> (\E e \in 1..Len(D) : Number(D[e]) = x) \/ x = i

\* One more message, after what comes before it on its chunk stream.
LEMMA RightAfter ==
  ASSUME NEW s, NEW D \in Seq(Messages), NEW r \in Messages,
         \A k \in 1..Len(D) : Right(s, D, k),
         NEW i \in 1..Len(s), Number(r) = i, r.cs = s[i].cs, r.type = s[i].type,
         r.sid = s[i].sid, r.body = [u \in 1..s[i].len |-> <<i, u>>],
         ~Late(s) => r.ts = s[i].ts,
         \A h \in 1..(i - 1) : s[h].cs = r.cs =>
           \E e \in 1..Len(D) : Number(D[e]) = h,
         \A e \in 1..Len(D) : Number(D[e]) # i
  PROVE  Follows(s, D, r, i)
<1> DEFINE F == Append(D, r)
           n == Len(D)
<1>1. /\ F \in Seq(Messages) /\ Len(F) = n + 1 /\ F[n + 1] = r
      /\ \A e \in 1..n : F[e] = D[e]
  BY AppendProperties
<1>2. n \in Nat
  OBVIOUS
<1> HIDE DEF F, n
<1>3. \A e \in 1..(n + 1) : e = n + 1 \/ e \in 1..n
  BY <1>2
<1>4. 1..n \subseteq 1..(n + 1) /\ n + 1 \in 1..(n + 1) /\ n + 1 - 1 = n
  BY <1>2
<1>5. ASSUME NEW k \in 1..n PROVE Right(s, F, k)
  <2>1. \A e \in 1..(k - 1) : e \in 1..n
    BY <1>2
  <2>2. \A e \in 1..(k - 1) : F[e] = D[e]
    BY <2>1, <1>1
  <2>3. F[k] = D[k] /\ Right(s, D, k)
    BY <1>1 DEF n
  <2> QED BY <2>2, <2>3 DEF Right
<1>6. Right(s, F, n + 1)
  <2>1. \A e \in 1..n : Number(F[e]) = Number(D[e])
    BY <1>1
  <2> DEFINE k == n + 1
  <2>2. /\ \A h \in 1..(i - 1) : s[h].cs = r.cs =>
             \E e \in 1..(k - 1) : Number(F[e]) = h
        /\ \A e \in 1..(k - 1) : Number(F[e]) # i
    BY <2>1, <1>4 DEF n
  <2>3. F[k] = r
    BY <1>1
  <2> HIDE DEF k
  <2>4. Right(s, F, k)
    BY <2>2, <2>3, Zenon DEF Right
  <2> QED BY <2>4 DEF k
<1>7. \A k \in 1..Len(F) : Right(s, F, k)
  BY <1>1, <1>3, <1>5, <1>6
<1>8. ASSUME NEW x
      PROVE  (\E e \in 1..Len(F) : Number(F[e]) = x)
                  <=> (\E e \in 1..Len(D) : Number(D[e]) = x) \/ x = i
  BY <1>1, <1>3, <1>4 DEF n
<1> QED BY <1>1, <1>7, <1>8 DEF F, Follows

LEMMA ChunkReading ==
  ASSUME TypeOK, RoadInv, OrderInv, Reading, ~Repeats, ParseChunk
  PROVE  Reading'
<1> DEFINE c == csid
           z == BodyAt + ChunkLen
           body == packet[c].body \o [u \in 1..ChunkLen |-> buf[BodyAt + u][2]]
           pk == [cap |-> Capacity, body |-> body, head |-> Header]
           rec == [cs |-> c, type |-> Header.type, sid |-> Header.sid,
                   ts |-> Header.ts, body |-> body]
<1>1. /\ parsing /\ buf # <<>> /\ ~Misread /\ HeaderThere /\ Len(buf) >= BodyAt + ChunkLen
      /\ inDelta' = [inDelta EXCEPT ![c] = Delta]
      /\ inExt' = [inExt EXCEPT ![c] = ext]
      /\ inPrev' = [inPrev EXCEPT ![c] = Header]
      /\ buf' = SubSeq(buf, z + 1, Len(buf))
      /\ UNCHANGED <<senderVars, net, parsing, lost>>
      /\ IF Len(body) = Capacity
         THEN Complete(body)
         ELSE /\ packet' = [packet EXCEPT ![c] = pk]
              /\ UNCHANGED <<delivered, inChunk>>
  BY DEF ParseChunk, ReadHeader
<1>2. buf[1][1] = "basic"
  BY <1>1, FrontHere
<1>a. PICK g \in 1..Len(sent) : \E h \in 1..Count(sent[g]) :
        \E j \in 0..Len(sent) : \E i \in 0..Len(sent) : \E n \in Nat :
          Here(g, h, j, i, n)
  BY <1>1, FrontHere
<1>b. PICK h \in 1..Count(sent[g]) :
        \E j \in 0..Len(sent) : \E i \in 0..Len(sent) : \E n \in Nat :
          Here(g, h, j, i, n)
  BY <1>a
<1>3. PICK j \in 0..Len(sent), i \in 0..Len(sent), n \in Nat : Here(g, h, j, i, n)
  BY <1>b
<1>4. /\ g \in 1..Len(sent) /\ h \in 1..Count(sent[g]) /\ h = n + 1
      /\ At(csid, j, i, n) /\ Links(sent, j, g) /\ (i = 0 \/ i = g)
      /\ Flight(1, g, h)
  BY <1>3 DEF Here, Seen
<1>5. /\ g # 0 /\ csid = sent[g].cs /\ csid \in ChunkStreams /\ j \in 0..(g - 1)
  BY <1>3, HereIs
<1>6. Capacity = sent[g].len
  BY <1>1, <1>3, LengthRight
<1>7. Holds(sent, Header, g) /\ AsOf(sent, ext, Delta, g)
  BY <1>1, <1>3, HeaderRight
<1>8. z = Len(Pieces(sent, g)[h]) /\ z \in Nat
  <2>1. /\ BodyAt + ChunkLen = Len(Pieces(sent, g)[h])
        /\ BodyAt \in Nat /\ ChunkLen \in Nat
    BY <1>1, <1>2, <1>3, PieceRight
  <2> QED BY <2>1
<1>9. /\ Len(body) = Capacity <=> h = Count(sent[g])
      /\ h = Count(sent[g]) => body = [u \in 1..sent[g].len |-> <<g, u>>]
      /\ h # Count(sent[g]) => body = Part(g, h) /\ h + 1 \in 1..Count(sent[g])
  BY <1>1, <1>2, <1>3, BodyRight
<1>10. body \in Seq(BodyBytes) /\ Header \in Headers
  BY <1>1, TypedChunk
<1>11. /\ sent \in Seq(Catalogue) /\ Len(sent) \in Nat /\ buf \in Seq(Units)
       /\ sent[g].len \in Nat /\ sent[g].len >= 1
       /\ h \in Nat /\ h >= 1 /\ Count(sent[g]) \in Nat /\ Count(sent[g]) >= 1
  <2>1. sent \in Seq(Catalogue) /\ Len(sent) \in Nat /\ buf \in Seq(Units)
    BY SentIsSound DEF RoadInv, StreamInv
  <2>2. sent[g].len \in Nat /\ sent[g].len >= 1 /\ sent[g] \in Catalogue
    BY <2>1, MessageIs
  <2>3. h \in Nat /\ h >= 1 /\ Count(sent[g]) \in Nat /\ Count(sent[g]) >= 1
    BY <2>1, <2>2, LoadIs, CountIs
  <2> QED BY <2>1, <2>2, <2>3
<1> HIDE DEF body
<1>12. packet \in [ChunkStreams -> Packets] /\ inExt \in [ChunkStreams -> BOOLEAN]
       /\ inDelta \in [ChunkStreams -> 0..(Digit * Digit - 1)]
       /\ inPrev \in [ChunkStreams -> Headers]
  BY DEF TypeOK
<1> HIDE DEF z, pk, c
<1>13. z \in 0..Len(buf)
  <2>1. Len(buf) \in Nat
    BY <1>11
  <2> QED BY <2>1, <1>1, <1>8 DEF z
<1>14. /\ sent' = sent
       /\ Len(Stream') = Len(Stream) - z
       /\ \A p, x, k : Flight(p, x, k)' <=> p \in Nat \ {0} /\ Flight(p + z, x, k)
       /\ \A p, x, k : Waits(p, x, k)' <=> Waits(p, x, k)
  BY <1>1, <1>13, RoadShrinks
<1>15. /\ \A x, y : OnRoad(x, y)' <=> OnRoad(x, y) /\ ~(x = g /\ y = h)
       /\ Stream' # <<>> => 1 \in Starts(Stream')
  BY <1>1, <1>4, <1>8, <1>13, ShrinkOrder
<1>16. PICK b : b = c
  OBVIOUS
<1>17. /\ b \in ChunkStreams /\ sent[g].cs = b
       /\ inPrev'[b] = Header /\ inExt'[b] = ext /\ inDelta'[b] = Delta
       /\ \A d \in ChunkStreams \ {b} :
            /\ inPrev'[d] = inPrev[d] /\ inExt'[d] = inExt[d] /\ inDelta'[d] = inDelta[d]
  BY <1>1, <1>5, <1>12, <1>16 DEF c
<1>18. /\ LastDone(b, j)
       /\ \A x \in 1..Len(sent) : sent[x].cs = b =>
            \A y \in 1..Count(sent[x]) : OnRoad(x, y) <=> ~(x <= j \/ (x = i /\ y <= n))
       /\ i = 0 => n = 0
  BY <1>4, <1>16 DEF At, Where, Stage, c
<1>19. /\ j # 0 => sent[j].cs = b
       /\ \A x \in 1..Len(sent) : sent[x].cs = b => (Done(x) <=> x <= j)
  BY <1>18 DEF LastDone
\* Nothing of the chunk stream lies between j and g.
<1>20. ASSUME NEW x \in 1..Len(sent), sent[x].cs = b PROVE x <= j \/ x >= g
  <2>1. ~(x \in (j + 1)..(g - 1))
    BY <1>4, <1>17, <1>20 DEF Links
  <2> QED BY <2>1, <1>4, <1>5, <1>11
\* The chunks before this one have been taken, and now it has, too.
<1>21. ASSUME NEW x \in 1..Len(sent), sent[x].cs = b, NEW y \in 1..Count(sent[x])
       PROVE  OnRoad(x, y)' <=> ~(x <= j \/ (x = g /\ y <= h))
  <2>1. y \in Nat /\ y >= 1 /\ x # 0
    BY <1>11, LoadIs
  <2>2. OnRoad(x, y)' <=> ~(x <= j \/ (x = i /\ y <= n)) /\ ~(x = g /\ y = h)
    BY <1>15, <1>18, <1>21
  <2>3. x = i /\ y <= n <=> x = g /\ y <= n
    BY <2>1, <1>4, <1>18
  <2>4. y <= n \/ y = h <=> y <= h
    BY <2>1, <1>4, <1>11
  <2> QED BY <2>2, <2>3, <2>4
<1>22. FrontInv'
  <2>1. Stream' # <<>> => 1 \in Starts(Stream')
    BY <1>15
  <2>2. parsing' = TRUE
    <3>1. parsing \in BOOLEAN
      BY DEF TypeOK
    <3> QED BY <3>1, <1>1
  <2> QED BY <2>1, <2>2, Zenon DEF FrontInv
<1>23. ASSUME NEW d \in ChunkStreams, d # b,
              packet'[d] = packet[d],
              \A x : Done(x)' <=> Done(x) \/ (x = g /\ h = Count(sent[g]))
       PROVE  \E x \in 0..Len(sent) : \E y \in 0..Len(sent) : \E k \in Nat :
                        At(d, x, y, k)'
  <2>1. PICK x \in 0..Len(sent), y \in 0..Len(sent), k \in Nat : At(d, x, y, k)
    BY DEF Reading, ReceiverInv
  <2>2. \A e \in 1..Len(sent) : sent[e].cs = d =>
           /\ Done(e)' <=> Done(e)
           /\ \A p : OnRoad(e, p)' <=> OnRoad(e, p)
    BY <1>15, <1>17, <1>23
  <2>3. inPrev'[d] = inPrev[d] /\ inExt'[d] = inExt[d] /\ inDelta'[d] = inDelta[d]
    BY <1>17, <1>23
  <2>4. At(d, x, y, k)'
    BY <2>1, <2>2, <2>3, <1>14, <1>23, StillAt
  <2> QED BY <2>1, <2>4
<1>24. ASSUME \A x \in 1..Len(sent) :
                Done(x)' /\ sent[x].type = "size" => inChunk' = OutChunk
       PROVE  LongInv'
  <2>1. \A p, x, k : Flight(p, x, k)' => p \in Nat /\ Flight(p + z, x, k)
    BY <1>14
  <2>2. LongInv /\ z \in Nat
    BY <1>8 DEF Reading
  <2>3. \A p, x, k : Waits(p, x, k)' => Waits(p, x, k)
    BY <1>14
  <2> QED BY <2>1, <2>2, <2>3, <1>14, <1>24, StayLong
<1>25. CASE h # Count(sent[g])
  <2>1. packet' = [packet EXCEPT ![c] = pk] /\ delivered' = delivered
        /\ inChunk' = inChunk
    BY <1>1, <1>9, <1>25
  <2>2. /\ packet'[b] = pk
        /\ \A d \in ChunkStreams \ {b} : packet'[d] = packet[d]
    BY <2>1, <1>12, <1>16, <1>17
  <2>3. \A x : Done(x)' <=> Done(x)
    BY <2>1, Zenon DEF Done
  <2>4. LongInv'
    <3>1. LongInv
      BY DEF Reading
    <3>2. \A x \in 1..Len(sent) :
                Done(x)' /\ sent[x].type = "size" => inChunk' = OutChunk
      BY <3>1, <2>1, <2>3 DEF LongInv
    <3> QED BY <3>2, <1>24
  <2>5. Stage(sent, packet'[b], inPrev'[b], inExt'[b], inDelta'[b], j, g, h)
    <3>1. /\ pk.cap = sent[g].len /\ pk.body = Part(g, h) /\ pk.head = Header
          /\ h + 1 \in 1..Count(sent[g]) /\ h # 0
      BY <1>6, <1>9, <1>11, <1>25 DEF pk
    <3> QED BY <3>1, <2>2, <1>4, <1>5, <1>7, <1>17 DEF Stage
  <2>6. LastDone(b, j)'
    BY <2>3, <1>14, <1>19, Zenon DEF LastDone
  <2>7. Where(b, j, g, h)'
    BY <1>14, <1>21, Zenon DEF Where
  <2>8. (g # 0 => sent[g].cs = b)'
    BY <1>14, <1>17
  <2>9. Stage(sent, packet[b], inPrev[b], inExt[b], inDelta[b], j, g, h)'
    BY <2>5, <1>14
  <2>10. At(b, j, g, h)'
    BY <2>6, <2>7, <2>8, <2>9, Zenon DEF At
  <2>11. ReceiverInv'
    <3> SUFFICES ASSUME NEW d \in ChunkStreams
                 PROVE  \E x \in 0..Len(sent) : \E y \in 0..Len(sent) : \E k \in Nat :
                          At(d, x, y, k)'
      BY <1>14, Zenon DEF ReceiverInv, ChunkStreams
    <3>1. CASE d = b
      <4>1. g \in 0..Len(sent) /\ h \in Nat
        BY <1>4, <1>11
      <4> QED BY <3>1, <4>1, <2>10
    <3>2. CASE d # b
      BY <3>2, <2>2, <2>3, <1>23, <1>25
    <3> QED BY <3>1, <3>2
  <2>12. DeliveredInv' /\ ~lost'
    BY <2>1, <1>1, <1>14 DEF DeliveredInv, Reading
  <2> QED BY <2>4, <2>11, <2>12, <1>22, Zenon DEF Reading
<1>26. CASE h = Count(sent[g])
  <2>1. /\ delivered' = Append(delivered, rec)
        /\ packet' = [packet EXCEPT ![c] = NoPacket]
        /\ inChunk' = IF Header.type = "size" THEN OutChunk ELSE inChunk
    BY <1>1, <1>9, <1>26 DEF Complete, c
  <2>2. /\ packet'[b] = NoPacket
        /\ \A d \in ChunkStreams \ {b} : packet'[d] = packet[d]
    BY <2>1, <1>12, <1>16, <1>17
  <2>3. body = [u \in 1..sent[g].len |-> <<g, u>>]
    BY <1>9, <1>26
  <2>4. /\ rec.cs = b /\ rec.type = sent[g].type /\ rec.sid = sent[g].sid
        /\ rec.body = body /\ (~Late(sent) => rec.ts = sent[g].ts)
        /\ Header.type = sent[g].type
    BY <1>5, <1>7, <1>16 DEF Holds, HeadOf
  <2>5. Number(rec) = g
    <3>1. body[1] = <<g, 1>>
      BY <2>3, <1>11
    <3> QED BY <3>1, <2>4 DEF Number
  <2>6. rec \in Messages
    <3>1. c \in ChunkStreams
      BY <1>16, <1>17
    <3> QED BY <3>1, <1>10 DEF Messages, Headers
  <2>7. /\ delivered \in Seq(Messages)
        /\ \A k \in 1..Len(delivered) : Right(sent, delivered, k)
    BY DEF Reading, DeliveredInv
  <2>8. \A x \in 1..(g - 1) : sent[x].cs = rec.cs =>
          \E e \in 1..Len(delivered) : Number(delivered[e]) = x
    <3> SUFFICES ASSUME NEW x \in 1..(g - 1), sent[x].cs = rec.cs
                 PROVE  \E e \in 1..Len(delivered) : Number(delivered[e]) = x
      OBVIOUS
    <3>1. x \in 1..Len(sent) /\ x < g /\ x \in Nat
      BY <1>4, <1>11
    <3>2. sent[x].cs = b
      BY <2>4
    <3>3. x <= j
      <4>1. x <= j \/ x >= g
        BY <3>1, <3>2, <1>20
      <4> QED BY <4>1, <3>1, <1>4
    <3> QED BY <3>1, <3>2, <3>3, <1>19 DEF Done
  <2>9. \A e \in 1..Len(delivered) : Number(delivered[e]) # g
    <3>1. ~(g <= j)
      BY <1>4, <1>5
    <3>2. ~Done(g)
      BY <3>1, <1>4, <1>17, <1>19
    <3> QED BY <3>2 DEF Done
  <2>a. rec.cs = sent[g].cs /\ rec.body = [u \in 1..sent[g].len |-> <<g, u>>]
    BY <2>3, <2>4, <1>17
  <2> HIDE DEF rec
  <2>b. Follows(sent, delivered, rec, g)
    BY <2>a, <2>4, <2>5, <2>6, <2>7, <2>8, <2>9, <1>4, RightAfter
  <2>10. LET F == Append(delivered, rec) IN
         /\ F \in Seq(Messages)
         /\ \A k \in 1..Len(F) : Right(sent, F, k)
         /\ \A x : (\E e \in 1..Len(F) : Number(F[e]) = x)
                  <=> (\E e \in 1..Len(delivered) : Number(delivered[e]) = x) \/ x = g
    BY <2>b, Zenon DEF Follows
  <2>11. DeliveredInv' /\ ~lost'
    BY <2>1, <2>10, <1>1, <1>14 DEF DeliveredInv, Reading
  <2>12. \A x : Done(x)' <=> Done(x) \/ x = g
    BY <2>1, <2>10, Zenon DEF Done
  <2>13. LongInv'
    <3>1. LongInv
      BY DEF Reading
    <3>2. \A x \in 1..Len(sent) :
                Done(x)' /\ sent[x].type = "size" => inChunk' = OutChunk
      <4> SUFFICES ASSUME NEW x \in 1..Len(sent), Done(x)', sent[x].type = "size"
                   PROVE  inChunk' = OutChunk
        OBVIOUS
      <4>1. CASE x = g
        BY <4>1, <2>1, <2>4
      <4>2. CASE Done(x)
        BY <3>1, <4>2, <2>1 DEF LongInv
      <4> QED BY <4>1, <4>2, <2>12
    <3> QED BY <3>2, <1>24
  <2>14. Stage(sent, packet'[b], inPrev'[b], inExt'[b], inDelta'[b], g, 0, 0)
    BY <2>2, <1>7, <1>17 DEF Stage
  <2>15. LastDone(b, g)'
    <3>1. ASSUME NEW x \in 1..Len(sent), sent[x].cs = b
          PROVE  Done(x)' <=> x <= g
      <4>1. Done(x) <=> x <= j
        BY <3>1, <1>19
      <4>2. x <= j \/ x >= g
        BY <3>1, <1>20
      <4>3. x <= j \/ x = g <=> x <= g
        BY <4>2, <1>4, <1>5, <1>11
      <4> QED BY <4>1, <4>3, <2>12
    <3> QED BY <3>1, <1>14, <1>17, Zenon DEF LastDone
  <2>16. Where(b, g, 0, 0)'
    <3>1. ASSUME NEW x \in 1..Len(sent), sent[x].cs = b, NEW y \in 1..Count(sent[x])
          PROVE  OnRoad(x, y)' <=> ~(x <= g \/ (x = 0 /\ y <= 0))
      <4>1. OnRoad(x, y)' <=> ~(x <= j \/ (x = g /\ y <= h))
        BY <3>1, <1>21
      <4>2. x <= j \/ x >= g
        BY <3>1, <1>20
      <4>3. x = g => y <= h
        BY <1>26
      <4>4. (x <= j \/ (x = g /\ y <= h)) <=> x <= g
        BY <4>2, <4>3, <1>4, <1>5, <1>11
      <4>5. x # 0
        OBVIOUS
      <4> QED BY <4>1, <4>4, <4>5
    <3> QED BY <3>1, <1>14, Zenon DEF Where
  <2>17. Stage(sent, packet[b], inPrev[b], inExt[b], inDelta[b], g, 0, 0)'
    BY <2>14, <1>14
  <2>18. At(b, g, 0, 0)'
    BY <2>15, <2>16, <2>17, Zenon DEF At
  <2>19. ReceiverInv'
    <3> SUFFICES ASSUME NEW d \in ChunkStreams
                 PROVE  \E x \in 0..Len(sent) : \E y \in 0..Len(sent) : \E k \in Nat :
                          At(d, x, y, k)'
      BY <1>14, Zenon DEF ReceiverInv, ChunkStreams
    <3>1. CASE d = b
      <4>1. g \in 0..Len(sent) /\ 0 \in 0..Len(sent) /\ 0 \in Nat
        BY <1>4, <1>11
      <4> QED BY <3>1, <4>1, <2>18
    <3>2. CASE d # b
      BY <3>2, <2>2, <2>12, <1>23, <1>26
    <3> QED BY <3>1, <3>2
  <2> QED BY <2>11, <2>13, <2>19, <1>22, Zenon DEF Reading
<1> QED BY <1>25, <1>26

-----------------------------------------------------------------------------
(* Messages intact, and nothing left                                         *)

LEMMA InitReading ==
  ASSUME Init
  PROVE  OrderInv /\ Reading
<1>1. /\ sent = <<>> /\ delivered = <<>> /\ lost = FALSE /\ buf = <<>> /\ net = <<>>
      /\ packet = [c \in ChunkStreams |-> NoPacket]
      /\ inPrev = [c \in ChunkStreams |-> Blank]
      /\ inDelta = [c \in ChunkStreams |-> 0]
      /\ inExt = [c \in ChunkStreams |-> FALSE]
  BY DEF Init
<1>2. /\ Len(sent) = 0 /\ 1..Len(sent) = {} /\ 0 \in 0..Len(sent)
      /\ 1..Len(delivered) = {} /\ <<>> \o <<>> = <<>>
  BY <1>1
<1>3. (\A p, i, k : ~Flight(p, i, k)) /\ (\A x, i, k : ~Waits(x, i, k))
  BY <1>2 DEF Flight, PieceAt, Waits
<1>4. OrderInv
  BY <1>3 DEF OrderInv
<1>5. FrontInv
  BY <1>1, <1>2 DEF FrontInv, Stream
<1>6. LongInv
  BY <1>2 DEF LongInv
<1>7. ASSUME NEW c \in ChunkStreams PROVE At(c, 0, 0, 0)
  <2>1. LastDone(c, 0) /\ Where(c, 0, 0, 0)
    BY <1>2 DEF LastDone, Where
  <2>2. /\ packet[c] = NoPacket /\ inPrev[c] = Blank
        /\ inDelta[c] = 0 /\ inExt[c] = FALSE
    BY <1>1
  <2>3. Holds(sent, inPrev[c], 0) /\ AsOf(sent, inExt[c], inDelta[c], 0)
    BY <2>2 DEF Holds, AsOf, HeadOf, DeltaOf
  <2>4. Stage(sent, packet[c], inPrev[c], inExt[c], inDelta[c], 0, 0, 0)
    BY <2>2, <2>3 DEF Stage
  <2> QED BY <2>1, <2>4 DEF At
<1>8. ReceiverInv
  <2>1. 0 \in Nat
    OBVIOUS
  <2> QED BY <2>1, <1>2, <1>7 DEF ReceiverInv
<1>9. DeliveredInv
  <2>1. <<>> \in Seq(Messages)
    OBVIOUS
  <2> QED BY <2>1, <1>1, <1>2 DEF DeliveredInv
<1> QED BY <1>1, <1>4, <1>5, <1>6, <1>8, <1>9 DEF Reading

\* A read leaves the chunks where they are.
LEMMA ArriveReading ==
  ASSUME TypeOK, RoadInv, OrderInv, Arrive
  PROVE  OrderInv' /\ (Reading => Reading')
<1>1. /\ parsing' = TRUE /\ UNCHANGED <<senderVars, chunkVars, lost>>
  BY DEF Arrive
<1>2. buf' \in Seq(Units) /\ net' \in Seq(Units) /\ Stream' = Stream
  BY ArriveEffect
<1>3. OrderInv'
  BY <1>1, <1>2, StayOrder
<1>4. ASSUME Reading PROVE Reading'
  <2>1. Stream' # <<>> => 1 \in Starts(Stream')
    BY <1>2, <1>4 DEF Reading, FrontInv
  <2>2. FrontInv'
    BY <2>1, <1>1, Zenon DEF FrontInv
  <2> QED BY <2>2, <1>1, <1>2, <1>4, StayReading
<1> QED BY <1>3, <1>4

\* A step that changes neither the stream nor what the receiver knows.
LEMMA IdleReading ==
  ASSUME TypeOK, RoadInv, OrderInv, UNCHANGED <<senderVars, net, buf>>
  PROVE  /\ OrderInv'
         /\ Reading /\ UNCHANGED <<parsing, chunkVars, lost>> => Reading'
<1>1. buf' \in Seq(Units) /\ net' \in Seq(Units) /\ Stream' = Stream
  BY DEF RoadInv, StreamInv, Stream
<1>2. OrderInv'
  BY <1>1, StayOrder
<1>3. ASSUME Reading, UNCHANGED <<parsing, chunkVars, lost>> PROVE Reading'
  <2>1. /\ sent' = sent
        /\ \A p, i, k : Flight(p, i, k)' <=> Flight(p, i, k)
    BY <1>1, RoadStays
  <2>2. FrontInv
    BY <1>3 DEF Reading
  <2>3. ~parsing /\ Stream # <<>> =>
          \E g \in 1..Len(sent) : \E h \in 1..Count(sent[g]) :
            Flight(1, g, h)' /\ Len(buf) < Len(Pieces(sent, g)[h])
    BY <2>1, <2>2 DEF FrontInv
  <2>4. Stream # <<>> => 1 \in Starts(Stream)
    BY <2>2 DEF FrontInv
  <2>5. parsing' = parsing /\ buf' = buf
    BY <1>3
  <2>6. FrontInv'
    BY <2>1, <2>3, <2>4, <2>5, <1>1, Zenon DEF FrontInv
  <2> QED BY <2>6, <1>1, <1>3, StayReading
<1> QED BY <1>2, <1>3

\* The order is kept by a chunk that is taken, whatever it is taken for.
LEMMA ChunkOrder ==
  ASSUME TypeOK, RoadInv, OrderInv, ParseChunk
  PROVE  OrderInv'
<1> DEFINE n == BodyAt + ChunkLen
<1>1. /\ buf # <<>> /\ ~Misread /\ HeaderThere /\ Len(buf) >= n
      /\ buf' = SubSeq(buf, n + 1, Len(buf))
      /\ UNCHANGED <<senderVars, net>>
  BY DEF ParseChunk, ReadHeader
<1>2. n \in Nat /\ n \in 0..Len(buf)
  <2>1. BodyAt \in Nat /\ ChunkLen \in Nat /\ Len(buf) \in Nat
    BY <1>1, TypedChunk
  <2> QED BY <2>1, <1>1
<1> HIDE DEF n
<1> QED BY <1>1, <1>2, ShrinkStays

LEMMA NextChunk == ChunkInv /\ [Next]_vars => ChunkInv'
<1> SUFFICES ASSUME ChunkInv, [Next]_vars PROVE ChunkInv'
  OBVIOUS
<1>1. /\ BaseInv /\ TypeOK /\ RoadInv /\ OrderInv
      /\ ~Repeats => Reading
  BY DEF ChunkInv, BaseInv
<1>2. BaseInv'
  BY <1>1, NextBase
<1>3. sent' = sent => (Repeats' <=> Repeats)
  BY DEF Repeats
<1>4. ASSUME NEW m \in Catalogue, Build(m) PROVE OrderInv' /\ (~Repeats' => Reading')
  <2>1. OrderInv'
    BY <1>1, <1>4, BuildOrder
  <2>2. sent \in Seq(Catalogue) /\ sent' = Append(sent, m)
    BY <1>1, <1>4, SentIsSound DEF Build
  <2>3. ~Repeats' => ~Repeats
    BY <2>2, RepeatsLater
  <2>4. Reading => Reading'
    BY <1>1, <1>4, BuildReading
  <2> QED BY <2>1, <2>3, <2>4, <1>1
<1>5. ASSUME NEW c \in ChunkStreams, Put(c) PROVE OrderInv' /\ (~Repeats' => Reading')
  <2>1. OrderInv'
    BY <1>1, <1>5, PutOrder
  <2>2. sent' = sent
    BY <1>5 DEF Put
  <2>3. Reading => Reading'
    BY <1>1, <1>5, PutReading
  <2> QED BY <2>1, <2>2, <2>3, <1>1, <1>3
<1>6. CASE Arrive
  <2>1. OrderInv' /\ (Reading => Reading')
    BY <1>1, <1>6, ArriveReading
  <2>2. sent' = sent
    BY <1>6 DEF Arrive, senderVars
  <2>3. OrderInv' /\ (~Repeats' => Reading')
    BY <2>1, <2>2, <1>1, <1>3
  <2> QED BY <2>3, <1>2 DEF ChunkInv
<1>7. CASE ParseStop
  <2>1. UNCHANGED <<senderVars, net, buf>> /\ sent' = sent
    BY <1>7 DEF ParseStop, senderVars
  <2>2. OrderInv'
    BY <2>1, <1>1, IdleReading
  <2>3. Reading /\ ~Repeats => Reading'
    BY <1>1, <1>7, StopReading
  <2>4. OrderInv' /\ (~Repeats' => Reading')
    BY <2>1, <2>2, <2>3, <1>1, <1>3
  <2> QED BY <2>4, <1>2 DEF ChunkInv
<1>8. CASE ParsePart
  <2>1. UNCHANGED <<senderVars, net, buf>> /\ sent' = sent
    BY <1>8 DEF ParsePart, senderVars
  <2>2. OrderInv'
    BY <2>1, <1>1, IdleReading
  <2>3. Reading /\ ~Repeats => Reading'
    BY <1>1, <1>8, PartReading
  <2>4. OrderInv' /\ (~Repeats' => Reading')
    BY <2>1, <2>2, <2>3, <1>1, <1>3
  <2> QED BY <2>4, <1>2 DEF ChunkInv
<1>9. CASE ParseChunk
  <2>1. sent' = sent
    BY <1>9 DEF ParseChunk, senderVars
  <2>2. OrderInv'
    BY <1>1, <1>9, ChunkOrder
  <2>3. Reading /\ ~Repeats => Reading'
    BY <1>1, <1>9, ChunkReading
  <2>4. OrderInv' /\ (~Repeats' => Reading')
    BY <2>1, <2>2, <2>3, <1>1, <1>3
  <2> QED BY <2>4, <1>2 DEF ChunkInv
<1>10. CASE LoseTrack
  <2>1. UNCHANGED <<senderVars, net, buf>> /\ sent' = sent /\ buf # <<>> /\ Misread
    BY <1>10 DEF LoseTrack, senderVars
  <2>2. OrderInv'
    BY <2>1, <1>1, IdleReading
  <2>3. Repeats
    BY <2>1, <1>1, NoMisread
  <2>4. OrderInv' /\ (~Repeats' => Reading')
    BY <2>1, <2>2, <2>3, <1>3
  <2> QED BY <2>4, <1>2 DEF ChunkInv
<1>11. CASE UNCHANGED vars
  <2>1. /\ UNCHANGED <<senderVars, net, buf>> /\ sent' = sent
        /\ UNCHANGED <<parsing, chunkVars, lost>>
    BY <1>11 DEF vars, senderVars
  <2>2. OrderInv' /\ (Reading => Reading')
    BY <2>1, <1>1, IdleReading
  <2>3. OrderInv' /\ (~Repeats' => Reading')
    BY <2>1, <2>2, <1>1, <1>3
  <2> QED BY <2>3, <1>2 DEF ChunkInv
<1>12. ASSUME NEW m \in Catalogue, Build(m) PROVE ChunkInv'
  BY <1>2, <1>4, <1>12 DEF ChunkInv
<1>13. ASSUME NEW c \in ChunkStreams, Put(c) PROVE ChunkInv'
  BY <1>2, <1>5, <1>13 DEF ChunkInv
<1> QED
  BY <1>6, <1>7, <1>8, <1>9, <1>10, <1>11, <1>12, <1>13 DEF Next, Receiver

\* When everything has been taken, the last message of each chunk stream has been
\* delivered, and both ends have the same idea of it.
LEMMA AllTaken ==
  ASSUME TypeOK, RoadInv, Reading, AtRest
  PROVE  /\ buf = <<>>
         /\ \A c \in ChunkStreams : \E j \in 0..Len(sent) :
              /\ LastOn(sent, c, j) /\ LastDone(c, j)
              /\ \A g \in 1..Len(sent) : sent[g].cs = c => g <= j
              /\ Holds(sent, inPrev[c], j) /\ AsOf(sent, inExt[c], inDelta[c], j)
<1>1. /\ sent \in Seq(Catalogue) /\ Len(sent) \in Nat /\ Sound(sent)
      /\ buf \in Seq(Units)
  BY SentIsSound DEF RoadInv, StreamInv
<1>2. net = <<>> /\ ~parsing /\ \A c \in ChunkStreams : pending[c] = <<>>
  BY DEF AtRest
<1>3. Stream = buf
  <2>1. buf \o <<>> = buf
    BY <1>1
  <2> QED BY <2>1, <1>2 DEF Stream
<1>4. buf = <<>>
  <2> SUFFICES ASSUME buf # <<>> PROVE FALSE
    OBVIOUS
  <2>1. PICK g \in 1..Len(sent) : \E h \in 1..Count(sent[g]) :
             Flight(1, g, h) /\ Len(buf) < Len(Pieces(sent, g)[h])
    BY <1>2, <1>3 DEF Reading, FrontInv
  <2>2. PICK h \in 1..Count(sent[g]) :
             Flight(1, g, h) /\ Len(buf) < Len(Pieces(sent, g)[h])
    BY <2>1
  <2> DEFINE v == Len(Pieces(sent, g)[h])
  <2>3. v \in Nat /\ v >= 1
    <3>1. /\ v = Lead(sent, g, h) + Load(sent, g, h)
          /\ Lead(sent, g, h) \in Nat /\ Lead(sent, g, h) >= 1
      BY <1>1, Shape DEF Sound
    <3>2. Load(sent, g, h) \in Nat
      BY <1>1, LoadIs
    <3> QED BY <3>1, <3>2
  <2>4. \A u \in 1..v : 1 + u - 1 \in 1..Len(Stream)
    BY <2>2 DEF Flight, PieceAt
  <2>5. Len(buf) < v /\ Len(buf) \in Nat
    BY <2>2, <1>1
  <2> HIDE DEF v
  <2>6. v \in 1..v /\ 1 + v - 1 = v
    BY <2>3
  <2>7. v \in 1..Len(buf)
    BY <2>4, <2>6, <1>3
  <2> QED BY <2>5, <2>7
<1>5. \A i, k : ~OnRoad(i, k)
  <2>1. 1..Len(<<>>) = {}
    OBVIOUS
  <2>2. \A p, i, k : ~Flight(p, i, k)
    BY <2>1, <1>3, <1>4 DEF Flight, PieceAt, Starts
  <2>3. ASSUME NEW x, NEW i, NEW k, Waits(x, i, k) PROVE FALSE
    <3>1. i \in 1..Len(sent) /\ x \in 1..Len(pending[sent[i].cs])
      BY <2>3 DEF Waits
    <3>2. sent[i].cs \in ChunkStreams
      BY <3>1, <1>1, MessageIs
    <3> QED BY <3>1, <3>2, <2>1, <1>2
  <2> QED BY <2>2, <2>3 DEF OnRoad
<1>6. ASSUME NEW c \in ChunkStreams
      PROVE  \E j \in 0..Len(sent) :
              /\ LastOn(sent, c, j) /\ LastDone(c, j)
              /\ \A g \in 1..Len(sent) : sent[g].cs = c => g <= j
              /\ Holds(sent, inPrev[c], j) /\ AsOf(sent, inExt[c], inDelta[c], j)
  <2>1. PICK j \in 0..Len(sent) : \E i \in 0..Len(sent) : \E n \in Nat : At(c, j, i, n)
    BY DEF Reading, ReceiverInv
  <2>2. PICK i \in 0..Len(sent) : \E n \in Nat : At(c, j, i, n)
    BY <2>1
  <2>3. PICK n \in Nat : At(c, j, i, n)
    BY <2>2
  <2>4. /\ LastDone(c, j) /\ (i # 0 => sent[i].cs = c)
        /\ \A g \in 1..Len(sent) : sent[g].cs = c =>
             \A h \in 1..Count(sent[g]) : g <= j \/ (g = i /\ h <= n)
        /\ Stage(sent, packet[c], inPrev[c], inExt[c], inDelta[c], j, i, n)
    BY <2>3, <1>5 DEF At, Where
  <2>5. i = 0
    <3> SUFFICES ASSUME i # 0 PROVE FALSE
      OBVIOUS
    <3>1. i \in 1..Len(sent) /\ j \in 0..(i - 1) /\ n + 1 \in 1..Count(sent[i])
      BY <2>4 DEF Stage, Links
    <3>2. i <= j \/ n + 1 <= n
      BY <3>1, <2>4
    <3> QED BY <3>1, <3>2
  <2>6. Holds(sent, inPrev[c], j) /\ AsOf(sent, inExt[c], inDelta[c], j)
    BY <2>4, <2>5 DEF Stage
  <2>7. ASSUME NEW g \in 1..Len(sent), sent[g].cs = c PROVE g <= j
    <3>1. sent[g] \in Catalogue
      BY <1>1, MessageIs
    <3>2. 1 \in 1..Count(sent[g])
      BY <3>1, CountIs
    <3>3. g # i
      BY <2>5
    <3> QED BY <3>2, <3>3, <2>4, <2>7
  <2>8. LastOn(sent, c, j)
    <3>1. j # 0 => sent[j].cs = c
      BY <2>4 DEF LastDone
    <3>2. ASSUME NEW h \in (j + 1)..Len(sent) PROVE sent[h].cs # c
      <4>1. h \in 1..Len(sent) /\ ~(h <= j)
        BY <1>1
      <4> QED BY <4>1, <2>7
    <3> QED BY <3>1, <3>2 DEF LastOn
  <2> QED BY <2>4, <2>6, <2>7, <2>8
<1> QED BY <1>4, <1>6

\* Unless two messages repeat with an extended timestamp, each chunk stream's
\* messages are delivered once, in order and unchanged, wherever reads end, however
\* the chunks are mixed and however often a chunk is parsed again.
THEOREM MessagesIntact == Spec => []Intact
<1>1. ChunkInv => Intact
  <2> SUFFICES ASSUME ChunkInv, ~Repeats PROVE
         /\ ~lost
         /\ \A k \in DOMAIN delivered : LET d == delivered[k]  i == Number(d) IN
              /\ i \in DOMAIN sent /\ d.cs = sent[i].cs /\ SameButTime(d, i)
              /\ ~ExtendedTime => d.ts = sent[i].ts
              /\ \A h \in 1..(i - 1) : sent[h].cs = d.cs =>
                   \E e \in 1..(k - 1) : Number(delivered[e]) = h
              /\ \A e \in 1..(k - 1) : Number(delivered[e]) # i
    BY Zenon DEF Intact
  <2>1. /\ ~lost /\ delivered \in Seq(Messages) /\ sent \in Seq(Catalogue)
        /\ \A k \in 1..Len(delivered) : Right(sent, delivered, k)
    BY DEF ChunkInv, BaseInv, TypeOK, Reading, DeliveredInv
  <2>2. DOMAIN sent = 1..Len(sent) /\ DOMAIN delivered = 1..Len(delivered)
    BY <2>1
  <2>3. Late(sent) <=> ExtendedTime
    BY <2>2 DEF Late, ExtendedTime
  <2> QED BY <2>1, <2>2, <2>3, Zenon DEF Right, SameButTime, Body
<1>2. Init => ChunkInv
  BY InitBase, InitReading DEF ChunkInv
<1> QED BY <1>1, <1>2, NextChunk, PTL DEF Spec

\* When everything that was written has been read and parsed, every message has
\* been delivered, nothing is left in the buffer, and both ends have the same idea
\* of each chunk stream's previous header and difference.
THEOREM NothingIsLeft == Spec => []NothingLeft
<1>1. ChunkInv => NothingLeft
  <2> SUFFICES ASSUME ChunkInv, AtRest
               PROVE  /\ ~Repeats => /\ buf = <<>>
                                     /\ \A i \in DOMAIN sent :
                                          \E k \in DOMAIN delivered :
                                            Number(delivered[k]) = i
                      /\ ~ExtendedTime => inPrev = outPrev /\ inDelta = outDelta
    BY Zenon DEF NothingLeft
  <2>1. /\ TypeOK /\ RoadInv /\ sent \in Seq(Catalogue) /\ DOMAIN sent = 1..Len(sent)
        /\ Len(sent) \in Nat /\ (~Repeats => Reading)
    <3>1. TypeOK /\ RoadInv /\ (~Repeats => Reading)
      BY DEF ChunkInv, BaseInv
    <3>2. sent \in Seq(Catalogue)
      BY <3>1 DEF TypeOK
    <3> QED BY <3>1, <3>2
  <2>2. ASSUME ~Repeats
        PROVE  buf = <<>> /\ \A i \in DOMAIN sent : \E k \in DOMAIN delivered :
                                            Number(delivered[k]) = i
    <3>1. buf = <<>>
      BY <2>1, <2>2, AllTaken
    <3>2. ASSUME NEW i \in DOMAIN sent
          PROVE  \E k \in DOMAIN delivered : Number(delivered[k]) = i
      <4>1. i \in 1..Len(sent) /\ sent[i].cs \in ChunkStreams
        BY <2>1, MessageIs
      <4>2. PICK j \in 0..Len(sent) :
              /\ LastDone(sent[i].cs, j)
              /\ \A g \in 1..Len(sent) : sent[g].cs = sent[i].cs => g <= j
        BY <4>1, <2>1, <2>2, AllTaken
      <4>3. Done(i)
        BY <4>1, <4>2 DEF LastDone
      <4>4. DOMAIN delivered = 1..Len(delivered)
        BY <2>1, <2>2 DEF Reading, DeliveredInv
      <4> QED BY <4>3, <4>4 DEF Done
    <3> QED BY <3>1, <3>2
  <2>3. ASSUME ~ExtendedTime PROVE inPrev = outPrev /\ inDelta = outDelta
    <3>1. ~Repeats
      BY <2>3 DEF Repeats, ExtendedTime
    <3>2. ~Late(sent)
      BY <2>1, <2>3 DEF Late, ExtendedTime
    <3>3. ASSUME NEW c \in ChunkStreams
          PROVE  inPrev[c] = outPrev[c] /\ inDelta[c] = outDelta[c]
      <4>1. PICK j \in 0..Len(sent) :
               /\ LastOn(sent, c, j)
               /\ Holds(sent, inPrev[c], j) /\ AsOf(sent, inExt[c], inDelta[c], j)
        BY <2>1, <3>1, AllTaken
      <4>2. PICK i \in 0..Len(sent) :
               /\ LastOn(sent, c, i) /\ outPrev[c] = HeadOf(sent, i)
               /\ outDelta[c] = DeltaOf(sent, i)
        BY <2>1 DEF RoadInv, SenderInv
      <4>3. i = j
        <5>1. ~(i < j)
          <6>1. i < j => j \in (i + 1)..Len(sent) /\ j # 0
            BY <2>1
          <6> QED BY <6>1, <4>1, <4>2 DEF LastOn
        <5>2. ~(j < i)
          <6>1. j < i => i \in (j + 1)..Len(sent) /\ i # 0
            BY <2>1
          <6> QED BY <6>1, <4>1, <4>2 DEF LastOn
        <5> QED BY <5>1, <5>2, <2>1
      <4>4. inPrev[c] \in Headers /\ outPrev[c] \in Headers
        BY <2>1 DEF TypeOK
      <4>5. /\ inPrev[c].len = outPrev[c].len /\ inPrev[c].type = outPrev[c].type
            /\ inPrev[c].sid = outPrev[c].sid /\ inPrev[c].ts = outPrev[c].ts
        BY <3>2, <4>1, <4>2, <4>3 DEF Holds
      <4>6. inPrev[c] = outPrev[c]
        BY <4>4, <4>5 DEF Headers
      <4>7. inDelta[c] = outDelta[c]
        BY <3>2, <4>1, <4>2, <4>3 DEF AsOf
      <4> QED BY <4>6, <4>7
    <3>4. /\ inPrev \in [ChunkStreams -> Headers] /\ outPrev \in [ChunkStreams -> Headers]
          /\ inDelta \in [ChunkStreams -> 0..(Digit * Digit - 1)]
          /\ outDelta \in [ChunkStreams -> 0..(Digit * Digit - 1)]
      BY <2>1 DEF TypeOK
    <3> QED BY <3>3, <3>4
  <2> QED BY <2>2, <2>3
<1>2. Init => ChunkInv
  BY InitBase, InitReading DEF ChunkInv
<1> QED BY <1>1, <1>2, NextChunk, PTL DEF Spec
=============================================================================
