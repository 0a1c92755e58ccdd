-------------------------- MODULE TextContextProofs --------------------------
(***************************************************************************)
(* Proofs about MsgBuffer and TextContext.                                 *)
(***************************************************************************)
EXTENDS TextContext, TLAPS, SequenceTheorems, WellFoundedInduction

-----------------------------------------------------------------------------
(* MsgBuffer: what each member function makes of the readable bytes.       *)

\* A piece of a sequence, byte by byte.
LEMMA Piece ==
  ASSUME NEW S, NEW s \in Seq(S), NEW m \in 0..Len(s), NEW n \in m..Len(s)
  PROVE  /\ SubSeq(s, m + 1, n) \in Seq(S)
         /\ Len(SubSeq(s, m + 1, n)) = n - m
         /\ \A i \in 1..(n - m) : SubSeq(s, m + 1, n)[i] = s[m + i]
<1>0. m \in Nat /\ n \in Nat /\ m <= n /\ n <= Len(s) /\ Len(s) \in Nat
  OBVIOUS
<1>1. \A i \in (m + 1)..n : s[i] \in S
  BY <1>0
<1>2. /\ SubSeq(s, m + 1, n) \in Seq(S)
      /\ Len(SubSeq(s, m + 1, n)) = IF m + 1 <= n THEN n - (m + 1) + 1 ELSE 0
      /\ \A i \in 1..(n - (m + 1) + 1) :
           SubSeq(s, m + 1, n)[i] = s[(m + 1) + i - 1]
  BY <1>0, <1>1, SubSeqProperties
<1>3. ASSUME NEW i \in 1..(n - m)
      PROVE  SubSeq(s, m + 1, n)[i] = s[m + i]
  <2>1. n - (m + 1) + 1 = n - m /\ (m + 1) + i - 1 = m + i
    BY <1>0
  <2>2. i \in 1..(n - (m + 1) + 1)
    BY <2>1
  <2>3. SubSeq(s, m + 1, n)[i] = s[(m + 1) + i - 1]
    BY <1>2, <2>2
  <2> QED BY <2>1, <2>3
<1> QED BY <1>0, <1>2, <1>3

\* Its first k and its other elements.
LEMMA Prefix ==
  ASSUME NEW S, NEW s \in Seq(S), NEW k \in 0..Len(s)
  PROVE  /\ SubSeq(s, 1, k) \in Seq(S) /\ Len(SubSeq(s, 1, k)) = k
         /\ \A i \in 1..k : SubSeq(s, 1, k)[i] = s[i]
<1>1. 0 \in 0..Len(s) /\ k \in 0..Len(s)
  OBVIOUS
<1>2. /\ SubSeq(s, 0 + 1, k) \in Seq(S)
      /\ Len(SubSeq(s, 0 + 1, k)) = k - 0
      /\ \A i \in 1..(k - 0) : SubSeq(s, 0 + 1, k)[i] = s[0 + i]
  BY <1>1, Piece
<1>3. 0 + 1 = 1 /\ k - 0 = k /\ \A i \in 1..k : 0 + i = i
  OBVIOUS
<1> QED BY <1>2, <1>3

LEMMA Suffix ==
  ASSUME NEW S, NEW s \in Seq(S), NEW k \in 0..Len(s)
  PROVE  /\ SubSeq(s, k + 1, Len(s)) \in Seq(S)
         /\ Len(SubSeq(s, k + 1, Len(s))) = Len(s) - k
         /\ \A i \in 1..(Len(s) - k) : SubSeq(s, k + 1, Len(s))[i] = s[k + i]
<1>1. Len(s) \in k..Len(s)
  OBVIOUS
<1> QED BY <1>1, Piece

LEMMA Glue ==
  ASSUME NEW S, NEW s \in Seq(S), NEW t \in Seq(S)
  PROVE  /\ s \o t \in Seq(S) /\ Len(s \o t) = Len(s) + Len(t)
         /\ \A i \in 1..Len(s) : (s \o t)[i] = s[i]
         /\ \A i \in 1..Len(t) : (s \o t)[Len(s) + i] = t[i]
<1>1. Len(s) \in Nat /\ Len(t) \in Nat
  OBVIOUS
<1>2. /\ s \o t \in Seq(S) /\ Len(s \o t) = Len(s) + Len(t)
      /\ \A i \in 1..(Len(s) + Len(t)) :
           (s \o t)[i] = IF i <= Len(s) THEN s[i] ELSE t[i - Len(s)]
  BY ConcatProperties
<1>3. ASSUME NEW i \in 1..Len(s) PROVE (s \o t)[i] = s[i]
  <2>1. i \in 1..(Len(s) + Len(t)) /\ i <= Len(s)
    BY <1>1
  <2> QED BY <2>1, <1>2
<1>4. ASSUME NEW i \in 1..Len(t) PROVE (s \o t)[Len(s) + i] = t[i]
  <2>1. Len(s) + i \in 1..(Len(s) + Len(t)) /\ ~(Len(s) + i <= Len(s))
        /\ (Len(s) + i) - Len(s) = i
    BY <1>1
  <2> QED BY <2>1, <1>2
<1> QED BY <1>2, <1>3, <1>4

\* A sequence that begins as s and goes on as t is s \o t.
LEMMA Joined ==
  ASSUME NEW S, NEW s \in Seq(S), NEW t \in Seq(S), NEW u \in Seq(S),
         Len(u) = Len(s) + Len(t),
         \A i \in 1..Len(s) : u[i] = s[i],
         \A i \in 1..Len(t) : u[Len(s) + i] = t[i]
  PROVE  u = s \o t
<1>1. /\ s \o t \in Seq(S) /\ Len(s \o t) = Len(s) + Len(t)
      /\ \A i \in 1..Len(s) : (s \o t)[i] = s[i]
      /\ \A i \in 1..Len(t) : (s \o t)[Len(s) + i] = t[i]
  BY Glue
<1>2. ASSUME NEW i \in 1..Len(u) PROVE u[i] = (s \o t)[i]
  <2>0. Len(s) \in Nat /\ Len(t) \in Nat /\ i \in Int
    OBVIOUS
  <2>1. CASE i <= Len(s)
    <3>1. i \in 1..Len(s)
      BY <2>0, <2>1
    <3> QED BY <3>1, <1>1
  <2>2. CASE ~(i <= Len(s))
    <3>1. i - Len(s) \in 1..Len(t) /\ Len(s) + (i - Len(s)) = i
      BY <2>0, <2>2
    <3>2. u[Len(s) + (i - Len(s))] = (s \o t)[Len(s) + (i - Len(s))]
      BY <3>1, <1>1
    <3> QED BY <3>1, <3>2
  <2> QED BY <2>1, <2>2
<1> QED BY <1>1, <1>2, SeqEqual

LEMMA BufferFacts ==
  ASSUME NEW b \in Buffers
  PROVE  /\ b.head \in Nat /\ b.tail \in Nat /\ b.init \in Nat
         /\ b.mem \in Seq(Nat) /\ Len(b.mem) \in Nat
         /\ b.head <= b.tail /\ b.tail <= Len(b.mem)
         /\ Offset <= b.init /\ Offset <= Len(b.mem)
         /\ Readable(b) \in Nat /\ Writable(b) \in Nat
<1>1. /\ b.head \in Nat /\ b.tail \in Nat /\ b.init \in Nat
      /\ b.mem \in Seq(Nat)
      /\ b.head <= b.tail /\ b.tail <= Len(b.mem)
      /\ Offset <= b.init /\ Offset <= Len(b.mem)
  BY DEF Buffers
<1>2. Len(b.mem) \in Nat
  BY <1>1
<1> QED BY <1>1, <1>2 DEF Readable, Writable

LEMMA ContentsFacts ==
  ASSUME NEW b \in Buffers
  PROVE  /\ Contents(b) \in Seq(Nat)
         /\ Len(Contents(b)) = Readable(b)
         /\ \A i \in 1..Readable(b) : Contents(b)[i] = b.mem[b.head + i]
<1>1. b.head \in 0..Len(b.mem) /\ b.tail \in b.head..Len(b.mem)
  BY BufferFacts
<1>2. b.mem \in Seq(Nat)
  BY BufferFacts
<1>3. /\ SubSeq(b.mem, b.head + 1, b.tail) \in Seq(Nat)
      /\ Len(SubSeq(b.mem, b.head + 1, b.tail)) = b.tail - b.head
      /\ \A i \in 1..(b.tail - b.head) :
           SubSeq(b.mem, b.head + 1, b.tail)[i] = b.mem[b.head + i]
  BY <1>1, <1>2, Piece
<1> QED BY <1>3 DEF Contents, Readable

\* Put overwrites what lies from at on.
LEMMA PutFacts ==
  ASSUME NEW b \in Buffers, NEW at \in 0..Len(b.mem), NEW data \in Seq(Nat),
         at + Len(data) <= Len(b.mem)
  PROVE  /\ Put(b, at, data).head = b.head /\ Put(b, at, data).tail = b.tail
         /\ Put(b, at, data).init = b.init
         /\ Put(b, at, data) \in [head : Nat, tail : Nat, init : Nat, mem : Seq(Nat)]
         /\ Len(Put(b, at, data).mem) = Len(b.mem)
         /\ \A i \in 1..at : Put(b, at, data).mem[i] = b.mem[i]
         /\ \A i \in 1..Len(data) : Put(b, at, data).mem[at + i] = data[i]
         /\ \A i \in 1..(Len(b.mem) - (at + Len(data))) :
              Put(b, at, data).mem[(at + Len(data)) + i]
                = b.mem[(at + Len(data)) + i]
<1> DEFINE pre == SubSeq(b.mem, 1, at)
           post == SubSeq(b.mem, at + Len(data) + 1, Len(b.mem))
           mem == (pre \o data) \o post
<1>0. Len(data) \in Nat /\ at \in Nat /\ Len(b.mem) \in Nat
      /\ b.mem \in Seq(Nat) /\ at + Len(data) \in 0..Len(b.mem)
  BY BufferFacts
<1>1. /\ pre \in Seq(Nat) /\ Len(pre) = at
      /\ \A i \in 1..at : pre[i] = b.mem[i]
  BY <1>0, Prefix
<1>2. /\ post \in Seq(Nat) /\ Len(post) = Len(b.mem) - (at + Len(data))
      /\ \A i \in 1..(Len(b.mem) - (at + Len(data))) :
           post[i] = b.mem[(at + Len(data)) + i]
  BY <1>0, Suffix
<1>3. Put(b, at, data) = [b EXCEPT !.mem = mem]
  BY DEF Put
<1> HIDE DEF pre, post
<1>4. /\ pre \o data \in Seq(Nat) /\ Len(pre \o data) = at + Len(data)
      /\ \A i \in 1..at : (pre \o data)[i] = b.mem[i]
      /\ \A i \in 1..Len(data) : (pre \o data)[at + i] = data[i]
  <2>0. pre \in Seq(Nat)
    BY <1>1
  <2>1. /\ pre \o data \in Seq(Nat) /\ Len(pre \o data) = Len(pre) + Len(data)
        /\ \A i \in 1..Len(pre) : (pre \o data)[i] = pre[i]
        /\ \A i \in 1..Len(data) : (pre \o data)[Len(pre) + i] = data[i]
    BY <2>0, Glue
  <2> QED BY <1>1, <2>1
<1>5. /\ mem \in Seq(Nat) /\ Len(mem) = Len(pre \o data) + Len(post)
      /\ \A i \in 1..Len(pre \o data) : mem[i] = (pre \o data)[i]
      /\ \A i \in 1..Len(post) : mem[Len(pre \o data) + i] = post[i]
  <2>1. pre \o data \in Seq(Nat) /\ post \in Seq(Nat)
    BY <1>2, <1>4
  <2> QED BY <2>1, Glue
<1> HIDE DEF mem
<1>6. Len(mem) = Len(b.mem)
  <2>1. \A x, y \in Int : x + (y - x) = y
    OBVIOUS
  <2>2. at + Len(data) \in Int /\ Len(b.mem) \in Int
    BY <1>0
  <2>3. (at + Len(data)) + (Len(b.mem) - (at + Len(data))) = Len(b.mem)
    BY <2>1, <2>2, Zenon
  <2> QED BY <1>2, <1>4, <1>5, <2>3, Zenon
<1>7. /\ \A i \in 1..at : mem[i] = b.mem[i]
      /\ \A i \in 1..Len(data) : mem[at + i] = data[i]
  <2>1. /\ \A i \in 1..at : i \in 1..(at + Len(data))
        /\ \A i \in 1..Len(data) : at + i \in 1..(at + Len(data))
    BY <1>0
  <2>2. \A i \in 1..(at + Len(data)) : mem[i] = (pre \o data)[i]
    BY <1>4, <1>5
  <2> QED BY <2>1, <2>2, <1>4
<1>8. b \in [head : Nat, tail : Nat, init : Nat, mem : Seq(Nat)]
  BY DEF Buffers
<1>9. /\ Put(b, at, data).head = b.head /\ Put(b, at, data).tail = b.tail
      /\ Put(b, at, data).init = b.init /\ Put(b, at, data).mem = mem
      /\ Put(b, at, data) \in [head : Nat, tail : Nat, init : Nat, mem : Seq(Nat)]
  BY <1>3, <1>5, <1>8
<1>10. \A i \in 1..(Len(b.mem) - (at + Len(data))) :
          mem[(at + Len(data)) + i] = b.mem[(at + Len(data)) + i]
  BY <1>2, <1>4, <1>5
<1> QED BY <1>6, <1>7, <1>9, <1>10

\* Write adds data behind the readable bytes.
LEMMA WriteFacts ==
  ASSUME NEW b \in Buffers, NEW data \in Seq(Nat), Len(data) <= Writable(b)
  PROVE  /\ Write(b, data) \in Buffers
         /\ Contents(Write(b, data)) = Contents(b) \o data
         /\ Writable(Write(b, data)) = Writable(b) - Len(data)
         /\ Readable(Write(b, data)) = Readable(b) + Len(data)
<1> DEFINE w == Write(b, data)
           p == Put(b, b.tail, data)
           n == Len(data)
<1>0. n \in Nat /\ b.head \in Nat /\ b.tail \in Nat /\ Len(b.mem) \in Nat
      /\ b.head <= b.tail /\ b.tail <= Len(b.mem) /\ b.init \in Nat
      /\ Offset <= b.init /\ Offset <= Len(b.mem)
  BY BufferFacts
<1>1. b.tail \in 0..Len(b.mem) /\ b.tail + Len(data) <= Len(b.mem)
  BY <1>0 DEF Writable
<1>2. /\ p.head = b.head /\ p.tail = b.tail /\ p.init = b.init
      /\ p \in [head : Nat, tail : Nat, init : Nat, mem : Seq(Nat)]
      /\ Len(p.mem) = Len(b.mem)
      /\ \A i \in 1..b.tail : p.mem[i] = b.mem[i]
      /\ \A i \in 1..n : p.mem[b.tail + i] = data[i]
  BY <1>1, PutFacts, Zenon
<1>3. w = [p EXCEPT !.tail = b.tail + n]
  BY DEF Write
<1> HIDE DEF w, p
<1>4. /\ w \in [head : Nat, tail : Nat, init : Nat, mem : Seq(Nat)]
      /\ w.head = b.head /\ w.tail = b.tail + n /\ w.init = b.init
      /\ w.mem = p.mem
  <2>1. b.tail + n \in Nat
    BY <1>0
  <2>2. \A r \in [head : Nat, tail : Nat, init : Nat, mem : Seq(Nat)], t \in Nat :
          LET q == [r EXCEPT !.tail = t]
          IN  /\ q \in [head : Nat, tail : Nat, init : Nat, mem : Seq(Nat)]
              /\ q.head = r.head /\ q.tail = t /\ q.init = r.init /\ q.mem = r.mem
    OBVIOUS
  <2> QED BY <1>2, <1>3, <2>1, <2>2, Zenon
<1>5. w \in Buffers
  <2>1. w.head <= w.tail
    BY <1>0, <1>4
  <2>2. w.tail <= Len(w.mem)
    BY <1>1, <1>2, <1>4
  <2>3. Offset <= w.init /\ Offset <= Len(w.mem)
    BY <1>0, <1>2, <1>4
  <2> QED BY <1>4, <2>1, <2>2, <2>3 DEF Buffers
<1>6. Readable(w) = Readable(b) + n /\ Writable(w) = Writable(b) - n
  BY <1>0, <1>2, <1>4 DEF Readable, Writable
<1>7. Readable(b) \in Nat /\ b.head + Readable(b) = b.tail
  BY <1>0 DEF Readable
<1>8. /\ Contents(w) \in Seq(Nat) /\ Len(Contents(w)) = Readable(b) + n
      /\ \A i \in 1..(Readable(b) + n) : Contents(w)[i] = p.mem[b.head + i]
  BY <1>4, <1>5, <1>6, ContentsFacts
<1>9. /\ Contents(b) \in Seq(Nat) /\ Len(Contents(b)) = Readable(b)
      /\ \A i \in 1..Readable(b) : Contents(b)[i] = b.mem[b.head + i]
  BY ContentsFacts
<1>10. ASSUME NEW i \in 1..Readable(b)
       PROVE  Contents(w)[i] = Contents(b)[i]
  <2>1. i \in 1..(Readable(b) + n) /\ b.head + i \in 1..b.tail
    BY <1>0, <1>7
  <2> QED BY <2>1, <1>2, <1>8, <1>9
<1>11. ASSUME NEW i \in 1..n
       PROVE  Contents(w)[Readable(b) + i] = data[i]
  <2>1. Readable(b) + i \in 1..(Readable(b) + n)
        /\ b.head + (Readable(b) + i) = b.tail + i
    <3>1. \A x, y, z \in Int : x + y = z => x + (y + i) = z + i
      OBVIOUS
    <3>2. b.head + (Readable(b) + i) = b.tail + i
      BY <1>0, <1>7, <3>1
    <3>3. Readable(b) + i \in 1..(Readable(b) + n)
      BY <1>0, <1>7
    <3> QED BY <3>2, <3>3
  <2> QED BY <2>1, <1>2, <1>8
<1>12. Contents(w) = Contents(b) \o data
  <2>1. /\ Len(Contents(w)) = Len(Contents(b)) + Len(data)
        /\ \A i \in 1..Len(Contents(b)) : Contents(w)[i] = Contents(b)[i]
        /\ \A i \in 1..Len(data) : Contents(w)[Len(Contents(b)) + i] = data[i]
    BY <1>8, <1>9, <1>10, <1>11
  <2> QED BY <1>8, <1>9, <2>1, Joined, Zenon
<1> QED BY <1>5, <1>6, <1>12 DEF w

LEMMA NewFacts ==
  ASSUME NEW len \in Nat, Offset <= len
  PROVE  /\ New(len) \in Buffers /\ Contents(New(len)) = <<>>
         /\ Writable(New(len)) = len /\ Readable(New(len)) = 0
<1>0. Offset \in Nat
  BY DEF Offset
<1>1. /\ [i \in 1..(len + Offset) |-> 0] \in Seq(Nat)
      /\ Len([i \in 1..(len + Offset) |-> 0]) = len + Offset
  BY <1>0
<1>2. New(len) \in Buffers
  BY <1>0, <1>1 DEF New, Buffers
<1>3. Writable(New(len)) = len /\ Readable(New(len)) = 0
  BY <1>0, <1>1 DEF New, Writable, Readable
<1>4. Contents(New(len)) \in Seq(Nat) /\ Len(Contents(New(len))) = 0
  BY <1>2, <1>3, ContentsFacts
<1> QED BY <1>2, <1>3, <1>4, EmptySeq

\* A buffer whose readable bytes are those of s.
LEMMA Shown ==
  ASSUME NEW b \in Buffers, NEW s \in Seq(Nat), Readable(b) = Len(s),
         \A i \in 1..Len(s) : b.mem[b.head + i] = s[i]
  PROVE  Contents(b) = s
<1>1. /\ Contents(b) \in Seq(Nat) /\ Len(Contents(b)) = Readable(b)
      /\ \A i \in 1..Readable(b) : Contents(b)[i] = b.mem[b.head + i]
  BY ContentsFacts
<1>2. Len(Contents(b)) = Len(s) /\ \A i \in 1..Len(Contents(b)) : Contents(b)[i] = s[i]
  BY <1>1
<1> QED BY <1>1, <1>2, SeqEqual

\* Setting the positions of a layout.
LEMMA Positions ==
  ASSUME NEW r \in [head : Nat, tail : Nat, init : Nat, mem : Seq(Nat)],
         NEW h \in Nat, NEW t \in Nat,
         h <= t, t <= Len(r.mem), Offset <= r.init, Offset <= Len(r.mem)
  PROVE  /\ [r EXCEPT !.head = h, !.tail = t] \in Buffers
         /\ [r EXCEPT !.head = h, !.tail = t].head = h
         /\ [r EXCEPT !.head = h, !.tail = t].tail = t
         /\ [r EXCEPT !.head = h, !.tail = t].init = r.init
         /\ [r EXCEPT !.head = h, !.tail = t].mem = r.mem
<1> DEFINE q == [r EXCEPT !.head = h, !.tail = t]
<1>1. /\ q \in [head : Nat, tail : Nat, init : Nat, mem : Seq(Nat)]
      /\ q.head = h /\ q.tail = t /\ q.init = r.init /\ q.mem = r.mem
  OBVIOUS
<1> HIDE DEF q
<1>2. q \in Buffers
  BY <1>1 DEF Buffers
<1> QED BY <1>1, <1>2 DEF q

LEMMA MovedFacts ==
  ASSUME NEW b \in Buffers, Offset + Readable(b) <= Len(b.mem)
  PROVE  /\ Moved(b) \in Buffers /\ Contents(Moved(b)) = Contents(b)
         /\ Writable(Moved(b)) = Len(b.mem) - (Offset + Readable(b))
<1> DEFINE p == Put(b, Offset, Contents(b))
           end == Offset + Readable(b)
           m == [p EXCEPT !.head = Offset, !.tail = end]
<1>0. /\ Readable(b) \in Nat /\ Offset \in Nat /\ Len(b.mem) \in Nat
      /\ Offset <= b.init /\ Offset <= Len(b.mem)
      /\ Contents(b) \in Seq(Nat) /\ Len(Contents(b)) = Readable(b)
  BY BufferFacts, ContentsFacts DEF Offset
<1>1. Offset \in 0..Len(b.mem) /\ Offset + Len(Contents(b)) <= Len(b.mem)
  BY <1>0
<1>2. /\ p.init = b.init
      /\ p \in [head : Nat, tail : Nat, init : Nat, mem : Seq(Nat)]
      /\ Len(p.mem) = Len(b.mem)
      /\ \A i \in 1..Len(Contents(b)) : p.mem[Offset + i] = Contents(b)[i]
  BY <1>0, <1>1, PutFacts
<1>3. Moved(b) = m
  BY DEF Moved
<1> HIDE DEF p
<1>4. /\ end \in Nat /\ Offset <= end /\ end <= Len(p.mem)
      /\ Offset <= p.init /\ Offset <= Len(p.mem)
  BY <1>0, <1>2
<1>5. /\ m \in Buffers /\ m.head = Offset /\ m.tail = end /\ m.mem = p.mem
  <2> HIDE DEF end
  <2> QED BY <1>0, <1>2, <1>4, Positions
<1> HIDE DEF m
<1>6. Readable(m) = Readable(b) /\ Writable(m) = Len(b.mem) - end
  BY <1>0, <1>2, <1>5 DEF Readable, Writable
<1>7. Readable(m) = Len(Contents(b))
      /\ \A i \in 1..Len(Contents(b)) : m.mem[m.head + i] = Contents(b)[i]
  BY <1>0, <1>2, <1>5, <1>6
<1>8. Contents(m) = Contents(b)
  BY <1>0, <1>5, <1>7, Shown
<1> QED BY <1>3, <1>5, <1>6, <1>8

LEMMA GrownFacts ==
  ASSUME NEW b \in Buffers, NEW n \in Nat
  PROVE  /\ Grown(b, n) \in Buffers /\ Contents(Grown(b, n)) = Contents(b)
         /\ n <= Writable(Grown(b, n))
<1> DEFINE len == Larger(2 * Len(b.mem), Offset + Readable(b) + n)
<1>0. /\ Readable(b) \in Nat /\ Offset \in Nat /\ Len(b.mem) \in Nat
      /\ Contents(b) \in Seq(Nat) /\ Len(Contents(b)) = Readable(b)
  BY BufferFacts, ContentsFacts DEF Offset
<1>1. /\ len \in Nat /\ Offset <= len /\ Readable(b) + n <= len
      /\ Readable(b) <= len
  BY <1>0 DEF Larger
<1>2. Grown(b, n) = Write(New(len), Contents(b))
  BY DEF Grown
<1> HIDE DEF len
<1>3. New(len) \in Buffers /\ Contents(New(len)) = <<>> /\ Writable(New(len)) = len
  BY <1>1, NewFacts
<1>4. Len(Contents(b)) <= Writable(New(len))
  BY <1>0, <1>1, <1>3
<1>5. /\ Write(New(len), Contents(b)) \in Buffers
      /\ Contents(Write(New(len), Contents(b))) = Contents(New(len)) \o Contents(b)
      /\ Writable(Write(New(len), Contents(b)))
           = Writable(New(len)) - Len(Contents(b))
  BY <1>0, <1>3, <1>4, WriteFacts
<1>6. <<>> \o Contents(b) = Contents(b)
  BY <1>0, ConcatEmptySeq
<1>7. n <= len - Readable(b)
  BY <1>0, <1>1
<1> QED BY <1>0, <1>2, <1>3, <1>5, <1>6, <1>7

LEMMA EnsureFacts ==
  ASSUME NEW b \in Buffers, NEW n \in Nat
  PROVE  /\ EnsureWritableBytes(b, n) \in Buffers
         /\ Contents(EnsureWritableBytes(b, n)) = Contents(b)
         /\ n <= Writable(EnsureWritableBytes(b, n))
<1>0. /\ b.head \in Nat /\ b.tail \in Nat /\ Len(b.mem) \in Nat
      /\ b.head <= b.tail /\ b.tail <= Len(b.mem)
  BY BufferFacts
<1>1. CASE Writable(b) >= n
  BY <1>1, <1>0 DEF EnsureWritableBytes, Writable
<1>2. CASE ~(Writable(b) >= n) /\ b.head + Writable(b) >= n + Offset
  <2>1. /\ Offset + Readable(b) <= Len(b.mem)
        /\ n <= Len(b.mem) - (Offset + Readable(b))
    BY <1>0, <1>2 DEF Readable, Writable, Offset
  <2>2. EnsureWritableBytes(b, n) = Moved(b)
    BY <1>2 DEF EnsureWritableBytes
  <2>3. /\ Moved(b) \in Buffers /\ Contents(Moved(b)) = Contents(b)
        /\ Writable(Moved(b)) = Len(b.mem) - (Offset + Readable(b))
    BY <2>1, MovedFacts
  <2> QED BY <2>1, <2>2, <2>3
<1>3. CASE ~(Writable(b) >= n) /\ ~(b.head + Writable(b) >= n + Offset)
  BY <1>3, GrownFacts DEF EnsureWritableBytes
<1> QED BY <1>1, <1>2, <1>3

LEMMA AppendFacts ==
  ASSUME NEW b \in Buffers, NEW data \in Seq(Nat)
  PROVE  /\ AppendBytes(b, data) \in Buffers
         /\ Contents(AppendBytes(b, data)) = Contents(b) \o data
<1> DEFINE e == EnsureWritableBytes(b, Len(data))
<1>1. Len(data) \in Nat
  OBVIOUS
<1>2. e \in Buffers /\ Contents(e) = Contents(b) /\ Len(data) <= Writable(e)
  BY <1>1, EnsureFacts
<1>3. AppendBytes(b, data) = Write(e, data)
  BY DEF AppendBytes
<1> HIDE DEF e
<1>4. /\ Write(e, data) \in Buffers
      /\ Contents(Write(e, data)) = Contents(e) \o data
  BY <1>2, WriteFacts
<1> QED BY <1>2, <1>3, <1>4

LEMMA InFrontReserved ==
  ASSUME NEW b \in Buffers, NEW data \in Seq(Nat), b.head >= Len(data)
  PROVE  /\ AddInFront(b, data) \in Buffers
         /\ Contents(AddInFront(b, data)) = data \o Contents(b)
<1> DEFINE n == Len(data)
           at == b.head - n
           p == Put(b, at, data)
           c == [p EXCEPT !.head = at]
<1>0. /\ b.head \in Nat /\ b.tail \in Nat /\ Len(b.mem) \in Nat /\ n \in Nat
      /\ b.head <= b.tail /\ b.tail <= Len(b.mem)
      /\ Offset <= b.init /\ Offset <= Len(b.mem)
      /\ Readable(b) = b.tail - b.head
  BY BufferFacts DEF Readable
<1>1. at \in 0..Len(b.mem) /\ at + Len(data) <= Len(b.mem) /\ at + n = b.head
  BY <1>0
<1> HIDE DEF at
<1>2. /\ p.tail = b.tail /\ p.init = b.init
      /\ p \in [head : Nat, tail : Nat, init : Nat, mem : Seq(Nat)]
      /\ Len(p.mem) = Len(b.mem)
      /\ \A i \in 1..Len(data) : p.mem[at + i] = data[i]
      /\ \A i \in 1..(Len(b.mem) - (at + Len(data))) :
           p.mem[(at + Len(data)) + i] = b.mem[(at + Len(data)) + i]
  BY <1>1, PutFacts
<1>3. AddInFront(b, data) = c
  BY DEF AddInFront, at
<1> HIDE DEF p
<1>4. c = [p EXCEPT !.head = at, !.tail = b.tail]
  BY <1>2
<1>5. at \in Nat /\ b.tail \in Nat /\ at <= b.tail /\ b.tail <= Len(p.mem)
      /\ Offset <= p.init /\ Offset <= Len(p.mem)
  BY <1>0, <1>1, <1>2
<1> HIDE DEF c
<1>6. c \in Buffers /\ c.head = at /\ c.tail = b.tail /\ c.mem = p.mem
  BY <1>2, <1>4, <1>5, Positions
<1>7. Readable(c) = n + Readable(b) /\ Readable(b) \in Nat
  BY <1>0, <1>1, <1>6 DEF Readable
<1>8. /\ Contents(c) \in Seq(Nat) /\ Len(Contents(c)) = n + Readable(b)
      /\ \A i \in 1..(n + Readable(b)) : Contents(c)[i] = p.mem[at + i]
  BY <1>6, <1>7, ContentsFacts
<1>9. /\ Contents(b) \in Seq(Nat) /\ Len(Contents(b)) = Readable(b)
      /\ \A i \in 1..Readable(b) : Contents(b)[i] = b.mem[b.head + i]
  BY ContentsFacts
<1>10. \A i \in 1..n : Contents(c)[i] = data[i]
  <2>1. \A i \in 1..n : i \in 1..(n + Readable(b))
    BY <1>0, <1>7
  <2> QED BY <2>1, <1>2, <1>8
<1>11. ASSUME NEW i \in 1..Readable(b)
       PROVE  Contents(c)[n + i] = Contents(b)[i]
  <2>1. n + i \in 1..(n + Readable(b)) /\ i \in 1..(Len(b.mem) - (at + n))
    BY <1>0, <1>1, <1>7
  <2>2. \A x, y \in Int : x + (y + i) = (x + y) + i
    OBVIOUS
  <2>3. at + (n + i) = (at + n) + i
    BY <1>0, <1>5, <2>2
  <2>4. Contents(c)[n + i] = p.mem[(at + n) + i]
    BY <1>8, <2>1, <2>3
  <2> QED BY <1>1, <1>2, <1>9, <2>1, <2>4
<1>12. Contents(c) = data \o Contents(b)
  <2>1. /\ Len(Contents(c)) = Len(data) + Len(Contents(b))
        /\ \A i \in 1..Len(data) : Contents(c)[i] = data[i]
        /\ \A i \in 1..Len(Contents(b)) : Contents(c)[Len(data) + i] = Contents(b)[i]
    BY <1>8, <1>9, <1>10, <1>11
  <2> QED BY <1>8, <1>9, <2>1, Joined, Zenon
<1> QED BY <1>3, <1>6, <1>12

LEMMA InFrontShifted ==
  ASSUME NEW b \in Buffers, NEW data \in Seq(Nat),
         ~(b.head >= Len(data)), Len(data) <= Writable(b)
  PROVE  /\ AddInFront(b, data) \in Buffers
         /\ Contents(AddInFront(b, data)) = data \o Contents(b)
<1> DEFINE s == data \o Contents(b)
           p == Put(b, b.head, s)
           end == b.tail + Len(data)
           c == [p EXCEPT !.tail = end]
<1>0. /\ b.head \in Nat /\ b.tail \in Nat /\ Len(b.mem) \in Nat
      /\ b.head <= b.tail /\ b.tail <= Len(b.mem) /\ Len(data) \in Nat
      /\ Offset <= b.init /\ Offset <= Len(b.mem)
      /\ Readable(b) = b.tail - b.head /\ Writable(b) = Len(b.mem) - b.tail
  BY BufferFacts DEF Readable, Writable
<1>1. s \in Seq(Nat) /\ Len(s) = Len(data) + Readable(b)
  <2>1. Contents(b) \in Seq(Nat) /\ Len(Contents(b)) = Readable(b)
    BY ContentsFacts
  <2>2. /\ data \o Contents(b) \in Seq(Nat)
        /\ Len(data \o Contents(b)) = Len(data) + Len(Contents(b))
    BY <2>1, Glue
  <2> QED BY <2>1, <2>2
<1>2. AddInFront(b, data) = c
  BY DEF AddInFront
<1> HIDE DEF s
<1>3. /\ b.head \in 0..Len(b.mem) /\ b.head + Len(s) <= Len(b.mem)
      /\ end = b.head + Len(s) /\ end \in Nat /\ b.head <= end
      /\ end <= Len(b.mem)
  <2>1. \A h, t, d \in Nat : h + (d + (t - h)) = t + d
    OBVIOUS
  <2>2. Len(s) = Len(data) + (b.tail - b.head)
    BY <1>0, <1>1
  <2>3. b.head + (Len(data) + (b.tail - b.head)) = b.tail + Len(data)
    BY <1>0, <2>1
  <2>4. /\ end \in Nat /\ b.head <= end /\ end <= Len(b.mem)
        /\ b.head \in 0..Len(b.mem)
    BY <1>0
  <2> QED BY <2>2, <2>3, <2>4
<1>4. /\ p.head = b.head /\ p.init = b.init
      /\ p \in [head : Nat, tail : Nat, init : Nat, mem : Seq(Nat)]
      /\ Len(p.mem) = Len(b.mem)
      /\ \A i \in 1..Len(s) : p.mem[b.head + i] = s[i]
  BY <1>1, <1>3, PutFacts
<1> HIDE DEF p, end
<1>5. c = [p EXCEPT !.head = b.head, !.tail = end]
  BY <1>4
<1>6. end \in Nat /\ b.head <= end /\ end <= Len(p.mem)
      /\ Offset <= p.init /\ Offset <= Len(p.mem)
  BY <1>0, <1>3, <1>4
<1> HIDE DEF c
<1>7. c \in Buffers /\ c.head = b.head /\ c.tail = end /\ c.mem = p.mem
  BY <1>0, <1>4, <1>5, <1>6, Positions
<1>8. Readable(c) = Len(s)
  BY <1>0, <1>1, <1>3, <1>7 DEF Readable
<1>9. Contents(c) = s
  BY <1>1, <1>4, <1>7, <1>8, Shown
<1> QED BY <1>2, <1>7, <1>9 DEF s

LEMMA InFrontFacts ==
  ASSUME NEW b \in Buffers, NEW data \in Seq(Nat)
  PROVE  /\ AddInFront(b, data) \in Buffers
         /\ Contents(AddInFront(b, data)) = data \o Contents(b)
<1>1. CASE b.head >= Len(data) \/ Len(data) <= Writable(b)
  BY <1>1, InFrontReserved, InFrontShifted
<1>2. CASE ~(b.head >= Len(data)) /\ ~(Len(data) <= Writable(b))
  <2> DEFINE len == Larger(b.init, Len(data) + Readable(b))
             w == Write(New(len), data)
  <2>0. /\ Readable(b) \in Nat /\ b.init \in Nat /\ Offset <= b.init
        /\ Len(data) \in Nat
        /\ Contents(b) \in Seq(Nat) /\ Len(Contents(b)) = Readable(b)
    BY BufferFacts, ContentsFacts
  <2>1. len \in Nat /\ Offset <= len /\ Len(data) + Readable(b) <= len
        /\ Len(data) <= len
    BY <2>0 DEF Larger, Offset
  <2>2. AddInFront(b, data) = Write(w, Contents(b))
    BY <1>2 DEF AddInFront
  <2> HIDE DEF len
  <2>3. New(len) \in Buffers /\ Contents(New(len)) = <<>> /\ Writable(New(len)) = len
    BY <2>1, NewFacts
  <2>4. /\ w \in Buffers /\ Contents(w) = Contents(New(len)) \o data
        /\ Writable(w) = Writable(New(len)) - Len(data)
    BY <2>1, <2>3, WriteFacts
  <2> HIDE DEF w
  <2>5. Contents(w) = data
    BY <2>3, <2>4, ConcatEmptySeq
  <2>6. Len(Contents(b)) <= Writable(w)
    BY <2>0, <2>1, <2>3, <2>4
  <2>7. /\ Write(w, Contents(b)) \in Buffers
        /\ Contents(Write(w, Contents(b))) = Contents(w) \o Contents(b)
    BY <2>0, <2>4, <2>6, WriteFacts
  <2> QED BY <2>2, <2>5, <2>7
<1> QED BY <1>1, <1>2

\* Three pieces of a stream may be joined in either order.
Joins(x, y, z) == (x \o y) \o z = x \o (y \o z)

LEMMA PiecesJoin ==
  ASSUME NEW S, NEW x \in Seq(S), NEW y \in Seq(S), NEW z \in Seq(S)
  PROVE  Joins(x, y, z)
<1>1. (x \o y) \o z = x \o (y \o z)
  BY ConcatAssociative
<1> QED BY <1>1, Zenon DEF Joins

LEMMA ReadFdFacts ==
  ASSUME NEW b \in Buffers, NEW data \in Seq(Nat)
  PROVE  /\ ReadFd(b, data) \in Buffers
         /\ Contents(ReadFd(b, data)) = Contents(b) \o data
<1> DEFINE room == Writable(b)
           first == SubSeq(data, 1, room)
           last == SubSeq(data, room + 1, Len(data))
           w == Write(b, first)
<1>0. room \in Nat /\ Len(data) \in Nat /\ Contents(b) \in Seq(Nat)
  BY BufferFacts, ContentsFacts
<1>1. CASE Len(data) <= room
  BY <1>1, WriteFacts DEF ReadFd
<1>2. CASE ~(Len(data) <= room)
  <2>1. room + 1 \in 1..Len(data) + 1 /\ room \in 0..Len(data)
    BY <1>0, <1>2
  <2>4. first \in Seq(Nat) /\ Len(first) = room
    BY <2>1, Prefix
  <2>5. last \in Seq(Nat)
    BY <2>1, Suffix
  <2>6. first \o last = data
    <3>1. SubSeq(data, 1, room) \o SubSeq(data, room + 1, Len(data))
            = SubSeq(data, 1, Len(data))
      <4>1. 1 \in 1..Len(data) + 1 /\ room \in (1 - 1)..Len(data)
            /\ Len(data) \in room..Len(data)
        BY <1>0, <1>2
      <4> QED BY <4>1, ConcatAdjacentSubSeq
    <3> QED BY <3>1, SubSeqFull
  <2>7. ReadFd(b, data) = AppendBytes(w, last)
    BY <1>2 DEF ReadFd
  <2> HIDE DEF first, last, room
  <2>8. Len(first) <= Writable(b)
    BY <1>0, <2>4 DEF room
  <2>9. w \in Buffers /\ Contents(w) = Contents(b) \o first
    BY <2>4, <2>8, WriteFacts
  <2> HIDE DEF w
  <2>10. /\ AppendBytes(w, last) \in Buffers
         /\ Contents(AppendBytes(w, last)) = Contents(w) \o last
    BY <2>5, <2>9, AppendFacts
  <2>11. (Contents(b) \o first) \o last = Contents(b) \o (first \o last)
    <3>1. Joins(Contents(b), first, last)
      BY <1>0, <2>4, <2>5, PiecesJoin, Zenon
    <3> QED BY <3>1, Zenon DEF Joins
  <2> QED BY <2>6, <2>7, <2>9, <2>10, <2>11
<1> QED BY <1>1, <1>2

LEMMA RetrieveAllFacts ==
  ASSUME NEW b \in Buffers
  PROVE  RetrieveAll(b) \in Buffers /\ Contents(RetrieveAll(b)) = <<>>
<1> DEFINE mem == IF Len(b.mem) > 2 * b.init THEN SubSeq(b.mem, 1, b.init)
                                             ELSE b.mem
           m == [b EXCEPT !.mem = mem]
           r == [m EXCEPT !.head = Offset, !.tail = Offset]
<1>0. /\ b.init \in Nat /\ Len(b.mem) \in Nat /\ b.mem \in Seq(Nat)
      /\ Offset <= b.init /\ Offset <= Len(b.mem) /\ Offset \in Nat
  BY BufferFacts DEF Offset
<1>1. mem \in Seq(Nat) /\ Offset <= Len(mem)
  <2>1. CASE Len(b.mem) > 2 * b.init
    <3>1. b.init \in 0..Len(b.mem)
      BY <1>0, <2>1
    <3>2. SubSeq(b.mem, 1, b.init) \in Seq(Nat) /\ Len(SubSeq(b.mem, 1, b.init)) = b.init
      BY <1>0, <3>1, Prefix
    <3>3. mem = SubSeq(b.mem, 1, b.init)
      BY <2>1
    <3> QED BY <1>0, <3>2, <3>3
  <2>2. CASE ~(Len(b.mem) > 2 * b.init)
    BY <1>0, <2>2
  <2> QED BY <2>1, <2>2
<1>2. RetrieveAll(b) = [b EXCEPT !.head = Offset, !.tail = Offset, !.mem = mem]
  BY DEF RetrieveAll
<1> HIDE DEF mem
<1>3. /\ m \in [head : Nat, tail : Nat, init : Nat, mem : Seq(Nat)]
      /\ m.mem = mem /\ m.init = b.init
      /\ RetrieveAll(b) = r
  <2>1. b \in [head : Nat, tail : Nat, init : Nat, mem : Seq(Nat)]
    BY DEF Buffers
  <2> QED BY <1>1, <1>2, <2>1
<1>4. Offset <= Offset /\ Offset <= Len(m.mem) /\ Offset <= m.init
  BY <1>0, <1>1, <1>3
<1> HIDE DEF m
<1>5. r \in Buffers /\ r.head = Offset /\ r.tail = Offset
  BY <1>0, <1>3, <1>4, Positions
<1> HIDE DEF r
<1>6. Readable(r) = 0
  BY <1>0, <1>5 DEF Readable
<1>7. Contents(r) \in Seq(Nat) /\ Len(Contents(r)) = 0
  BY <1>5, <1>6, ContentsFacts
<1> QED BY <1>3, <1>5, <1>7, EmptySeq

LEMMA RetrieveFacts ==
  ASSUME NEW b \in Buffers, NEW n \in Nat
  PROVE  /\ Retrieve(b, n) \in Buffers
         /\ Contents(Retrieve(b, n)) = SubSeq(Contents(b), n + 1, Len(Contents(b)))
<1> DEFINE c == Contents(b)
           r == [b EXCEPT !.head = b.head + n]
           rest == SubSeq(c, n + 1, Len(c))
<1>0. /\ b.head \in Nat /\ b.tail \in Nat /\ Len(b.mem) \in Nat
      /\ b.head <= b.tail /\ b.tail <= Len(b.mem)
      /\ Offset <= b.init /\ Offset <= Len(b.mem)
      /\ Readable(b) = b.tail - b.head /\ Readable(b) \in Nat
  BY BufferFacts DEF Readable
<1>1. /\ c \in Seq(Nat) /\ Len(c) = Readable(b)
      /\ \A i \in 1..Readable(b) : c[i] = b.mem[b.head + i]
  BY ContentsFacts
<1>2. CASE n >= Readable(b)
  <2>1. Retrieve(b, n) = RetrieveAll(b)
    BY <1>2 DEF Retrieve
  <2>2. n + 1 \in Int /\ Len(c) \in Int /\ Len(c) < n + 1
    BY <1>0, <1>1, <1>2
  <2> HIDE DEF c
  <2>3. rest = <<>>
    BY <2>2, SubSeqEmpty
  <2> QED BY <2>1, <2>3, RetrieveAllFacts DEF c
<1>3. CASE ~(n >= Readable(b))
  <2>1. Retrieve(b, n) = r
    BY <1>3 DEF Retrieve
  <2>2. r = [b EXCEPT !.head = b.head + n, !.tail = b.tail]
    BY DEF Buffers
  <2>3. b \in [head : Nat, tail : Nat, init : Nat, mem : Seq(Nat)]
    BY DEF Buffers
  <2>4. b.head + n \in Nat /\ b.head + n <= b.tail
    BY <1>0, <1>3
  <2> HIDE DEF r
  <2>5. r \in Buffers /\ r.head = b.head + n /\ r.tail = b.tail /\ r.mem = b.mem
    BY <1>0, <2>2, <2>3, <2>4, Positions
  <2>6. Readable(r) = Readable(b) - n
    BY <1>0, <2>5 DEF Readable
  <2>7. /\ rest \in Seq(Nat) /\ Len(rest) = Readable(b) - n
        /\ \A i \in 1..(Readable(b) - n) : rest[i] = c[n + i]
    <3>1. n \in 0..Len(c)
      BY <1>0, <1>1, <1>3
    <3> HIDE DEF c
    <3>2. /\ rest \in Seq(Nat) /\ Len(rest) = Len(c) - n
          /\ \A i \in 1..(Len(c) - n) : rest[i] = c[n + i]
      BY <1>1, <3>1, Suffix
    <3> QED BY <1>1, <3>2
  <2> HIDE DEF c, rest
  <2>8. ASSUME NEW i \in 1..(Readable(b) - n)
        PROVE  r.mem[r.head + i] = rest[i]
    <3>1. n + i \in 1..Readable(b)
      BY <1>0, <1>3
    <3>2. (b.head + n) + i = b.head + (n + i)
      BY <1>0
    <3>3. c[n + i] = b.mem[b.head + (n + i)]
      BY <1>1, <3>1
    <3> QED BY <2>5, <2>7, <3>2, <3>3
  <2>9. /\ Readable(r) = Len(rest)
        /\ \A i \in 1..Len(rest) : r.mem[r.head + i] = rest[i]
    BY <2>6, <2>7, <2>8
  <2>10. Contents(r) = rest
    BY <2>5, <2>7, <2>9, Shown
  <2> QED BY <2>1, <2>5, <2>10 DEF rest, c
<1> QED BY <1>2, <1>3

LEMMA UnwriteFacts ==
  ASSUME NEW b \in Buffers, NEW n \in 0..Readable(b)
  PROVE  /\ Unwrite(b, n) \in Buffers
         /\ Contents(Unwrite(b, n)) = SubSeq(Contents(b), 1, Len(Contents(b)) - n)
<1> DEFINE c == Contents(b)
           u == [b EXCEPT !.tail = b.tail - n]
           rest == SubSeq(c, 1, Len(c) - n)
<1>0. /\ b.head \in Nat /\ b.tail \in Nat /\ Len(b.mem) \in Nat
      /\ b.head <= b.tail /\ b.tail <= Len(b.mem)
      /\ Offset <= b.init /\ Offset <= Len(b.mem)
      /\ Readable(b) = b.tail - b.head /\ Readable(b) \in Nat /\ n \in Nat
      /\ n <= Readable(b)
  BY BufferFacts DEF Readable
<1>1. /\ c \in Seq(Nat) /\ Len(c) = Readable(b)
      /\ \A i \in 1..Readable(b) : c[i] = b.mem[b.head + i]
  BY ContentsFacts
<1>2. Unwrite(b, n) = u
  BY DEF Unwrite
<1>3. b \in [head : Nat, tail : Nat, init : Nat, mem : Seq(Nat)]
  BY DEF Buffers
<1>4. u = [b EXCEPT !.head = b.head, !.tail = b.tail - n]
  BY <1>3
<1>5. b.tail - n \in Nat /\ b.head <= b.tail - n /\ b.tail - n <= Len(b.mem)
  BY <1>0
<1> HIDE DEF u
<1>6. u \in Buffers /\ u.head = b.head /\ u.tail = b.tail - n /\ u.mem = b.mem
  BY <1>0, <1>3, <1>4, <1>5, Positions
<1>7. Readable(u) = Readable(b) - n
  BY <1>0, <1>6 DEF Readable
<1>8. /\ rest \in Seq(Nat) /\ Len(rest) = Readable(b) - n
      /\ \A i \in 1..(Readable(b) - n) : rest[i] = c[i]
  <2>1. Len(c) - n \in 0..Len(c) /\ Len(c) - n = Readable(b) - n
    BY <1>0, <1>1
  <2> HIDE DEF c
  <2>2. /\ rest \in Seq(Nat) /\ Len(rest) = Len(c) - n
        /\ \A i \in 1..(Len(c) - n) : rest[i] = c[i]
    BY <1>1, <2>1, Prefix
  <2> QED BY <2>1, <2>2
<1> HIDE DEF c, rest
<1>9. /\ Readable(u) = Len(rest)
      /\ \A i \in 1..Len(rest) : u.mem[u.head + i] = rest[i]
  <2>1. \A i \in 1..(Readable(b) - n) : i \in 1..Readable(b)
    BY <1>0
  <2> QED BY <1>1, <1>6, <1>7, <1>8, <2>1
<1>10. Contents(u) = rest
  BY <1>6, <1>8, <1>9, Shown
<1> QED BY <1>2, <1>6, <1>10 DEF rest, c

\* Whatever its layout, a MsgBuffer is a queue of bytes: for every buffer the
\* member functions may leave behind and all data (msgbuffer.cpp:25-175).
THEOREM EveryBufferIsAQueue ==
  \A b \in Buffers, data \in Seq(Nat) : IsQueue(b, data)
<1> SUFFICES ASSUME NEW b \in Buffers, NEW data \in Seq(Nat)
             PROVE  IsQueue(b, data)
  OBVIOUS
<1>1. /\ AppendBytes(b, data) \in Buffers
      /\ Contents(AppendBytes(b, data)) = Contents(b) \o data
  BY AppendFacts
<1>2. /\ AddInFront(b, data) \in Buffers
      /\ Contents(AddInFront(b, data)) = data \o Contents(b)
  BY InFrontFacts
<1>3. Contents(ReadFd(b, data)) = Contents(b) \o data
  BY ReadFdFacts
<1>4. \A n \in 0..(Readable(b) + 1) :
        /\ Retrieve(b, n) \in Buffers
        /\ Contents(Retrieve(b, n)) = SubSeq(Contents(b), n + 1, Len(Contents(b)))
  <2>1. \A n \in 0..(Readable(b) + 1) : n \in Nat
    BY BufferFacts
  <2> QED BY <2>1, RetrieveFacts
<1>5. \A n \in 0..Readable(b) :
        Contents(Unwrite(b, n)) = SubSeq(Contents(b), 1, Len(Contents(b)) - n)
  BY UnwriteFacts
<1> QED BY <1>1, <1>2, <1>3, <1>4, <1>5, Zenon DEF IsQueue

-----------------------------------------------------------------------------
(* Sequences: taking from the front of s \o t.                             *)

LEMMA DropFront ==
  ASSUME NEW S, NEW s \in Seq(S), NEW t \in Seq(S), NEW k \in 0..Len(s)
  PROVE  SubSeq(s \o t, k + 1, Len(s \o t)) = SubSeq(s, k + 1, Len(s)) \o t
<1> DEFINE a == SubSeq(s, k + 1, Len(s))
           u == SubSeq(s \o t, k + 1, Len(s \o t))
<1>0. k \in Nat /\ Len(s) \in Nat /\ Len(t) \in Nat /\ k <= Len(s)
  OBVIOUS
<1>1. /\ s \o t \in Seq(S) /\ Len(s \o t) = Len(s) + Len(t)
      /\ \A i \in 1..Len(s) : (s \o t)[i] = s[i]
      /\ \A i \in 1..Len(t) : (s \o t)[Len(s) + i] = t[i]
  BY Glue
<1>2. /\ a \in Seq(S) /\ Len(a) = Len(s) - k
      /\ \A i \in 1..(Len(s) - k) : a[i] = s[k + i]
  BY Suffix
<1>3. k \in 0..Len(s \o t)
  BY <1>0, <1>1
<1>4. /\ u \in Seq(S) /\ Len(u) = Len(s \o t) - k
      /\ \A i \in 1..(Len(s \o t) - k) : u[i] = (s \o t)[k + i]
  BY <1>1, <1>3, Suffix
<1> HIDE DEF a, u
<1>5. Len(u) = Len(a) + Len(t)
  BY <1>0, <1>1, <1>2, <1>4
<1>6. ASSUME NEW i \in 1..Len(a) PROVE u[i] = a[i]
  <2>1. /\ i \in 1..(Len(s) - k) /\ i \in 1..(Len(s \o t) - k)
        /\ k + i \in 1..Len(s)
    BY <1>0, <1>1, <1>2
  <2> QED BY <2>1, <1>1, <1>2, <1>4
<1>7. ASSUME NEW i \in 1..Len(t) PROVE u[Len(a) + i] = t[i]
  <2>1. /\ Len(a) + i \in 1..(Len(s \o t) - k)
        /\ k + (Len(a) + i) = Len(s) + i
    BY <1>0, <1>1, <1>2
  <2> QED BY <2>1, <1>1, <1>4
<1>8. u = a \o t
  BY <1>2, <1>4, <1>5, <1>6, <1>7, Joined
<1> QED BY <1>8 DEF a, u

LEMMA TakeFront ==
  ASSUME NEW S, NEW s \in Seq(S), NEW t \in Seq(S), NEW k \in 0..Len(s)
  PROVE  SubSeq(s \o t, 1, k) = SubSeq(s, 1, k)
<1>0. k \in Nat /\ Len(s) \in Nat /\ Len(t) \in Nat /\ k <= Len(s)
  OBVIOUS
<1>1. /\ s \o t \in Seq(S) /\ Len(s \o t) = Len(s) + Len(t)
      /\ \A i \in 1..Len(s) : (s \o t)[i] = s[i]
  BY Glue
<1>2. k \in 0..Len(s \o t)
  BY <1>0, <1>1
<1>3. /\ SubSeq(s \o t, 1, k) \in Seq(S) /\ Len(SubSeq(s \o t, 1, k)) = k
      /\ \A i \in 1..k : SubSeq(s \o t, 1, k)[i] = (s \o t)[i]
  BY <1>1, <1>2, Prefix
<1>4. /\ SubSeq(s, 1, k) \in Seq(S) /\ Len(SubSeq(s, 1, k)) = k
      /\ \A i \in 1..k : SubSeq(s, 1, k)[i] = s[i]
  BY Prefix
<1>5. \A i \in 1..k : i \in 1..Len(s)
  BY <1>0
<1>6. /\ Len(SubSeq(s \o t, 1, k)) = Len(SubSeq(s, 1, k))
      /\ \A i \in 1..Len(SubSeq(s \o t, 1, k)) :
           SubSeq(s \o t, 1, k)[i] = SubSeq(s, 1, k)[i]
  BY <1>1, <1>3, <1>4, <1>5
<1> QED BY <1>3, <1>4, <1>6, SeqEqual

\* A prefix, element by element.
LEMMA PrefixByElement ==
  ASSUME NEW S, NEW s \in Seq(S), NEW t \in Seq(S)
  PROVE  IsPrefix(s, t) <=> /\ Len(s) <= Len(t)
                            /\ \A i \in 1..Len(s) : s[i] = t[i]
<1>1. CASE Len(s) <= Len(t)
  <2>1. Len(s) \in 0..Len(t)
    BY <1>1
  <2>2. /\ SubSeq(t, 1, Len(s)) \in Seq(S) /\ Len(SubSeq(t, 1, Len(s))) = Len(s)
        /\ \A i \in 1..Len(s) : SubSeq(t, 1, Len(s))[i] = t[i]
    BY <2>1, Prefix
  <2>3. SubSeq(s, 1, Len(s)) = s
    BY SubSeqFull
  <2>4. IsPrefix(s, t) <=> s = SubSeq(t, 1, Len(s))
    BY <1>1, <2>3 DEF IsPrefix
  <2>5. ASSUME \A i \in 1..Len(s) : s[i] = t[i]
        PROVE  s = SubSeq(t, 1, Len(s))
    <3>1. \A i \in 1..Len(s) : s[i] = SubSeq(t, 1, Len(s))[i]
      BY <2>2, <2>5
    <3> QED BY <2>2, <3>1, SeqEqual
  <2>6. ASSUME s = SubSeq(t, 1, Len(s))
        PROVE  \A i \in 1..Len(s) : s[i] = t[i]
    BY <2>2, <2>6
  <2> QED BY <1>1, <2>4, <2>5, <2>6
<1>2. CASE ~(Len(s) <= Len(t))
  BY <1>2 DEF IsPrefix
<1> QED BY <1>1, <1>2

-----------------------------------------------------------------------------
(* The stream: Due is defined and has its type.                            *)

Below == OpToRel(<, Nat)

LEMMA Least ==
  ASSUME NEW T \in SUBSET Nat, T # {}
  PROVE  \E x \in T : \A y \in T : x <= y
<1>1. IsWellFoundedOn(Below, Nat)
  BY NatLessThanWellFounded DEF Below
<1>2. PICK x \in T : \A y \in T : <<y, x>> \notin Below
  BY <1>1, WFMin, Zenon
<1>3. \A y \in T : ~(y < x)
  BY <1>2 DEF Below, OpToRel
<1> QED BY <1>2, <1>3

N == Len(Messages)
Byte == 0..255

LEMMA MessageFacts ==
  /\ N \in Nat /\ Messages \in Seq(Seq(Byte))
  /\ \A k \in 0..N : k < N => /\ k + 1 \in 1..N
                              /\ Messages[k + 1] \in Seq(Byte)
                              /\ Len(Messages[k + 1]) \in Byte
<1>1. N \in Nat /\ Messages \in Seq(Seq(Byte))
  BY MessagesAssumption DEF N, Byte
<1>2. ASSUME NEW k \in 0..N, k < N
      PROVE  /\ k + 1 \in 1..N
             /\ Messages[k + 1] \in Seq(Byte)
             /\ Len(Messages[k + 1]) \in Byte
  <2>1. k + 1 \in 1..N
    BY <1>1, <1>2
  <2>2. k + 1 \in DOMAIN Messages /\ Messages[k + 1] \in Seq(Byte)
    BY <1>1, <2>1 DEF N
  <2>3. Len(Messages[k + 1]) < 256
    BY <2>2, MessagesAssumption DEF ToSet
  <2>4. Len(Messages[k + 1]) \in Nat
    BY <2>2
  <2>5. Len(Messages[k + 1]) \in Byte
    <3>1. \A x \in Nat : x < 256 => x \in Byte
      BY DEF Byte
    <3> QED BY <2>3, <2>4, <3>1
  <2> QED BY <2>1, <2>2, <2>5
<1> QED BY <1>1, <1>2

\* By the least number of last messages for which there is no such function.
LEMMA DueExists ==
  \E f : f = [k \in 0..N |-> IF k = N THEN <<>>
                                      ELSE Frame(Messages[k + 1]) \o f[k + 1]]
<1> DEFINE Def(f, n) ==
             f = [k \in (N - n)..N |-> IF k = N THEN <<>>
                                       ELSE Frame(Messages[k + 1]) \o f[k + 1]]
           Bad == {n \in 0..N : ~\E f : Def(f, n)}
<1>0. N \in Nat
  BY MessageFacts
<1>1. Bad = {}
  <2> SUFFICES ASSUME Bad # {} PROVE FALSE
    OBVIOUS
  <2>0. Bad \in SUBSET Nat
    <3>1. 0..N \subseteq Nat
      BY <1>0
    <3> QED BY <3>1, Zenon
  <2> HIDE DEF Bad
  <2>1. PICK n \in Bad : \A y \in Bad : n <= y
    BY <2>0, Least
  <2>2. n \in 0..N /\ ~\E f : Def(f, n)
    BY <2>1 DEF Bad
  <2>3. CASE n = 0
    <3> DEFINE g == [k \in N..N |-> <<>>]
    <3>1. \A k \in N..N : k = N
      BY <1>0
    <3>2. g = [k \in N..N |-> IF k = N THEN <<>>
                              ELSE Frame(Messages[k + 1]) \o g[k + 1]]
      BY <3>1
    <3>3. N - 0 = N
      BY <1>0
    <3>4. Def(g, 0)
      BY <3>2, <3>3
    <3> QED BY <2>2, <2>3, <3>4
  <2>4. CASE n # 0
    <3>1. n - 1 \in 0..N /\ ~(n <= n - 1)
      BY <1>0, <2>2, <2>4
    <3>2. n - 1 \notin Bad
      BY <2>1, <3>1
    <3>3. PICK f : Def(f, n - 1)
      BY <3>1, <3>2 DEF Bad
    <3> DEFINE j == N - n
               g == [k \in j..N |-> IF k = j THEN Frame(Messages[k + 1]) \o f[k + 1]
                                             ELSE f[k]]
    <3>4. /\ j \in Nat /\ j < N /\ N - (n - 1) = j + 1
          /\ \A k \in j..N : k = j \/ k \in (j + 1)..N
          /\ \A k \in j..N : k # N => k + 1 \in j..N /\ k + 1 # j
      BY <1>0, <2>2, <2>4
    <3>5. \A k \in (j + 1)..N :
            f[k] = IF k = N THEN <<>> ELSE Frame(Messages[k + 1]) \o f[k + 1]
      BY <3>3, <3>4
    <3> HIDE DEF j
    <3>6. ASSUME NEW k \in j..N
          PROVE  g[k] = IF k = N THEN <<>> ELSE Frame(Messages[k + 1]) \o g[k + 1]
      <4>1. CASE k = j
        <5>1. k # N /\ g[k + 1] = f[k + 1]
          BY <3>4, <4>1
        <5> QED BY <4>1, <5>1
      <4>2. CASE k # j /\ k = N
        BY <3>4, <3>5, <4>2
      <4>3. CASE k # j /\ k # N
        <5>1. g[k] = f[k] /\ g[k + 1] = f[k + 1]
          BY <3>4, <4>3
        <5> QED BY <3>4, <3>5, <4>3, <5>1
      <4> QED BY <4>1, <4>2, <4>3
    <3>7. g = [k \in j..N |-> IF k = N THEN <<>>
                              ELSE Frame(Messages[k + 1]) \o g[k + 1]]
      BY <3>6
    <3> HIDE DEF g
    <3>8. Def(g, n)
      BY <3>7 DEF j
    <3> QED BY <2>2, <3>8
  <2> QED BY <2>3, <2>4
<1>2. N \in 0..N /\ N - N = 0
  BY <1>0
<1>3. \E f : Def(f, N)
  BY <1>1, <1>2
<1> QED BY <1>2, <1>3

LEMMA DueDef ==
  \A k \in 0..N : Due[k] = IF k = N THEN <<>>
                                    ELSE Frame(Messages[k + 1]) \o Due[k + 1]
<1>1. Due = [k \in 0..N |-> IF k = N THEN <<>>
                                     ELSE Frame(Messages[k + 1]) \o Due[k + 1]]
  BY DueExists DEF Due, N
<1> QED BY <1>1

LEMMA FrameFacts ==
  ASSUME NEW m \in Seq(Byte), Len(m) \in Byte
  PROVE  /\ <<0, 0, 0, Len(m)>> \in Seq(Byte) /\ Len(<<0, 0, 0, Len(m)>>) = 4
         /\ Frame(m) \in Seq(Byte) /\ Frame(m) = <<0, 0, 0, Len(m)>> \o m
<1>1. 0 \in Byte
  BY DEF Byte
<1>2. <<0, 0, 0, Len(m)>> \in Seq(Byte) /\ Len(<<0, 0, 0, Len(m)>>) = 4
  BY <1>1
<1> HIDE DEF Byte
<1>3. <<0, 0, 0, Len(m)>> \o m \in Seq(Byte)
  BY <1>2, Glue
<1> QED BY <1>2, <1>3 DEF Frame

LEMMA DueType == \A k \in 0..N : Due[k] \in Seq(Byte)
<1> DEFINE Bad == {n \in 0..N : Due[N - n] \notin Seq(Byte)}
<1>0. N \in Nat
  BY MessageFacts
<1>1. Bad = {}
  <2> SUFFICES ASSUME Bad # {} PROVE FALSE
    OBVIOUS
  <2>0. Bad \in SUBSET Nat
    <3>1. 0..N \subseteq Nat
      BY <1>0
    <3> QED BY <3>1, Zenon
  <2> HIDE DEF Bad
  <2>1. PICK n \in Bad : \A y \in Bad : n <= y
    BY <2>0, Least
  <2>2. n \in 0..N /\ Due[N - n] \notin Seq(Byte)
    BY <2>1 DEF Bad
  <2> DEFINE j == N - n
  <2>3. j \in 0..N
    BY <1>0, <2>2
  <2>4. CASE n = 0
    <3>1. j = N
      BY <1>0, <2>4
    <3>2. Due[j] = <<>>
      BY <2>3, <3>1, DueDef
    <3> QED BY <2>2, <3>2
  <2>5. CASE n # 0
    <3>1. /\ n - 1 \in 0..N /\ ~(n <= n - 1) /\ N - (n - 1) = j + 1
          /\ j < N /\ j # N
      BY <1>0, <2>2, <2>5
    <3>2. n - 1 \notin Bad
      BY <2>1, <3>1
    <3>3. Due[j + 1] \in Seq(Byte)
      BY <3>1, <3>2 DEF Bad
    <3> HIDE DEF j
    <3>4. Messages[j + 1] \in Seq(Byte) /\ Len(Messages[j + 1]) \in Byte
      BY <2>3, <3>1, MessageFacts
    <3>5. Frame(Messages[j + 1]) \in Seq(Byte)
      BY <3>4, FrameFacts
    <3>6. Frame(Messages[j + 1]) \o Due[j + 1] \in Seq(Byte)
      BY <3>3, <3>5, Glue
    <3>7. Due[j] = Frame(Messages[j + 1]) \o Due[j + 1]
      BY <2>3, <3>1, DueDef
    <3> QED BY <2>2, <3>6, <3>7 DEF j
  <2> QED BY <2>4, <2>5
<1>2. ASSUME NEW k \in 0..N PROVE Due[k] \in Seq(Byte)
  <2>1. N - k \in 0..N /\ N - (N - k) = k
    BY <1>0
  <2> QED BY <1>1, <2>1
<1> QED BY <1>2

\* What is due while a message is to come: its length in four bytes, its body,
\* and what is due after it.
LEMMA DueFirst ==
  ASSUME NEW k \in 0..N, k < N
  PROVE  LET m == Messages[k + 1]
         IN  /\ Due[k] = (<<0, 0, 0, Len(m)>> \o m) \o Due[k + 1]
             /\ SubSeq(Due[k], HeaderLength + 1, Len(Due[k])) = m \o Due[k + 1]
<1> DEFINE m == Messages[k + 1]
           h == <<0, 0, 0, Len(m)>>
           d == Due[k + 1]
<1>0. k + 1 \in 0..N /\ k # N /\ m \in Seq(Byte) /\ Len(m) \in Byte
  BY MessageFacts
<1>1. d \in Seq(Byte)
  BY <1>0, DueType
<1>2. h \in Seq(Byte) /\ Len(h) = 4 /\ Frame(m) \in Seq(Byte) /\ Frame(m) = h \o m
  BY <1>0, FrameFacts
<1>3. Due[k] = Frame(m) \o d
  BY <1>0, DueDef
<1> HIDE DEF m, h, d
<1>4. Len(Frame(m)) = 4 + Len(m) /\ Len(m) \in Nat
  <2>1. Len(h \o m) = Len(h) + Len(m)
    BY <1>0, <1>2, Glue
  <2> QED BY <1>0, <1>2, <2>1
<1>5. 4 \in 0..Len(Frame(m)) /\ 4 \in 0..Len(h)
  BY <1>2, <1>4
<1>6. SubSeq(Frame(m) \o d, 4 + 1, Len(Frame(m) \o d))
        = SubSeq(Frame(m), 4 + 1, Len(Frame(m))) \o d
  BY <1>1, <1>2, <1>5, DropFront
<1>7. SubSeq(h \o m, 4 + 1, Len(h \o m)) = SubSeq(h, 4 + 1, Len(h)) \o m
  BY <1>0, <1>2, <1>5, DropFront
<1>8. SubSeq(h, 4 + 1, Len(h)) = <<>>
  <2>1. 4 + 1 \in Int /\ Len(h) \in Int /\ Len(h) < 4 + 1
    BY <1>2
  <2> QED BY <2>1, SubSeqEmpty
<1>9. <<>> \o m = m
  BY <1>0, ConcatEmptySeq
<1>10. SubSeq(Due[k], 4 + 1, Len(Due[k])) = m \o d
  BY <1>2, <1>3, <1>6, <1>7, <1>8, <1>9
<1>11. HeaderLength = 4
  BY DEF HeaderLength
<1> QED BY <1>2, <1>3, <1>10, <1>11 DEF m, h, d

\* PeekInt of the header finds the length.
LEMMA PeekLength ==
  ASSUME NEW b \in Buffers, NEW c, c = Contents(b), NEW n \in Nat,
         c[1] = 0, c[2] = 0, c[3] = 0, c[4] = n
  PROVE  PeekInt(b, 4) = n
<1> DEFINE Value(f) == f = [k \in 0..4 |-> IF k = 0 THEN 0
                                           ELSE 256 * f[k - 1] + Contents(b)[k]]
           g == [k \in 0..4 |-> IF k = 4 THEN n ELSE 0]
<1>1. ASSUME NEW k \in 0..4
      PROVE  g[k] = IF k = 0 THEN 0 ELSE 256 * g[k - 1] + Contents(b)[k]
  <2>1. k = 0 \/ k = 1 \/ k = 2 \/ k = 3 \/ k = 4
    OBVIOUS
  <2>2. g[0] = 0 /\ g[1] = 0 /\ g[2] = 0 /\ g[3] = 0 /\ g[4] = n
    OBVIOUS
  <2> HIDE DEF g
  <2> QED BY <2>1, <2>2
<1>2. Value(g)
  BY <1>1
<1> DEFINE v == CHOOSE f : Value(f)
<1>3. Value(v)
  <2> HIDE DEF g, Value
  <2> QED BY <1>2
<1>4. PeekInt(b, 4) = v[4]
  BY DEF PeekInt
<1> HIDE DEF v
<1>5. \A k \in 0..4 : v[k] = IF k = 0 THEN 0 ELSE 256 * v[k - 1] + c[k]
  BY <1>3
<1>6. v[0] = 0 /\ v[1] = 0 /\ v[2] = 0 /\ v[3] = 0 /\ v[4] = n
  <2>1. v[0] = 0
    BY <1>5
  <2>2. v[1] = 256 * v[1 - 1] + c[1]
    BY <1>5
  <2>3. v[1] = 0
    BY <2>1, <2>2
  <2>4. v[2] = 256 * v[2 - 1] + c[2]
    BY <1>5
  <2>5. v[2] = 0
    BY <2>3, <2>4
  <2>6. v[3] = 256 * v[3 - 1] + c[3]
    BY <1>5
  <2>7. v[3] = 0
    BY <2>5, <2>6
  <2>8. v[4] = 256 * v[4 - 1] + c[4]
    BY <1>5
  <2>9. v[4] = n
    BY <2>7, <2>8
  <2> QED BY <2>1, <2>3, <2>5, <2>7, <2>9
<1> QED BY <1>4, <1>6

-----------------------------------------------------------------------------
(* TextContext: types and frames, step by step.                            *)

\* What is still to come of the stream.
Ahead == SubSeq(Stream, arrived + 1, Len(Stream))

LEMMA StateFacts ==
  ASSUME TypeOK
  PROVE  /\ buf \in Buffers /\ Contents(buf) \in Seq(Nat)
         /\ Len(Contents(buf)) = Readable(buf) /\ Readable(buf) \in Nat
         /\ unread \in Seq(Byte) /\ unread \in Seq(Nat)
         /\ Stream \in Seq(Byte) /\ Stream \in Seq(Nat) /\ Len(Stream) \in Nat
         /\ arrived \in 0..Len(Stream)
         /\ Ahead \in Seq(Nat)
<1>1. buf \in Buffers /\ unread \in Seq(Byte) /\ arrived \in 0..Len(Stream)
  BY DEF TypeOK, Byte
<1>2. \A s \in Seq(Byte) : s \in Seq(Nat)
  <2>1. Byte \subseteq Nat
    BY DEF Byte
  <2> QED BY <2>1, SeqMonotonic
<1>3. 0 \in 0..N
  BY MessageFacts
<1>4. Stream \in Seq(Byte)
  BY <1>3, DueType DEF Stream
<1>5. Len(Stream) \in Nat
  BY <1>4
<1>6. Ahead \in Seq(Nat)
  BY <1>1, <1>2, <1>4, Suffix DEF Ahead
<1>7. /\ Contents(buf) \in Seq(Nat) /\ Len(Contents(buf)) = Readable(buf)
      /\ Readable(buf) \in Nat
  BY <1>1, ContentsFacts, BufferFacts
<1> QED BY <1>1, <1>2, <1>4, <1>5, <1>6, <1>7

LEMMA InitHolds == Init => TypeOK /\ FramesIntact
<1> SUFFICES ASSUME Init PROVE TypeOK /\ FramesIntact
  OBVIOUS
<1>0. 0 \in 0..N /\ Stream \in Seq(Byte) /\ Len(Stream) \in Nat
  <2>1. 0 \in 0..N
    BY MessageFacts
  <2>2. Stream \in Seq(Byte)
    BY <2>1, DueType DEF Stream
  <2> QED BY <2>1, <2>2
<1>1. buf \in Buffers /\ Contents(buf) = <<>>
  <2>1. InitCap \in Nat /\ Offset <= InitCap
    BY SizesAssumption DEF Offset
  <2>2. New(InitCap) \in Buffers /\ Contents(New(InitCap)) = <<>>
    BY <2>1, NewFacts
  <2> QED BY <2>2 DEF Init
<1>2. TypeOK
  <2>1. arrived \in 0..Len(Stream) /\ unread \in Seq(0..255)
        /\ state \in {"header", "body"} /\ message_length \in Nat
        /\ delivered \in Seq(Seq(0..255)) /\ pc \in {"loop", "parse"}
    BY <1>0 DEF Init
  <2> QED BY <1>1, <2>1 DEF TypeOK
<1>3. Untaken = Stream
  <2>1. arrived = 0 /\ unread = <<>> /\ <<>> \o <<>> = <<>>
    BY DEF Init
  <2>2. SubSeq(Stream, 0 + 1, Len(Stream)) = Stream
    BY <1>0, SubSeqFull
  <2>3. <<>> \o Stream = Stream
    BY <1>0, ConcatEmptySeq
  <2> QED BY <1>1, <2>1, <2>2, <2>3 DEF Untaken
<1>4. delivered = <<>> /\ state = "header" /\ Len(delivered) = 0
  BY DEF Init
<1>5. IsPrefix(delivered, Messages)
  <2>1. delivered \in Seq(Seq(Byte)) /\ Messages \in Seq(Seq(Byte)) /\ 0 <= Len(Messages)
    BY <1>4, MessageFacts DEF N
  <2>2. Len(delivered) <= Len(Messages)
        /\ \A i \in 1..Len(delivered) : delivered[i] = Messages[i]
    BY <1>4, <2>1
  <2> QED BY <2>1, <2>2, PrefixByElement
<1> QED BY <1>2, <1>3, <1>4, <1>5 DEF FramesIntact, Stream

LEMMA ArriveStep ==
  ASSUME TypeOK, NEW n \in 1..Len(Stream), Arrive(n)
  PROVE  TypeOK' /\ Untaken' = Untaken
<1> DEFINE x == SubSeq(Stream, arrived + 1, arrived + n)
           y == SubSeq(Stream, (arrived + n) + 1, Len(Stream))
           c == Contents(buf)
<1>0. /\ buf \in Buffers /\ c \in Seq(Nat) /\ unread \in Seq(Byte)
      /\ unread \in Seq(Nat) /\ Stream \in Seq(Byte) /\ Stream \in Seq(Nat)
      /\ Len(Stream) \in Nat /\ arrived \in 0..Len(Stream)
  BY StateFacts
<1>1. /\ arrived + n <= Len(Stream) /\ arrived' = arrived + n
      /\ unread' = unread \o x
      /\ buf' = buf /\ state' = state /\ message_length' = message_length
      /\ delivered' = delivered /\ pc' = pc
  BY DEF Arrive
<1>2. arrived + n \in 0..Len(Stream) /\ arrived + n \in arrived..Len(Stream)
  BY <1>0, <1>1
<1>3. x \in Seq(Byte) /\ x \in Seq(Nat)
  BY <1>0, <1>2, Piece
<1>4. y \in Seq(Nat)
  BY <1>0, <1>2, Suffix
<1>5. x \o y = Ahead
  <2>1. /\ arrived + 1 \in 1..Len(Stream) + 1
        /\ arrived + n \in ((arrived + 1) - 1)..Len(Stream)
        /\ Len(Stream) \in (arrived + n)..Len(Stream)
    BY <1>0, <1>2
  <2> QED BY <1>0, <2>1, ConcatAdjacentSubSeq DEF Ahead
<1> HIDE DEF x, y, c
<1>6. unread \o x \in Seq(Byte)
  BY <1>0, <1>3, Glue
<1>7. TypeOK'
  <2>1. arrived' \in 0..Len(Stream) /\ unread' \in Seq(Byte)
    BY <1>1, <1>2, <1>6
  <2> QED BY <1>1, <2>1 DEF TypeOK, Byte
<1>8. (c \o (unread \o x)) \o y = (c \o unread) \o (x \o y)
  <2> DEFINE z == c \o unread
  <2>1. c \in Seq(Nat) /\ unread \in Seq(Nat) /\ x \in Seq(Nat)
    BY <1>0, <1>3
  <2>2. Joins(c, unread, x)
    BY <2>1, PiecesJoin, Zenon
  <2>3. z \in Seq(Nat)
    BY <2>1, Glue
  <2> HIDE DEF z
  <2>4. x \in Seq(Nat) /\ y \in Seq(Nat)
    BY <1>3, <1>4
  <2>5. Joins(z, x, y)
    BY <2>3, <2>4, PiecesJoin, Zenon
  <2> QED BY <2>2, <2>5, Zenon DEF z, Joins
<1>9. Untaken' = (c \o (unread \o x)) \o y
  BY <1>1 DEF Untaken, Stream, c, y
<1>10. Untaken = (c \o unread) \o (x \o y)
  BY <1>5 DEF Untaken, Ahead, c
<1> QED BY <1>7, <1>8, <1>9, <1>10

LEMMA OnReadStep ==
  ASSUME TypeOK, OnRead
  PROVE  TypeOK' /\ Untaken' = Untaken
<1> DEFINE n == Smaller(Len(unread), FdCapacity(buf))
           x == SubSeq(unread, 1, n)
           y == SubSeq(unread, n + 1, Len(unread))
           c == Contents(buf)
<1>0. /\ buf \in Buffers /\ c \in Seq(Nat) /\ unread \in Seq(Byte)
      /\ unread \in Seq(Nat) /\ Ahead \in Seq(Nat)
  BY StateFacts
<1>1. /\ buf' = ReadFd(buf, x) /\ unread' = y /\ pc' = "parse"
      /\ arrived' = arrived /\ state' = state /\ message_length' = message_length
      /\ delivered' = delivered
  BY DEF OnRead
<1>2. n \in 0..Len(unread) /\ Len(unread) \in Nat
  <2>1. Writable(buf) \in Nat /\ ExtSize \in Nat
    BY <1>0, BufferFacts, SizesAssumption
  <2>2. FdCapacity(buf) \in Nat
    BY <2>1 DEF FdCapacity
  <2>3. Len(unread) \in Nat
    BY <1>0
  <2> QED BY <2>2, <2>3 DEF Smaller
<1> HIDE DEF n
<1>3. x \in Seq(Byte) /\ x \in Seq(Nat)
  BY <1>0, <1>2, Prefix
<1>4. y \in Seq(Byte) /\ y \in Seq(Nat)
  BY <1>0, <1>2, Suffix
<1>5. x \o y = unread
  <2>1. /\ 1 \in 1..Len(unread) + 1 /\ n \in (1 - 1)..Len(unread)
        /\ Len(unread) \in n..Len(unread)
    BY <1>2
  <2>2. SubSeq(unread, 1, n) \o SubSeq(unread, n + 1, Len(unread))
          = SubSeq(unread, 1, Len(unread))
    BY <1>0, <2>1, ConcatAdjacentSubSeq
  <2> QED BY <1>0, <2>2, SubSeqFull
<1> HIDE DEF x, y
<1>6. buf' \in Buffers /\ Contents(buf') = c \o x
  BY <1>0, <1>1, <1>3, ReadFdFacts
<1>7. TypeOK'
  <2>1. unread' \in Seq(Byte)
    BY <1>1, <1>4
  <2> QED BY <1>1, <1>6, <2>1 DEF TypeOK, Byte
<1> HIDE DEF c
<1>8. (c \o x) \o y = c \o (x \o y)
  <2>1. Joins(c, x, y)
    BY <1>0, <1>3, <1>4, PiecesJoin, Zenon
  <2> QED BY <2>1, Zenon DEF Joins
<1>9. Untaken' = ((c \o x) \o y) \o Ahead
  BY <1>1, <1>6 DEF Untaken, Ahead, Stream
<1>10. Untaken = (c \o unread) \o Ahead
  BY DEF Untaken, Ahead, c
<1> QED BY <1>5, <1>7, <1>8, <1>9, <1>10

\* What Retrieve takes is taken from the front of all that is untaken.
LEMMA RetrieveStep ==
  ASSUME TypeOK, NEW k \in 0..Readable(buf), buf' = Retrieve(buf, k),
         unread' = unread, arrived' = arrived
  PROVE  /\ buf' \in Buffers
         /\ Untaken' = SubSeq(Untaken, k + 1, Len(Untaken))
         /\ SubSeq(Untaken, 1, k) = SubSeq(Contents(buf), 1, k)
         /\ Len(Untaken) >= Readable(buf)
         /\ \A i \in 1..k : Untaken[i] = Contents(buf)[i]
<1> DEFINE c == Contents(buf)
           d == SubSeq(c, k + 1, Len(c))
           z == c \o unread
<1>0. /\ buf \in Buffers /\ c \in Seq(Nat) /\ Len(c) = Readable(buf)
      /\ unread \in Seq(Nat) /\ Ahead \in Seq(Nat) /\ k \in Nat
  BY StateFacts
<1>1. k \in 0..Len(c)
  BY <1>0
<1>2. buf' \in Buffers /\ Contents(buf') = d
  BY <1>0, RetrieveFacts
<1>3. Untaken = z \o Ahead
  BY DEF Untaken, Ahead
<1>4. Untaken' = (d \o unread) \o Ahead
  BY <1>2 DEF Untaken, Ahead, Stream
<1> HIDE DEF c
<1>5. /\ z \in Seq(Nat) /\ Len(z) = Len(c) + Len(unread)
      /\ \A i \in 1..Len(c) : z[i] = c[i]
  BY <1>0, Glue
<1>6. SubSeq(z, k + 1, Len(z)) = d \o unread
  BY <1>0, <1>1, DropFront
<1>7. SubSeq(z, 1, k) = SubSeq(c, 1, k)
  BY <1>0, <1>1, TakeFront
<1> HIDE DEF d, z
<1>8. k \in 0..Len(z) /\ Len(z) >= Len(c)
  <2>1. Len(unread) \in Nat /\ Len(c) \in Nat
    BY <1>0
  <2> QED BY <1>1, <1>5, <2>1
<1>9. SubSeq(z \o Ahead, k + 1, Len(z \o Ahead))
        = SubSeq(z, k + 1, Len(z)) \o Ahead
  BY <1>0, <1>5, <1>8, DropFront
<1>10. SubSeq(z \o Ahead, 1, k) = SubSeq(z, 1, k)
  BY <1>0, <1>5, <1>8, TakeFront
<1>11. /\ Len(z \o Ahead) = Len(z) + Len(Ahead)
       /\ \A i \in 1..Len(z) : (z \o Ahead)[i] = z[i]
  BY <1>0, <1>5, Glue
<1>12. Len(z \o Ahead) >= Len(c)
  <2>1. Len(Ahead) \in Nat /\ Len(z) \in Nat /\ Len(c) \in Nat
    BY <1>0, <1>5
  <2> QED BY <1>8, <1>11, <2>1
<1>13. \A i \in 1..k : (z \o Ahead)[i] = c[i]
  <2>1. \A i \in 1..k : i \in 1..Len(c) /\ i \in 1..Len(z)
    BY <1>0, <1>1, <1>8
  <2> QED BY <1>5, <1>11, <2>1
<1> QED BY <1>0, <1>2, <1>3, <1>4, <1>6, <1>7, <1>9, <1>10, <1>12, <1>13 DEF c

LEMMA ParseHeaderStep ==
  ASSUME TypeOK, FramesIntact, ParseHeader
  PROVE  TypeOK' /\ FramesIntact'
<1> DEFINE k == Len(delivered)
           m == Messages[k + 1]
           c == Contents(buf)
<1>0. /\ buf \in Buffers /\ Readable(buf) \in Nat /\ Readable(buf) >= 4
      /\ state = "header" /\ state' = "body" /\ message_length' = PeekInt(buf, 4)
      /\ buf' = Retrieve(buf, 4)
      /\ arrived' = arrived /\ unread' = unread /\ delivered' = delivered
      /\ pc' = pc
  BY StateFacts DEF ParseHeader, HeaderLength
<1>1. 4 \in 0..Readable(buf)
  BY <1>0
<1>2. /\ buf' \in Buffers /\ Untaken' = SubSeq(Untaken, 4 + 1, Len(Untaken))
      /\ Len(Untaken) >= Readable(buf)
      /\ \A i \in 1..4 : Untaken[i] = c[i]
  BY <1>0, <1>1, RetrieveStep
<1>3. IsPrefix(delivered, Messages) /\ Untaken = Due[k]
  BY <1>0 DEF FramesIntact
<1>4. k \in 0..N
  <2>1. k <= N
    BY <1>3 DEF IsPrefix, N
  <2>2. k \in Nat
    BY DEF TypeOK
  <2> QED BY <2>1, <2>2, MessageFacts
<1>5. k < N
  <2>1. CASE k = N
    <3>1. Due[k] = <<>>
      BY <1>4, <2>1, DueDef
    <3>2. Len(Due[k]) = 0
      BY <3>1
    <3> QED BY <1>0, <1>2, <1>3, <3>2
  <2> QED BY <1>4, <2>1, MessageFacts
<1>6. m \in Seq(Byte) /\ Len(m) \in Byte /\ k + 1 \in 0..N
  BY <1>4, <1>5, MessageFacts
<1> DEFINE h == <<0, 0, 0, Len(m)>>
           d == Due[k + 1]
<1>7. /\ Due[k] = (h \o m) \o d
      /\ SubSeq(Due[k], HeaderLength + 1, Len(Due[k])) = m \o d
  BY <1>4, <1>5, DueFirst
<1>8. h \in Seq(Byte) /\ Len(h) = 4 /\ h[1] = 0 /\ h[2] = 0 /\ h[3] = 0 /\ h[4] = Len(m)
  BY <1>6, FrameFacts
<1>9. d \in Seq(Byte)
  BY <1>6, DueType
<1>10. c[1] = 0 /\ c[2] = 0 /\ c[3] = 0 /\ c[4] = Len(m)
  <2> HIDE DEF h, d, m, c
  <2>1. /\ h \o m \in Seq(Byte) /\ Len(h \o m) = Len(h) + Len(m)
        /\ \A i \in 1..Len(h) : (h \o m)[i] = h[i]
    BY <1>6, <1>8, Glue
  <2>2. \A i \in 1..Len(h \o m) : ((h \o m) \o d)[i] = (h \o m)[i]
    BY <1>9, <2>1, Glue
  <2>3. \A i \in 1..4 : i \in 1..Len(h \o m) /\ i \in 1..Len(h)
    <3>1. Len(m) \in Nat
      BY <1>6
    <3> QED BY <1>8, <2>1, <3>1
  <2>4. \A i \in 1..4 : Due[k][i] = h[i]
    BY <1>7, <2>1, <2>2, <2>3
  <2>5. \A i \in 1..4 : c[i] = h[i]
    BY <1>2, <1>3, <2>4
  <2> QED BY <1>8, <2>5
<1>11. message_length' = Len(m)
  <2>1. Len(m) \in Nat
    BY <1>6
  <2> HIDE DEF m, c
  <2>2. PeekInt(buf, 4) = Len(m)
    BY <1>0, <1>10, <2>1, PeekLength DEF c
  <2> QED BY <1>0, <2>2
<1>12. TypeOK'
  <2>1. message_length' \in Nat
    BY <1>6, <1>11
  <2> HIDE DEF k, m, c, h, d
  <2> QED BY <1>0, <1>2, <2>1 DEF TypeOK, Stream
<1>13. Untaken' = SubSeq(Due[k], HeaderLength + 1, Len(Due[k]))
  BY <1>2, <1>3 DEF HeaderLength
<1> HIDE DEF m, c, h, d
<1>14. FramesIntact'
  BY <1>0, <1>3, <1>5, <1>11, <1>13 DEF FramesIntact, N, m
<1> QED BY <1>12, <1>14

LEMMA ParseBodyStep ==
  ASSUME TypeOK, FramesIntact, ParseBody
  PROVE  TypeOK' /\ FramesIntact'
<1> DEFINE k == Len(delivered)
           m == Messages[k + 1]
           c == Contents(buf)
           d == Due[k + 1]
<1>0. /\ buf \in Buffers /\ Readable(buf) \in Nat
      /\ Readable(buf) >= message_length
      /\ state = "body" /\ state' = "header" /\ message_length' = 0
      /\ delivered' = delivered \o <<SubSeq(c, 1, message_length)>>
      /\ buf' = Retrieve(buf, message_length)
      /\ arrived' = arrived /\ unread' = unread /\ pc' = pc
  BY StateFacts DEF ParseBody, BodyHere
<1>1. /\ IsPrefix(delivered, Messages) /\ k < N /\ message_length = Len(m)
      /\ Untaken = SubSeq(Due[k], HeaderLength + 1, Len(Due[k]))
  BY <1>0 DEF FramesIntact, N
<1>2. k \in 0..N /\ delivered \in Seq(Seq(Byte))
  <2>1. delivered \in Seq(Seq(Byte))
    BY DEF TypeOK, Byte
  <2>2. k \in Nat
    BY <2>1
  <2> QED BY <1>1, <2>1, <2>2, MessageFacts
<1>3. m \in Seq(Byte) /\ Len(m) \in Byte /\ k + 1 \in 1..N /\ k + 1 \in 0..N
  <2>1. m \in Seq(Byte) /\ Len(m) \in Byte /\ k + 1 \in 1..N
    BY <1>1, <1>2, MessageFacts
  <2> QED BY <2>1
<1>4. d \in Seq(Byte)
  BY <1>3, DueType
<1>5. Untaken = m \o d
  BY <1>1, <1>2, DueFirst
<1>6. Len(m) \in Nat /\ Len(m) \in 0..Readable(buf) /\ Len(m) \in 0..Len(m)
  <2>1. Len(m) \in Nat
    BY <1>3
  <2> QED BY <1>0, <1>1, <2>1
<1>7. /\ buf' \in Buffers
      /\ Untaken' = SubSeq(Untaken, Len(m) + 1, Len(Untaken))
      /\ SubSeq(Untaken, 1, Len(m)) = SubSeq(c, 1, Len(m))
  <2> HIDE DEF m
  <2> QED BY <1>0, <1>1, <1>6, RetrieveStep
<1> HIDE DEF m, c, d
<1>8. SubSeq(c, 1, Len(m)) = m
  <2>1. SubSeq(m \o d, 1, Len(m)) = SubSeq(m, 1, Len(m))
    BY <1>3, <1>4, <1>6, TakeFront
  <2>2. SubSeq(m, 1, Len(m)) = m
    BY <1>3, SubSeqFull
  <2> QED BY <1>5, <1>7, <2>1, <2>2
<1>9. Untaken' = d
  <2>1. SubSeq(m \o d, Len(m) + 1, Len(m \o d)) = SubSeq(m, Len(m) + 1, Len(m)) \o d
    BY <1>3, <1>4, <1>6, DropFront
  <2>2. SubSeq(m, Len(m) + 1, Len(m)) = <<>>
    <3>1. Len(m) + 1 \in Int /\ Len(m) \in Int /\ Len(m) < Len(m) + 1
      BY <1>6
    <3> QED BY <3>1, SubSeqEmpty
  <2>3. <<>> \o d = d
    BY <1>4, ConcatEmptySeq
  <2> QED BY <1>5, <1>7, <2>1, <2>2, <2>3
<1>10. delivered' = delivered \o <<m>>
  BY <1>0, <1>1, <1>8
<1>11. /\ delivered' \in Seq(Seq(Byte)) /\ Len(delivered') = k + 1
       /\ \A i \in 1..k : delivered'[i] = delivered[i]
       /\ delivered'[k + 1] = m
  <2>1. <<m>> \in Seq(Seq(Byte)) /\ Len(<<m>>) = 1 /\ <<m>>[1] = m
    BY <1>3
  <2>2. /\ delivered \o <<m>> \in Seq(Seq(Byte))
        /\ Len(delivered \o <<m>>) = Len(delivered) + Len(<<m>>)
        /\ \A i \in 1..Len(delivered) : (delivered \o <<m>>)[i] = delivered[i]
        /\ \A i \in 1..Len(<<m>>) : (delivered \o <<m>>)[Len(delivered) + i] = <<m>>[i]
    BY <1>2, <2>1, Glue
  <2>3. 1 \in 1..Len(<<m>>)
    BY <2>1
  <2>4. (delivered \o <<m>>)[Len(delivered) + 1] = m
    BY <2>1, <2>2, <2>3
  <2> QED BY <1>10, <2>1, <2>2, <2>4
<1>12. IsPrefix(delivered', Messages)
  <2>1. Len(delivered) <= Len(Messages)
        /\ \A i \in 1..k : delivered[i] = Messages[i]
    BY <1>1, <1>2, MessageFacts, PrefixByElement
  <2>2. k + 1 <= Len(Messages)
    BY <1>3 DEF N
  <2>3. \A i \in 1..(k + 1) : i \in 1..k \/ i = k + 1
    BY <1>2
  <2>4. /\ Len(delivered') <= Len(Messages)
        /\ \A i \in 1..Len(delivered') : delivered'[i] = Messages[i]
    BY <1>11, <2>1, <2>2, <2>3 DEF m
  <2>5. Messages \in Seq(Seq(Byte))
    BY MessageFacts
  <2> QED BY <1>11, <2>4, <2>5, PrefixByElement
<1>13. TypeOK'
  <2> HIDE DEF k
  <2>1. delivered' \in Seq(Seq(0..255))
    BY <1>11 DEF Byte
  <2> QED BY <1>0, <1>7, <2>1 DEF TypeOK, Stream
<1>14. FramesIntact'
  BY <1>0, <1>9, <1>11, <1>12 DEF FramesIntact, d
<1> QED BY <1>13, <1>14

\* Steps that change neither the bytes nor what the parser is about.
LEMMA SameParser ==
  ASSUME FramesIntact, Untaken' = Untaken,
         state' = state, message_length' = message_length, delivered' = delivered
  PROVE  FramesIntact'
BY DEF FramesIntact

LEMMA SameBytes ==
  ASSUME TypeOK, FramesIntact,
         UNCHANGED <<arrived, unread, buf, state, message_length, delivered>>,
         pc' \in {"loop", "parse"}
  PROVE  TypeOK' /\ FramesIntact'
<1>1. Untaken' = Untaken
  BY DEF Untaken, Stream
<1>2. FramesIntact'
  BY <1>1, SameParser
<1>3. TypeOK'
  BY DEF TypeOK, Stream
<1> QED BY <1>2, <1>3

LEMMA StepHolds == TypeOK /\ FramesIntact /\ [Next]_vars => TypeOK' /\ FramesIntact'
<1> SUFFICES ASSUME TypeOK, FramesIntact, [Next]_vars
             PROVE  TypeOK' /\ FramesIntact'
  OBVIOUS
<1>1. ASSUME NEW n \in 1..Len(Stream), Arrive(n) PROVE TypeOK' /\ FramesIntact'
  <2>1. TypeOK' /\ Untaken' = Untaken
    BY <1>1, ArriveStep
  <2> QED BY <1>1, <2>1, SameParser DEF Arrive
<1>2. CASE OnRead
  <2>1. TypeOK' /\ Untaken' = Untaken
    BY <1>2, OnReadStep
  <2> QED BY <1>2, <2>1, SameParser DEF OnRead
<1>3. CASE ParseHeader
  BY <1>3, ParseHeaderStep
<1>4. CASE ParseBody
  BY <1>4, ParseBodyStep
<1>5. CASE ParseShort \/ ParseEnd
  BY <1>5, SameBytes DEF ParseShort, ParseEnd
<1>6. CASE ParseSpin \/ UNCHANGED vars
  <2>1. /\ UNCHANGED <<arrived, unread, buf, state, message_length, delivered>>
        /\ pc' \in {"loop", "parse"}
    BY <1>6 DEF ParseSpin, vars, TypeOK
  <2> QED BY <2>1, SameBytes
<1> QED BY <1>1, <1>2, <1>3, <1>4, <1>5, <1>6 DEF Next, ParseMessage

\* However the stream is cut into reads, and whatever the sizes of the buffer,
\* no byte of it is lost, doubled or taken for part of another message, and the
\* messages come out as they were sent (text_context.cpp:13).
THEOREM FramesStayIntact == Spec => []FramesIntact
BY InitHolds, StepHolds, PTL DEF Spec

\* Every buffer that the reading of a stream leads to is one whose operations
\* are those of a queue, and the state has its type (msgbuffer.cpp).
THEOREM BufferStaysAQueue == Spec => []BufferIsAQueue
<1>1. TypeOK => BufferIsAQueue
  <2> SUFFICES ASSUME TypeOK PROVE BufferIsAQueue
    OBVIOUS
  <2>1. /\ <<1>> \in Seq(Nat) /\ <<1, 2, 3, 4>> \in Seq(Nat)
        /\ [i \in 1..(2 * Offset + 1) |-> i] \in Seq(Nat)
    BY DEF Offset
  <2>2. buf \in Buffers
    BY DEF TypeOK
  <2> QED BY <2>1, <2>2, EveryBufferIsAQueue DEF BufferIsAQueue
<1> QED BY InitHolds, StepHolds, <1>1, PTL DEF Spec

=============================================================================
