------------------------ MODULE RtmpHandShakeProofs -------------------------
(* Theorems about RtmpHandShake, for packets of any size and any way the     *)
(* stream is cut into reads and writes.                                      *)
EXTENDS RtmpHandShake, SequenceTheorems, TLAPS

-----------------------------------------------------------------------------
(* Sequences                                                                 *)

Joins(x, y, z) == (x \o y) \o z = x \o (y \o z)

LEMMA Associative ==
  ASSUME NEW S, NEW x \in Seq(S), NEW y \in Seq(S), NEW z \in Seq(S)
  PROVE  Joins(x, y, z)
BY DEF Joins

LEMMA EmptyPart ==
  ASSUME NEW S, NEW x \in Seq(S)
  PROVE  x \o <<>> = x /\ <<>> \o x = x
OBVIOUS

\* Two parts of a sequence.
LEMMA TwoParts ==
  ASSUME NEW S, NEW x \in Seq(S), NEW k \in 0..Len(x)
  PROVE  /\ SubSeq(x, 1, k) \in Seq(S) /\ Drop(x, k) \in Seq(S)
         /\ Len(SubSeq(x, 1, k)) = k /\ Len(Drop(x, k)) = Len(x) - k
         /\ SubSeq(x, 1, k) \o Drop(x, k) = x
         /\ k = Len(x) => SubSeq(x, 1, k) = x /\ Drop(x, k) = <<>>
<1>1. SubSeq(x, 1, k) \in Seq(S) /\ Len(SubSeq(x, 1, k)) = k
  OBVIOUS
<1>2. Drop(x, k) \in Seq(S) /\ Len(Drop(x, k)) = Len(x) - k
  BY DEF Drop
<1>3. \A i \in 1..(Len(x) - k) : Drop(x, k)[i] = x[i + k]
  BY DEF Drop
<1>0. Len(x) \in Nat /\ \A i \in 1..Len(x) : i <= k \/ i > k
  OBVIOUS
<1>4. SubSeq(x, 1, k) \o Drop(x, k) = x
  <2>1. Len(SubSeq(x, 1, k) \o Drop(x, k)) = Len(x)
    BY <1>1, <1>2
  <2>2. ASSUME NEW i \in 1..Len(x)
        PROVE  (SubSeq(x, 1, k) \o Drop(x, k))[i] = x[i]
    <3>1. CASE i <= k
      BY <3>1, <1>1, <1>2
    <3>2. CASE i > k
      <4>1. i - k \in 1..(Len(x) - k) /\ i - k + k = i
        BY <3>2
      <4>2. (SubSeq(x, 1, k) \o Drop(x, k))[i] = Drop(x, k)[i - k]
        BY <3>2, <1>1, <1>2
      <4> QED BY <4>1, <4>2, <1>3
    <3> QED BY <3>1, <3>2, <1>0
  <2>3. SubSeq(x, 1, k) \o Drop(x, k) \in Seq(S)
    BY <1>1, <1>2
  <2>4. \A i \in 1..Len(SubSeq(x, 1, k) \o Drop(x, k)) :
          (SubSeq(x, 1, k) \o Drop(x, k))[i] = x[i]
    BY <2>1, <2>2
  <2> QED BY <2>1, <2>3, <2>4, SeqEqual
<1>5. ASSUME k = Len(x) PROVE SubSeq(x, 1, k) = x /\ Drop(x, k) = <<>>
  <2>1. Len(Drop(x, k)) = 0
    BY <1>2, <1>5
  <2>2. Drop(x, k) = <<>>
    BY <1>2, <2>1, EmptySeq
  <2> QED BY <2>2, <1>1, <1>4, EmptyPart
<1> QED BY <1>1, <1>2, <1>4, <1>5

\* If a stream begins with w and enough of it is at hand, then w is what is
\* taken off its front.
LEMMA CutFront ==
  ASSUME NEW S, NEW x \in Seq(S), NEW y \in Seq(S), NEW w \in Seq(S),
         NEW r \in Seq(S), x \o y = w \o r, Len(x) >= Len(w)
  PROVE  SubSeq(x, 1, Len(w)) = w /\ Drop(x, Len(w)) \o y = r
<1> DEFINE n == Len(w)
<1>1. n \in 0..Len(x)
  OBVIOUS
<1>2. /\ SubSeq(x, 1, n) \in Seq(S) /\ Len(SubSeq(x, 1, n)) = n
      /\ Drop(x, n) \in Seq(S) /\ Len(Drop(x, n)) = Len(x) - n
  BY <1>1, TwoParts
<1>3. \A i \in 1..n : SubSeq(x, 1, n)[i] = w[i]
  <2>1. \A i \in 1..n : (x \o y)[i] = x[i] /\ (w \o r)[i] = w[i]
    BY <1>1
  <2> QED BY <2>1, <1>1
<1>4. SubSeq(x, 1, n) = w
  BY <1>2, <1>3, SeqEqual
<1>5. Len(x) + Len(y) = n + Len(r)
  <2>1. Len(x \o y) = Len(x) + Len(y) /\ Len(w \o r) = n + Len(r)
    OBVIOUS
  <2> QED BY <2>1
<1>6. Len(Drop(x, n) \o y) = Len(r) /\ Drop(x, n) \o y \in Seq(S)
  BY <1>2, <1>5
<1>7. ASSUME NEW i \in 1..Len(r) PROVE (Drop(x, n) \o y)[i] = r[i]
  <2>1. i + n \in 1..(Len(x) + Len(y)) /\ i + n > n
    BY <1>5, <1>1
  <2>2. (w \o r)[i + n] = r[i]
    <3>1. (w \o r)[i + n] = r[i + n - n] /\ i + n - n = i
      BY <2>1, <1>5
    <3> QED BY <3>1
  <2>3. (x \o y)[i + n] = IF i + n <= Len(x) THEN x[i + n] ELSE y[i + n - Len(x)]
    BY <2>1
  <2>4. CASE i + n <= Len(x)
    <3>1. (Drop(x, n) \o y)[i] = Drop(x, n)[i]
      BY <2>4, <1>2, <1>1
    <3>2. Drop(x, n)[i] = x[i + n]
      BY <2>4, <1>1 DEF Drop
    <3> QED BY <3>1, <3>2, <2>2, <2>3, <2>4
  <2>5. CASE i + n > Len(x)
    <3>1. (Drop(x, n) \o y)[i] = y[i - (Len(x) - n)]
      BY <2>5, <1>2, <1>1, <1>5
    <3>2. i - (Len(x) - n) = i + n - Len(x)
      BY <1>1
    <3> QED BY <3>1, <3>2, <2>2, <2>3, <2>5
  <2>6. i + n <= Len(x) \/ i + n > Len(x)
    BY <1>1
  <2> QED BY <2>4, <2>5, <2>6
<1>8. Drop(x, n) \o y = r
  BY <1>6, <1>7, SeqEqual
<1> QED BY <1>4, <1>8

LEMMA NothingLeft ==
  ASSUME NEW S, NEW x \in Seq(S), NEW y \in Seq(S), x \o y = <<>>
  PROVE  x = <<>> /\ y = <<>>
<1>1. Len(x \o y) = Len(x) + Len(y) /\ Len(x \o y) = 0
  OBVIOUS
<1>2. Len(x) = 0 /\ Len(y) = 0
  BY <1>1
<1> QED BY <1>2, EmptySeq

LEMMA SecondAppended ==
  ASSUME NEW p, NEW q
  PROVE  Append(<<p>>, q) = <<p, q>>
<1>1. <<p>> \in Seq({p, q}) /\ <<p, q>> \in Seq({p, q}) /\ q \in {p, q}
  OBVIOUS
<1>2. /\ Append(<<p>>, q) \in Seq({p, q}) /\ Len(Append(<<p>>, q)) = 2
      /\ Append(<<p>>, q)[1] = p /\ Append(<<p>>, q)[2] = q
  <2>1. Len(<<p>>) = 1 /\ <<p>>[1] = p
    OBVIOUS
  <2> QED BY <1>1, <2>1, AppendProperties
<1>3. Len(<<p, q>>) = 2 /\ <<p, q>>[1] = p /\ <<p, q>>[2] = q
  OBVIOUS
<1>4. \A i \in 1..2 : Append(<<p>>, q)[i] = <<p, q>>[i]
  BY <1>2, <1>3
<1> QED BY <1>1, <1>2, <1>3, <1>4, SeqEqual

-----------------------------------------------------------------------------
(* Packets                                                                   *)

LEMMA WholeType ==
  ASSUME PAssumption
  PROVE  \A m \in Messages : Whole(m) \in Seq(Bytes) /\ Len(Whole(m)) = Size(m)
                             /\ Whole(m) # <<>>
<1> SUFFICES ASSUME NEW m \in Messages
             PROVE  Whole(m) \in Seq(Bytes) /\ Len(Whole(m)) = Size(m)
                    /\ Whole(m) # <<>>
  OBVIOUS
<1>1. Size(m) \in 1..(P + 1)
  BY DEF PAssumption, Messages, Size
<1>2. Whole(m) \in [1..Size(m) -> Bytes]
  BY <1>1 DEF Whole, Bytes, PAssumption
<1>3. Whole(m) \in Seq(Bytes) /\ Len(Whole(m)) = Size(m)
  BY <1>1, <1>2
<1> QED BY <1>1, <1>3

LEMMA SizeIs ==
  /\ Size("C0C1") = P + 1 /\ Size("S0S1") = P + 1 /\ Size("C2") = P
  /\ Size("S2") = P /\ Size("connect") = 1
BY DEF Size

-----------------------------------------------------------------------------
(* What a step does to the bytes under way                                   *)

LEMMA PeerIs ==
  /\ Ends = {"client", "server"} /\ Peer("client") = "server"
  /\ Peer("server") = "client"
  /\ \A e \in Ends : Peer(e) \in Ends /\ Peer(Peer(e)) = e /\ Peer(e) # e
BY DEF Ends, Peer

LEMMA AheadType ==
  ASSUME TypeOK, NEW e \in Ends
  PROVE  /\ buf[e] \in Seq(Bytes) /\ net[e] \in Seq(Bytes)
         /\ out[e] \in Seq(Bytes) /\ out[Peer(e)] \in Seq(Bytes)
         /\ Way(e) \in Seq(Bytes) /\ Ahead(e) \in Seq(Bytes)
<1>1. /\ buf[e] \in Seq(Bytes) /\ net[e] \in Seq(Bytes)
      /\ out[e] \in Seq(Bytes) /\ out[Peer(e)] \in Seq(Bytes)
  BY PeerIs DEF TypeOK
<1>2. Way(e) \in Seq(Bytes)
  BY <1>1 DEF Way
<1> QED BY <1>1, <1>2 DEF Ahead

\* SendNow puts the bytes behind what is under way to the peer, whether write
\* takes them or the connection queues them, and touches nothing else.
LEMMA SendEffect ==
  ASSUME TypeOK, NEW e \in Ends, NEW s \in States[e], NEW bs \in Seq(Bytes),
         SendNow(e, s, bs)
  PROVE  /\ Way(Peer(e))' = Way(Peer(e)) \o bs /\ Way(e)' = Way(e)
         /\ hs' \in {[hs EXCEPT ![e] = s], [hs EXCEPT ![e] = Completed(s)]}
         /\ net' \in [Ends -> Seq(Bytes)] /\ out' \in [Ends -> Seq(Bytes)]
<1> DEFINE d == Peer(e)
<1>0. /\ d \in Ends /\ d # e /\ Peer(d) = e
      /\ net \in [Ends -> Seq(Bytes)] /\ out \in [Ends -> Seq(Bytes)]
      /\ hs \in [Ends -> UNION {States[f] : f \in Ends}]
  BY PeerIs DEF TypeOK
<1>1. PICK k \in 1..Len(bs) :
        IF out[e] = <<>>
        THEN /\ net' = [net EXCEPT ![d] = @ \o SubSeq(bs, 1, k)]
             /\ out' = [out EXCEPT ![e] = Drop(bs, k)]
             /\ hs' = [hs EXCEPT ![e] = IF k = Len(bs) THEN Completed(s) ELSE s]
        ELSE /\ out' = [out EXCEPT ![e] = @ \o bs]
             /\ hs' = [hs EXCEPT ![e] = s]
             /\ UNCHANGED net
  BY DEF SendNow
<1>2. /\ SubSeq(bs, 1, k) \in Seq(Bytes) /\ Drop(bs, k) \in Seq(Bytes)
      /\ SubSeq(bs, 1, k) \o Drop(bs, k) = bs
  <2>1. k \in 0..Len(bs)
    OBVIOUS
  <2> QED BY <2>1, TwoParts
<1> HIDE DEF d
<1>3. CASE out[e] = <<>>
  <2>1. /\ net' = [net EXCEPT ![d] = @ \o SubSeq(bs, 1, k)]
        /\ out' = [out EXCEPT ![e] = Drop(bs, k)]
        /\ hs' \in {[hs EXCEPT ![e] = s], [hs EXCEPT ![e] = Completed(s)]}
    BY <1>1, <1>3
  <2>2. net[d] \o SubSeq(bs, 1, k) \in Seq(Bytes)
    BY <1>0, <1>2
  <2>3. net' \in [Ends -> Seq(Bytes)] /\ out' \in [Ends -> Seq(Bytes)]
    BY <2>1, <2>2, <1>0, <1>2
  <2>4. net'[d] = net[d] \o SubSeq(bs, 1, k) /\ out'[e] = Drop(bs, k)
    BY <2>1, <1>0
  <2>5. net'[e] = net[e] /\ out'[d] = out[d]
    BY <2>1, <1>0
  <2>6. Joins(net[d], SubSeq(bs, 1, k), Drop(bs, k))
    BY <1>0, <1>2, Associative
  <2>7. net'[d] \o out'[e] = net[d] \o bs
    BY <2>4, <2>6, <1>2, Zenon DEF Joins
  <2>8. net[d] \o out[e] = net[d]
    BY <1>3, <1>0, EmptyPart
  <2>9. Way(d)' = Way(d) \o bs
    BY <2>7, <2>8, <1>0, Zenon DEF Way
  <2>10. Way(e)' = Way(e)
    BY <2>5, Zenon DEF Way, d
  <2> QED BY <2>1, <2>3, <2>9, <2>10 DEF d
<1>4. CASE out[e] # <<>>
  <2>1. /\ net' = net
        /\ out' = [out EXCEPT ![e] = @ \o bs]
        /\ hs' = [hs EXCEPT ![e] = s]
    BY <1>1, <1>4
  <2>2. out[e] \o bs \in Seq(Bytes)
    BY <1>0
  <2>3. net' \in [Ends -> Seq(Bytes)] /\ out' \in [Ends -> Seq(Bytes)]
    BY <2>1, <2>2, <1>0
  <2>4. out'[e] = out[e] \o bs /\ out'[d] = out[d]
    BY <2>1, <1>0
  <2>6. Joins(net[d], out[e], bs)
    BY <1>0, Associative
  <2>9. Way(d)' = Way(d) \o bs
    BY <2>1, <2>4, <2>6, <1>0, Zenon DEF Way, Joins
  <2>10. Way(e)' = Way(e)
    BY <2>1, <2>4, Zenon DEF Way, d
  <2> QED BY <2>1, <2>3, <2>9, <2>10 DEF d
<1> QED BY <1>3, <1>4

\* Flush moves bytes from the queue to the net, and may end a write.
LEMMA FlushEffect ==
  ASSUME TypeOK, NEW e \in Ends, Flush(e)
  PROVE  /\ \A f \in Ends : Way(f)' = Way(f) /\ Ahead(f)' = Ahead(f)
         /\ \/ hs' = hs
            \/ ctx[e] = "handshake" /\ hs' = [hs EXCEPT ![e] = Completed(@)]
         /\ net' \in [Ends -> Seq(Bytes)] /\ out' \in [Ends -> Seq(Bytes)]
<1> DEFINE d == Peer(e)
<1>0. /\ d \in Ends /\ d # e /\ Peer(d) = e /\ Ends = {d, e}
      /\ net \in [Ends -> Seq(Bytes)] /\ out \in [Ends -> Seq(Bytes)]
  BY PeerIs DEF TypeOK
<1>1. PICK k \in 1..Len(out[e]) :
        /\ net' = [net EXCEPT ![d] = @ \o SubSeq(out[e], 1, k)]
        /\ out' = [out EXCEPT ![e] = Drop(@, k)]
        /\ hs' = IF k = Len(out[e]) /\ ctx[e] = "handshake"
                 THEN [hs EXCEPT ![e] = Completed(@)] ELSE hs
  BY DEF Flush
<1>2. /\ SubSeq(out[e], 1, k) \in Seq(Bytes) /\ Drop(out[e], k) \in Seq(Bytes)
      /\ SubSeq(out[e], 1, k) \o Drop(out[e], k) = out[e]
  <2>1. k \in 0..Len(out[e]) /\ out[e] \in Seq(Bytes)
    BY <1>0
  <2> QED BY <2>1, TwoParts
<1>3. buf' = buf
  BY DEF Flush
<1> HIDE DEF d
<1>4. net[d] \o SubSeq(out[e], 1, k) \in Seq(Bytes)
  BY <1>0, <1>2
<1>5. net' \in [Ends -> Seq(Bytes)] /\ out' \in [Ends -> Seq(Bytes)]
  BY <1>1, <1>4, <1>0, <1>2
<1>6. /\ net'[d] = net[d] \o SubSeq(out[e], 1, k) /\ out'[e] = Drop(out[e], k)
      /\ net'[e] = net[e] /\ out'[d] = out[d]
  BY <1>1, <1>0
<1>7. Joins(net[d], SubSeq(out[e], 1, k), Drop(out[e], k))
  BY <1>0, <1>2, Associative
<1>8. Way(d)' = Way(d)
  BY <1>0, <1>2, <1>6, <1>7, Zenon DEF Way, Joins
<1>9. Way(e)' = Way(e)
  BY <1>6, Zenon DEF Way, d
<1>10. \A f \in Ends : Way(f)' = Way(f)
  BY <1>0, <1>8, <1>9
<1>11. \A f \in Ends : Ahead(f)' = Ahead(f)
  BY <1>3, <1>10 DEF Ahead
<1> QED BY <1>1, <1>5, <1>10, <1>11

\* Read moves bytes from the net to the buffer.
LEMMA ReadEffect ==
  ASSUME TypeOK, NEW e \in Ends, Read(e)
  PROVE  /\ \A f \in Ends : Ahead(f)' = Ahead(f)
         /\ net' \in [Ends -> Seq(Bytes)] /\ buf' \in [Ends -> Seq(Bytes)]
<1> DEFINE d == Peer(e)
<1>0. /\ d \in Ends /\ d # e /\ Peer(d) = e /\ Ends = {d, e}
      /\ net \in [Ends -> Seq(Bytes)] /\ out \in [Ends -> Seq(Bytes)]
      /\ buf \in [Ends -> Seq(Bytes)]
  BY PeerIs DEF TypeOK
<1>1. PICK k \in 1..Len(net[e]) :
        /\ buf' = [buf EXCEPT ![e] = @ \o SubSeq(net[e], 1, k)]
        /\ net' = [net EXCEPT ![e] = Drop(@, k)]
  BY DEF Read
<1> DEFINE x == SubSeq(net[e], 1, k)
           y == Drop(net[e], k)
<1>2. x \in Seq(Bytes) /\ y \in Seq(Bytes) /\ x \o y = net[e]
  <2>1. k \in 0..Len(net[e]) /\ net[e] \in Seq(Bytes)
    BY <1>0
  <2> QED BY <2>1, TwoParts
<1>3. out' = out
  BY DEF Read
<1>11. buf' = [buf EXCEPT ![e] = @ \o x] /\ net' = [net EXCEPT ![e] = y]
  BY <1>1
<1> HIDE DEF d, x, y
<1>4. buf[e] \o x \in Seq(Bytes)
  BY <1>0, <1>2
<1>5. net' \in [Ends -> Seq(Bytes)] /\ buf' \in [Ends -> Seq(Bytes)]
  BY <1>11, <1>4, <1>0, <1>2
<1>6. /\ buf'[e] = buf[e] \o x /\ net'[e] = y
      /\ buf'[d] = buf[d] /\ net'[d] = net[d]
  BY <1>11, <1>0
<1>7. Joins(x, y, out[d]) /\ Joins(buf[e], x, y \o out[d])
  <2>1. y \o out[d] \in Seq(Bytes) /\ out[d] \in Seq(Bytes)
        /\ buf[e] \in Seq(Bytes)
    BY <1>0, <1>2
  <2> QED BY <2>1, <1>2, Associative
<1>8. Ahead(e) = buf[e] \o (net[e] \o out[d])
  BY Zenon DEF Ahead, Way, d
<1>9. Ahead(e)' = (buf[e] \o x) \o (y \o out[d])
  BY <1>3, <1>6, Zenon DEF Ahead, Way, d
<1>10. Ahead(e)' = Ahead(e)
  BY <1>2, <1>7, <1>8, <1>9, Zenon DEF Joins
<1>12. Ahead(d)' = Ahead(d)
  BY <1>0, <1>3, <1>6, Zenon DEF Ahead, Way
<1> QED BY <1>0, <1>5, <1>10, <1>12

-----------------------------------------------------------------------------
(* Types                                                                     *)

LEMMA CompletedType ==
  /\ \A e \in Ends : \A s \in States[e] : Completed(s) \in States[e]
  /\ Completed("PostS0S1") = "WaitC2" /\ Completed("PostS2") = "Done"
  /\ Completed("PostC0C1") = "WaitS0S1" /\ Completed("PostC2") = "WaitS2"
  /\ \A s \in {"Init", "WaitC0C1", "WaitC2", "WaitS0S1", "WaitS2", "Done"} :
       Completed(s) = s
BY DEF Ends, States, Completed

LEMMA HsType ==
  ASSUME TypeOK, NEW e \in Ends, NEW t \in States[e], hs' = [hs EXCEPT ![e] = t]
  PROVE  /\ hs' \in [Ends -> UNION {States[f] : f \in Ends}]
         /\ \A f \in Ends : hs'[f] \in States[f]
         /\ hs'[e] = t /\ hs'[Peer(e)] = hs[Peer(e)]
<1>1. /\ hs \in [Ends -> UNION {States[f] : f \in Ends}]
      /\ \A f \in Ends : hs[f] \in States[f]
      /\ t \in UNION {States[f] : f \in Ends}
  BY DEF TypeOK
<1>2. \A f \in Ends : hs'[f] = IF f = e THEN t ELSE hs[f]
  BY <1>1
<1> QED BY <1>1, <1>2, PeerIs

\* HandShake retrieves at most what the buffer holds, and what was retrieved
\* before stays retrieved.
LEMMA TakeEffect ==
  ASSUME PAssumption, TypeOK, NEW e \in Ends, NEW m \in Messages, Take(e, m)
  PROVE  /\ taken' \in [Ends -> Seq([as : Messages, bytes : Seq(Bytes)])]
         /\ taken'[Peer(e)] = taken[Peer(e)]
         /\ Len(buf[e]) >= Reads(hs[e]) =>
              taken'[e] = Append(taken[e],
                            [as |-> m, bytes |-> SubSeq(buf[e], 1, Reads(hs[e]))])
         /\ Len(buf[e]) < Reads(hs[e]) =>
              taken'[e] = Append(taken[e],
                            [as |-> m, bytes |-> SubSeq(buf[e], 1, Len(buf[e]))])
         /\ CutShort => CutShort'
<1> DEFINE n == Smaller(Reads(hs[e]), Len(buf[e]))
           p == [as |-> m, bytes |-> SubSeq(buf[e], 1, n)]
           T == [as : Messages, bytes : Seq(Bytes)]
<1>0. /\ taken \in [Ends -> Seq(T)] /\ buf[e] \in Seq(Bytes)
      /\ Len(buf[e]) \in Nat /\ Reads(hs[e]) \in Nat
  <2>1. taken \in [Ends -> Seq(T)]
    BY DEF TypeOK
  <2>2. buf[e] \in Seq(Bytes)
    BY AheadType
  <2>3. Len(buf[e]) \in Nat
    BY <2>2
  <2>4. Reads(hs[e]) \in Nat
    BY DEF Reads, PAssumption
  <2> QED BY <2>1, <2>2, <2>3, <2>4
<1>1. n \in 0..Len(buf[e])
  BY <1>0 DEF Smaller
<1>2. p \in T
  <2>1. SubSeq(buf[e], 1, n) \in Seq(Bytes)
    BY <1>0, <1>1, TwoParts
  <2> QED BY <2>1
<1>3. taken' = [taken EXCEPT ![e] = Append(@, p)]
  BY DEF Take
<1>4. Len(buf[e]) >= Reads(hs[e]) => n = Reads(hs[e])
  BY <1>0 DEF Smaller
<1>5. Len(buf[e]) < Reads(hs[e]) => n = Len(buf[e])
  BY <1>0 DEF Smaller
<1> HIDE DEF n, T
<1>6. taken' \in [Ends -> Seq(T)]
  <2>1. Append(taken[e], p) \in Seq(T)
    BY <1>0, <1>2, AppendProperties
  <2> QED BY <2>1, <1>0, <1>3
<1>7. taken'[e] = Append(taken[e], p) /\ taken'[Peer(e)] = taken[Peer(e)]
  BY <1>0, <1>3, PeerIs
<1>8. CutShort => CutShort'
  <2> SUFFICES ASSUME CutShort PROVE CutShort'
    OBVIOUS
  <2>1. PICK i \in DOMAIN taken["client"] :
          taken["client"][i].as = "S0S1" /\ Len(taken["client"][i].bytes) = P
    BY DEF CutShort
  <2>2. i \in DOMAIN taken'["client"] /\ taken'["client"][i] = taken["client"][i]
    <3>1. CASE e = "client"
      <4>1. taken["client"] \in Seq(T)
        BY <1>0, PeerIs
      <4>2. i \in 1..Len(taken["client"])
        BY <4>1, <2>1
      <4>3. taken'["client"] = Append(taken["client"], p)
        BY <1>7, <3>1
      <4> HIDE DEF p
      <4> QED BY <4>1, <4>2, <4>3, <1>2, AppendProperties
    <3>2. CASE e = "server"
      BY <1>7, <3>2, PeerIs, <2>1
    <3> QED BY <3>1, <3>2, PeerIs
  <2> QED BY <2>1, <2>2 DEF CutShort
<1> QED BY <1>4, <1>5, <1>6, <1>7, <1>8 DEF T

-----------------------------------------------------------------------------
(* The invariant, action by action                                           *)

LEMMA InitHolds == ASSUME PAssumption, Init PROVE Inv
<1>1. TypeOK
  <2>1. /\ "client" \in Ends /\ "server" \in Ends
        /\ hs["client"] = "Init" /\ hs["server"] = "WaitC0C1"
        /\ hs["client"] \in States["client"] /\ hs["server"] \in States["server"]
    BY DEF Init, Ends, States
  <2>2. hs \in [Ends -> UNION {States[e] : e \in Ends}]
    BY <2>1, PeerIs DEF Init
  <2>3. \A e \in Ends : hs[e] \in States[e]
    BY <2>1, PeerIs
  <2>4. <<>> \in Seq(Bytes) /\ <<>> \in Seq([as : Messages, bytes : Seq(Bytes)])
    OBVIOUS
  <2>5. ctx \in [Ends -> {"handshake", "message"}] /\ call \subseteq Ends
        /\ closed \in BOOLEAN
    BY DEF Init
  <2>6. /\ buf \in [Ends -> Seq(Bytes)] /\ net \in [Ends -> Seq(Bytes)]
        /\ out \in [Ends -> Seq(Bytes)] /\ stream \in [Ends -> Seq(Bytes)]
    BY <2>4 DEF Init
  <2>7. taken \in [Ends -> Seq([as : Messages, bytes : Seq(Bytes)])]
    BY <2>4 DEF Init
  <2> QED BY <2>2, <2>3, <2>5, <2>6, <2>7 DEF TypeOK
<1>2. Ahead("client") = <<>> /\ Ahead("server") = <<>>
  BY PeerIs DEF Init, Ahead, Way
<1>3. /\ hs["client"] = "Init" /\ hs["server"] = "WaitC0C1"
      /\ \A e \in Ends : ctx[e] = "handshake" /\ taken[e] = <<>> /\ stream[e] = <<>>
  BY DEF Init
<1>4. ServerInv
  BY <1>2, <1>3, PeerIs DEF ServerInv
<1>5. ClientInv
  BY <1>2, <1>3, PeerIs DEF ClientInv
<1> QED BY <1>1, <1>4, <1>5 DEF Inv

LEMMA StartStep == ASSUME PAssumption, Inv, Start PROVE Inv'
<1>0. /\ TypeOK /\ ServerInv /\ (CutShort \/ ClientInv) /\ hs["client"] = "Init"
      /\ SendNow("client", "PostC0C1", Whole("C0C1"))
      /\ UNCHANGED <<ctx, buf, call, taken, stream, closed>>
  BY DEF Inv, Start
<1>1. Whole("C0C1") \in Seq(Bytes)
  BY WholeType DEF Messages
<1>2. "PostC0C1" \in States["client"] /\ "WaitS0S1" \in States["client"]
      /\ Completed("PostC0C1") = "WaitS0S1"
  BY CompletedType DEF States
<1>3. /\ Way("server")' = Way("server") \o Whole("C0C1")
      /\ Way("client")' = Way("client")
      /\ hs' \in {[hs EXCEPT !["client"] = "PostC0C1"],
                  [hs EXCEPT !["client"] = "WaitS0S1"]}
      /\ net' \in [Ends -> Seq(Bytes)] /\ out' \in [Ends -> Seq(Bytes)]
  BY <1>0, <1>1, <1>2, SendEffect, PeerIs
<1>4. /\ hs' \in [Ends -> UNION {States[f] : f \in Ends}]
      /\ \A f \in Ends : hs'[f] \in States[f]
      /\ hs'["client"] \in {"PostC0C1", "WaitS0S1"} /\ hs'["server"] = hs["server"]
  BY <1>0, <1>2, <1>3, HsType, PeerIs
<1>5. TypeOK'
  BY <1>0, <1>3, <1>4 DEF TypeOK
<1>6. Ahead("client")' = Ahead("client")
  BY <1>0, <1>3 DEF Ahead
<1>7. Ahead("server")' = Ahead("server") \o Whole("C0C1")
  <2>1. buf["server"] \in Seq(Bytes) /\ Way("server") \in Seq(Bytes)
    BY <1>0, AheadType, PeerIs
  <2>2. Joins(buf["server"], Way("server"), Whole("C0C1"))
    BY <2>1, <1>1, Associative
  <2>3. buf' = buf
    BY <1>0
  <2> QED BY <1>3, <2>2, <2>3, Zenon DEF Ahead, Joins
<1>8. ServerInv'
  <2>1. hs["server"] = "WaitC0C1"
    <3>1. hs["server"] \in States["server"]
      BY <1>0, PeerIs DEF TypeOK
    <3> QED BY <3>1, <1>0 DEF ServerInv, States
  <2>2. Ahead("server")' = Whole("C0C1")
    <3>1. Ahead("server") = <<>>
      BY <2>1, <1>0 DEF ServerInv
    <3> QED BY <3>1, <1>1, <1>7, EmptyPart
  <2>3. AfterC0C1' = <<>>
    BY <1>4 DEF AfterC0C1
  <2>4. Ahead("server")' = Whole("C0C1") \o AfterC0C1'
    BY <2>2, <2>3, <1>1, EmptyPart
  <2> QED BY <1>0, <1>4, <2>1, <2>4 DEF ServerInv
<1>9. CutShort => CutShort'
  BY <1>0 DEF CutShort
<1>10. ClientInv => ClientInv'
  BY <1>0, <1>4, <1>6 DEF ClientInv, AfterS0S1
<1> QED BY <1>0, <1>5, <1>8, <1>9, <1>10 DEF Inv

\* A step that leaves what the ends have and have sent to each other alone, and
\* moves the state of an end at most past the end of a write.
LEMMA QuietStep ==
  ASSUME Inv, TypeOK', NEW e \in Ends, UNCHANGED <<ctx, taken, stream>>,
         \A f \in Ends : Ahead(f)' = Ahead(f),
         \/ hs' = hs
         \/ ctx[e] = "handshake" /\ hs' = [hs EXCEPT ![e] = Completed(@)]
  PROVE  Inv'
<1>0. /\ TypeOK /\ ServerInv /\ (CutShort \/ ClientInv)
      /\ Ahead("client")' = Ahead("client") /\ Ahead("server")' = Ahead("server")
      /\ \A f \in Ends : hs[f] \in States[f]
  BY PeerIs DEF Inv, TypeOK
<1>1. \A f \in Ends : hs'[f] \in {hs[f], Completed(hs[f])}
  BY <1>0 DEF TypeOK
<1>2. hs["client"] \in States["client"] /\ hs["server"] \in States["server"]
  BY <1>0, PeerIs
<1>3. /\ (hs["client"] = "Init") = (hs'["client"] = "Init")
      /\ (hs["client"] \in {"PostC0C1", "WaitS0S1"})
           = (hs'["client"] \in {"PostC0C1", "WaitS0S1"})
      /\ (hs["client"] \in {"PostC2", "WaitS2"})
           = (hs'["client"] \in {"PostC2", "WaitS2"})
      /\ (hs["client"] = "Done") = (hs'["client"] = "Done")
  <2>1. hs'["client"] \in {hs["client"], Completed(hs["client"])}
    BY <1>1, PeerIs
  <2> QED BY <2>1, <1>2 DEF Completed, States
<1>4. /\ (hs["server"] = "WaitC0C1") = (hs'["server"] = "WaitC0C1")
      /\ (hs["server"] \in {"PostS0S1", "WaitC2"})
           = (hs'["server"] \in {"PostS0S1", "WaitC2"})
      /\ (hs["server"] \in {"PostS2", "Done"}) = (hs'["server"] \in {"PostS2", "Done"})
  <2>1. hs'["server"] \in {hs["server"], Completed(hs["server"])}
    BY <1>1, PeerIs
  <2> QED BY <2>1, <1>2 DEF Completed, States
<1>5. AfterC2' = AfterC2 /\ AfterC0C1' = AfterC0C1 /\ AfterS0S1' = AfterS0S1
  <2>1. AfterC2' = AfterC2
    BY <1>3 DEF AfterC2
  <2>2. AfterC0C1' = AfterC0C1
    BY <2>1, <1>3 DEF AfterC0C1
  <2>3. AfterS0S1' = AfterS0S1
    BY <1>4 DEF AfterS0S1
  <2> QED BY <2>1, <2>2, <2>3
<1>6. ServerInv'
  BY <1>0, <1>3, <1>4, <1>5 DEF ServerInv
<1>7. ClientInv => ClientInv'
  BY <1>0, <1>3, <1>4, <1>5 DEF ClientInv
<1>8. CutShort => CutShort'
  BY DEF CutShort
<1> QED BY <1>0, <1>6, <1>7, <1>8 DEF Inv

LEMMA FlushStep == ASSUME PAssumption, Inv, NEW e \in Ends, Flush(e) PROVE Inv'
<1>0. /\ TypeOK /\ UNCHANGED <<ctx, buf, call, taken, stream, closed>>
      /\ hs[e] \in States[e]
  BY DEF Inv, Flush, TypeOK
<1>1. /\ \A f \in Ends : Ahead(f)' = Ahead(f)
      /\ \/ hs' = hs
         \/ ctx[e] = "handshake" /\ hs' = [hs EXCEPT ![e] = Completed(@)]
      /\ net' \in [Ends -> Seq(Bytes)] /\ out' \in [Ends -> Seq(Bytes)]
  BY <1>0, FlushEffect
<1>2. /\ hs' \in [Ends -> UNION {States[f] : f \in Ends}]
      /\ \A f \in Ends : hs'[f] \in States[f]
  <2>1. CASE hs' = hs
    BY <2>1, <1>0 DEF TypeOK
  <2>2. CASE hs' = [hs EXCEPT ![e] = Completed(@)]
    <3>1. Completed(hs[e]) \in States[e]
      BY <1>0, CompletedType
    <3> QED BY <3>1, <2>2, <1>0, HsType
  <2> QED BY <2>1, <2>2, <1>1
<1>3. TypeOK'
  BY <1>0, <1>1, <1>2 DEF TypeOK
<1>9. UNCHANGED <<ctx, taken, stream>>
  BY <1>0
<1>10. \/ hs' = hs
       \/ ctx[e] = "handshake" /\ hs' = [hs EXCEPT ![e] = Completed(@)]
  BY <1>1
<1> QED BY <1>9, <1>10, <1>1, <1>3, QuietStep

LEMMA ReadStep == ASSUME PAssumption, Inv, NEW e \in Ends, Read(e) PROVE Inv'
<1>0. /\ TypeOK /\ call' = call \cup {e}
      /\ UNCHANGED <<hs, ctx, out, taken, stream, closed>>
  BY DEF Inv, Read
<1>1. /\ \A f \in Ends : Ahead(f)' = Ahead(f)
      /\ net' \in [Ends -> Seq(Bytes)] /\ buf' \in [Ends -> Seq(Bytes)]
  BY <1>0, ReadEffect
<1>2. TypeOK'
  BY <1>0, <1>1 DEF TypeOK
<1>9. UNCHANGED <<ctx, taken, stream>>
  BY <1>0
<1>10. \/ hs' = hs
       \/ ctx[e] = "handshake" /\ hs' = [hs EXCEPT ![e] = Completed(@)]
  BY <1>0
<1> QED BY <1>9, <1>10, <1>1, <1>2, QuietStep

LEMMA IdleStep ==
  ASSUME PAssumption, Inv, NEW e \in Ends, Wait(e) \/ RejectS0S1 \/ UNCHANGED vars
  PROVE  Inv'
<1>0. /\ TypeOK /\ call' \subseteq call /\ closed' \in BOOLEAN
      /\ UNCHANGED <<hs, ctx, buf, net, out, taken, stream>>
  BY DEF Inv, Wait, RejectS0S1, vars, TypeOK
<1>1. TypeOK'
  BY <1>0 DEF TypeOK
<1>2. \A f \in Ends : Ahead(f)' = Ahead(f)
  BY <1>0 DEF Ahead, Way
<1>9. UNCHANGED <<ctx, taken, stream>>
  BY <1>0
<1>10. \/ hs' = hs
       \/ ctx[e] = "handshake" /\ hs' = [hs EXCEPT ![e] = Completed(@)]
  BY <1>0
<1> QED BY <1>9, <1>10, <1>1, <1>2, QuietStep

\* The server takes C0C1 whole: they are what the client has sent first.
LEMMA TakeC0C1Step == ASSUME PAssumption, Inv, TakeC0C1 PROVE Inv'
<1>0. /\ TypeOK /\ ServerInv /\ (CutShort \/ ClientInv)
      /\ hs["server"] = "WaitC0C1" /\ Len(buf["server"]) >= P + 1
      /\ Take("server", "C0C1")
      /\ buf' = [buf EXCEPT !["server"] = Drop(@, P + 1)]
      /\ SendNow("server", "PostS0S1", Whole("S0S1"))
      /\ UNCHANGED <<ctx, stream, closed>>
      /\ Reads(hs["server"]) = P + 1
  BY DEF Inv, TakeC0C1, In, Enough, Need, Reads
<1>1. /\ Whole("S0S1") \in Seq(Bytes)
      /\ Whole("C0C1") \in Seq(Bytes) /\ Len(Whole("C0C1")) = P + 1
  BY WholeType, SizeIs DEF Messages
<1>2. "PostS0S1" \in States["server"] /\ "WaitC2" \in States["server"]
      /\ Completed("PostS0S1") = "WaitC2"
  BY CompletedType DEF States
<1>3. /\ Way("client")' = Way("client") \o Whole("S0S1")
      /\ Way("server")' = Way("server")
      /\ hs' \in {[hs EXCEPT !["server"] = "PostS0S1"],
                  [hs EXCEPT !["server"] = "WaitC2"]}
      /\ net' \in [Ends -> Seq(Bytes)] /\ out' \in [Ends -> Seq(Bytes)]
  BY <1>0, <1>1, <1>2, SendEffect, PeerIs
<1>4. /\ hs' \in [Ends -> UNION {States[f] : f \in Ends}]
      /\ \A f \in Ends : hs'[f] \in States[f]
      /\ hs'["server"] \in {"PostS0S1", "WaitC2"} /\ hs'["client"] = hs["client"]
  BY <1>0, <1>2, <1>3, HsType, PeerIs
<1>5. /\ buf["server"] \in Seq(Bytes) /\ Way("server") \in Seq(Bytes)
      /\ buf["client"] \in Seq(Bytes) /\ Way("client") \in Seq(Bytes)
      /\ buf \in [Ends -> Seq(Bytes)]
  BY <1>0, AheadType, PeerIs DEF TypeOK
<1>6. /\ hs["client"] # "Init" /\ taken["server"] = <<>> /\ stream["server"] = <<>>
      /\ buf["server"] \o Way("server") = Whole("C0C1") \o AfterC0C1
  <2>1. taken["server"] = <<>> /\ stream["server"] = <<>>
        /\ Ahead("server") = IF hs["client"] = "Init" THEN <<>>
                             ELSE Whole("C0C1") \o AfterC0C1
    BY <1>0 DEF ServerInv
  <2>2. Ahead("server") # <<>>
    <3>1. Len(buf["server"]) > 0
      BY <1>0 DEF PAssumption
    <3>2. buf["server"] # <<>>
      BY <3>1
    <3> QED BY <3>2, <1>5, NothingLeft DEF Ahead
  <2> QED BY <2>1, <2>2 DEF Ahead
<1>7. AfterC0C1 \in Seq(Bytes)
  BY WholeType DEF AfterC0C1, AfterC2, Messages
<1>8. /\ SubSeq(buf["server"], 1, P + 1) = Whole("C0C1")
      /\ Drop(buf["server"], P + 1) \o Way("server") = AfterC0C1
  <2>1. Len(buf["server"]) >= Len(Whole("C0C1"))
    BY <1>0, <1>1
  <2>2. /\ SubSeq(buf["server"], 1, Len(Whole("C0C1"))) = Whole("C0C1")
        /\ Drop(buf["server"], Len(Whole("C0C1"))) \o Way("server") = AfterC0C1
    BY <2>1, <1>1, <1>5, <1>6, <1>7, CutFront
  <2> QED BY <2>2, <1>1
<1>9. /\ taken' \in [Ends -> Seq([as : Messages, bytes : Seq(Bytes)])]
      /\ taken'["client"] = taken["client"]
      /\ taken'["server"] = <<Packet("C0C1")>>
      /\ CutShort => CutShort'
  <2>1. "C0C1" \in Messages
    BY DEF Messages
  <2>2. /\ taken' \in [Ends -> Seq([as : Messages, bytes : Seq(Bytes)])]
        /\ taken'[Peer("server")] = taken[Peer("server")]
        /\ Len(buf["server"]) >= Reads(hs["server"]) =>
             taken'["server"] = Append(taken["server"],
               [as |-> "C0C1",
                bytes |-> SubSeq(buf["server"], 1, Reads(hs["server"]))])
        /\ CutShort => CutShort'
    BY <2>1, <1>0, TakeEffect, PeerIs
  <2>3. taken'["server"] = Append(<<>>, Packet("C0C1"))
    BY <2>2, <1>0, <1>6, <1>8 DEF Packet
  <2>4. Append(<<>>, Packet("C0C1")) = <<Packet("C0C1")>>
    OBVIOUS
  <2> QED BY <2>2, <2>3, <2>4, PeerIs
<1>10. buf' \in [Ends -> Seq(Bytes)] /\ call' \subseteq Ends
  <2>1. P + 1 \in 0..Len(buf["server"])
    BY <1>0, <1>5 DEF PAssumption
  <2>2. Drop(buf["server"], P + 1) \in Seq(Bytes)
    BY <2>1, <1>5, TwoParts
  <2> QED BY <2>2, <1>0, <1>5 DEF TakeC0C1, TypeOK
<1>11. TypeOK'
  BY <1>0, <1>3, <1>4, <1>9, <1>10 DEF TypeOK
<1>12. Ahead("server")' = AfterC0C1'
  <2>1. buf'["server"] = Drop(buf["server"], P + 1)
    BY <1>0, <1>5, PeerIs
  <2>2. AfterC0C1' = AfterC0C1
    BY <1>4 DEF AfterC0C1, AfterC2
  <2> QED BY <2>1, <2>2, <1>3, <1>8 DEF Ahead
<1>13. Ahead("client")' = Ahead("client") \o Whole("S0S1")
  <2>1. buf'["client"] = buf["client"]
    BY <1>0, <1>5, PeerIs
  <2>2. Joins(buf["client"], Way("client"), Whole("S0S1"))
    BY <1>1, <1>5, Associative
  <2> QED BY <1>3, <2>1, <2>2, Zenon DEF Ahead, Joins
<1>14. ServerInv'
  BY <1>0, <1>4, <1>6, <1>9, <1>12 DEF ServerInv
<1>15. ClientInv => ClientInv'
  <2> SUFFICES ASSUME ClientInv PROVE ClientInv'
    OBVIOUS
  <2>1. /\ hs["client"] \in {"Init", "PostC0C1", "WaitS0S1"}
        /\ Ahead("client") = <<>> /\ taken["client"] = <<>>
    <3>1. hs["client"] \in States["client"]
      BY <1>0, PeerIs DEF TypeOK
    <3> QED BY <3>1, <1>0 DEF ClientInv, States
  <2>2. AfterS0S1' = <<>>
    BY <1>4 DEF AfterS0S1
  <2>3. Ahead("client")' = Whole("S0S1") \o AfterS0S1'
    BY <2>1, <2>2, <1>1, <1>13, EmptyPart
  <2> QED BY <2>1, <2>3, <1>0, <1>4, <1>9 DEF ClientInv
<1> QED BY <1>0, <1>9, <1>11, <1>14, <1>15 DEF Inv

\* The server takes C2 whole, and what it hands to ParseMessage begins where C2
\* ends.
LEMMA TakeC2Step == ASSUME PAssumption, Inv, TakeC2 PROVE Inv'
<1>0. /\ TypeOK /\ ServerInv /\ (CutShort \/ ClientInv)
      /\ hs["server"] = "WaitC2" /\ Len(buf["server"]) >= P
      /\ Take("server", "C2")
      /\ SendNow("server", "PostS2", Whole("S2"))
      /\ ctx' = [ctx EXCEPT !["server"] = "message"]
      /\ stream' = [stream EXCEPT !["server"] = Drop(buf["server"], P)]
      /\ buf' = [buf EXCEPT !["server"] = <<>>]
      /\ call' = call \ {"server"} /\ closed' = closed
      /\ Reads(hs["server"]) = P
  BY DEF Inv, TakeC2, In, Enough, Need, Reads
<1>1. /\ Whole("S2") \in Seq(Bytes)
      /\ Whole("C2") \in Seq(Bytes) /\ Len(Whole("C2")) = P
  BY WholeType, SizeIs DEF Messages
<1>2. "PostS2" \in States["server"] /\ "Done" \in States["server"]
      /\ Completed("PostS2") = "Done"
  BY CompletedType DEF States
<1>3. /\ Way("client")' = Way("client") \o Whole("S2")
      /\ Way("server")' = Way("server")
      /\ hs' \in {[hs EXCEPT !["server"] = "PostS2"],
                  [hs EXCEPT !["server"] = "Done"]}
      /\ net' \in [Ends -> Seq(Bytes)] /\ out' \in [Ends -> Seq(Bytes)]
  BY <1>0, <1>1, <1>2, SendEffect, PeerIs
<1>4. /\ hs' \in [Ends -> UNION {States[f] : f \in Ends}]
      /\ \A f \in Ends : hs'[f] \in States[f]
      /\ hs'["server"] \in {"PostS2", "Done"} /\ hs'["client"] = hs["client"]
  BY <1>0, <1>2, <1>3, HsType, PeerIs
<1>5. /\ buf["server"] \in Seq(Bytes) /\ Way("server") \in Seq(Bytes)
      /\ buf["client"] \in Seq(Bytes) /\ Way("client") \in Seq(Bytes)
      /\ buf \in [Ends -> Seq(Bytes)] /\ stream \in [Ends -> Seq(Bytes)]
      /\ ctx \in [Ends -> {"handshake", "message"}]
  BY <1>0, AheadType, PeerIs DEF TypeOK
<1>6. /\ taken["server"] = <<Packet("C0C1")>>
      /\ hs["client"] \in {"PostC2", "WaitS2", "Done"}
      /\ buf["server"] \o Way("server") = Whole("C2") \o AfterC2
  <2>1. taken["server"] = <<Packet("C0C1")>> /\ Ahead("server") = AfterC0C1
    BY <1>0 DEF ServerInv
  <2>2. Ahead("server") # <<>>
    <3>1. Len(buf["server"]) > 0
      BY <1>0 DEF PAssumption
    <3>2. buf["server"] # <<>>
      BY <3>1
    <3> QED BY <3>2, <1>5, NothingLeft DEF Ahead
  <2> QED BY <2>1, <2>2 DEF Ahead, AfterC0C1
<1>7. AfterC2 \in Seq(Bytes)
  BY WholeType DEF AfterC2, Messages
<1>8. /\ SubSeq(buf["server"], 1, P) = Whole("C2")
      /\ Drop(buf["server"], P) \o Way("server") = AfterC2
      /\ Drop(buf["server"], P) \in Seq(Bytes)
  <2>1. Len(buf["server"]) >= Len(Whole("C2"))
    BY <1>0, <1>1
  <2>2. /\ SubSeq(buf["server"], 1, Len(Whole("C2"))) = Whole("C2")
        /\ Drop(buf["server"], Len(Whole("C2"))) \o Way("server") = AfterC2
    BY <2>1, <1>1, <1>5, <1>6, <1>7, CutFront
  <2>3. P \in 0..Len(buf["server"])
    BY <1>0, <1>5 DEF PAssumption
  <2> QED BY <2>2, <2>3, <1>1, <1>5, TwoParts
<1>9. /\ taken' \in [Ends -> Seq([as : Messages, bytes : Seq(Bytes)])]
      /\ taken'["client"] = taken["client"]
      /\ taken'["server"] = <<Packet("C0C1"), Packet("C2")>>
      /\ CutShort => CutShort'
  <2>1. "C2" \in Messages
    BY DEF Messages
  <2>2. /\ taken' \in [Ends -> Seq([as : Messages, bytes : Seq(Bytes)])]
        /\ taken'[Peer("server")] = taken[Peer("server")]
        /\ Len(buf["server"]) >= Reads(hs["server"]) =>
             taken'["server"] = Append(taken["server"],
               [as |-> "C2",
                bytes |-> SubSeq(buf["server"], 1, Reads(hs["server"]))])
        /\ CutShort => CutShort'
    BY <2>1, <1>0, TakeEffect, PeerIs
  <2>3. taken'["server"] = Append(<<Packet("C0C1")>>, Packet("C2"))
    BY <2>2, <1>0, <1>6, <1>8 DEF Packet
  <2>4. Append(<<Packet("C0C1")>>, Packet("C2")) = <<Packet("C0C1"), Packet("C2")>>
    BY SecondAppended
  <2> QED BY <2>2, <2>3, <2>4, PeerIs
<1>10. TypeOK'
  <2>1. buf' \in [Ends -> Seq(Bytes)] /\ stream' \in [Ends -> Seq(Bytes)]
    <3>1. <<>> \in Seq(Bytes)
      OBVIOUS
    <3>2. buf' \in [Ends -> Seq(Bytes)]
      BY <3>1, <1>0, <1>5
    <3>3. stream' \in [Ends -> Seq(Bytes)]
      BY <1>0, <1>5, <1>8
    <3> QED BY <3>2, <3>3
  <2>2. ctx' \in [Ends -> {"handshake", "message"}] /\ call' \subseteq Ends
        /\ closed' \in BOOLEAN
    BY <1>0, <1>5 DEF TypeOK
  <2> QED BY <2>1, <2>2, <1>3, <1>4, <1>9 DEF TypeOK
<1>11. stream'["server"] \o Ahead("server")' = AfterC2'
  <2>1. buf'["server"] = <<>> /\ stream'["server"] = Drop(buf["server"], P)
    BY <1>0, <1>5, PeerIs
  <2>2. Ahead("server")' = Way("server")
    BY <2>1, <1>3, <1>5, EmptyPart DEF Ahead
  <2>3. AfterC2' = AfterC2
    BY <1>4 DEF AfterC2
  <2> QED BY <2>1, <2>2, <2>3, <1>8
<1>12. Ahead("client")' = Ahead("client") \o Whole("S2")
  <2>1. buf'["client"] = buf["client"]
    BY <1>0, <1>5, PeerIs
  <2>2. Joins(buf["client"], Way("client"), Whole("S2"))
    BY <1>1, <1>5, Associative
  <2> QED BY <1>3, <2>1, <2>2, Zenon DEF Ahead, Joins
<1>13. ctx'["client"] = ctx["client"] /\ stream'["client"] = stream["client"]
  BY <1>0, <1>5, PeerIs
<1>14. ServerInv'
  BY <1>4, <1>6, <1>9, <1>11 DEF ServerInv
<1>15. ClientInv => ClientInv'
  <2> SUFFICES ASSUME ClientInv PROVE ClientInv'
    OBVIOUS
  <2>1. AfterS0S1 = <<>> /\ AfterS0S1' = Whole("S2")
    BY <1>0, <1>4 DEF AfterS0S1
  <2>2. hs["client"] \in {"PostC2", "WaitS2"} /\ Ahead("client") = <<>>
        /\ taken["client"] = <<Packet("S0S1")>> /\ stream["client"] = <<>>
        /\ ctx["client"] # "message"
    BY <1>0, <1>6, <2>1 DEF ClientInv
  <2>3. Ahead("client")' = AfterS0S1'
    BY <2>1, <2>2, <1>1, <1>12, EmptyPart
  <2> QED BY <2>2, <2>3, <1>4, <1>9, <1>13 DEF ClientInv
<1> QED BY <1>0, <1>9, <1>10, <1>14, <1>15 DEF Inv

\* The client takes S0S1, whole or, if one byte of it is missing, cut short.
LEMMA TakeS0S1Step == ASSUME PAssumption, Inv, TakeS0S1 PROVE Inv'
<1>0. /\ TypeOK /\ ServerInv /\ (CutShort \/ ClientInv)
      /\ hs["client"] = "WaitS0S1" /\ Len(buf["client"]) >= P
      /\ Take("client", "S0S1")
      /\ buf' = [buf EXCEPT !["client"] = Drop(@, Smaller(P + 1, Len(@)))]
      /\ SendNow("client", "PostC2", Whole("C2"))
      /\ UNCHANGED <<ctx, stream, closed>> /\ call' = call \ {"client"}
      /\ Reads(hs["client"]) = P + 1
  BY DEF Inv, TakeS0S1, In, Enough, Need, Reads
<1>1. /\ Whole("C2") \in Seq(Bytes)
      /\ Whole("S0S1") \in Seq(Bytes) /\ Len(Whole("S0S1")) = P + 1
  BY WholeType, SizeIs DEF Messages
<1>2. "PostC2" \in States["client"] /\ "WaitS2" \in States["client"]
      /\ Completed("PostC2") = "WaitS2"
  BY CompletedType DEF States
<1>3. /\ Way("server")' = Way("server") \o Whole("C2")
      /\ Way("client")' = Way("client")
      /\ hs' \in {[hs EXCEPT !["client"] = "PostC2"],
                  [hs EXCEPT !["client"] = "WaitS2"]}
      /\ net' \in [Ends -> Seq(Bytes)] /\ out' \in [Ends -> Seq(Bytes)]
  BY <1>0, <1>1, <1>2, SendEffect, PeerIs
<1>4. /\ hs' \in [Ends -> UNION {States[f] : f \in Ends}]
      /\ \A f \in Ends : hs'[f] \in States[f]
      /\ hs'["client"] \in {"PostC2", "WaitS2"} /\ hs'["server"] = hs["server"]
  BY <1>0, <1>2, <1>3, HsType, PeerIs
<1>5. /\ buf["server"] \in Seq(Bytes) /\ Way("server") \in Seq(Bytes)
      /\ buf["client"] \in Seq(Bytes) /\ Way("client") \in Seq(Bytes)
      /\ buf \in [Ends -> Seq(Bytes)] /\ Len(buf["client"]) \in Nat
  BY <1>0, AheadType, PeerIs DEF TypeOK
<1>6. /\ taken' \in [Ends -> Seq([as : Messages, bytes : Seq(Bytes)])]
      /\ taken'["server"] = taken["server"]
      /\ Len(buf["client"]) >= P + 1 =>
           taken'["client"] = Append(taken["client"],
             [as |-> "S0S1", bytes |-> SubSeq(buf["client"], 1, P + 1)])
      /\ Len(buf["client"]) < P + 1 =>
           taken'["client"] = Append(taken["client"],
             [as |-> "S0S1", bytes |-> SubSeq(buf["client"], 1, Len(buf["client"]))])
      /\ CutShort => CutShort'
  <2>1. "S0S1" \in Messages
    BY DEF Messages
  <2>2. /\ taken' \in [Ends -> Seq([as : Messages, bytes : Seq(Bytes)])]
        /\ taken'[Peer("client")] = taken[Peer("client")]
        /\ Len(buf["client"]) >= Reads(hs["client"]) =>
             taken'["client"] = Append(taken["client"], [as |-> "S0S1",
                bytes |-> SubSeq(buf["client"], 1, Reads(hs["client"]))])
        /\ Len(buf["client"]) < Reads(hs["client"]) =>
             taken'["client"] = Append(taken["client"], [as |-> "S0S1",
                bytes |-> SubSeq(buf["client"], 1, Len(buf["client"]))])
        /\ CutShort => CutShort'
    BY <2>1, <1>0, TakeEffect, PeerIs
  <2> QED BY <2>2, <1>0, PeerIs
<1>7. TypeOK'
  <2> DEFINE n == Smaller(P + 1, Len(buf["client"]))
  <2>1. n \in 0..Len(buf["client"])
    BY <1>5 DEF Smaller, PAssumption
  <2>2. buf' = [buf EXCEPT !["client"] = Drop(buf["client"], n)]
    BY <1>0
  <2> HIDE DEF n
  <2>3. Drop(buf["client"], n) \in Seq(Bytes)
    BY <2>1, <1>5, TwoParts
  <2>4. buf' \in [Ends -> Seq(Bytes)] /\ call' \subseteq Ends
    BY <2>2, <2>3, <1>0, <1>5 DEF TypeOK
  <2> QED BY <2>4, <1>0, <1>3, <1>4, <1>6 DEF TypeOK
<1>8. ServerInv'
  <2>1. hs["server"] \in {"WaitC0C1", "PostS0S1", "WaitC2"} /\ ctx["server"] # "message"
        /\ AfterC0C1 = <<>> /\ AfterC0C1' = Whole("C2")
    <3>1. hs["server"] \in States["server"] /\ hs["server"] \notin {"PostS2", "Done"}
      BY <1>0, PeerIs DEF TypeOK, ServerInv
    <3>2. AfterC0C1 = <<>>
      BY <1>0 DEF AfterC0C1
    <3>3. AfterC2' = <<>> /\ AfterC0C1' = Whole("C2") \o AfterC2'
      BY <1>4 DEF AfterC0C1, AfterC2
    <3>4. AfterC0C1' = Whole("C2")
      BY <3>3, <1>1, EmptyPart
    <3> QED BY <3>1, <3>2, <3>4, <1>0 DEF ServerInv, States
  <2>2. Ahead("server")' = Ahead("server") \o Whole("C2")
    <3>1. buf'["server"] = buf["server"]
      BY <1>0, <1>5, PeerIs
    <3>2. Joins(buf["server"], Way("server"), Whole("C2"))
      BY <1>1, <1>5, Associative
    <3> QED BY <1>3, <3>1, <3>2, Zenon DEF Ahead, Joins
  <2>3. CASE hs["server"] = "WaitC0C1"
    <3>1. Ahead("server") = Whole("C0C1") /\ Whole("C0C1") \in Seq(Bytes)
      <4>1. Whole("C0C1") \in Seq(Bytes)
        BY WholeType DEF Messages
      <4>2. Ahead("server") = Whole("C0C1") \o <<>>
        BY <1>0, <2>1, <2>3 DEF ServerInv
      <4> QED BY <4>1, <4>2, EmptyPart
    <3>2. Ahead("server")' = Whole("C0C1") \o AfterC0C1'
      BY <3>1, <2>1, <2>2
    <3> QED BY <3>2, <2>1, <2>3, <1>0, <1>4, <1>6 DEF ServerInv
  <2>4. CASE hs["server"] \in {"PostS0S1", "WaitC2"}
    <3>1. Ahead("server") = <<>>
      BY <1>0, <2>1, <2>4 DEF ServerInv
    <3>2. Ahead("server")' = AfterC0C1'
      BY <3>1, <2>1, <2>2, <1>1, EmptyPart
    <3> QED BY <3>2, <2>1, <2>4, <1>0, <1>4, <1>6 DEF ServerInv
  <2> QED BY <2>1, <2>3, <2>4
<1>9. ASSUME ClientInv PROVE CutShort' \/ ClientInv'
  <2>1. /\ taken["client"] = <<>> /\ stream["client"] = <<>>
        /\ ctx["client"] # "message"
        /\ Ahead("client") = IF hs["server"] = "WaitC0C1" THEN <<>>
                             ELSE Whole("S0S1") \o AfterS0S1
    BY <1>0, <1>9 DEF ClientInv
  <2>2. CASE Len(buf["client"]) < P + 1
    <3>1. Len(buf["client"]) = P
      BY <2>2, <1>0, <1>5 DEF PAssumption
    <3> DEFINE b == SubSeq(buf["client"], 1, Len(buf["client"]))
               p == [as |-> "S0S1", bytes |-> b]
    <3>2. Len(b) = P
      BY <3>1, <1>5
    <3>3. taken'["client"] = <<p>>
      <4>1. taken'["client"] = Append(<<>>, p)
        BY <2>1, <2>2, <1>6
      <4> QED BY <4>1
    <3> HIDE DEF b
    <3>4. 1 \in DOMAIN <<p>> /\ <<p>>[1].as = "S0S1" /\ <<p>>[1].bytes = b
      OBVIOUS
    <3> HIDE DEF p
    <3> QED BY <3>2, <3>3, <3>4 DEF CutShort
  <2>3. CASE Len(buf["client"]) >= P + 1
    <3>1. hs["server"] # "WaitC0C1"
          /\ buf["client"] \o Way("client") = Whole("S0S1") \o AfterS0S1
      <4>1. Len(buf["client"]) > 0
        BY <1>0 DEF PAssumption
      <4>2. buf["client"] # <<>>
        BY <4>1
      <4>3. Ahead("client") # <<>>
        BY <4>2, <1>5, NothingLeft DEF Ahead
      <4> QED BY <4>3, <2>1 DEF Ahead
    <3>2. AfterS0S1 \in Seq(Bytes)
      BY WholeType DEF AfterS0S1, Messages
    <3>3. /\ SubSeq(buf["client"], 1, P + 1) = Whole("S0S1")
          /\ Drop(buf["client"], P + 1) \o Way("client") = AfterS0S1
      <4>1. Len(buf["client"]) >= Len(Whole("S0S1"))
        BY <2>3, <1>1
      <4>2. /\ SubSeq(buf["client"], 1, Len(Whole("S0S1"))) = Whole("S0S1")
            /\ Drop(buf["client"], Len(Whole("S0S1"))) \o Way("client") = AfterS0S1
        BY <4>1, <1>1, <1>5, <3>1, <3>2, CutFront
      <4> QED BY <4>2, <1>1
    <3>4. taken'["client"] = <<Packet("S0S1")>>
      <4>1. taken'["client"] = Append(<<>>, Packet("S0S1"))
        BY <2>1, <2>3, <3>3, <1>6 DEF Packet
      <4> QED BY <4>1
    <3>5. Ahead("client")' = AfterS0S1'
      <4>1. Smaller(P + 1, Len(buf["client"])) = P + 1
        BY <2>3, <1>5 DEF Smaller, PAssumption
      <4>2. buf'["client"] = Drop(buf["client"], P + 1)
        BY <4>1, <1>0, <1>5, PeerIs
      <4>3. AfterS0S1' = AfterS0S1
        BY <1>4 DEF AfterS0S1
      <4> QED BY <4>2, <4>3, <3>3, <1>3 DEF Ahead
    <3> QED BY <3>1, <3>4, <3>5, <2>1, <1>0, <1>4 DEF ClientInv
  <2> QED BY <2>2, <2>3, <1>5 DEF PAssumption
<1> QED BY <1>0, <1>6, <1>7, <1>8, <1>9 DEF Inv

\* The client takes S2, and what it hands to ParseMessage is nothing.
LEMMA TakeS2Step == ASSUME PAssumption, Inv, TakeS2 PROVE Inv'
<1>0. /\ TypeOK /\ ServerInv /\ (CutShort \/ ClientInv)
      /\ hs["client"] = "WaitS2" /\ Len(buf["client"]) >= P
      /\ Take("client", "S2")
      /\ hs' = [hs EXCEPT !["client"] = "Done"]
      /\ ctx' = [ctx EXCEPT !["client"] = "message"]
      /\ out' = [out EXCEPT !["client"] = @ \o Whole("connect")]
      /\ stream' = [stream EXCEPT !["client"] = Drop(buf["client"], P)]
      /\ buf' = [buf EXCEPT !["client"] = <<>>]
      /\ call' = call \ {"client"} /\ net' = net /\ closed' = closed
      /\ Reads(hs["client"]) = P
  BY DEF Inv, TakeS2, In, Enough, Need, Reads
<1>1. /\ Whole("connect") \in Seq(Bytes)
      /\ Whole("S2") \in Seq(Bytes) /\ Len(Whole("S2")) = P
      /\ <<>> \in Seq(Bytes)
  BY WholeType, SizeIs DEF Messages
<1>2. "Done" \in States["client"]
  BY DEF States
<1>3. /\ hs' \in [Ends -> UNION {States[f] : f \in Ends}]
      /\ \A f \in Ends : hs'[f] \in States[f]
      /\ hs'["client"] = "Done" /\ hs'["server"] = hs["server"]
  BY <1>0, <1>2, HsType, PeerIs
<1>4. /\ buf["server"] \in Seq(Bytes) /\ Way("server") \in Seq(Bytes)
      /\ net["server"] \in Seq(Bytes) /\ out["client"] \in Seq(Bytes)
      /\ buf["client"] \in Seq(Bytes) /\ Way("client") \in Seq(Bytes)
      /\ buf \in [Ends -> Seq(Bytes)] /\ stream \in [Ends -> Seq(Bytes)]
      /\ out \in [Ends -> Seq(Bytes)] /\ ctx \in [Ends -> {"handshake", "message"}]
  BY <1>0, AheadType, PeerIs DEF TypeOK
<1>5. /\ Drop(buf["client"], P) \in Seq(Bytes)
      /\ out["client"] \o Whole("connect") \in Seq(Bytes)
  <2>1. P \in 0..Len(buf["client"])
    BY <1>0, <1>4 DEF PAssumption
  <2> QED BY <2>1, <1>1, <1>4, TwoParts
<1>6. /\ taken' \in [Ends -> Seq([as : Messages, bytes : Seq(Bytes)])]
      /\ taken'["server"] = taken["server"]
      /\ taken'["client"] = Append(taken["client"],
           [as |-> "S2", bytes |-> SubSeq(buf["client"], 1, P)])
      /\ CutShort => CutShort'
  <2>1. "S2" \in Messages
    BY DEF Messages
  <2>2. /\ taken' \in [Ends -> Seq([as : Messages, bytes : Seq(Bytes)])]
        /\ taken'[Peer("client")] = taken[Peer("client")]
        /\ Len(buf["client"]) >= Reads(hs["client"]) =>
             taken'["client"] = Append(taken["client"],
               [as |-> "S2",
                bytes |-> SubSeq(buf["client"], 1, Reads(hs["client"]))])
        /\ CutShort => CutShort'
    BY <2>1, <1>0, TakeEffect, PeerIs
  <2> QED BY <2>2, <1>0, PeerIs
<1>7. TypeOK'
  <2>1. buf' \in [Ends -> Seq(Bytes)]
    BY <1>0, <1>1, <1>4
  <2>2. stream' \in [Ends -> Seq(Bytes)]
    BY <1>0, <1>4, <1>5
  <2>3. out' \in [Ends -> Seq(Bytes)]
    BY <1>0, <1>4, <1>5
  <2>4. ctx' \in [Ends -> {"handshake", "message"}] /\ call' \subseteq Ends
        /\ closed' \in BOOLEAN /\ net' \in [Ends -> Seq(Bytes)]
    BY <1>0, <1>4 DEF TypeOK
  <2> QED BY <2>1, <2>2, <2>3, <2>4, <1>3, <1>6 DEF TypeOK
<1>8. /\ ctx'["server"] = ctx["server"] /\ stream'["server"] = stream["server"]
      /\ buf'["server"] = buf["server"] /\ buf'["client"] = <<>>
      /\ stream'["client"] = Drop(buf["client"], P)
      /\ out'["client"] = out["client"] \o Whole("connect")
      /\ out'["server"] = out["server"] /\ net' = net
  BY <1>0, <1>4, PeerIs
<1>9. Way("server")' = Way("server") \o Whole("connect")
  <2>1. Joins(net["server"], out["client"], Whole("connect"))
    BY <1>1, <1>4, Associative
  <2> QED BY <2>1, <1>8, PeerIs, Zenon DEF Way, Joins
<1>10. Ahead("server")' = Ahead("server") \o Whole("connect")
  <2>1. Joins(buf["server"], Way("server"), Whole("connect"))
    BY <1>1, <1>4, Associative
  <2> QED BY <2>1, <1>8, <1>9, Zenon DEF Ahead, Joins
<1>11. /\ AfterC2 = <<>> /\ AfterC2' = Whole("connect")
       /\ AfterC0C1 = Whole("C2") /\ AfterC0C1' = Whole("C2") \o Whole("connect")
  <2>1. AfterC2 = <<>> /\ AfterC2' = Whole("connect")
    BY <1>0, <1>3 DEF AfterC2
  <2>2. AfterC0C1 = Whole("C2") \o AfterC2
        /\ AfterC0C1' = Whole("C2") \o AfterC2'
    BY <1>0, <1>3 DEF AfterC0C1
  <2>3. Whole("C2") \in Seq(Bytes)
    BY WholeType DEF Messages
  <2> QED BY <2>1, <2>2, <2>3, EmptyPart
<1>12. ServerInv'
  <2>1. CASE hs["server"] = "WaitC0C1"
    <3>1. Ahead("server") = Whole("C0C1") \o Whole("C2")
      BY <2>1, <1>0, <1>11 DEF ServerInv
    <3>2. Joins(Whole("C0C1"), Whole("C2"), Whole("connect"))
      BY WholeType, Associative DEF Messages
    <3>3. Ahead("server")' = Whole("C0C1") \o AfterC0C1'
      BY <3>1, <3>2, <1>10, <1>11, Zenon DEF Joins
    <3> QED BY <3>3, <2>1, <1>0, <1>3, <1>6, <1>8 DEF ServerInv
  <2>2. CASE hs["server"] \in {"PostS0S1", "WaitC2"}
    <3>1. Ahead("server") = Whole("C2")
      BY <2>2, <1>0, <1>11 DEF ServerInv
    <3>2. Ahead("server")' = AfterC0C1'
      BY <3>1, <1>10, <1>11
    <3> QED BY <3>2, <2>2, <1>0, <1>3, <1>6, <1>8 DEF ServerInv
  <2>3. CASE hs["server"] \in {"PostS2", "Done"}
    <3>1. stream["server"] \o Ahead("server") = <<>>
      BY <2>3, <1>0, <1>11 DEF ServerInv
    <3>2. stream["server"] \in Seq(Bytes) /\ Ahead("server") \in Seq(Bytes)
      BY <1>0, <1>4, AheadType, PeerIs
    <3>3. stream["server"] = <<>> /\ Ahead("server") = <<>>
      BY <3>1, <3>2, NothingLeft
    <3>4. stream'["server"] \o Ahead("server")' = AfterC2'
      BY <3>3, <1>1, <1>8, <1>10, <1>11, EmptyPart
    <3> QED BY <3>4, <2>3, <1>0, <1>3, <1>6, <1>8 DEF ServerInv
  <2>4. hs["server"] \in States["server"]
    BY <1>0, PeerIs DEF TypeOK
  <2> QED BY <2>1, <2>2, <2>3, <2>4 DEF States
<1>13. ASSUME ClientInv PROVE ClientInv'
  <2>1. /\ taken["client"] = <<Packet("S0S1")>> /\ hs["server"] # "WaitC0C1"
        /\ Ahead("client") = AfterS0S1
    BY <1>0, <1>13 DEF ClientInv
  <2>2. Ahead("client") # <<>>
    <3>1. Len(buf["client"]) > 0
      BY <1>0 DEF PAssumption
    <3>2. buf["client"] # <<>>
      BY <3>1
    <3> QED BY <3>2, <1>4, NothingLeft DEF Ahead
  <2>3. hs["server"] \in {"PostS2", "Done"}
        /\ buf["client"] \o Way("client") = Whole("S2") \o <<>>
    BY <2>1, <2>2, <1>1, EmptyPart DEF AfterS0S1, Ahead
  <2>4. /\ SubSeq(buf["client"], 1, P) = Whole("S2")
        /\ Drop(buf["client"], P) \o Way("client") = <<>>
    <3>1. Len(buf["client"]) >= Len(Whole("S2"))
      BY <1>0, <1>1
    <3>2. /\ SubSeq(buf["client"], 1, Len(Whole("S2"))) = Whole("S2")
          /\ Drop(buf["client"], Len(Whole("S2"))) \o Way("client") = <<>>
      BY <3>1, <2>3, <1>1, <1>4, CutFront
    <3> QED BY <3>2, <1>1
  <2>5. Drop(buf["client"], P) = <<>> /\ Way("client") = <<>>
    BY <2>4, <1>4, <1>5, NothingLeft
  <2>6. taken'["client"] = <<Packet("S0S1"), Packet("S2")>>
    <3>1. taken'["client"] = Append(<<Packet("S0S1")>>, Packet("S2"))
      BY <2>1, <2>4, <1>6 DEF Packet
    <3> QED BY <3>1, SecondAppended
  <2>7. Ahead("client")' = <<>>
    <3>1. Way("client")' = Way("client")
      BY <1>8, PeerIs DEF Way
    <3> QED BY <3>1, <2>5, <1>8, <1>1, EmptyPart DEF Ahead
  <2> QED BY <2>3, <2>5, <2>6, <2>7, <1>3, <1>8 DEF ClientInv
<1> QED BY <1>0, <1>6, <1>7, <1>12, <1>13 DEF Inv

\* What comes after the handshake goes to ParseMessage.
LEMMA TakeMessageStep ==
  ASSUME PAssumption, Inv, NEW e \in Ends, TakeMessage(e) PROVE Inv'
<1>0. /\ TypeOK /\ ServerInv /\ (CutShort \/ ClientInv)
      /\ ctx[e] = "message"
      /\ stream' = [stream EXCEPT ![e] = @ \o buf[e]]
      /\ buf' = [buf EXCEPT ![e] = <<>>]
      /\ call' = call \ {e}
      /\ UNCHANGED <<hs, ctx, net, out, taken, closed>>
  BY DEF Inv, TakeMessage
<1>1. /\ \A f \in Ends : buf[f] \in Seq(Bytes) /\ stream[f] \in Seq(Bytes)
      /\ \A f \in Ends : Way(f) \in Seq(Bytes)
      /\ buf \in [Ends -> Seq(Bytes)] /\ stream \in [Ends -> Seq(Bytes)]
      /\ <<>> \in Seq(Bytes)
  BY <1>0, AheadType, PeerIs DEF TypeOK
<1>2. stream[e] \o buf[e] \in Seq(Bytes)
  BY <1>1
<1>3. TypeOK'
  <2>1. buf' \in [Ends -> Seq(Bytes)]
    BY <1>0, <1>1
  <2>2. stream' \in [Ends -> Seq(Bytes)]
    BY <1>0, <1>1, <1>2
  <2> QED BY <2>1, <2>2, <1>0 DEF TypeOK
<1>4. \A f \in Ends : Way(f)' = Way(f)
  BY <1>0 DEF Way
<1>5. /\ AfterC2' = AfterC2 /\ AfterC0C1' = AfterC0C1 /\ AfterS0S1' = AfterS0S1
      /\ CutShort => CutShort'
  BY <1>0 DEF AfterC2, AfterC0C1, AfterS0S1, CutShort
<1>6. \A f \in Ends : f # e => Ahead(f)' = Ahead(f) /\ stream'[f] = stream[f]
  BY <1>0, <1>1, <1>4 DEF Ahead
<1>7. CASE e = "server"
  <2>1. hs["server"] \in {"PostS2", "Done"}
    BY <1>0, <1>7 DEF ServerInv
  <2>2. stream["server"] \o Ahead("server") = AfterC2
    BY <1>0, <2>1 DEF ServerInv
  <2>3. stream'["server"] = stream["server"] \o buf["server"]
        /\ buf'["server"] = <<>>
    BY <1>0, <1>1, <1>7, PeerIs
  <2>4. Ahead("server")' = Way("server")
    BY <2>3, <1>1, <1>4, PeerIs, EmptyPart DEF Ahead
  <2>5. Joins(stream["server"], buf["server"], Way("server"))
    BY <1>1, PeerIs, Associative
  <2>6. stream'["server"] \o Ahead("server")' = AfterC2'
    BY <2>2, <2>3, <2>4, <2>5, <1>5, Zenon DEF Ahead, Joins
  <2>7. ServerInv'
    BY <2>1, <2>6, <1>0 DEF ServerInv
  <2>8. ClientInv => ClientInv'
    <3>1. Ahead("client")' = Ahead("client") /\ stream'["client"] = stream["client"]
      BY <1>6, <1>7, PeerIs
    <3> QED BY <3>1, <1>0, <1>5 DEF ClientInv
  <2> QED BY <2>7, <2>8, <1>0, <1>3, <1>5 DEF Inv
<1>8. CASE e = "client"
  <2>1. ServerInv'
    <3>1. Ahead("server")' = Ahead("server") /\ stream'["server"] = stream["server"]
      BY <1>6, <1>8, PeerIs
    <3> QED BY <3>1, <1>0, <1>5 DEF ServerInv
  <2>2. ASSUME ClientInv PROVE ClientInv'
    <3>1. hs["client"] = "Done" /\ Ahead("client") = <<>> /\ stream["client"] = <<>>
      BY <1>0, <1>8, <2>2 DEF ClientInv
    <3>2. buf["client"] = <<>> /\ Way("client") = <<>>
      BY <3>1, <1>1, PeerIs, NothingLeft DEF Ahead
    <3>3. buf'["client"] = <<>> /\ stream'["client"] = <<>>
      <4>1. /\ buf'["client"] = <<>>
            /\ stream'["client"] = stream["client"] \o buf["client"]
        BY <1>0, <1>1, <1>8, PeerIs
      <4> QED BY <4>1, <3>1, <3>2, <1>1, EmptyPart
    <3>4. Ahead("client")' = <<>>
      BY <3>2, <3>3, <1>1, <1>4, PeerIs, EmptyPart DEF Ahead
    <3> QED BY <3>1, <3>3, <3>4, <2>2, <1>0 DEF ClientInv
  <2> QED BY <2>1, <2>2, <1>0, <1>3, <1>5 DEF Inv
<1> QED BY <1>7, <1>8, PeerIs

-----------------------------------------------------------------------------
(* The theorem                                                               *)

LEMMA InvariantStep == ASSUME PAssumption, Inv, [Next]_vars PROVE Inv'
<1>1. CASE Client
  BY <1>1, StartStep, TakeS0S1Step, TakeS2Step, IdleStep, PeerIs DEF Client
<1>2. CASE Server
  BY <1>2, TakeC0C1Step, TakeC2Step DEF Server
<1>3. ASSUME NEW e \in Ends, Either(e) PROVE Inv'
  BY <1>3, FlushStep, ReadStep, IdleStep, TakeMessageStep DEF Either
<1>4. CASE UNCHANGED vars
  BY <1>4, IdleStep, PeerIs
<1> QED BY <1>1, <1>2, <1>3, <1>4 DEF Next

LEMMA InvAligned == ASSUME PAssumption, Inv PROVE Aligned
<1>0. /\ TypeOK /\ ServerInv /\ (CutShort \/ ClientInv)
      /\ hs["server"] \in States["server"] /\ hs["client"] \in States["client"]
  BY PeerIs DEF Inv, TypeOK
<1>1. /\ taken["server"] \in {<<>>, <<Packet("C0C1")>>,
                             <<Packet("C0C1"), Packet("C2")>>}
      /\ stream["server"] = <<>> \/ stream["server"] \o Ahead("server") = AfterC2
  BY <1>0 DEF ServerInv, States
<1>2. \A i \in DOMAIN taken["server"] :
        taken["server"][i].bytes = Whole(taken["server"][i].as)
  BY <1>1 DEF Packet
<1>3. stream["server"] \in {<<>>, Whole("connect")}
  <2>1. stream["server"] \in Seq(Bytes) /\ Ahead("server") \in Seq(Bytes)
    BY <1>0, AheadType, PeerIs DEF TypeOK
  <2>2. CASE stream["server"] \o Ahead("server") = <<>>
    BY <2>1, <2>2, NothingLeft
  <2>3. CASE /\ stream["server"] \o Ahead("server") = Whole("connect")
             /\ Len(stream["server"]) > 0
    <3>1. Whole("connect") \in Seq(Bytes) /\ Len(Whole("connect")) = 1
          /\ <<>> \in Seq(Bytes) /\ Whole("connect") \o <<>> = Whole("connect")
      <4>1. Whole("connect") \in Seq(Bytes) /\ Len(Whole("connect")) = 1
        BY WholeType, SizeIs DEF Messages
      <4>2. <<>> \in Seq(Bytes)
        OBVIOUS
      <4> QED BY <4>1, <4>2, EmptyPart
    <3>2. Len(stream["server"]) >= Len(Whole("connect"))
      BY <2>3, <2>1, <3>1
    <3>3. /\ SubSeq(stream["server"], 1, Len(Whole("connect"))) = Whole("connect")
          /\ Drop(stream["server"], Len(Whole("connect"))) \o Ahead("server") = <<>>
      BY <2>1, <2>3, <3>1, <3>2, CutFront
    <3>4. 1 \in 0..Len(stream["server"])
      <4>1. \A z \in Nat : z > 0 => 1 \in 0..z
        OBVIOUS
      <4>2. Len(stream["server"]) \in Nat
        BY <2>1
      <4> QED BY <4>1, <4>2, <2>3
    <3>5. Drop(stream["server"], 1) \in Seq(Bytes)
          /\ SubSeq(stream["server"], 1, 1) \o Drop(stream["server"], 1) = stream["server"]
      BY <3>4, <2>1, TwoParts
    <3>6. Drop(stream["server"], 1) = <<>>
      BY <3>1, <3>3, <3>5, <2>1, NothingLeft
    <3> QED BY <3>1, <3>3, <3>5, <3>6
  <2>4. CASE Len(stream["server"]) = 0
    BY <2>1, <2>4, EmptySeq
  <2>5. Len(stream["server"]) = 0 \/ Len(stream["server"]) > 0
    BY <2>1
  <2> QED BY <1>1, <2>2, <2>3, <2>4, <2>5 DEF AfterC2
<1>4. ASSUME ~CutShort PROVE AlwaysAligned
  <2>1. stream["client"] = <<>>
        /\ taken["client"] \in {<<>>, <<Packet("S0S1")>>,
                               <<Packet("S0S1"), Packet("S2")>>}
    BY <1>0, <1>4 DEF ClientInv, States
  <2>2. \A i \in DOMAIN taken["client"] :
          taken["client"][i].bytes = Whole(taken["client"][i].as)
    BY <2>1 DEF Packet
  <2> QED BY <2>1, <2>2, <1>2, <1>3, PeerIs DEF AlwaysAligned
<1> QED BY <1>0, <1>2, <1>3, <1>4 DEF Aligned

THEOREM HandShakeAligned == Spec => []Aligned
<1>1. Init => Inv
  BY PAssumption, InitHolds
<1>2. Inv /\ [Next]_vars => Inv'
  BY PAssumption, InvariantStep
<1>3. Inv => Aligned
  BY PAssumption, InvAligned
<1> QED BY <1>1, <1>2, <1>3, PTL DEF Spec

=============================================================================
