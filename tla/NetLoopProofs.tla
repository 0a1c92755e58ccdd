---------------------------- MODULE NetLoopProofs ----------------------------
(***************************************************************************)
(* Proofs about NetLoop: in one loop with a server, its connections and    *)
(* clients, for any number of peers, clients and descriptors, any calls of *)
(* the owner and any order of the reports of a batch, the three tables of  *)
(* descriptors agree and each connection is announced and reported         *)
(* destroyed once.                                                         *)
(***************************************************************************)
EXTENDS NetLoop, TLAPS, WellFoundedInduction

-----------------------------------------------------------------------------
(* The tables of Descriptors.                                              *)

Below == OpToRel(<, Nat)

\* Every set of descriptors that is not empty has a lowest one.
LEMMA LowestFree ==
  ASSUME NEW S \in SUBSET Fds, S # {}
  PROVE  Lowest(S) \in S
<1>1. IsWellFoundedOn(Below, Nat)
  BY NatLessThanWellFounded DEF Below
<1>2. S \subseteq Nat
  BY MaxFdAssumption DEF Fds
<1>3. PICK x \in S : \A y \in S : <<y, x>> \notin Below
  BY <1>1, <1>2, WFMin, Zenon
<1>4. \A y \in S : y \in Nat /\ ~(y < x)
  BY <1>2, <1>3 DEF Below, OpToRel
<1>5. \A y \in S : x <= y
  BY <1>3, <1>4
<1> QED BY <1>3, <1>5 DEF Lowest

\* Interest and readiness alone change: nothing is said of them.
LEMMA SameTables ==
  ASSUME NEW d, NEW e, NEW g,
         e.owner = d.owner, e.table = d.table, e.watched = d.watched
  PROVE  /\ Owned(d, g) => Owned(e, g)
         /\ Mapped(d, g) => Mapped(e, g)
BY DEF Owned, Mapped

LEMMA WakeKeeps ==
  ASSUME NEW d \in Tables(Obj), NEW f
  PROVE  /\ Wake(d, f) \in Tables(Obj)
         /\ Wake(d, f).owner = d.owner
         /\ Wake(d, f).table = d.table
         /\ Wake(d, f).watched = d.watched
BY DEF Wake, Tables

LEMMA EnableKeeps ==
  ASSUME NEW d \in Tables(Obj), NEW f \in Fds, NEW on \in BOOLEAN
  PROVE  /\ EnableWriting(d, f, on) \in Tables(Obj)
         /\ EnableWriting(d, f, on).owner = d.owner
         /\ EnableWriting(d, f, on).table = d.table
         /\ EnableWriting(d, f, on).watched = d.watched
BY DEF EnableWriting, Tables

\* Each operation keeps the type of the tables.
LEMMA TablesType ==
  ASSUME NEW d \in Tables(Obj), NEW f \in Fds, NEW o \in Obj, NEW on \in BOOLEAN
  PROVE  /\ Opened(d, f, o) \in Tables(Obj)
         /\ AddEvent(d, f, o, on) \in Tables(Obj)
BY DEF Opened, AddEvent, Tables

LEMMA ClosingType ==
  ASSUME NEW d \in Tables(Obj), NEW f \in 0..MaxFd
  PROVE  /\ CloseFd(d, f) \in Tables(Obj)
         /\ DelEvent(d, f) \in Tables(Obj)
<1>1. f # 0 => f \in Fds
  BY MaxFdAssumption DEF Fds
<1> QED BY <1>1, ObjAssumption DEF CloseFd, DelEvent, Forget, Tables

\* An object without a descriptor takes a free one and is registered for it.
LEMMA TakesFree ==
  ASSUME NEW d \in Tables(Obj), NEW g \in [Obj -> 0..MaxFd], Owned(d, g),
         NEW o \in Obj, g[o] = 0, NEW f \in FreeFds(d), NEW on \in BOOLEAN
  PROVE  LET e == AddEvent(Opened(d, f, o), f, o, on)
             h == [g EXCEPT ![o] = f]
         IN  /\ e \in Tables(Obj) /\ h \in [Obj -> 0..MaxFd]
             /\ Owned(e, h)
             /\ Mapped(d, g) => Mapped(e, h)
<1> DEFINE e == AddEvent(Opened(d, f, o), f, o, on)
           h == [g EXCEPT ![o] = f]
<1>1. f \in Fds /\ d.owner[f] = None /\ f # 0 /\ f \in 0..MaxFd
  BY MaxFdAssumption DEF FreeFds, Fds
<1>2. e \in Tables(Obj)
  BY <1>1, TablesType
<1>3. h \in [Obj -> 0..MaxFd]
  BY <1>1
<1>4. e.owner = [d.owner EXCEPT ![f] = o]
  BY DEF AddEvent, Opened, Tables
<1>5. Owned(e, h)
  BY <1>1, <1>3, <1>4, ObjAssumption, MaxFdAssumption DEF Owned, Tables, Fds
<1>6. ASSUME Mapped(d, g) PROVE Mapped(e, h)
  <2>1. d.table[f] = None
    BY <1>1, <1>6, ObjAssumption DEF Owned, Mapped, Tables
  <2>2. /\ e.table = [d.table EXCEPT ![f] = o]
        /\ e.watched = d.watched \cup {f}
    BY <2>1 DEF AddEvent, Opened, Tables
  <2> QED BY <1>1, <1>3, <1>6, <2>1, <2>2, ObjAssumption, MaxFdAssumption
             DEF Owned, Mapped, Tables, Fds
<1> QED BY <1>2, <1>3, <1>5, <1>6

\* Another object's descriptor is another one.
LEMMA OwnAlone ==
  ASSUME NEW d, NEW g, Owned(d, g), NEW o \in Obj, NEW q \in Obj, q # o, g[o] # 0
  PROVE  g[q] # g[o]
BY DEF Owned

\* An object gives its descriptor up.
LEMMA GivesUp ==
  ASSUME NEW d \in Tables(Obj), NEW g \in [Obj -> 0..MaxFd], Owned(d, g),
         NEW o \in Obj
  PROVE  LET e == CloseFd(DelEvent(d, g[o]), g[o])
             h == [g EXCEPT ![o] = 0]
         IN  /\ e \in Tables(Obj) /\ h \in [Obj -> 0..MaxFd]
             /\ Owned(e, h)
             /\ Mapped(d, g) => Mapped(e, h)
<1> DEFINE e == CloseFd(DelEvent(d, g[o]), g[o])
           h == [g EXCEPT ![o] = 0]
<1>1. e \in Tables(Obj) /\ h \in [Obj -> 0..MaxFd]
  BY ClosingType, MaxFdAssumption
<1>2. CASE g[o] = 0
  <2>1. e = d /\ h = g
    BY <1>2 DEF CloseFd, DelEvent
  <2> QED BY <1>1, <2>1
<1>3. CASE g[o] # 0
  <2> DEFINE f == g[o]
  <2>1. f \in Fds
    BY <1>3, MaxFdAssumption DEF Fds
  <2>2. /\ e.owner = [d.owner EXCEPT ![f] = None]
        /\ e.watched = IF d.table[f] = None THEN d.watched \ {f}
                        ELSE (d.watched \ {f}) \ {f}
        /\ e.table = IF d.table[f] = None THEN d.table
                      ELSE [d.table EXCEPT ![f] = None]
    BY <1>3 DEF CloseFd, DelEvent, Forget, Tables
  <2>3. \A q \in Obj : q # o => g[q] # f
    BY <1>3, OwnAlone
  <2>4. d.owner[f] = o
    BY <1>3 DEF Owned
  <2>5. Owned(e, h)
    BY <1>1, <2>1, <2>2, <2>3, <2>4, ObjAssumption DEF Owned, Tables
  <2>6. ASSUME Mapped(d, g) PROVE Mapped(e, h)
    BY <1>1, <2>1, <2>2, <2>3, <2>6, ObjAssumption DEF Mapped, Tables
  <2> QED BY <1>1, <2>5, <2>6
<1> QED BY <1>2, <1>3

\* The acceptor is taken out of the loop's table.
LEMMA Unregistered ==
  ASSUME NEW d \in Tables(Obj), NEW g \in [Obj -> 0..MaxFd], Owned(d, g)
  PROVE  LET e == DelEvent(d, g[Acceptor])
         IN  /\ e \in Tables(Obj)
             /\ Owned(e, g)
             /\ Mapped(d, g) => Mapped(e, g) /\ \A f \in Fds : e.table[f] # Acceptor
<1> DEFINE e == DelEvent(d, g[Acceptor])
<1>0. Acceptor \in Obj
  BY DEF Obj
<1>1. e \in Tables(Obj)
  BY <1>0, ClosingType
<1>2. CASE g[Acceptor] = 0 \/ d.table[g[Acceptor]] = None
  <2>1. e = d
    BY <1>2 DEF DelEvent
  <2>2. Mapped(d, g) => \A f \in Fds : d.table[f] # Acceptor
    BY <1>2, ObjAssumption, MaxFdAssumption DEF Mapped, Tables, Fds, Obj
  <2> QED BY <1>1, <2>1, <2>2
<1>3. CASE g[Acceptor] # 0 /\ d.table[g[Acceptor]] # None
  <2> DEFINE f == g[Acceptor]
  <2>1. f \in Fds
    BY <1>0, <1>3, MaxFdAssumption DEF Fds
  <2>2. /\ e.owner = d.owner
        /\ e.watched = d.watched \ {f}
        /\ e.table = [d.table EXCEPT ![f] = None]
    BY <1>3 DEF DelEvent, Forget, Tables
  <2>3. \A q \in Obj : q # Acceptor => g[q] # f
    BY <1>0, <1>3, OwnAlone
  <2>4. Owned(e, g)
    BY <2>2 DEF Owned
  <2>5. ASSUME Mapped(d, g) PROVE Mapped(e, g)
    BY <2>1, <2>2, <2>3, <2>5, ObjAssumption DEF Mapped, Tables
  <2>6. ASSUME Mapped(d, g) PROVE \A k \in Fds : e.table[k] # Acceptor
    BY <1>0, <2>1, <2>2, <2>6, ObjAssumption DEF Mapped, Tables
  <2> QED BY <1>1, <2>4, <2>5, <2>6
<1> QED BY <1>2, <1>3

\* The acceptor's old descriptor is closed, and a free one taken.
LEMMA Reopens ==
  ASSUME NEW d \in Tables(Obj), NEW g \in [Obj -> 0..MaxFd], Owned(d, g),
         NEW f \in FreeFds(CloseFd(d, g[Acceptor]))
  PROVE  LET c == CloseFd(d, g[Acceptor])
             e == AddEvent(Opened(c, f, Acceptor), f, Acceptor, FALSE)
             h == [g EXCEPT ![Acceptor] = f]
         IN  /\ e \in Tables(Obj) /\ h \in [Obj -> 0..MaxFd]
             /\ Owned(e, h)
             /\ Mapped(d, g) /\ (\A k \in Fds : d.table[k] # Acceptor) => Mapped(e, h)
<1> DEFINE c == CloseFd(d, g[Acceptor])
           z == [g EXCEPT ![Acceptor] = 0]
<1>0. Acceptor \in Obj /\ 0 \in 0..MaxFd
  BY MaxFdAssumption DEF Obj
<1>1. c \in Tables(Obj) /\ z \in [Obj -> 0..MaxFd]
  BY <1>0, ClosingType
<1>2. Owned(c, z)
  <2>1. CASE g[Acceptor] = 0
    BY <2>1, <1>0 DEF CloseFd, Owned
  <2>2. CASE g[Acceptor] # 0
    <3>1. c.owner = [d.owner EXCEPT ![g[Acceptor]] = None]
      BY <2>2 DEF CloseFd, Forget, Tables
    <3>2. \A q \in Obj : q # Acceptor => g[q] # g[Acceptor]
      BY <1>0, <2>2, OwnAlone
    <3>3. d.owner[g[Acceptor]] = Acceptor /\ g[Acceptor] \in Fds
      BY <1>0, <2>2, MaxFdAssumption DEF Owned, Fds
    <3> QED BY <1>0, <1>1, <3>1, <3>2, <3>3, ObjAssumption DEF Owned, Tables
  <2> QED BY <2>1, <2>2
<1>3. ASSUME Mapped(d, g), \A k \in Fds : d.table[k] # Acceptor
      PROVE  Mapped(c, z)
  <2>1. c.table = d.table
    BY DEF CloseFd, Forget, Tables
  <2>2. \A k \in Fds : d.table[k] # None => z[d.table[k]] = k
    BY <1>3 DEF Mapped, Tables
  <2>3. \A k \in Fds : k \in d.watched /\ k # g[Acceptor] => k \in c.watched
    BY DEF CloseFd, Forget, Tables
  <2>4. ASSUME NEW q \in Obj \ {Acceptor}, z[q] # 0
        PROVE  c.table[z[q]] = q /\ z[q] \in c.watched
    <3>1. z[q] = g[q] /\ g[q] \in Fds
      BY <2>4, MaxFdAssumption DEF Fds
    <3>2. g[q] # g[Acceptor]
      BY <1>0, <2>4, <3>1, OwnAlone
    <3> QED BY <1>3, <2>1, <2>3, <3>1, <3>2, <2>4 DEF Mapped
  <2> QED BY <2>1, <2>2, <2>4 DEF Mapped
<1>4. z[Acceptor] = 0 /\ [z EXCEPT ![Acceptor] = f] = [g EXCEPT ![Acceptor] = f]
  BY <1>0
<1> DEFINE e == AddEvent(Opened(c, f, Acceptor), f, Acceptor, FALSE)
           h == [z EXCEPT ![Acceptor] = f]
<1>5. f \in FreeFds(c)
  OBVIOUS
<1>6. /\ e \in Tables(Obj) /\ h \in [Obj -> 0..MaxFd]
      /\ Owned(e, h)
      /\ Mapped(c, z) => Mapped(e, h)
  <2> HIDE DEF c, z
  <2> QED BY <1>0, <1>1, <1>2, <1>4, <1>5, TakesFree
<1> QED BY <1>3, <1>4, <1>6

-----------------------------------------------------------------------------
(* The tables under the steps of the composition.                          *)

Tabled == /\ desc \in Tables(Obj) /\ fd \in [Obj -> 0..MaxFd]
          /\ Owned(desc, fd)
          /\ reopened \/ Mapped(desc, fd)

\* Reports and readiness come and go.
LEMMA TabledSame ==
  ASSUME Tabled, UNCHANGED <<fd, reopened>>, desc' \in Tables(Obj),
         desc'.owner = desc.owner, desc'.table = desc.table,
         desc'.watched = desc.watched
  PROVE  Tabled'
BY DEF Tabled, Owned, Mapped

LEMMA TabledWake ==
  ASSUME Tabled, UNCHANGED <<fd, reopened>>, NEW f, desc' = Wake(desc, f)
  PROVE  Tabled'
<1>1. desc \in Tables(Obj)
  BY DEF Tabled
<1> QED BY <1>1, WakeKeeps, TabledSame

LEMMA TabledUnchanged ==
  ASSUME Tabled, UNCHANGED <<desc, fd, reopened>>
  PROVE  Tabled'
BY DEF Tabled, Owned, Mapped

\* OnAccet, for a peer that has no descriptor yet.
LEMMA TabledAccet ==
  ASSUME Tabled, UNCHANGED reopened, NEW p \in Peers, fd[p] = 0,
         unread \in [Peers \cup Clients -> 0..1],
         FreeFds(desc) # {}, OnAccet(p, Lowest(FreeFds(desc)))
  PROVE  Tabled'
<1> DEFINE f == Lowest(FreeFds(desc))
           on == unread[p] > 0 \/ link[p] = "left"
<1>1. f \in FreeFds(desc)
  BY LowestFree DEF FreeFds
<1>2. p \in Obj /\ on \in BOOLEAN
  BY DEF Obj
<1>3. desc' = AddEvent(Opened(desc, f, p), f, p, on) /\ fd' = [fd EXCEPT ![p] = f]
  BY DEF OnAccet
<1> HIDE DEF f, on
<1> QED BY <1>1, <1>2, <1>3, TakesFree DEF Tabled

\* Open, of a listener that is not in events_ or is taken out of it.
LEMMA TabledOpen ==
  ASSUME Tabled, NEW d, d \in Tables(Obj), Owned(d, fd), Open(d),
         reopened' \/ (Mapped(d, fd) /\ \A f \in Fds : d.table[f] # Acceptor)
  PROVE  Tabled'
<1> DEFINE c == CloseFd(d, fd[Acceptor])
           f == Lowest(FreeFds(c))
<1>1. FreeFds(c) # {}
  BY DEF Open
<1>2. f \in FreeFds(c)
  BY <1>1, LowestFree DEF FreeFds
<1>3. /\ desc' = AddEvent(Opened(c, f, Acceptor), f, Acceptor, FALSE)
      /\ fd' = [fd EXCEPT ![Acceptor] = f]
  BY DEF Open
<1>4. fd \in [Obj -> 0..MaxFd]
  BY DEF Tabled
<1> HIDE DEF f
<1> QED BY <1>2, <1>3, <1>4, Reopens DEF Tabled

LEMMA TabledAcceptFail ==
  ASSUME Tabled, UNCHANGED reopened, Open(StopAcceptor)
  PROVE  Tabled'
<1> DEFINE d == DelEvent(desc, fd[Acceptor])
<1>1. /\ d \in Tables(Obj) /\ Owned(d, fd)
      /\ Mapped(desc, fd) => Mapped(d, fd) /\ \A f \in Fds : d.table[f] # Acceptor
  BY Unregistered DEF Tabled
<1>2. Open(d)
  BY DEF StopAcceptor
<1>3. reopened \/ Mapped(desc, fd)
  BY DEF Tabled
<1> HIDE DEF d
<1> QED BY <1>1, <1>2, <1>3, TabledOpen

LEMMA TabledRunOpen ==
  ASSUME Tabled, RunOpen
  PROVE  Tabled'
<1>1. Open(desc)
  BY DEF RunOpen
<1>2. reopened' \/ (~reopened /\ \A f \in Fds : desc.table[f] # Acceptor)
  BY DEF RunOpen
<1> QED BY <1>1, <1>2, TabledOpen DEF Tabled

LEMMA TabledStop ==
  ASSUME Tabled, Stop
  PROVE  Tabled'
<1>1. UNCHANGED <<fd, reopened>> /\ desc' = DelEvent(desc, fd[Acceptor])
  BY DEF Stop, StopAcceptor
<1> QED BY <1>1, Unregistered DEF Tabled

\* OnClose of either kind.
LEMMA TabledOnClose ==
  ASSUME Tabled, UNCHANGED reopened, NEW p \in Peers, OnClose(p)
  PROVE  Tabled'
<1>1. CASE closed[p]
  BY <1>1, TabledUnchanged DEF OnClose
<1>2. CASE ~closed[p]
  <2>1. /\ desc' = CloseFd(DelEvent(desc, fd[p]), fd[p])
        /\ fd' = [fd EXCEPT ![p] = 0]
    BY <1>2 DEF OnClose
  <2>2. p \in Obj
    BY DEF Obj
  <2> QED BY <2>1, <2>2, GivesUp DEF Tabled
<1> QED BY <1>1, <1>2

LEMMA TabledClientOnClose ==
  ASSUME Tabled, UNCHANGED reopened, NEW c \in Clients, ClientsInv,
         status \in [Clients -> {"init", "connecting", "connected", "disconnected"}],
         status[c] # "init", ClientOnClose(c)
  PROVE  Tabled'
<1>0. c \in Obj /\ fd \in [Obj -> 0..MaxFd]
  BY DEF Obj, Tabled
<1>1. CASE closed[c]
  <2>1. fd[c] = 0
    BY <1>1 DEF ClientsInv
  <2>2. desc' = desc /\ fd' = fd
    BY <1>0, <1>1, <2>1 DEF ClientOnClose, DelEvent
  <2> QED BY <2>2, TabledUnchanged
<1>2. CASE ~closed[c]
  <2>1. status[c] \in {"connecting", "connected"}
    BY <1>2 DEF ClientsInv
  <2>2. /\ desc' = CloseFd(DelEvent(desc, fd[c]), fd[c])
        /\ fd' = [fd EXCEPT ![c] = 0]
    BY <1>2, <2>1 DEF ClientOnClose
  <2> QED BY <1>0, <2>2, GivesUp DEF Tabled
<1> QED BY <1>1, <1>2

\* ConnectInLoop.
LEMMA TabledConnect ==
  ASSUME Tabled, ClientsInv, NEW c \in Clients, Connect(c)
  PROVE  Tabled'
<1>0. c \in Obj /\ fd[c] = 0 /\ UNCHANGED reopened
  BY DEF Obj, Connect, ClientsInv, ownerVars
<1>1. CASE ConnectFails(c)
  BY <1>0, <1>1, TabledUnchanged DEF ConnectFails
<1>2. CASE ConnectStarts(c)
  <2> DEFINE f == Lowest(FreeFds(desc))
             a == AddEvent(Opened(desc, f, c), f, c, FALSE)
             d == EnableWriting(a, f, FALSE)
             h == [fd EXCEPT ![c] = f]
  <2>1. f \in FreeFds(desc)
    BY <1>2, LowestFree DEF ConnectStarts, FreeFds
  <2>2. f \in Fds
    BY <2>1 DEF FreeFds
  <2>3. /\ a \in Tables(Obj) /\ h \in [Obj -> 0..MaxFd] /\ Owned(a, h)
        /\ Mapped(desc, fd) => Mapped(a, h)
    <3> HIDE DEF f
    <3> QED BY <1>0, <2>1, TakesFree DEF Tabled
  <2>4. /\ d \in Tables(Obj) /\ Owned(d, h)
        /\ Mapped(desc, fd) => Mapped(d, h)
    <3> HIDE DEF a, f, h
    <3> QED BY <2>2, <2>3, EnableKeeps, SameTables
  <2>5. \/ desc' = Wake(d, f) /\ fd' = h
        \/ desc' = d /\ fd' = h
        \/ desc' = CloseFd(DelEvent(d, f), f) /\ fd' = fd
    BY <1>2 DEF ConnectStarts
  <2> HIDE DEF d
  <2>6. CASE desc' = Wake(d, f) /\ fd' = h
    <3> HIDE DEF f, h
    <3> QED BY <1>0, <2>3, <2>4, <2>6, WakeKeeps, SameTables DEF Tabled
  <2>7. CASE desc' = d /\ fd' = h
    <3> HIDE DEF f, h
    <3> QED BY <1>0, <2>3, <2>4, <2>7 DEF Tabled
  <2>8. CASE desc' = CloseFd(DelEvent(d, f), f) /\ fd' = fd
    <3>1. h[c] = f /\ [h EXCEPT ![c] = 0] = fd
      BY <1>0 DEF Tabled
    <3> HIDE DEF f, h
    <3> QED BY <1>0, <2>3, <2>4, <2>8, <3>1, GivesUp DEF Tabled
  <2> QED BY <2>5, <2>6, <2>7, <2>8
<1> QED BY <1>1, <1>2 DEF Connect

\* No waiting peer has a descriptor.
LEMMA WaitingHasNone ==
  ASSUME Inv, backlog # <<>>
  PROVE  /\ Head(backlog) \in Peers
         /\ link[Head(backlog)] \in {"backlog", "left"}
         /\ fd[Head(backlog)] = 0 /\ told[Head(backlog)] = <<>>
<1>1. backlog \in Seq(Peers)
  BY DEF Inv, TablesAgree, TypeOK, ServerTypeOK
<1>2. 1 \in DOMAIN backlog /\ Head(backlog) = backlog[1] /\ backlog[1] \in Peers
  BY <1>1
<1>3. link[Head(backlog)] \in {"backlog", "left"}
  BY <1>2 DEF Inv, BacklogInv, Waiting
<1>4. told[Head(backlog)] = <<>>
  BY <1>2, <1>3 DEF Inv, PeersInv
<1>5. fd[Head(backlog)] # 0 <=> told[Head(backlog)] = <<"new">>
  BY <1>2 DEF Inv, PeersInv
<1> QED BY <1>2, <1>3, <1>4, <1>5

\* The tables agree after every step.
LEMMA TabledStep ==
  ASSUME Inv, [Next]_vars
  PROVE  Tabled'
<1>0. Tabled
  BY DEF Inv, TablesAgree, TypeOK, ServerTypeOK, Tabled
<1>a. ClientsInv /\ ClientTypeOK /\ unread \in [Peers \cup Clients -> 0..1]
  BY DEF Inv, TablesAgree, TypeOK, ServerTypeOK
<1>1. CASE Poll(errors)
  <2>1. /\ desc' = [desc EXCEPT !.ready = {}]
        /\ UNCHANGED <<fd, reopened>>
    BY <1>1 DEF Poll, ownerVars
  <2>2. /\ desc' \in Tables(Obj) /\ desc'.owner = desc.owner
        /\ desc'.table = desc.table /\ desc'.watched = desc.watched
    BY <1>0, <2>1 DEF Tabled, Tables
  <2> QED BY <1>0, <2>1, <2>2, TabledSame
<1>2. CASE Accept
  BY <1>0, <1>2, <1>a, WaitingHasNone, TabledAccet DEF Accept, ownerVars
<1>3. CASE AcceptFail
  BY <1>0, <1>3, TabledAcceptFail DEF AcceptFail, ownerVars
<1>4. CASE ReadEnd
  <2>1. CASE link[cur] \in {"fin", "gone"}
    BY <1>0, <1>4, <2>1, TabledOnClose DEF ReadEnd, ownerVars
  <2>2. CASE link[cur] \notin {"fin", "gone"}
    BY <1>0, <1>4, <2>2, TabledUnchanged DEF ReadEnd, ownerVars
  <2> QED BY <2>1, <2>2
<1>5. CASE RunOpen
  BY <1>0, <1>5, TabledRunOpen
<1>6. CASE DispatchNothing \/ DispatchRead \/ AcceptEnd \/ Read \/ UserReturn
           \/ TasksDone \/ ClientError \/ ClientDispatch \/ Start
  BY <1>0, <1>6, TabledUnchanged
     DEF DispatchNothing, DispatchRead, AcceptEnd, Read, UserReturn, TasksDone,
         ClientError, ClientDispatch, Start, ownerVars
<1>7. CASE ClientConnecting
  <2>1. PICK e \in batch :
          /\ desc.table[e[1]] \in Clients
          /\ status[desc.table[e[1]]] = "connecting"
          /\ \/ ClientOnClose(desc.table[e[1]])
             \/ UNCHANGED <<desc, fd>>
    BY <1>7 DEF ClientConnecting
  <2>2. UNCHANGED reopened
    BY <1>7 DEF ClientConnecting, ownerVars
  <2> QED BY <1>0, <1>a, <2>1, <2>2, TabledUnchanged, TabledClientOnClose
          DEF ClientTypeOK
<1>8. CASE ClientReadEnd
  <2>1. cur \in Clients /\ UNCHANGED reopened
    BY <1>8 DEF ClientReadEnd, ownerVars
  <2>2. CASE link[cur] \in {"fin", "gone"}
    <3>1. status[cur] # "init"
      BY <1>a, <2>1, <2>2 DEF ClientsInv
    <3>2. ClientOnClose(cur)
      BY <1>8, <2>2 DEF ClientReadEnd
    <3> QED BY <1>0, <1>a, <2>1, <3>1, <3>2, TabledClientOnClose DEF ClientTypeOK
  <2>3. CASE link[cur] \notin {"fin", "gone"}
    BY <1>0, <1>8, <2>1, <2>3, TabledUnchanged DEF ClientReadEnd
  <2> QED BY <2>2, <2>3
<1>9. ASSUME NEW p \in Peers, Close(p) PROVE Tabled'
  BY <1>0, <1>9, TabledOnClose DEF Close, ownerVars
<1>10. ASSUME NEW c \in Clients, Connect(c) PROVE Tabled'
  BY <1>0, <1>a, <1>10, TabledConnect
<1>11. ASSUME NEW c \in Clients, ClientClose(c) PROVE Tabled'
  <2>1. status[c] # "init" /\ ClientOnClose(c) /\ UNCHANGED reopened
    BY <1>11 DEF ClientClose, ownerVars
  <2> QED BY <1>0, <1>a, <2>1, TabledClientOnClose DEF ClientTypeOK
<1>12. CASE Stop
  BY <1>0, <1>12, TabledStop
<1>13. ASSUME NEW p \in Peers, PeerConnect(p) PROVE Tabled'
  <2>1. UNCHANGED <<fd, reopened>> /\ (desc' = Wake(desc, fd[Acceptor]) \/ UNCHANGED desc)
    BY <1>13 DEF PeerConnect, ownerVars
  <2> QED BY <1>0, <2>1, TabledWake, TabledUnchanged
<1>14. ASSUME NEW o \in Peers \cup Clients, Arrive(o) \/ PeerFin(o) PROVE Tabled'
  BY <1>0, <1>14, TabledWake DEF Arrive, PeerFin, ownerVars
<1>15. ASSUME NEW c \in Clients, ConnectOutcome(c) PROVE Tabled'
  BY <1>0, <1>15, TabledWake DEF ConnectOutcome, ownerVars
<1>16. CASE UNCHANGED vars
  BY <1>0, <1>16, TabledUnchanged DEF vars, baseVars, ownerVars
<1> QED
  BY <1>1, <1>2, <1>3, <1>4, <1>5, <1>6, <1>7, <1>8, <1>9, <1>10, <1>11, <1>12,
     <1>13, <1>14, <1>15, <1>16
  DEF Next, LoopStep, UserStep, OwnerStep, Outside

-----------------------------------------------------------------------------
(* What the server's user is told, and who waits.                          *)

Told == ReportedOnce /\ PeersInv /\ BacklogInv

\* The three histories are different.
LEMMA Histories ==
  /\ <<>> # <<"new">> /\ <<>> # <<"new", "destroy">> /\ <<"new">> # <<"new", "destroy">>
<1>1. Len(<<"new">>) = 1 /\ Len(<<"new", "destroy">>) = 2 /\ Len(<<>>) = 0
  OBVIOUS
<1> QED BY <1>1

\* Steps that leave the peers' side alone.
LEMMA ToldSame ==
  ASSUME Inv, UNCHANGED <<backlog, told, connections>>,
         \A p \in Peers : /\ link'[p] = link[p] /\ fd'[p] = fd[p]
                          /\ closed'[p] = closed[p]
  PROVE  Told'
<1>1. \A i \in DOMAIN backlog : backlog[i] \in Peers
  BY DEF Inv, TablesAgree, TypeOK, ServerTypeOK
<1>2. BacklogInv'
  BY <1>1 DEF Inv, BacklogInv, Waiting
<1>3. PeersInv'
  BY DEF Inv, PeersInv
<1>4. ReportedOnce'
  BY DEF Inv, ReportedOnce
<1> QED BY <1>2, <1>3, <1>4 DEF Told

\* Steps that take no peer on or off.
LEMMA ToldLinks ==
  ASSUME Inv, UNCHANGED <<fd, closed, told, connections>>, BacklogInv',
         \A p \in Peers :
           \/ link'[p] = link[p]
           \/ {link[p], link'[p]} \subseteq {"away", "backlog", "left", "refused"}
           \/ {link[p], link'[p]} \subseteq {"up", "fin"}
  PROVE  Told'
<1>1. PeersInv'
  BY DEF Inv, PeersInv
<1>2. ReportedOnce'
  BY DEF Inv, ReportedOnce
<1> QED BY <1>1, <1>2 DEF Told

\* A waiting peer becomes a connection.
LEMMA ToldAccept ==
  ASSUME Inv, Accept
  PROVE  Told'
<1> DEFINE p == Head(backlog)
           f == Lowest(FreeFds(desc))
<1>1. /\ p \in Peers /\ link[p] \in {"backlog", "left"} /\ fd[p] = 0 /\ told[p] = <<>>
      /\ backlog \in Seq(Peers) /\ IsInjective(backlog)
  BY WaitingHasNone DEF Accept, Inv, TablesAgree, TypeOK, ServerTypeOK
<1>2. f # 0
  <2>1. FreeFds(desc) # {} /\ FreeFds(desc) \subseteq Fds
    BY DEF Accept, FreeFds
  <2> QED BY <2>1, LowestFree, MaxFdAssumption DEF Fds
<1>3. /\ fd' = [fd EXCEPT ![p] = f]
      /\ connections' = connections \cup {p}
      /\ told' = [told EXCEPT ![p] = Append(@, "new")]
      /\ link' = [link EXCEPT ![p] = IF @ = "left" THEN "fin" ELSE "up"]
      /\ backlog' = Tail(backlog) /\ backlog # <<>> /\ UNCHANGED closed
  BY DEF Accept, OnAccet
<1>4. told'[p] = <<"new">> /\ \A q \in Peers \ {p} : told'[q] = told[q]
  BY <1>1, <1>3 DEF Inv, TablesAgree, TypeOK, ServerTypeOK
<1>5. /\ link'[p] \in {"up", "fin"} /\ fd'[p] = f
      /\ \A q \in Peers \ {p} : link'[q] = link[q] /\ fd'[q] = fd[q]
  BY <1>1, <1>3 DEF Inv, TablesAgree, TypeOK, ServerTypeOK, Obj
<1> HIDE DEF f
<1>6. PeersInv'
  BY <1>2, <1>4, <1>5 DEF Inv, PeersInv
<1>7. ReportedOnce'
  <2> SUFFICES ASSUME NEW q \in Peers
               PROVE  /\ told'[q] \in {<<>>, <<"new">>, <<"new", "destroy">>}
                      /\ q \in connections' <=> told'[q] = <<"new">>
                      /\ closed'[q] <=> told'[q] = <<"new", "destroy">>
    BY DEF ReportedOnce
  <2>1. CASE q = p
    <3>1. ~closed[p]
      BY <1>1, Histories DEF Inv, ReportedOnce
    <3> QED BY <1>3, <1>4, <2>1, <3>1, Histories
  <2>2. CASE q # p
    <3>1. told'[q] = told[q] /\ (q \in connections' <=> q \in connections)
          /\ closed'[q] = closed[q]
      BY <1>3, <1>4, <2>2
    <3> QED BY <3>1 DEF Inv, ReportedOnce
  <2> QED BY <2>1, <2>2
<1>8. BacklogInv'
  <2> SUFFICES ASSUME NEW i \in DOMAIN Tail(backlog)
               PROVE  link'[Tail(backlog)[i]] \in {"backlog", "left"}
    BY <1>3 DEF BacklogInv, Waiting
  <2>1. /\ i + 1 \in DOMAIN backlog /\ i + 1 # 1 /\ 1 \in DOMAIN backlog
        /\ Tail(backlog)[i] = backlog[i + 1] /\ p = backlog[1]
    BY <1>1, <1>3
  <2>2. backlog[i + 1] # p /\ backlog[i + 1] \in Peers
    BY <1>1, <2>1 DEF IsInjective
  <2>3. link[backlog[i + 1]] \in {"backlog", "left"}
    BY <2>1 DEF Inv, BacklogInv, Waiting
  <2> QED BY <1>5, <2>1, <2>2, <2>3
<1> QED BY <1>6, <1>7, <1>8 DEF Told

\* Open resets who waits.
LEMMA ToldOpen ==
  ASSUME Inv, NEW d, Open(d), UNCHANGED <<closed, told, connections>>
  PROVE  Told'
<1>1. /\ \A p \in Peers : fd'[p] = fd[p]
      /\ backlog' = <<>>
      /\ \A p \in Peers :
           link'[p] = IF link[p] \in {"backlog", "left"} THEN "refused" ELSE link[p]
  BY ObjAssumption DEF Open, Waiting, Inv, TablesAgree, TypeOK, ServerTypeOK, Obj
<1>2. BacklogInv'
  BY <1>1 DEF BacklogInv
<1>3. PeersInv'
  BY <1>1 DEF Inv, PeersInv
<1>4. ReportedOnce'
  BY DEF Inv, ReportedOnce
<1> QED BY <1>2, <1>3, <1>4 DEF Told

\* OnClose tells once.
LEMMA ToldOnClose ==
  ASSUME Inv, NEW p \in Peers, link[p] \in {"up", "fin", "gone"}, OnClose(p),
         UNCHANGED backlog
  PROVE  Told'
<1>1. CASE closed[p]
  BY <1>1, ToldSame DEF OnClose
<1>2. CASE ~closed[p]
  <2>1. told[p] = <<"new">> /\ link[p] \in {"up", "fin"}
    BY <1>2 DEF Inv, PeersInv, ReportedOnce
  <2>2. /\ told'[p] = <<"new", "destroy">>
        /\ closed'[p] /\ link'[p] = "gone" /\ fd'[p] = 0
        /\ connections' = connections \ {p}
        /\ \A q \in Peers \ {p} : /\ told'[q] = told[q] /\ closed'[q] = closed[q]
                                  /\ link'[q] = link[q] /\ fd'[q] = fd[q]
    BY <1>2, <2>1 DEF OnClose, Inv, TablesAgree, TypeOK, ServerTypeOK, Obj
  <2>3. PeersInv'
    BY <2>2 DEF Inv, PeersInv
  <2>4. ReportedOnce'
    <3> SUFFICES ASSUME NEW q \in Peers
                 PROVE  /\ told'[q] \in {<<>>, <<"new">>, <<"new", "destroy">>}
                        /\ q \in connections' <=> told'[q] = <<"new">>
                        /\ closed'[q] <=> told'[q] = <<"new", "destroy">>
      BY DEF ReportedOnce
    <3>1. CASE q = p
      BY <2>2, <3>1, Histories
    <3>2. CASE q # p
      <4>1. told'[q] = told[q] /\ (q \in connections' <=> q \in connections)
            /\ closed'[q] = closed[q]
        BY <2>2, <3>2
      <4> QED BY <4>1 DEF Inv, ReportedOnce
    <3> QED BY <3>1, <3>2
  <2>5. BacklogInv'
    <3> SUFFICES ASSUME NEW i \in DOMAIN backlog
                 PROVE  link'[backlog[i]] \in {"backlog", "left"}
      BY DEF BacklogInv, Waiting
    <3>1. backlog[i] \in Peers /\ link[backlog[i]] \in {"backlog", "left"}
      BY DEF Inv, BacklogInv, Waiting, TablesAgree, TypeOK, ServerTypeOK
    <3> QED BY <2>1, <2>2, <3>1
  <2> QED BY <2>3, <2>4, <2>5 DEF Told
<1> QED BY <1>1, <1>2

\* A peer joins the backlog.
LEMMA ToldPeerConnect ==
  ASSUME Inv, NEW p \in Peers, PeerConnect(p)
  PROVE  Told'
<1>1. /\ UNCHANGED <<fd, closed, told, connections>> /\ link[p] = "away"
      /\ \/ /\ link' = [link EXCEPT ![p] = "backlog"]
            /\ backlog' = Append(backlog, p)
         \/ /\ link' = [link EXCEPT ![p] = "refused"]
            /\ UNCHANGED backlog
  BY DEF PeerConnect, serverVars
<1>2. backlog \in Seq(Peers) /\ link'[p] \in {"backlog", "refused"}
      /\ \A q \in Peers \ {p} : link'[q] = link[q]
  BY <1>1 DEF Inv, TablesAgree, TypeOK, ServerTypeOK
<1>3. BacklogInv'
  <2> SUFFICES ASSUME NEW i \in DOMAIN backlog'
               PROVE  link'[backlog'[i]] \in {"backlog", "left"}
    BY DEF BacklogInv, Waiting
  <2>1. CASE i \in DOMAIN backlog
    <3>1. backlog'[i] = backlog[i] /\ backlog[i] \in Peers
      BY <1>1, <1>2, <2>1
    <3>2. link[backlog[i]] \in {"backlog", "left"} /\ backlog[i] # p
      BY <1>1, <2>1 DEF Inv, BacklogInv, Waiting
    <3> QED BY <1>2, <3>1, <3>2
  <2>2. CASE i \notin DOMAIN backlog
    <3>1. link' = [link EXCEPT ![p] = "backlog"] /\ backlog' = Append(backlog, p)
      BY <1>1, <2>2
    <3>2. backlog'[i] = p
      BY <1>2, <2>2, <3>1
    <3> QED BY <3>1, <3>2 DEF Inv, TablesAgree, TypeOK, ServerTypeOK
  <2> QED BY <2>1, <2>2
<1>4. \A q \in Peers : \/ link'[q] = link[q]
                       \/ {link[q], link'[q]} \subseteq {"away", "backlog", "left", "refused"}
  BY <1>1, <1>2
<1> QED BY <1>1, <1>3, <1>4, ToldLinks

LEMMA ToldStep ==
  ASSUME Inv, [Next]_vars
  PROVE  Told'
<1>0. Peers \cap Clients = {}
  BY ObjAssumption
<1>a. ServerTypeOK /\ fd \in [Obj -> 0..MaxFd] /\ Clients \subseteq Obj
  BY DEF Inv, TablesAgree, TypeOK, ServerTypeOK, Obj
<1>1. CASE Accept
  BY <1>1, ToldAccept
<1>2. CASE AcceptFail
  BY <1>2, ToldOpen DEF AcceptFail, serverVars
<1>3. CASE RunOpen
  BY <1>3, ToldOpen DEF RunOpen, serverVars
<1>4. CASE ReadEnd
  <2>1. CASE link[cur] \in {"fin", "gone"}
    BY <1>4, <2>1, ToldOnClose DEF ReadEnd
  <2>2. CASE link[cur] \notin {"fin", "gone"}
    BY <1>4, <2>2, ToldSame DEF ReadEnd
  <2> QED BY <2>1, <2>2
<1>5. ASSUME NEW p \in Peers, Close(p) PROVE Told'
  BY <1>5, ToldOnClose DEF Close
<1>6. CASE \/ Poll(errors) \/ DispatchNothing \/ DispatchRead \/ AcceptEnd \/ Read
           \/ UserReturn \/ TasksDone \/ ClientError \/ ClientDispatch \/ Start \/ Stop
  BY <1>6, ToldSame
     DEF Poll, DispatchNothing, DispatchRead, AcceptEnd, Read, UserReturn, TasksDone,
         ClientError, ClientDispatch, Start, Stop, kernelVars, serverVars
<1>7. ASSUME NEW c \in Clients, ClientOnClose(c),
             UNCHANGED <<backlog, told, connections>>
      PROVE  Told'
  <2>1. \A p \in Peers : /\ link'[p] = link[p] /\ fd'[p] = fd[p]
                         /\ closed'[p] = closed[p]
    BY <1>0, <1>a, <1>7 DEF ClientOnClose, ServerTypeOK, Obj
  <2> QED BY <1>7, <2>1, ToldSame
<1>8. CASE ClientConnecting
  <2>1. UNCHANGED <<backlog, told, connections>>
    BY <1>8 DEF ClientConnecting, serverVars
  <2>2. \/ \E c \in Clients : ClientOnClose(c)
        \/ UNCHANGED <<fd, closed, link>>
    BY <1>8 DEF ClientConnecting
  <2> QED BY <1>7, <2>1, <2>2, ToldSame
<1>9. CASE ClientReadEnd
  <2>1. UNCHANGED <<backlog, told, connections>> /\ cur \in Clients
    BY <1>9 DEF ClientReadEnd, serverVars
  <2>2. ClientOnClose(cur) \/ UNCHANGED <<fd, closed, link>>
    BY <1>9 DEF ClientReadEnd
  <2> QED BY <1>7, <2>1, <2>2, ToldSame
<1>10. ASSUME NEW c \in Clients, ClientClose(c) PROVE Told'
  BY <1>7, <1>10 DEF ClientClose, serverVars
<1>11. ASSUME NEW c \in Clients, Connect(c) PROVE Told'
  <2>1. UNCHANGED <<backlog, told, connections>>
    BY <1>11 DEF Connect, serverVars
  <2>2. \A p \in Peers : /\ link'[p] = link[p] /\ fd'[p] = fd[p]
                         /\ closed'[p] = closed[p]
    <3>1. CASE ConnectFails(c)
      BY <1>0, <1>a, <1>11, <3>1 DEF ConnectFails, ServerTypeOK
    <3>2. CASE ConnectStarts(c)
      <4> DEFINE f == Lowest(FreeFds(desc))
      <4>1. /\ fd' = [fd EXCEPT ![c] = f] \/ UNCHANGED fd
            /\ (closed' = [closed EXCEPT ![c] = TRUE]) \/ UNCHANGED closed
            /\ \E l \in {"up", "syn", "gone"} : link' = [link EXCEPT ![c] = l]
        BY <3>2 DEF ConnectStarts
      <4> HIDE DEF f
      <4> QED BY <1>0, <1>a, <1>11, <4>1 DEF ServerTypeOK, Obj
    <3> QED BY <1>11, <3>1, <3>2 DEF Connect
  <2> QED BY <2>1, <2>2, ToldSame
<1>12. ASSUME NEW p \in Peers, PeerConnect(p) PROVE Told'
  BY <1>12, ToldPeerConnect
<1>13. ASSUME NEW o \in Peers \cup Clients, Arrive(o) PROVE Told'
  BY <1>13, ToldSame DEF Arrive, serverVars
<1>14. ASSUME NEW o \in Peers \cup Clients, PeerFin(o) PROVE Told'
  <2>1. /\ UNCHANGED <<fd, closed, told, connections, backlog>>
        /\ \/ link[o] = "up" /\ link' = [link EXCEPT ![o] = "fin"]
           \/ link[o] = "backlog" /\ link' = [link EXCEPT ![o] = "left"]
    BY <1>14 DEF PeerFin, serverVars
  <2>2. \A q \in Peers \cup Clients :
          \/ link'[q] = link[q]
          \/ link[q] = "up" /\ link'[q] = "fin"
          \/ link[q] = "backlog" /\ link'[q] = "left"
    BY <1>a, <2>1 DEF ServerTypeOK
  <2>3. BacklogInv'
    <3> SUFFICES ASSUME NEW i \in DOMAIN backlog
                 PROVE  link'[backlog[i]] \in {"backlog", "left"}
      BY <2>1 DEF BacklogInv, Waiting
    <3>1. backlog[i] \in Peers /\ link[backlog[i]] \in {"backlog", "left"}
      BY <1>a DEF Inv, BacklogInv, Waiting, ServerTypeOK
    <3> QED BY <2>2, <3>1
  <2> QED BY <2>1, <2>2, <2>3, ToldLinks
<1>15. ASSUME NEW c \in Clients, ConnectOutcome(c) PROVE Told'
  <2>1. /\ UNCHANGED <<fd, closed, told, connections, backlog>>
        /\ \E l \in {"up", "refused"} : link' = [link EXCEPT ![c] = l]
    BY <1>15 DEF ConnectOutcome, serverVars
  <2>2. \A p \in Peers : link'[p] = link[p]
    BY <1>0, <1>a, <2>1 DEF ServerTypeOK
  <2> QED BY <2>1, <2>2, ToldSame
<1>16. CASE UNCHANGED vars
  BY <1>16, ToldSame DEF vars, baseVars, kernelVars, serverVars
<1> QED
  BY <1>1, <1>2, <1>3, <1>4, <1>5, <1>6, <1>8, <1>9, <1>10, <1>11, <1>12, <1>13,
     <1>14, <1>15, <1>16
  DEF Next, LoopStep, UserStep, OwnerStep, Outside

-----------------------------------------------------------------------------
(* Clients.                                                                *)

\* Steps that leave a client's status, closed_ and fd_ alone.
LEMMA ClientsSame ==
  ASSUME Inv,
         \A c \in Clients : /\ status'[c] = status[c] /\ closed'[c] = closed[c]
                            /\ fd'[c] = fd[c]
                            /\ status[c] = "init" => link'[c] = link[c]
  PROVE  ClientsInv'
BY DEF Inv, ClientsInv

\* OnClose of a connection and Open of the acceptor are no client's affair.
LEMMA ClientsOnClose ==
  ASSUME Inv, NEW p \in Peers, OnClose(p), UNCHANGED status
  PROVE  ClientsInv'
<1>1. \A c \in Clients : /\ closed'[c] = closed[c] /\ fd'[c] = fd[c]
                         /\ link'[c] = link[c]
  BY ObjAssumption DEF OnClose, Inv, TablesAgree, TypeOK, ServerTypeOK, Obj
<1> QED BY <1>1, ClientsSame

LEMMA ClientsOpen ==
  ASSUME Inv, NEW d, Open(d), UNCHANGED <<status, closed>>
  PROVE  ClientsInv'
<1>1. \A c \in Clients : /\ fd'[c] = fd[c]
                         /\ status[c] = "init" => link'[c] = link[c]
  BY ObjAssumption DEF Open, Waiting, Inv, ClientsInv, TablesAgree, TypeOK, ServerTypeOK, Obj
<1> QED BY <1>1, ClientsSame

\* A client's OnClose.
LEMMA ClientsClientOnClose ==
  ASSUME Inv, NEW c \in Clients, ClientOnClose(c)
  PROVE  ClientsInv'
<1>1. /\ status'[c] = "disconnected" /\ closed'[c]
      /\ fd'[c] = IF closed[c] THEN fd[c] ELSE 0
      /\ \A b \in Clients \ {c} :
           /\ status'[b] = status[b] /\ closed'[b] = closed[b]
           /\ fd'[b] = fd[b] /\ link'[b] = link[b]
  BY DEF ClientOnClose, Inv, TablesAgree, TypeOK, ServerTypeOK, ClientTypeOK, Obj
<1> QED BY <1>1 DEF Inv, ClientsInv

LEMMA ClientsConnect ==
  ASSUME Inv, NEW c \in Clients, Connect(c)
  PROVE  ClientsInv'
<1> DEFINE Same == \A b \in Clients \ {c} :
             /\ status'[b] = status[b] /\ closed'[b] = closed[b]
             /\ fd'[b] = fd[b] /\ link'[b] = link[b]
<1>0. status[c] = "init" /\ ~closed[c] /\ fd[c] = 0
  BY DEF Connect, Inv, ClientsInv
<1>1. CASE ConnectFails(c)
  <2>1. Same /\ status'[c] = "disconnected" /\ closed'[c] /\ fd'[c] = fd[c]
    BY <1>1 DEF ConnectFails, Inv, TablesAgree, TypeOK, ServerTypeOK, ClientTypeOK
  <2> QED BY <1>0, <2>1 DEF Inv, ClientsInv
<1>2. CASE ConnectStarts(c)
  <2> DEFINE f == Lowest(FreeFds(desc))
  <2>1. \/ /\ status' \in {[status EXCEPT ![c] = s] : s \in {"connected", "connecting"}}
           /\ UNCHANGED closed /\ fd' = [fd EXCEPT ![c] = f]
        \/ /\ status' = [status EXCEPT ![c] = "disconnected"]
           /\ closed' = [closed EXCEPT ![c] = TRUE] /\ UNCHANGED fd
    BY <1>2 DEF ConnectStarts
  <2>2. \E l \in {"up", "syn", "gone"} : link' = [link EXCEPT ![c] = l]
    BY <1>2 DEF ConnectStarts
  <2> HIDE DEF f
  <2>3. Same
    BY <2>1, <2>2 DEF Inv, TablesAgree, TypeOK, ServerTypeOK, ClientTypeOK, Obj
  <2>4. \/ status'[c] \in {"connected", "connecting"} /\ ~closed'[c]
        \/ status'[c] = "disconnected" /\ closed'[c] /\ fd'[c] = 0
    BY <1>0, <2>1 DEF Inv, TablesAgree, TypeOK, ServerTypeOK, ClientTypeOK, Obj
  <2> QED BY <2>3, <2>4 DEF Inv, ClientsInv
<1> QED BY <1>1, <1>2 DEF Connect

LEMMA ClientsStep ==
  ASSUME Inv, [Next]_vars
  PROVE  ClientsInv'
<1>0. Peers \cap Clients = {} /\ ServerTypeOK /\ ClientTypeOK /\ ClientsInv
  BY ObjAssumption DEF Inv, TablesAgree, TypeOK
<1>1. CASE Accept /\ UNCHANGED clientVars
  <2>1. \A c \in Clients : fd'[c] = fd[c] /\ link'[c] = link[c]
    BY <1>0, <1>1, WaitingHasNone DEF Accept, OnAccet, ServerTypeOK, Obj
  <2> QED BY <1>1, <2>1, ClientsSame DEF Accept, clientVars
<1>2. CASE (AcceptFail \/ RunOpen) /\ UNCHANGED clientVars
  BY <1>2, ClientsOpen DEF AcceptFail, RunOpen, clientVars
<1>3. CASE ReadEnd /\ UNCHANGED clientVars
  <2>1. CASE link[cur] \in {"fin", "gone"}
    BY <1>3, <2>1, ClientsOnClose DEF ReadEnd, clientVars
  <2>2. CASE link[cur] \notin {"fin", "gone"}
    BY <1>3, <2>2, ClientsSame DEF ReadEnd, clientVars
  <2> QED BY <2>1, <2>2
<1>4. ASSUME NEW p \in Peers, Close(p), UNCHANGED clientVars PROVE ClientsInv'
  BY <1>4, ClientsOnClose DEF Close, clientVars
<1>5. CASE /\ \/ Poll(errors) \/ DispatchNothing \/ DispatchRead \/ AcceptEnd \/ Read
              \/ UserReturn \/ TasksDone \/ Start \/ Stop
           /\ UNCHANGED clientVars
  BY <1>5, ClientsSame
     DEF Poll, DispatchNothing, DispatchRead, AcceptEnd, Read, UserReturn, TasksDone,
         Start, Stop, kernelVars, clientVars
<1>6. CASE ClientError \/ ClientDispatch
  BY <1>6, ClientsSame DEF ClientError, ClientDispatch, kernelVars, clientVars
<1>7. CASE ClientConnecting
  <2>1. PICK c \in Clients :
          /\ status[c] = "connecting"
          /\ \/ ClientOnClose(c)
             \/ /\ status' = [status EXCEPT ![c] = "connected"]
                /\ UNCHANGED <<fd, closed, link>>
    BY <1>7 DEF ClientConnecting
  <2>2. CASE ClientOnClose(c)
    BY <2>2, ClientsClientOnClose
  <2>3. CASE /\ status' = [status EXCEPT ![c] = "connected"]
             /\ UNCHANGED <<fd, closed, link>>
    BY <1>0, <2>1, <2>3 DEF ClientsInv, ClientTypeOK
  <2> QED BY <2>1, <2>2, <2>3
<1>8. CASE ClientReadEnd
  <2>1. \/ cur \in Clients /\ ClientOnClose(cur)
        \/ UNCHANGED <<fd, closed, link, status>>
    BY <1>8 DEF ClientReadEnd
  <2> QED BY <2>1, ClientsClientOnClose, ClientsSame
<1>9. ASSUME NEW c \in Clients, ClientClose(c) PROVE ClientsInv'
  BY <1>9, ClientsClientOnClose DEF ClientClose
<1>10. ASSUME NEW c \in Clients, Connect(c) PROVE ClientsInv'
  BY <1>10, ClientsConnect
<1>11. ASSUME NEW p \in Peers, PeerConnect(p), UNCHANGED clientVars PROVE ClientsInv'
  <2>1. \A c \in Clients : link'[c] = link[c]
    BY <1>0, <1>11 DEF PeerConnect, ServerTypeOK
  <2> QED BY <1>11, <2>1, ClientsSame DEF PeerConnect, clientVars
<1>12. ASSUME NEW o \in Peers \cup Clients, Arrive(o) \/ PeerFin(o),
              UNCHANGED clientVars
       PROVE  ClientsInv'
  <2>1. \A c \in Clients : status[c] = "init" => link'[c] = link[c]
    BY <1>0, <1>12 DEF Arrive, PeerFin, ServerTypeOK, ClientsInv
  <2> QED BY <1>12, <2>1, ClientsSame DEF Arrive, PeerFin, clientVars
<1>13. ASSUME NEW b \in Clients, ConnectOutcome(b) PROVE ClientsInv'
  <2>1. \A c \in Clients : status[c] = "init" => link'[c] = link[c]
    BY <1>0, <1>13 DEF ConnectOutcome, ServerTypeOK, ClientsInv
  <2> QED BY <1>13, <2>1, ClientsSame DEF ConnectOutcome
<1>14. CASE UNCHANGED vars
  BY <1>14, ClientsSame DEF vars, baseVars, kernelVars, clientVars
<1> QED
  BY <1>1, <1>2, <1>3, <1>4, <1>5, <1>6, <1>7, <1>8, <1>9, <1>10, <1>11, <1>12,
     <1>13, <1>14
  DEF Next, LoopStep, UserStep, OwnerStep, Outside

-----------------------------------------------------------------------------
(* Types, but for those of the tables.                                     *)

\* The tables' types aside, OnClose and Open keep the type of what they change.
Others ==
  /\ closed \in [Peers \cup Clients -> BOOLEAN]
  /\ link \in [Peers \cup Clients ->
               {"away", "backlog", "left", "syn", "up", "fin", "refused", "gone"}]
  /\ unread \in [Peers \cup Clients -> 0..1]
  /\ connections \subseteq Peers
  /\ told \in [Peers -> Seq({"new", "destroy"})]

LEMMA OthersOnClose ==
  ASSUME Others, NEW p \in Peers, OnClose(p)
  PROVE  Others'
<1>1. CASE closed[p]
  BY <1>1 DEF Others, OnClose
<1>2. CASE ~closed[p]
  <2>1. Append(told[p], "destroy") \in Seq({"new", "destroy"})
    BY DEF Others
  <2>2. told' = [told EXCEPT ![p] = Append(told[p], "destroy")]
    BY <1>2 DEF OnClose
  <2>3. told' \in [Peers -> Seq({"new", "destroy"})]
    BY <2>1, <2>2 DEF Others
  <2>4. /\ closed' = [closed EXCEPT ![p] = TRUE]
        /\ connections' = connections \ {p}
        /\ link' = [link EXCEPT ![p] = "gone"]
        /\ unread' = [unread EXCEPT ![p] = 0]
    BY <1>2 DEF OnClose
  <2> QED BY <2>3, <2>4 DEF Others
<1> QED BY <1>1, <1>2

LEMMA OthersOpen ==
  ASSUME Others, NEW d, Open(d), UNCHANGED <<closed, connections, told>>
  PROVE  Others'
BY DEF Others, Open

LEMMA OthersClientOnClose ==
  ASSUME Others, ClientTypeOK, NEW c \in Clients, ClientOnClose(c),
         UNCHANGED <<connections, told>>
  PROVE  /\ Others'
         /\ status' \in [Clients -> {"init", "connecting", "connected", "disconnected"}]
         /\ errors' \subseteq Clients
BY DEF Others, ClientTypeOK, ClientOnClose

LEMMA OthersStep ==
  ASSUME Inv, [Next]_vars
  PROVE  Others'
<1>0. Others /\ ServerTypeOK /\ ClientTypeOK
  BY DEF Inv, TablesAgree, TypeOK, ServerTypeOK, Others
<1>1. CASE Accept
  BY <1>0, <1>1, WaitingHasNone DEF Accept, OnAccet, Others
<1>2. CASE AcceptFail \/ RunOpen
  BY <1>0, <1>2, OthersOpen DEF AcceptFail, RunOpen, serverVars
<1>3. CASE ReadEnd
  <2>1. CASE link[cur] \in {"fin", "gone"}
    BY <1>0, <1>3, <2>1, OthersOnClose DEF ReadEnd
  <2>2. CASE link[cur] \notin {"fin", "gone"}
    BY <1>0, <1>3, <2>2 DEF ReadEnd, Others
  <2> QED BY <2>1, <2>2
<1>4. ASSUME NEW p \in Peers, Close(p) PROVE Others'
  BY <1>0, <1>4, OthersOnClose DEF Close
<1>5. CASE \/ Poll(errors) \/ DispatchNothing \/ DispatchRead \/ AcceptEnd
           \/ UserReturn \/ TasksDone \/ ClientError \/ ClientDispatch \/ Start \/ Stop
  BY <1>0, <1>5
     DEF Poll, DispatchNothing, DispatchRead, AcceptEnd, UserReturn, TasksDone,
         ClientError, ClientDispatch, Start, Stop, kernelVars, serverVars, Others
<1>6. CASE Read
  <2>1. unread' \in [Peers \cup Clients -> 0..1]
    <3>1. unread' = [unread EXCEPT ![cur] = 0]
      BY <1>6 DEF Read
    <3>2. unread \in [Peers \cup Clients -> 0..1] /\ 0 \in 0..1
      BY <1>0 DEF Others
    <3> QED BY <3>1, <3>2
  <2> QED BY <1>0, <1>6, <2>1 DEF Read, serverVars, Others
<1>7. CASE ClientConnecting
  <2>1. \/ \E c \in Clients : ClientOnClose(c)
        \/ UNCHANGED <<closed, link, unread>>
    BY <1>7 DEF ClientConnecting
  <2>2. UNCHANGED <<connections, told>>
    BY <1>7 DEF ClientConnecting, serverVars
  <2> QED BY <1>0, <2>1, <2>2, OthersClientOnClose DEF Others
<1>8. CASE ClientReadEnd
  <2>1. \/ cur \in Clients /\ ClientOnClose(cur)
        \/ UNCHANGED <<closed, link, unread>>
    BY <1>8 DEF ClientReadEnd
  <2>2. UNCHANGED <<connections, told>>
    BY <1>8 DEF ClientReadEnd, serverVars
  <2> QED BY <1>0, <2>1, <2>2, OthersClientOnClose DEF Others
<1>9. ASSUME NEW c \in Clients, ClientClose(c) PROVE Others'
  BY <1>0, <1>9, OthersClientOnClose DEF ClientClose, serverVars
<1>10. ASSUME NEW c \in Clients, Connect(c) PROVE Others'
  <2>1. UNCHANGED <<unread, connections, told>>
    BY <1>10 DEF Connect, serverVars
  <2>2. /\ (closed' = [closed EXCEPT ![c] = TRUE]) \/ UNCHANGED closed
        /\ \/ \E l \in {"up", "syn", "gone"} : link' = [link EXCEPT ![c] = l]
           \/ UNCHANGED link
    BY <1>10 DEF Connect, ConnectFails, ConnectStarts
  <2> QED BY <1>0, <2>1, <2>2 DEF Others
<1>11. ASSUME NEW p \in Peers, PeerConnect(p) PROVE Others'
  BY <1>0, <1>11 DEF PeerConnect, serverVars, Others
<1>12. ASSUME NEW o \in Peers \cup Clients, Arrive(o) \/ PeerFin(o) PROVE Others'
  BY <1>0, <1>12 DEF Arrive, PeerFin, serverVars, Others
<1>13. ASSUME NEW c \in Clients, ConnectOutcome(c) PROVE Others'
  BY <1>0, <1>13 DEF ConnectOutcome, serverVars, Others
<1>14. CASE UNCHANGED vars
  BY <1>0, <1>14 DEF vars, baseVars, kernelVars, serverVars, Others
<1> QED
  BY <1>1, <1>2, <1>3, <1>4, <1>5, <1>6, <1>7, <1>8, <1>9, <1>10, <1>11, <1>12,
     <1>13, <1>14
  DEF Next, LoopStep, UserStep, OwnerStep, Outside

\* The backlog holds each peer once.
BacklogOK == backlog \in Seq(Peers) /\ IsInjective(backlog)

LEMMA BacklogAccept ==
  ASSUME BacklogOK, backlog # <<>>, backlog' = Tail(backlog)
  PROVE  BacklogOK'
<1>1. backlog' \in Seq(Peers)
  BY DEF BacklogOK
<1>2. \A i \in DOMAIN backlog' : i + 1 \in DOMAIN backlog /\ backlog'[i] = backlog[i + 1]
  BY DEF BacklogOK
<1>3. \A i, j \in DOMAIN backlog' : backlog'[i] = backlog'[j] => i = j
  <2> SUFFICES ASSUME NEW i \in DOMAIN backlog', NEW j \in DOMAIN backlog',
                      backlog'[i] = backlog'[j]
               PROVE  i = j
    OBVIOUS
  <2>1. i + 1 = j + 1
    BY <1>2 DEF BacklogOK, IsInjective
  <2>2. i \in Nat /\ j \in Nat
    BY <1>1
  <2> QED BY <2>1, <2>2
<1> QED BY <1>1, <1>3 DEF BacklogOK, IsInjective

LEMMA BacklogConnect ==
  ASSUME BacklogOK, BacklogInv, NEW p \in Peers, link[p] = "away",
         backlog' = Append(backlog, p)
  PROVE  BacklogOK'
<1>1. backlog' \in Seq(Peers)
  BY DEF BacklogOK
<1>2. \A i \in DOMAIN backlog : backlog[i] # p
  BY DEF BacklogInv, Waiting
<1>3. \A i \in DOMAIN backlog' :
        \/ i \in DOMAIN backlog /\ backlog'[i] = backlog[i]
        \/ i = Len(backlog) + 1 /\ backlog'[i] = p
  BY DEF BacklogOK
<1>4. \A i, j \in DOMAIN backlog' : backlog'[i] = backlog'[j] => i = j
  BY <1>2, <1>3 DEF BacklogOK, IsInjective
<1> QED BY <1>1, <1>4 DEF BacklogOK, IsInjective

LEMMA BacklogStep ==
  ASSUME Inv, [Next]_vars
  PROVE  BacklogOK'
<1>0. BacklogOK /\ BacklogInv
  BY DEF Inv, TablesAgree, TypeOK, ServerTypeOK, BacklogOK
<1>1. CASE Accept
  BY <1>0, <1>1, BacklogAccept DEF Accept
<1>2. CASE AcceptFail \/ RunOpen
  <2>1. backlog' = <<>>
    BY <1>2 DEF AcceptFail, RunOpen, Open
  <2> QED BY <2>1 DEF BacklogOK, IsInjective
<1>3. ASSUME NEW p \in Peers, PeerConnect(p) PROVE BacklogOK'
  BY <1>0, <1>3, BacklogConnect DEF PeerConnect, BacklogOK
<1>4. ASSUME UNCHANGED backlog PROVE BacklogOK'
  BY <1>0, <1>4 DEF BacklogOK
<1>5. CASE \/ Poll(errors) \/ DispatchNothing \/ DispatchRead \/ AcceptEnd \/ Read
           \/ UserReturn \/ ReadEnd \/ TasksDone \/ ClientError \/ ClientConnecting
           \/ ClientDispatch \/ ClientReadEnd \/ Start \/ Stop
  BY <1>4, <1>5
     DEF Poll, DispatchNothing, DispatchRead, AcceptEnd, Read, UserReturn, ReadEnd,
         TasksDone, ClientError, ClientConnecting, ClientDispatch, ClientReadEnd,
         Start, Stop, kernelVars
<1>6. CASE \/ \E p \in Peers : Close(p)
           \/ \E c \in Clients : Connect(c) \/ ClientClose(c) \/ ConnectOutcome(c)
           \/ \E o \in Peers \cup Clients : Arrive(o) \/ PeerFin(o)
  BY <1>4, <1>6 DEF Close, Connect, ClientClose, ConnectOutcome, Arrive, PeerFin
<1>7. CASE UNCHANGED vars
  BY <1>4, <1>7 DEF vars, baseVars, kernelVars
<1> QED BY <1>1, <1>2, <1>3, <1>5, <1>6, <1>7
        DEF Next, LoopStep, UserStep, OwnerStep, Outside

\* The loop's place, its batch and the object whose handler runs.
LoopOK == /\ pc \in {"poll", "dispatch", "accept", "read", "message", "tasks"}
          /\ batch \subseteq Fds \X SUBSET {"IN", "OUT", "ERR"}
          /\ cur \in Obj \cup {None}

LEMMA LoopOKStep ==
  ASSUME Inv, [Next]_vars
  PROVE  LoopOK'
<1>0. LoopOK
  BY DEF Inv, TablesAgree, TypeOK, ServerTypeOK, LoopOK
<1>1. CASE Poll(errors)
  <2>1. \A f \in Fds : Conditions(f) \subseteq {"IN", "OUT"}
    BY DEF Conditions
  <2>2. desc.ready \subseteq Fds
    BY DEF Inv, TablesAgree, TypeOK, ServerTypeOK, Tables
  <2>3. \A f \in Fds : Conditions(f) \cup (IF desc.owner[f] \in errors
                                        THEN {"ERR"} ELSE {}) \in SUBSET {"IN", "OUT", "ERR"}
    BY <2>1
  <2>4. batch' = {<<f, Conditions(f) \cup (IF desc.owner[f] \in errors
                                        THEN {"ERR"} ELSE {})>> :
                 f \in {g \in desc.ready : Conditions(g) # {}}}
    BY <1>1 DEF Poll
  <2>5. batch' \subseteq Fds \X SUBSET {"IN", "OUT", "ERR"}
    BY <2>2, <2>3, <2>4
  <2>6. UNCHANGED cur /\ pc' \in {"tasks", "dispatch"}
    BY <1>1 DEF Poll
  <2> QED BY <1>0, <2>5, <2>6 DEF LoopOK
<1>2. CASE DispatchNothing \/ ClientError \/ ClientConnecting
  <2>1. UNCHANGED cur /\ \E e \in batch : Take(e, "dispatch")
    BY <1>2 DEF DispatchNothing, ClientError, ClientConnecting
  <2> QED BY <1>0, <2>1 DEF LoopOK, Take
<1>3. CASE DispatchRead
  <2>1. cur' \in Obj /\ \E e \in batch : Take(e, "accept") \/ Take(e, "read")
    BY <1>3 DEF DispatchRead, Obj
  <2> QED BY <1>0, <2>1 DEF LoopOK, Take
<1>4. CASE ClientDispatch
  <2>1. cur' \in Clients \cup {cur} /\ \E e \in batch : Take(e, "dispatch") \/ Take(e, "read")
    BY <1>4 DEF ClientDispatch
  <2> QED BY <1>0, <2>1 DEF LoopOK, Take, Obj
<1>5. CASE AcceptEnd \/ AcceptFail \/ ReadEnd \/ ClientReadEnd
  BY <1>0, <1>5 DEF AcceptEnd, AcceptFail, ReadEnd, ClientReadEnd, Return, LoopOK
<1>6. CASE Read \/ UserReturn \/ TasksDone
  BY <1>0, <1>6 DEF Read, UserReturn, TasksDone, LoopOK
<1>7. ASSUME UNCHANGED <<pc, batch, cur>> PROVE LoopOK'
  BY <1>0, <1>7 DEF LoopOK
<1>8. CASE RunOpen \/ Start \/ Stop
  BY <1>7, <1>8 DEF RunOpen, Start, Stop, loopVars
<1>9. CASE \/ \E p \in Peers : Close(p) \/ PeerConnect(p)
           \/ \E c \in Clients : Connect(c) \/ ClientClose(c) \/ ConnectOutcome(c)
           \/ \E o \in Peers \cup Clients : Arrive(o) \/ PeerFin(o)
  BY <1>7, <1>9
     DEF Close, PeerConnect, Connect, ClientClose, ConnectOutcome, Arrive, PeerFin, loopVars
<1>10. CASE UNCHANGED vars
  BY <1>7, <1>10 DEF vars, baseVars, loopVars
<1>11. CASE Accept
  <2>1. UNCHANGED <<pc, batch>> /\ cur' \in Peers
    BY <1>11, WaitingHasNone DEF Accept
  <2> QED BY <1>0, <2>1 DEF LoopOK, Obj
<1> QED BY <1>1, <1>2, <1>3, <1>4, <1>5, <1>6, <1>8, <1>9, <1>10, <1>11
        DEF Next, LoopStep, UserStep, OwnerStep, Outside

\* The owner's calls, the tasks that they have left, and the bound on segments.
CountsOK ==
  /\ opens \in 0..Len(OwnerProgram) /\ calls \in 0..Len(OwnerProgram)
  /\ reopened \in BOOLEAN /\ opens <= calls
  /\ still \in [Peers \cup Clients -> 0..MaxSegments]

LEMMA CountsStep ==
  ASSUME Inv, [Next]_vars
  PROVE  CountsOK'
<1>0. CountsOK /\ Len(OwnerProgram) \in Nat /\ MaxSegments \in Nat
  BY OwnerAssumption DEF Inv, TablesAgree, TypeOK, ServerTypeOK, CountsOK
<1>1. CASE Start
  BY <1>0, <1>1 DEF Start, kernelVars, CountsOK
<1>2. CASE RunOpen
  BY <1>0, <1>2 DEF RunOpen, CountsOK
<1>3. CASE Stop
  BY <1>0, <1>3 DEF Stop, kernelVars, loopVars, CountsOK
<1>4. ASSUME NEW o \in Peers \cup Clients, Arrive(o) PROVE CountsOK'
  <2>1. still' = [still EXCEPT ![o] = still[o] - 1] /\ still[o] - 1 \in 0..MaxSegments
    BY <1>0, <1>4 DEF Arrive, CountsOK
  <2> QED BY <1>0, <1>4, <2>1 DEF Arrive, loopVars, ownerVars, CountsOK
<1>5. ASSUME UNCHANGED <<opens, calls, reopened, still>> PROVE CountsOK'
  BY <1>0, <1>5 DEF CountsOK
<1>6. CASE \/ Poll(errors) \/ DispatchNothing \/ DispatchRead \/ Accept \/ AcceptEnd
           \/ AcceptFail \/ Read \/ UserReturn \/ ReadEnd \/ TasksDone
  BY <1>5, <1>6
     DEF Poll, DispatchNothing, DispatchRead, Accept, AcceptEnd, AcceptFail, Read,
         UserReturn, ReadEnd, TasksDone, kernelVars, loopVars, ownerVars
<1>7. CASE ClientError \/ ClientConnecting \/ ClientDispatch \/ ClientReadEnd
  BY <1>5, <1>7
     DEF ClientError, ClientConnecting, ClientDispatch, ClientReadEnd, kernelVars,
         ownerVars
<1>8. CASE \/ \E p \in Peers : Close(p) \/ PeerConnect(p)
           \/ \E c \in Clients : Connect(c) \/ ClientClose(c) \/ ConnectOutcome(c)
           \/ \E o \in Peers \cup Clients : PeerFin(o)
  BY <1>5, <1>8
     DEF Close, PeerConnect, Connect, ClientClose, ConnectOutcome, PeerFin, loopVars,
         ownerVars
<1>9. CASE UNCHANGED vars
  BY <1>5, <1>9 DEF vars, baseVars, kernelVars, loopVars, ownerVars
<1> QED BY <1>1, <1>2, <1>3, <1>4, <1>6, <1>7, <1>8, <1>9
        DEF Next, LoopStep, UserStep, OwnerStep, Outside

LEMMA ClientTypeStep ==
  ASSUME Inv, [Next]_vars
  PROVE  ClientTypeOK'
<1>0. ClientTypeOK /\ Others
  BY DEF Inv, TablesAgree, TypeOK, ServerTypeOK, Others
<1>1. ASSUME UNCHANGED clientVars PROVE ClientTypeOK'
  BY <1>0, <1>1 DEF clientVars, ClientTypeOK
<1>2. CASE ClientError
  BY <1>0, <1>2 DEF ClientError, ClientTypeOK
<1>3. CASE ClientConnecting
  <2>1. PICK c \in Clients :
          \/ ClientOnClose(c) /\ UNCHANGED missed
          \/ /\ status' = [status EXCEPT ![c] = "connected"]
             /\ missed' \in {missed, missed \cup {c}} /\ UNCHANGED errors
    BY <1>3 DEF ClientConnecting
  <2>2. UNCHANGED <<connections, told>>
    BY <1>3 DEF ClientConnecting, serverVars
  <2>3. CASE ClientOnClose(c) /\ UNCHANGED missed
    BY <1>0, <2>2, <2>3, OthersClientOnClose DEF ClientTypeOK
  <2>4. CASE /\ status' = [status EXCEPT ![c] = "connected"]
             /\ missed' \in {missed, missed \cup {c}} /\ UNCHANGED errors
    BY <1>0, <2>4 DEF ClientTypeOK
  <2> QED BY <2>1, <2>3, <2>4
<1>4. CASE ClientDispatch
  BY <1>1, <1>4 DEF ClientDispatch
<1>5. CASE ClientReadEnd
  <2>1. \/ cur \in Clients /\ ClientOnClose(cur)
        \/ UNCHANGED <<status, errors>>
    BY <1>5 DEF ClientReadEnd
  <2>2. UNCHANGED <<connections, told, missed>>
    BY <1>5 DEF ClientReadEnd, serverVars
  <2> QED BY <1>0, <2>1, <2>2, OthersClientOnClose DEF ClientTypeOK
<1>6. ASSUME NEW c \in Clients, ClientClose(c) PROVE ClientTypeOK'
  <2>1. ClientOnClose(c) /\ UNCHANGED <<connections, told, missed>>
    BY <1>6 DEF ClientClose, serverVars
  <2> QED BY <1>0, <2>1, OthersClientOnClose DEF ClientTypeOK
<1>7. ASSUME NEW c \in Clients, Connect(c) PROVE ClientTypeOK'
  <2>1. \E s \in {"connecting", "connected", "disconnected"} :
          status' = [status EXCEPT ![c] = s]
    BY <1>7 DEF Connect, ConnectFails, ConnectStarts
  <2>2. UNCHANGED <<errors, missed>>
    BY <1>7 DEF Connect
  <2> QED BY <1>0, <2>1, <2>2 DEF ClientTypeOK
<1>8. ASSUME NEW c \in Clients, ConnectOutcome(c) PROVE ClientTypeOK'
  BY <1>0, <1>8 DEF ConnectOutcome, ClientTypeOK
<1>9. CASE UNCHANGED vars
  BY <1>1, <1>9 DEF vars
<1> QED BY <1>1, <1>2, <1>3, <1>4, <1>5, <1>6, <1>7, <1>8, <1>9
        DEF Next, LoopStep, UserStep, OwnerStep, Outside

-----------------------------------------------------------------------------
(* The theorems.                                                           *)

LEMMA InvInit ==
  ASSUME Init
  PROVE  Inv
<1>1. ServerTypeOK
  <2>1. desc \in Tables(Obj) /\ fd \in [Obj -> 0..MaxFd]
    BY MaxFdAssumption DEF Init, ServerInit, NoDescriptors, Tables
  <2>2. BacklogOK
    BY DEF Init, ServerInit, BacklogOK, IsInjective
  <2>3. Others
    <3>1. <<>> \in Seq({"new", "destroy"})
      OBVIOUS
    <3>2. /\ closed = [o \in Peers \cup Clients |-> FALSE]
          /\ link = [o \in Peers \cup Clients |-> "away"]
          /\ unread = [o \in Peers \cup Clients |-> 0]
          /\ connections = {} /\ told = [p \in Peers |-> <<>>]
      BY DEF Init, ServerInit
    <3> QED BY <3>1, <3>2 DEF Others
  <2>4. LoopOK
    BY DEF Init, ServerInit, LoopOK
  <2>5. CountsOK
    <3>1. Len(OwnerProgram) \in Nat /\ MaxSegments \in Nat
      BY OwnerAssumption
    <3>2. /\ opens = 0 /\ calls = 0 /\ reopened = FALSE
          /\ still = [o \in Peers \cup Clients |-> IF o \in Talkers THEN MaxSegments ELSE 0]
      BY DEF Init, ServerInit
    <3>3. still \in [Peers \cup Clients -> 0..MaxSegments]
      BY <3>1, <3>2
    <3>4. opens \in 0..Len(OwnerProgram) /\ calls \in 0..Len(OwnerProgram) /\ opens <= calls
      BY <3>1, <3>2
    <3> QED BY <3>2, <3>3, <3>4 DEF CountsOK
  <2> QED BY <2>1, <2>2, <2>3, <2>4, <2>5
          DEF ServerTypeOK, BacklogOK, Others, LoopOK, CountsOK
<1>2. ClientTypeOK
  BY DEF Init, ClientInit, ClientTypeOK
<1>3. Owned(desc, fd) /\ Mapped(desc, fd)
  BY ObjAssumption DEF Init, ServerInit, NoDescriptors, Owned, Mapped
<1>4. ReportedOnce /\ PeersInv
  BY Histories, ObjAssumption DEF Init, ServerInit, ReportedOnce, PeersInv, Obj
<1>5. BacklogInv
  BY DEF Init, ServerInit, BacklogInv
<1>6. ClientsInv
  BY DEF Init, ServerInit, ClientInit, ClientsInv, Obj
<1>7. opens <= calls
  BY DEF Init, ServerInit
<1> QED BY <1>1, <1>2, <1>3, <1>4, <1>5, <1>6, <1>7 DEF Inv, TablesAgree, TypeOK

(***************************************************************************)
(* The handlers of acceptor, connections and clients, and Start and Stop   *)
(* from the owner's thread, keep the inductive invariant: who has a        *)
(* descriptor, who has been told of, who waits in the backlog              *)
(* (acceptor.cpp, tcpserver.cpp, tcpclient.cpp).                           *)
(***************************************************************************)
THEOREM InvariantHolds == Spec => []Inv
<1>1. Init => Inv
  BY InvInit
<1>2. Inv /\ [Next]_vars => Inv'
  <2> SUFFICES ASSUME Inv, [Next]_vars PROVE Inv'
    OBVIOUS
  <2>1. Tabled' /\ Told' /\ ClientsInv' /\ Others' /\ BacklogOK' /\ LoopOK' /\ CountsOK'
        /\ ClientTypeOK'
    BY TabledStep, ToldStep, ClientsStep, OthersStep, BacklogStep, LoopOKStep,
       CountsStep, ClientTypeStep
  <2>2. ServerTypeOK'
    BY <2>1 DEF ServerTypeOK, Tabled, Others, BacklogOK, LoopOK, CountsOK
  <2> QED BY <2>1, <2>2 DEF Inv, TablesAgree, TypeOK, Tabled, Told, CountsOK
<1> QED BY <1>1, <1>2, PTL DEF Spec

(***************************************************************************)
(* However descriptors are closed and their numbers used again within a    *)
(* batch of reports, the kernel's table, epoll's interest list and events_ *)
(* agree about whose they are (eventloop.cpp:102-184), until Open closes a *)
(* listener that is still registered.                                      *)
(***************************************************************************)
THEOREM TablesStayInStep == Spec => []TablesAgree
<1>1. Inv => TablesAgree
  BY DEF Inv
<1> QED BY <1>1, InvariantHolds, PTL

(***************************************************************************)
(* Each accepted connection is announced once and reported destroyed once, *)
(* whoever closes it and however often (tcpserver.cpp:76-114,              *)
(* tcpconnection.cpp:23-35), and is in connections_ exactly in between.    *)
(***************************************************************************)
THEOREM EachIsReportedOnce == Spec => []ReportedOnce
<1>1. Inv => ReportedOnce
  BY DEF Inv
<1> QED BY <1>1, InvariantHolds, PTL
==============================================================================
