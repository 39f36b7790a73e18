-------------------------- MODULE TcpClientProofs --------------------------
(***************************************************************************)
(* Theorems about TcpClient, for any number of clients and sockets, on the *)
(* loop's thread or off it: type correctness; no descriptor is closed      *)
(* twice, unless a client is released on another thread while a callback   *)
(* of it runs; every open socket is held by one client; a client that says *)
(* it is connected is.                                                     *)
(***************************************************************************)
EXTENDS TcpClient, TLAPS

USE ClientAssumption

\* No two bufferevents own one socket.
Apart ==
  \A c, d \in Client : HasBev(c) /\ bev[c].fd = bev[d].fd => c = d

\* The socket of a bufferevent is open, and was given to connect(2).
Opened ==
  \A c \in Client : HasBev(c) => net[bev[c].fd] \notin {"free", "unused"}

\* The socket of a failed bufferevent_socket_new stays as it is, and belongs to
\* one client.
Leaked ==
  \A c \in Client :
    lost[c] # Invalid =>
      net[lost[c]] = "unused" /\ \A d \in Client : lost[d] = lost[c] => d = c

\* Every open socket has a client.
Held ==
  \A f \in Fd : net[f] = "free" \/ \E c \in Client : f \in {bev[c].fd, lost[c]}

SocketInv == Apart /\ Opened /\ Leaked /\ Held /\ NoDoubleClose

\* The callbacks of a connect on another thread are not set yet, so nothing
\* has been noted, and no callback has freed the bufferevent.
NoCallbackYet(c) == HasBev(c) /\ ~bev[c].cb /\ bev[c].pend = {}

\* The connection was established.
Real(c) == HasBev(c) /\ net[bev[c].fd] \in {"up", "ended"}

ClientInv(c) ==
  /\ pc[c] = "connect" => NoCallbackYet(c)
  /\ pc[c] = "idle" /\ c \in OffLoop => ~HasBev(c)
  /\ pc[c] # "idle" => c \in OffLoop
  /\ pc[c] = "send" => bev[c].out < MaxOut
  /\ "connected" \in bev[c].pend => Real(c)
  /\ isConnected[c] /\ ~torn[c] => Real(c)

Core ==
  /\ TypeOK
  /\ SocketInv
  /\ \A c \in Client : ClientInv(c)

\* handleEvent has taken _isConnected back before it frees the bufferevent.
HandlingInv ==
  \A c \in handling : /\ ~isConnected[c]
                      /\ pc[c] # "connect"
                      /\ pc[c] = "idle" => c \notin OffLoop

IInv == Core /\ HandlingInv

-----------------------------------------------------------------------------
\* What an operation does to the bufferevents and the sockets.

\* The sockets once the bufferevent of c is freed.
Freed(c) == Closed(net, bev[c].fd)

\* f is opened after that.
Opens(c, f, s) == Freed(c)[f] = "free" /\ net' = [Freed(c) EXCEPT ![f] = s]

\* The bufferevent of c is freed, and what a connect makes of it after that.
Replaced(c) ==
  \/ /\ net' = Freed(c)
     /\ bev' = [bev EXCEPT ![c] = NoBev]
     /\ lost' = lost
  \/ \E f \in Fd :
       /\ Opens(c, f, "unused")
       /\ bev' = [bev EXCEPT ![c] = NoBev]
       /\ lost[c] = Invalid
       /\ lost' = [lost EXCEPT ![c] = f]
  \/ \E f \in Fd, ready \in BOOLEAN :
       /\ Opens(c, f, "connecting")
       /\ bev' = [bev EXCEPT ![c] = NewBev(f, ready)]
       /\ lost' = lost

\* Nothing is opened, closed or handed to another bufferevent.
Kept ==
  /\ \A c \in Client : bev'[c].fd = bev[c].fd
  /\ \/ net' = net
     \/ \E c \in Client, s \in NetState \ {"free", "unused"} :
          HasBev(c) /\ net' = [net EXCEPT ![bev[c].fd] = s]
  /\ lost' = lost
  /\ badClose' = badClose
  /\ raced' = raced

LEMMA FdFacts == Invalid \notin Fd /\ Fd = 1..NFd
BY DEF Invalid, Fd

LEMMA BevFacts ==
  ASSUME TypeOK, NEW c \in Client
  PROVE  /\ bev[c] \in BevType
         /\ bev[c].fd \in Fd \cup {Invalid}
         /\ bev[c].out \in 0..MaxOut
         /\ bev[c].pend \in SUBSET {"connected", "written", "error"}
         /\ HasBev(c) <=> bev[c].fd \in Fd
         /\ ~HasBev(c) => bev[c] = NoBev
BY FdFacts DEF TypeOK, BevType, HasBev

LEMMA NewBevFacts ==
  /\ NoBev \in BevType /\ NoBev.fd = Invalid /\ NoBev.pend = {} /\ NoBev.out = 0
  /\ ~NoBev.connecting
  /\ \A f \in Fd, ready \in BOOLEAN :
       /\ NewBev(f, ready) \in BevType
       /\ NewBev(f, ready).fd = f
       /\ NewBev(f, ready).cb = ready
       /\ NewBev(f, ready).pend = {}
       /\ NewBev(f, ready).out = 0
BY DEF NoBev, NewBev, BevType

\* get_socket never returns a socket.
LEMMA GetSocketInvalid == \A c \in Client : GetSocket(c) = Invalid
BY DEF GetSocket, HasBev

LEMMA FreedFacts ==
  ASSUME TypeOK, NEW c \in Client
  PROVE  /\ Freed(c) \in [Fd -> NetState]
         /\ \A f \in Fd : Freed(c)[f] = IF f = bev[c].fd THEN "free" ELSE net[f]
<1>1. net \in [Fd -> NetState]
  BY DEF TypeOK
<1>2. CASE bev[c].fd = Invalid
  BY <1>1, <1>2, FdFacts DEF Freed, Closed
<1>3. CASE bev[c].fd # Invalid
  <2>1. Freed(c) = [net EXCEPT ![bev[c].fd] = "free"]
    BY <1>3 DEF Freed, Closed
  <2>2. QED
    BY <1>1, <2>1 DEF NetState
<1>4. QED
  BY <1>2, <1>3

LEMMA FreedNotBad ==
  ASSUME TypeOK, SocketInv, NEW c \in Client
  PROVE  ~NotOpen(net, bev[c].fd)
BY DEF SocketInv, Opened, NotOpen, HasBev

\* A socket opened after the bufferevent of c was freed belongs to nobody else.
LEMMA OpensFacts ==
  ASSUME TypeOK, SocketInv, NEW c \in Client, NEW f \in Fd, NEW s \in NetState,
         Opens(c, f, s)
  PROVE  /\ net' \in [Fd -> NetState]
         /\ net'[f] = s
         /\ \A g \in Fd \ {f} : net'[g] = IF g = bev[c].fd THEN "free" ELSE net[g]
         /\ \A d \in Client \ {c} : bev[d].fd # f
         /\ \A d \in Client : lost[d] # f
<1>1. /\ Freed(c) \in [Fd -> NetState]
      /\ \A g \in Fd : Freed(c)[g] = IF g = bev[c].fd THEN "free" ELSE net[g]
  BY FreedFacts
<1>2. Freed(c)[f] = "free" /\ net' = [Freed(c) EXCEPT ![f] = s]
  BY DEF Opens
<1>3. /\ net' \in [Fd -> NetState]
      /\ net'[f] = s
      /\ \A g \in Fd \ {f} : net'[g] = IF g = bev[c].fd THEN "free" ELSE net[g]
  BY <1>1, <1>2
<1>4. f = bev[c].fd \/ net[f] = "free"
  BY <1>1, <1>2
<1>5. ASSUME NEW d \in Client \ {c}
      PROVE  bev[d].fd # f
  <2>1. bev[d].fd = f => HasBev(d)
    BY FdFacts DEF HasBev
  <2>2. bev[d].fd = f => net[f] # "free" /\ f # bev[c].fd
    BY <2>1 DEF SocketInv, Opened, Apart
  <2>3. QED
    BY <1>4, <2>2
<1>6. \A d \in Client : lost[d] # f
  <2>1. f = bev[c].fd => net[f] # "unused"
    BY FdFacts DEF SocketInv, Opened, HasBev
  <2>2. QED
    BY <1>4, <2>1, FdFacts DEF SocketInv, Leaked
<1>7. QED
  BY <1>3, <1>5, <1>6

LEMMA ReplacedFacts ==
  ASSUME TypeOK, SocketInv, NEW c \in Client, Replaced(c)
  PROVE  /\ net' \in [Fd -> NetState]
         /\ bev' \in [Client -> BevType]
         /\ lost' \in [Client -> Fd \cup {Invalid}]
         /\ bev'[c].pend = {} /\ bev'[c].out = 0
         /\ bev'[c] = NoBev \/ bev'[c].fd \in Fd
         /\ \A d \in Client \ {c} : /\ bev'[d] = bev[d]
                                    /\ HasBev(d) => net'[bev[d].fd] = net[bev[d].fd]
<1>1. bev \in [Client -> BevType] /\ lost \in [Client -> Fd \cup {Invalid}]
  BY DEF TypeOK
<1>2. \A d \in Client \ {c} : HasBev(d) => bev[d].fd \in Fd /\ bev[d].fd # bev[c].fd
  BY BevFacts DEF SocketInv, Apart
<1>3. CASE net' = Freed(c) /\ bev' = [bev EXCEPT ![c] = NoBev] /\ lost' = lost
  BY <1>1, <1>2, <1>3, FreedFacts, NewBevFacts
<1>4. ASSUME NEW f \in Fd, Opens(c, f, "unused"),
             bev' = [bev EXCEPT ![c] = NoBev],
             lost[c] = Invalid, lost' = [lost EXCEPT ![c] = f]
      PROVE  /\ net' \in [Fd -> NetState]
             /\ \A d \in Client \ {c} : HasBev(d) => net'[bev[d].fd] = net[bev[d].fd]
  <2>1. "unused" \in NetState
    BY DEF NetState
  <2>2. QED
    BY <1>2, <1>4, <2>1, OpensFacts
<1>5. ASSUME NEW f \in Fd, Opens(c, f, "connecting")
      PROVE  /\ net' \in [Fd -> NetState]
             /\ \A d \in Client \ {c} : HasBev(d) => net'[bev[d].fd] = net[bev[d].fd]
  <2>1. "connecting" \in NetState
    BY DEF NetState
  <2>2. QED
    BY <1>2, <1>5, <2>1, OpensFacts
<1>6. CASE \E f \in Fd : /\ Opens(c, f, "unused")
                         /\ bev' = [bev EXCEPT ![c] = NoBev]
                         /\ lost[c] = Invalid
                         /\ lost' = [lost EXCEPT ![c] = f]
  <2>1. PICK f \in Fd : /\ Opens(c, f, "unused")
                        /\ bev' = [bev EXCEPT ![c] = NoBev]
                        /\ lost[c] = Invalid
                        /\ lost' = [lost EXCEPT ![c] = f]
    BY <1>6
  <2>2. lost' \in [Client -> Fd \cup {Invalid}]
    BY <1>1, <2>1
  <2>3. /\ bev' \in [Client -> BevType] /\ bev'[c] = NoBev
        /\ \A d \in Client \ {c} : bev'[d] = bev[d]
    BY <1>1, <2>1, NewBevFacts
  <2>4. QED
    BY <1>4, <2>1, <2>2, <2>3, NewBevFacts
<1>7. CASE \E f \in Fd, ready \in BOOLEAN :
             /\ Opens(c, f, "connecting")
             /\ bev' = [bev EXCEPT ![c] = NewBev(f, ready)]
             /\ lost' = lost
  BY <1>1, <1>5, <1>7, NewBevFacts
<1>8. QED
  BY <1>3, <1>6, <1>7 DEF Replaced

LEMMA ReplacedSockets ==
  ASSUME TypeOK, SocketInv, NEW c \in Client, Replaced(c), badClose' => raced'
  PROVE  SocketInv'
<1>1. bev \in [Client -> BevType] /\ lost \in [Client -> Fd \cup {Invalid}]
  BY DEF TypeOK
<1>2. \A d \in Client : HasBev(d) => bev[d].fd \in Fd /\ (d # c => bev[d].fd # bev[c].fd)
  BY BevFacts DEF SocketInv, Apart
<1>3. CASE net' = Freed(c) /\ bev' = [bev EXCEPT ![c] = NoBev] /\ lost' = lost
  <2>1. /\ bev'[c].fd = Invalid
        /\ \A d \in Client \ {c} : bev'[d] = bev[d]
        /\ \A f \in Fd : net'[f] = IF f = bev[c].fd THEN "free" ELSE net[f]
    BY <1>1, <1>3, FreedFacts, NewBevFacts
  <2>2. Apart'
    BY <2>1 DEF SocketInv, Apart, HasBev
  <2>3. Opened'
    BY <1>2, <2>1 DEF SocketInv, Opened, HasBev
  <2>4. Leaked'
    <3>1. \A d \in Client : lost[d] # Invalid => lost[d] \in Fd /\ lost[d] # bev[c].fd
      BY <1>1, FdFacts DEF SocketInv, Leaked, Opened, HasBev
    <3>2. QED
      BY <1>1, <1>3, <2>1, <3>1 DEF SocketInv, Leaked
  <2>5. Held'
    BY <1>3, <2>1 DEF SocketInv, Held
  <2>6. QED
    BY <2>2, <2>3, <2>4, <2>5 DEF SocketInv, NoDoubleClose
<1>4. ASSUME NEW f \in Fd, Opens(c, f, "unused"),
             bev' = [bev EXCEPT ![c] = NoBev],
             lost[c] = Invalid, lost' = [lost EXCEPT ![c] = f]
      PROVE  SocketInv'
  <2>1. /\ net'[f] = "unused"
        /\ \A g \in Fd \ {f} : net'[g] = IF g = bev[c].fd THEN "free" ELSE net[g]
        /\ \A d \in Client \ {c} : bev[d].fd # f
        /\ \A d \in Client : lost[d] # f
    BY <1>4, OpensFacts DEF NetState
  <2>2. bev'[c].fd = Invalid /\ \A d \in Client \ {c} : bev'[d] = bev[d]
    BY <1>1, <1>4, NewBevFacts
  <2>3. Apart'
    BY <2>2 DEF SocketInv, Apart, HasBev
  <2>4. Opened'
    BY <1>2, <2>1, <2>2 DEF SocketInv, Opened, HasBev
  <2>5. Leaked'
    <3>1. \A d \in Client : lost[d] # Invalid =>
                              lost[d] \in Fd /\ lost[d] # bev[c].fd /\ lost[d] # f
      BY <1>1, <2>1, FdFacts DEF SocketInv, Leaked, Opened, HasBev
    <3>2. QED
      BY <1>1, <1>4, <2>1, <3>1 DEF SocketInv, Leaked
  <2>6. Held'
    <3>1. lost'[c] = f /\ \A d \in Client \ {c} : lost'[d] = lost[d]
      BY <1>1, <1>4
    <3>2. ASSUME NEW g \in Fd, net'[g] # "free", g # f
          PROVE  \E d \in Client : g \in {bev'[d].fd, lost'[d]}
      <4>1. g # bev[c].fd /\ net[g] # "free" /\ g # lost[c]
        BY <1>4, <2>1, <3>2, FdFacts
      <4>2. PICK d \in Client : g \in {bev[d].fd, lost[d]}
        BY <4>1 DEF SocketInv, Held
      <4>3. QED
        BY <2>2, <3>1, <4>1, <4>2
    <3>3. QED
      BY <3>1, <3>2 DEF Held
  <2>7. QED
    BY <2>3, <2>4, <2>5, <2>6 DEF SocketInv, NoDoubleClose
<1>5. ASSUME NEW f \in Fd, NEW ready \in BOOLEAN, Opens(c, f, "connecting"),
             bev' = [bev EXCEPT ![c] = NewBev(f, ready)], lost' = lost
      PROVE  SocketInv'
  <2>1. /\ net'[f] = "connecting"
        /\ \A g \in Fd \ {f} : net'[g] = IF g = bev[c].fd THEN "free" ELSE net[g]
        /\ \A d \in Client \ {c} : bev[d].fd # f
        /\ \A d \in Client : lost[d] # f
    BY <1>5, OpensFacts DEF NetState
  <2>2. bev'[c].fd = f /\ \A d \in Client \ {c} : bev'[d] = bev[d]
    BY <1>1, <1>5, NewBevFacts
  <2>3. Apart'
    BY <2>1, <2>2 DEF SocketInv, Apart, HasBev
  <2>4. Opened'
    <3>1. ASSUME NEW d \in Client, HasBev(d)'
          PROVE  net'[bev'[d].fd] \notin {"free", "unused"}
      <4>1. CASE d = c
        BY <2>1, <2>2, <4>1
      <4>2. CASE d # c
        <5>1. HasBev(d) /\ bev'[d].fd = bev[d].fd
          BY <2>2, <3>1, <4>2 DEF HasBev
        <5>2. net'[bev[d].fd] = net[bev[d].fd]
          BY <1>2, <2>1, <4>2, <5>1
        <5>3. QED
          BY <5>1, <5>2 DEF SocketInv, Opened
      <4>3. QED
        BY <4>1, <4>2
    <3>2. QED
      BY <3>1 DEF Opened
  <2>5. Leaked'
    <3>1. \A d \in Client : lost[d] # Invalid =>
                              lost[d] \in Fd /\ lost[d] # bev[c].fd /\ lost[d] # f
      BY <1>1, <2>1, FdFacts DEF SocketInv, Leaked, Opened, HasBev
    <3>2. QED
      BY <1>1, <1>5, <2>1, <3>1 DEF SocketInv, Leaked
  <2>6. Held'
    BY <1>5, <2>1, <2>2 DEF SocketInv, Held
  <2>7. QED
    BY <2>3, <2>4, <2>5, <2>6 DEF SocketInv, NoDoubleClose
<1>6. QED
  BY <1>3, <1>4, <1>5 DEF Replaced

LEMMA KeptSockets ==
  ASSUME TypeOK, SocketInv, Kept
  PROVE  /\ SocketInv'
         /\ net' \in [Fd -> NetState]
         /\ lost' \in [Client -> Fd \cup {Invalid}]
<1>1. net \in [Fd -> NetState] /\ lost \in [Client -> Fd \cup {Invalid}]
  BY DEF TypeOK
<1>2. /\ \A c \in Client : bev'[c].fd = bev[c].fd
      /\ lost' = lost /\ badClose' = badClose /\ raced' = raced
  BY DEF Kept
<1>3. Apart'
  BY <1>2 DEF SocketInv, Apart, HasBev
<1>4. CASE net' = net
  BY <1>1, <1>2, <1>3, <1>4 DEF SocketInv, Opened, Leaked, Held, NoDoubleClose, HasBev
<1>5. ASSUME NEW c \in Client, NEW s \in NetState \ {"free", "unused"},
             HasBev(c), net' = [net EXCEPT ![bev[c].fd] = s]
      PROVE  SocketInv' /\ net' \in [Fd -> NetState]
  <2>1. bev[c].fd \in Fd
    BY <1>5, BevFacts
  <2>2. /\ net' \in [Fd -> NetState]
        /\ \A f \in Fd : net'[f] = IF f = bev[c].fd THEN s ELSE net[f]
    BY <1>1, <1>5, <2>1
  <2>3. Opened'
    <3>1. \A d \in Client : HasBev(d)' => HasBev(d) /\ bev'[d].fd \in Fd
      BY <1>2, BevFacts DEF HasBev
    <3>2. QED
      BY <1>2, <2>2, <3>1 DEF SocketInv, Opened
  <2>4. Leaked'
    <3>1. \A d \in Client : lost[d] # Invalid => lost[d] \in Fd /\ lost[d] # bev[c].fd
      BY <1>1, <1>5, FdFacts DEF SocketInv, Opened, Leaked
    <3>2. QED
      BY <1>1, <1>2, <2>2, <3>1 DEF SocketInv, Leaked
  <2>5. Held'
    BY <1>2, <2>2 DEF SocketInv, Held
  <2>6. QED
    BY <1>2, <1>3, <2>2, <2>3, <2>4, <2>5 DEF SocketInv, NoDoubleClose
<1>6. QED
  BY <1>1, <1>2, <1>4, <1>5 DEF Kept

-----------------------------------------------------------------------------
\* connect, with the bufferevent there or freed before (reconnect).

ConnectEffect(c, ready) ==
  /\ badClose' = badClose
  /\ crashed' \in BOOLEAN
  /\ att' \in [Client -> 0..MaxAtt]
  /\ closed' \in [Client -> BOOLEAN]
  /\ \/ bev' = bev /\ net' = net /\ lost' = lost /\ torn' = torn
     \/ /\ Replaced(c)
        /\ torn' = [torn EXCEPT ![c] = isConnected[c]]
        /\ bev'[c] = NoBev \/ bev'[c].cb = ready

LEMMA ConnectWithEffect ==
  ASSUME TypeOK, SocketInv, NEW c \in Client, NEW cur, NEW n,
         NEW bad \in BOOLEAN, NEW ready \in BOOLEAN,
         ConnectWith(c, cur, n, bad, ready), ~bad,
         \/ cur = bev[c] /\ n = net
         \/ cur = NoBev /\ n = Freed(c)
  PROVE  ConnectEffect(c, ready)
<1>1. /\ bev \in [Client -> BevType]
      /\ torn \in [Client -> BOOLEAN]
      /\ att \in [Client -> 0..MaxAtt]
      /\ closed \in [Client -> BOOLEAN]
      /\ badClose \in BOOLEAN
      /\ crashed \in BOOLEAN
  BY DEF TypeOK
<1>2. ~NotOpen(n, cur.fd)
  <2>1. ~NotOpen(Freed(c), NoBev.fd)
    BY NewBevFacts DEF NotOpen
  <2>2. QED
    BY <2>1, FreedNotBad
<1>3. Closed(n, cur.fd) = Freed(c)
  <2>1. Closed(Freed(c), NoBev.fd) = Freed(c)
    BY NewBevFacts DEF Closed
  <2>2. Closed(net, bev[c].fd) = Freed(c)
    BY DEF Freed
  <2>3. QED
    BY <2>1, <2>2
<1>4. \A f \in Fd : n[f] = "free" => Freed(c)[f] = "free"
  BY FreedFacts
<1>5. att' \in [Client -> 0..MaxAtt]
  BY <1>1 DEF ConnectWith
<1>6. CASE /\ bev' = [bev EXCEPT ![c] = cur]
           /\ net' = n
           /\ torn' = [torn EXCEPT ![c] = IF cur = bev[c] THEN @ ELSE isConnected[c]]
           /\ badClose' = (badClose \/ bad)
           /\ UNCHANGED <<closed, lost, crashed>>
  <2>1. CASE cur = bev[c]
    <3>1. bev' = bev
      BY <1>1, <1>6, <2>1
    <3>2. torn' = torn
      BY <1>1, <1>6, <2>1
    <3>3. net' = net
      <4>1. cur = NoBev => Freed(c) = net
        BY <2>1, NewBevFacts DEF Freed, Closed
      <4>2. QED
        BY <1>6, <4>1
    <3>4. QED
      BY <1>1, <1>5, <1>6, <3>1, <3>2, <3>3 DEF ConnectEffect
  <2>2. CASE cur # bev[c]
    <3>1. Replaced(c)
      BY <1>6, <2>2 DEF Replaced
    <3>2. torn' = [torn EXCEPT ![c] = isConnected[c]]
      BY <1>6, <2>2
    <3>3. bev'[c] = NoBev
      BY <1>1, <1>6, <2>2
    <3>4. QED
      BY <1>1, <1>5, <1>6, <3>1, <3>2, <3>3 DEF ConnectEffect
  <2>3. QED
    BY <2>1, <2>2
<1>7. ASSUME NEW f \in Fd,
             n[f] = "free",
             lost[c] = Invalid,
             crashed' = crashed,
             badClose' = (badClose \/ bad \/ NotOpen(n, cur.fd)),
             torn' = [torn EXCEPT ![c] = isConnected[c]],
             closed' = [closed EXCEPT ![c] = FALSE],
             \/ /\ bev' = [bev EXCEPT ![c] = NoBev]
                /\ net' = [Closed(n, cur.fd) EXCEPT ![f] = "unused"]
                /\ lost' = [lost EXCEPT ![c] = f]
             \/ /\ bev' = [bev EXCEPT ![c] = NoBev]
                /\ net' = Closed(n, cur.fd)
                /\ lost' = lost
             \/ /\ bev' = [bev EXCEPT ![c] = NewBev(f, ready)]
                /\ net' = [Closed(n, cur.fd) EXCEPT ![f] = "connecting"]
                /\ lost' = lost
      PROVE  ConnectEffect(c, ready)
  <2>1. Freed(c)[f] = "free"
    BY <1>4, <1>7
  <2>2. Replaced(c)
    BY <1>3, <1>7, <2>1 DEF Replaced, Opens
  <2>3. badClose' = badClose /\ closed' \in [Client -> BOOLEAN] /\ crashed' \in BOOLEAN
    BY <1>1, <1>2, <1>7
  <2>4. bev'[c] = NoBev \/ bev'[c].cb = ready
    BY <1>1, <1>7, NewBevFacts
  <2>5. QED
    BY <1>5, <1>7, <2>2, <2>3, <2>4 DEF ConnectEffect
<1>8. CASE crashed' = TRUE /\ UNCHANGED <<bev, net, torn, badClose, closed, lost>>
  BY <1>1, <1>5, <1>8 DEF ConnectEffect
<1>9. QED
  BY <1>6, <1>7, <1>8 DEF ConnectWith

LEMMA ConnectSteps ==
  ASSUME TypeOK, SocketInv, NEW c \in Client
  PROVE  /\ Connect(c) \/ Reconnect(c) => ConnectEffect(c, TRUE)
         /\ OffConnect(c) => ConnectEffect(c, FALSE)
<1>1. Connect(c) => ConnectEffect(c, TRUE)
  BY ConnectWithEffect DEF Connect
<1>2. ASSUME Reconnect(c)
      PROVE  ConnectEffect(c, TRUE)
  <2>1. ConnectWith(c, NoBev, Freed(c), NotOpen(net, bev[c].fd), TRUE)
    BY <1>2 DEF Reconnect, Freed
  <2>2. ~NotOpen(net, bev[c].fd) /\ NotOpen(net, bev[c].fd) \in BOOLEAN
    BY FreedNotBad DEF NotOpen
  <2>3. QED
    BY <2>1, <2>2, ConnectWithEffect
<1>3. OffConnect(c) => ConnectEffect(c, FALSE)
  BY ConnectWithEffect DEF OffConnect
<1>4. QED
  BY <1>1, <1>2, <1>3

-----------------------------------------------------------------------------
\* The clients' own part of the invariant.

\* A client whose bufferevent is freed or replaced.
LEMMA ReplacedClients ==
  ASSUME TypeOK, SocketInv, \A d \in Client : ClientInv(d), NEW c \in Client, Replaced(c),
         \A d \in Client \ {c} : /\ pc'[d] = pc[d]
                                 /\ isConnected'[d] = isConnected[d]
                                 /\ torn'[d] = torn[d],
         isConnected'[c] => torn'[c],
         pc'[c] = "connect" => bev'[c] # NoBev /\ ~bev'[c].cb,
         pc'[c] = "send" => pc[c] = "send",
         pc'[c] = "idle" <=> c \notin OffLoop
  PROVE  \A d \in Client : ClientInv(d)'
<1>1. /\ bev'[c].pend = {} /\ bev'[c].out = 0
      /\ bev'[c] = NoBev \/ bev'[c].fd \in Fd
      /\ \A d \in Client \ {c} : /\ bev'[d] = bev[d]
                                 /\ HasBev(d) => net'[bev[d].fd] = net[bev[d].fd]
  BY ReplacedFacts
<1>2. ClientInv(c)'
  <2>1. pc'[c] = "send" => 0 < MaxOut
    BY BevFacts DEF ClientInv
  <2>2. QED
    BY <1>1, <2>1, FdFacts DEF ClientInv, NoCallbackYet, HasBev
<1>3. ASSUME NEW d \in Client \ {c}
      PROVE  ClientInv(d)'
  <2>1. Real(d) => Real(d)'
    BY <1>1 DEF Real, HasBev
  <2>2. QED
    BY <1>1, <2>1 DEF ClientInv, NoCallbackYet, HasBev
<1>4. QED
  BY <1>2, <1>3

\* No connection that was established becomes one that was not.
Settled == \A f \in Fd : net[f] \in {"up", "ended"} => net'[f] \in {"up", "ended"}

\* A step that leaves the bufferevents of the others alone.
LEMMA KeptReal ==
  ASSUME TypeOK, Kept, Settled
  PROVE  \A d \in Client : Real(d) => Real(d)'
BY BevFacts DEF Kept, Settled, Real, HasBev

LEMMA KeptClients ==
  ASSUME TypeOK, \A d \in Client : ClientInv(d), NEW c \in Client, Kept, Settled,
         \A d \in Client \ {c} : /\ bev'[d] = bev[d]
                                 /\ pc'[d] = pc[d]
                                 /\ isConnected'[d] = isConnected[d]
                                 /\ torn'[d] = torn[d]
  PROVE  \A d \in Client \ {c} : ClientInv(d)'
BY KeptReal DEF ClientInv, NoCallbackYet, HasBev

-----------------------------------------------------------------------------
\* connect and reconnect.

LEMMA ConnectStep ==
  ASSUME Core, NEW c \in Client, Connect(c) \/ Reconnect(c) \/ OffConnect(c)
  PROVE  Core'
<1>1. PICK ready \in BOOLEAN : /\ ConnectEffect(c, ready)
                               /\ OffConnect(c) => ~ready
  BY ConnectSteps DEF Core, OffConnect, Connect, Reconnect
<1>2. /\ TypeOK /\ SocketInv /\ \A d \in Client : ClientInv(d)
  BY DEF Core
<1>3. /\ isConnected' = isConnected /\ isClosing' = isClosing
      /\ raced' = raced /\ handling' = handling /\ refusedEver' = refusedEver
      /\ errno' \in {"refused", "other"}
  BY <1>2 DEF Connect, Reconnect, OffConnect, TypeOK
<1>4. \/ c \notin OffLoop /\ pc' = pc
      \/ /\ c \in OffLoop /\ pc[c] = "idle"
         /\ pc' = [pc EXCEPT ![c] = IF bev'[c] = NoBev THEN "done" ELSE "connect"]
         /\ ~ready
  BY <1>1 DEF Connect, Reconnect, OffConnect
<1>5. pc' \in [Client -> PcState]
  BY <1>2, <1>4 DEF TypeOK, PcState
<1>6. CASE bev' = bev /\ net' = net /\ lost' = lost /\ torn' = torn
  <2>1. SocketInv'
    BY <1>1, <1>2, <1>3, <1>6
    DEF ConnectEffect, SocketInv, Apart, Opened, Leaked, Held, NoDoubleClose, HasBev
  <2>2. TypeOK'
    BY <1>1, <1>2, <1>3, <1>5, <1>6 DEF ConnectEffect, TypeOK, HasBev
  <2>3. ASSUME NEW d \in Client
        PROVE  ClientInv(d)'
    <3>1. ClientInv(d) /\ (Real(d) <=> Real(d)') /\ (HasBev(d) <=> HasBev(d)')
      BY <1>2, <1>6 DEF Real, HasBev
    <3>2. CASE pc' = pc
      BY <1>3, <1>6, <3>1, <3>2 DEF ClientInv, NoCallbackYet
    <3>3. CASE d # c
      <4>1. pc'[d] = pc[d]
        BY <1>2, <1>4, <3>3 DEF TypeOK
      <4>2. QED
        BY <1>3, <1>6, <3>1, <4>1 DEF ClientInv, NoCallbackYet
    <3>4. CASE d = c /\ c \in OffLoop /\ pc[c] = "idle" /\ pc' # pc
      <4>1. bev'[c] = NoBev
        BY <1>2, <1>6, <3>1, <3>4 DEF ClientInv, TypeOK
      <4>2. pc'[c] = "done"
        BY <1>2, <1>4, <3>4, <4>1 DEF TypeOK
      <4>3. QED
        BY <1>3, <1>6, <3>1, <3>4, <4>2 DEF ClientInv
    <3>5. QED
      BY <1>4, <3>2, <3>3, <3>4
  <2>4. QED
    BY <2>1, <2>2, <2>3 DEF Core
<1>7. CASE /\ Replaced(c)
           /\ torn' = [torn EXCEPT ![c] = isConnected[c]]
           /\ bev'[c] = NoBev \/ bev'[c].cb = ready
  <2>1. SocketInv'
    BY <1>1, <1>2, <1>3, <1>7, ReplacedSockets DEF ConnectEffect, SocketInv, NoDoubleClose
  <2>2. /\ net' \in [Fd -> NetState]
        /\ bev' \in [Client -> BevType]
        /\ lost' \in [Client -> Fd \cup {Invalid}]
        /\ bev'[c] = NoBev \/ bev'[c].fd \in Fd
        /\ \A d \in Client \ {c} : bev'[d] = bev[d]
    BY <1>2, <1>7, ReplacedFacts
  <2>3. \A d \in Client : HasBev(d)' \/ bev'[d] = NoBev
    BY <1>2, <2>2, FdFacts DEF TypeOK, HasBev
  <2>4. torn' \in [Client -> BOOLEAN] /\ torn'[c] = isConnected[c]
        /\ \A d \in Client \ {c} : torn'[d] = torn[d]
    BY <1>2, <1>7 DEF TypeOK
  <2>5. TypeOK'
    <3>1. badClose' \in BOOLEAN
      BY <1>1, <1>2 DEF ConnectEffect, TypeOK
    <3>2. QED
      BY <1>1, <1>2, <1>3, <1>5, <2>2, <2>3, <2>4, <3>1 DEF ConnectEffect, TypeOK
  <2>6. \A d \in Client \ {c} : pc'[d] = pc[d]
    BY <1>2, <1>4 DEF TypeOK
  <2>7. pc'[c] = "connect" => bev'[c] # NoBev /\ ~bev'[c].cb
    <3>1. CASE c \notin OffLoop /\ pc' = pc
      BY <1>2, <3>1 DEF ClientInv, NoCallbackYet
    <3>2. CASE c \in OffLoop /\ pc' # pc
      BY <1>2, <1>4, <1>7, <3>2 DEF TypeOK
    <3>3. CASE c \in OffLoop /\ pc' = pc
      BY <1>2, <1>4, <3>3 DEF TypeOK
    <3>4. QED
      BY <1>4, <3>1, <3>2, <3>3
  <2>8. /\ pc'[c] = "idle" <=> c \notin OffLoop
        /\ pc'[c] = "send" => pc[c] = "send"
    BY <1>2, <1>4 DEF TypeOK, ClientInv
  <2>9. \A d \in Client : ClientInv(d)'
    BY <1>2, <1>3, <1>7, <2>4, <2>6, <2>7, <2>8, ReplacedClients
  <2>10. QED
    BY <2>1, <2>5, <2>9 DEF Core
<1>8. QED
  BY <1>1, <1>6, <1>7 DEF ConnectEffect

-----------------------------------------------------------------------------
\* Freeing the bufferevent: disConnect, another thread, and the last step of
\* handleEvent, which has taken _isConnected back.

Frees(c) == DisConnect(c) \/ OffRelease(c) \/ OnErrorFree(c)

LEMMA FreeStep ==
  ASSUME Core, HandlingInv, NEW c \in Client, Frees(c)
  PROVE  Core'
<1>1. /\ TypeOK /\ SocketInv /\ \A d \in Client : ClientInv(d)
  BY DEF Core
<1>2. bev \in [Client -> BevType] /\ badClose \in BOOLEAN /\ pc \in [Client -> PcState]
  BY <1>1 DEF TypeOK
<1>3. ~NotOpen(net, bev[c].fd)
  BY <1>1, FreedNotBad
<1>4. /\ net' = Freed(c) /\ bev' = [bev EXCEPT ![c] = NoBev]
      /\ lost' = lost /\ badClose' = badClose /\ raced' = raced
  BY <1>2, <1>3 DEF Frees, DisConnect, OffRelease, OnErrorFree, Freed
<1>5. Replaced(c)
  BY <1>4 DEF Replaced
<1>6. ASSUME OnErrorFree(c)
      PROVE  /\ ~isConnected[c] /\ pc[c] # "connect"
             /\ pc[c] = "idle" => c \notin OffLoop
             /\ isConnected' = isConnected /\ torn' = torn /\ pc' = pc
  <2>1. c \in handling /\ UNCHANGED <<isConnected, torn, pc>>
    BY <1>6 DEF OnErrorFree
  <2>2. /\ ~isConnected[c] /\ pc[c] # "connect"
        /\ pc[c] = "idle" => c \notin OffLoop
    BY <2>1 DEF HandlingInv
  <2>3. QED
    BY <2>1, <2>2
<1>7. SocketInv'
  BY <1>1, <1>4, <1>5, ReplacedSockets DEF SocketInv, NoDoubleClose
<1>8. /\ net' \in [Fd -> NetState]
      /\ bev' \in [Client -> BevType]
      /\ bev'[c] = NoBev
      /\ \A d \in Client \ {c} : bev'[d] = bev[d]
  BY <1>1, <1>2, <1>4, <1>5, ReplacedFacts
<1>9. \A d \in Client : HasBev(d)' \/ bev'[d] = NoBev
  BY <1>1, <1>8 DEF TypeOK, HasBev
<1>10. /\ isConnected' \in [Client -> BOOLEAN] /\ torn' \in [Client -> BOOLEAN]
       /\ isConnected'[c] => torn'[c]
       /\ \A d \in Client \ {c} : isConnected'[d] = isConnected[d] /\ torn'[d] = torn[d]
  <2>1. isConnected \in [Client -> BOOLEAN] /\ torn \in [Client -> BOOLEAN]
    BY <1>1 DEF TypeOK
  <2>2. CASE DisConnect(c) \/ OffRelease(c)
    BY <2>1, <2>2 DEF DisConnect, OffRelease
  <2>3. CASE OnErrorFree(c)
    BY <1>6, <2>1, <2>3
  <2>4. QED
    BY <2>2, <2>3 DEF Frees
<1>11. /\ pc' \in [Client -> PcState]
       /\ \A d \in Client \ {c} : pc'[d] = pc[d]
       /\ \/ pc' = pc /\ pc[c] # "connect"
          \/ pc[c] \in {"destroy", "drop"} /\ pc'[c] \in {"gone", "done"}
  <2>1. CASE DisConnect(c)
    BY <1>1, <1>2, <2>1 DEF DisConnect, ClientInv
  <2>2. CASE OffRelease(c)
    BY <1>2, <2>2 DEF OffRelease, PcState
  <2>3. CASE OnErrorFree(c)
    BY <1>2, <1>6, <2>3
  <2>4. QED
    BY <2>1, <2>2, <2>3 DEF Frees
<1>12. TypeOK'
  <2>1. /\ isClosing' \in [Client -> BOOLEAN] /\ closed' \in [Client -> BOOLEAN]
        /\ errno' \in {"refused", "other"} /\ crashed' \in BOOLEAN
        /\ att' \in [Client -> 0..MaxAtt] /\ refusedEver' \in BOOLEAN
        /\ handling' \in SUBSET Client
    BY <1>1 DEF Frees, DisConnect, OffRelease, OnErrorFree, TypeOK
  <2>2. /\ lost' \in [Client -> Fd \cup {Invalid}]
        /\ badClose' \in BOOLEAN /\ raced' \in BOOLEAN
    BY <1>1, <1>4 DEF TypeOK
  <2>3. QED
    BY <1>8, <1>9, <1>10, <1>11, <2>1, <2>2 DEF TypeOK
<1>13. /\ pc'[c] # "connect"
       /\ pc'[c] = "idle" <=> c \notin OffLoop
       /\ pc'[c] = "send" => pc[c] = "send"
  <2>1. pc[c] # "idle" => c \in OffLoop
    BY <1>1 DEF ClientInv
  <2>2. pc' = pc => (pc[c] = "idle" => c \notin OffLoop)
    <3>1. CASE DisConnect(c)
      BY <3>1 DEF DisConnect
    <3>2. CASE OffRelease(c)
      BY <1>2, <3>2 DEF OffRelease
    <3>3. CASE OnErrorFree(c)
      BY <1>6, <3>3
    <3>4. QED
      BY <3>1, <3>2, <3>3 DEF Frees
  <2>3. QED
    BY <1>11, <2>1, <2>2
<1>14. \A d \in Client : ClientInv(d)'
  BY <1>1, <1>5, <1>10, <1>11, <1>13, ReplacedClients
<1>15. QED
  BY <1>7, <1>12, <1>14 DEF Core

-----------------------------------------------------------------------------
\* Steps that change one bufferevent, and its client, but no socket.

OthersKept(c) ==
  \A d \in Client \ {c} : /\ pc'[d] = pc[d]
                          /\ isConnected'[d] = isConnected[d]
                          /\ torn'[d] = torn[d]

\* The part of TypeOK about all but the bufferevents and the sockets.
ClientTypeOK ==
  /\ isConnected \in [Client -> BOOLEAN]
  /\ isClosing \in [Client -> BOOLEAN]
  /\ pc \in [Client -> PcState]
  /\ errno \in {"refused", "other"}
  /\ handling \in SUBSET Client
  /\ raced \in BOOLEAN
  /\ badClose \in BOOLEAN
  /\ crashed \in BOOLEAN
  /\ att \in [Client -> 0..MaxAtt]
  /\ torn \in [Client -> BOOLEAN]
  /\ closed \in [Client -> BOOLEAN]
  /\ refusedEver \in BOOLEAN

LEMMA BevStepInv ==
  ASSUME Core, NEW c \in Client, NEW b \in BevType,
         HasBev(c), b.fd = bev[c].fd, bev' = [bev EXCEPT ![c] = b],
         UNCHANGED <<net, closeVars>>, ClientTypeOK', OthersKept(c),
         pc'[c] = "connect" => pc[c] = "connect" /\ ~b.cb /\ b.pend = {},
         pc'[c] = "idle" <=> pc[c] = "idle",
         pc'[c] = "send" => b.out < MaxOut,
         "connected" \in b.pend => Real(c),
         isConnected'[c] /\ ~torn'[c] => Real(c)
  PROVE  Core'
<1>1. /\ TypeOK /\ SocketInv /\ \A d \in Client : ClientInv(d)
  BY DEF Core
<1>2. /\ bev' \in [Client -> BevType]
      /\ bev'[c] = b
      /\ \A d \in Client \ {c} : bev'[d] = bev[d]
      /\ \A d \in Client : bev'[d].fd = bev[d].fd
  BY <1>1 DEF TypeOK
<1>3. net' = net /\ lost' = lost /\ badClose' = badClose /\ raced' = raced
  BY DEF closeVars
<1>4. Kept /\ Settled
  BY <1>2, <1>3 DEF Kept, Settled
<1>5. SocketInv'
  BY <1>1, <1>4, KeptSockets
<1>6. TypeOK'
  BY <1>1, <1>2, <1>3 DEF TypeOK, ClientTypeOK, HasBev
<1>7. Real(c)' <=> Real(c)
  BY <1>2, <1>3 DEF Real, HasBev
<1>8. ClientInv(c)'
  BY <1>1, <1>2, <1>7 DEF ClientInv, NoCallbackYet, HasBev
<1>9. \A d \in Client \ {c} : ClientInv(d)'
  BY <1>1, <1>2, <1>4, KeptClients DEF OthersKept
<1>10. QED
  BY <1>5, <1>6, <1>8, <1>9 DEF Core

\* A step that changes neither.
LEMMA NoBevStepInv ==
  ASSUME Core, NEW c \in Client, UNCHANGED <<bev, net, lost>>, badClose' => raced',
         ClientTypeOK', OthersKept(c),
         pc'[c] = "connect" => pc[c] = "connect",
         pc'[c] = "idle" <=> pc[c] = "idle",
         pc'[c] = "send" => bev[c].out < MaxOut,
         isConnected'[c] = isConnected[c] /\ torn'[c] = torn[c]
  PROVE  Core'
<1>1. /\ TypeOK /\ SocketInv /\ \A d \in Client : ClientInv(d)
  BY DEF Core
<1>2. bev' = bev /\ net' = net /\ lost' = lost
  OBVIOUS
<1>3. SocketInv'
  BY <1>1, <1>2 DEF SocketInv, Apart, Opened, Leaked, Held, NoDoubleClose, HasBev
<1>4. TypeOK'
  BY <1>1, <1>2 DEF TypeOK, ClientTypeOK, HasBev
<1>5. ASSUME NEW d \in Client
      PROVE  ClientInv(d)'
  <2>1. /\ isConnected'[d] = isConnected[d] /\ torn'[d] = torn[d]
        /\ pc'[d] = "connect" => pc[d] = "connect"
        /\ pc'[d] = "idle" <=> pc[d] = "idle"
        /\ pc'[d] = "send" => bev[d].out < MaxOut
    BY <1>1 DEF OthersKept, ClientInv
  <2>2. ClientInv(d) /\ (Real(d)' <=> Real(d)) /\ (HasBev(d)' <=> HasBev(d))
    BY <1>1, <1>2 DEF Real, HasBev
  <2>3. QED
    BY <1>2, <2>1, <2>2 DEF ClientInv, NoCallbackYet
<1>6. QED
  BY <1>3, <1>4, <1>5 DEF Core

LEMMA BevFields ==
  ASSUME NEW b \in BevType
  PROVE  /\ \A x \in BOOLEAN :
              /\ [b EXCEPT !.cb = x] \in BevType
              /\ [b EXCEPT !.wr = x] \in BevType
              /\ [b EXCEPT !.rd = x] \in BevType
              /\ [b EXCEPT !.connecting = x] \in BevType
         /\ \A x \in 0..MaxOut : [b EXCEPT !.out = x] \in BevType
         /\ \A x \in SUBSET {"connected", "written", "error"} :
              [b EXCEPT !.pend = x] \in BevType
BY DEF BevType

\* What libevent notes.
LEMMA NotedFacts ==
  ASSUME NEW b \in BevType, NEW what \in {"connected", "written", "error"}
  PROVE  /\ Noted(b, what) \in BevType
         /\ Noted(b, what).fd = b.fd
         /\ Noted(b, what).cb = b.cb
         /\ ~b.cb => Noted(b, what) = b
         /\ Noted(b, what).pend \subseteq b.pend \cup {what}
<1>1. b.pend \cup {what} \in SUBSET {"connected", "written", "error"}
  BY DEF BevType
<1>2. [b EXCEPT !.pend = b.pend \cup {what}] \in BevType
  BY <1>1, BevFields
<1>3. QED
  BY <1>2 DEF Noted, BevType

-----------------------------------------------------------------------------
\* What has been noted, or a client in a connect on another thread, has a
\* bufferevent.
LEMMA BevThere ==
  ASSUME Core, NEW c \in Client,
         bev[c].pend # {} \/ bev[c].connecting \/ pc[c] = "connect"
  PROVE  HasBev(c)
BY BevFacts, NewBevFacts DEF Core, ClientInv, NoCallbackYet

\* closeImpl leaves the sockets alone: get_socket returns none.
LEMMA CloseImplStep ==
  ASSUME Core, NEW c \in Client, NEW done \in SUBSET {"written"}, HasBev(c),
         CloseImpl(c, done), done = {"written"} => "written" \in bev[c].pend,
         done = {} => c \notin OffLoop,
         UNCHANGED <<isConnected, torn, pc, handling, closeVars, crashed, att, refusedEver>>
  PROVE  Core'
<1>1. TypeOK /\ \A d \in Client : ClientInv(d)
  BY DEF Core
<1>2. bev[c] \in BevType /\ bev[c].pend \in SUBSET {"connected", "written", "error"}
  BY <1>1, BevFacts
<1> DEFINE b == [[bev[c] EXCEPT !.wr = FALSE] EXCEPT !.pend = bev[c].pend \ done]
<1>3. /\ b \in BevType /\ b.fd = bev[c].fd /\ b.pend = bev[c].pend \ done
      /\ b.out = bev[c].out
  BY <1>2 DEF BevType
<1>4. bev' = [bev EXCEPT ![c] = b]
  <2>1. [bev[c] EXCEPT !.wr = FALSE, !.pend = bev[c].pend \ done] = b
    BY <1>2 DEF BevType
  <2>2. bev' = [bev EXCEPT ![c] = [bev[c] EXCEPT !.wr = FALSE, !.pend = bev[c].pend \ done]]
    BY <1>1 DEF CloseImpl, TypeOK
  <2>3. QED
    BY <2>1, <2>2
<1>5. net' = net
  BY GetSocketInvalid DEF CloseImpl
<1>6. ClientTypeOK'
  <2>1. errno' = "other"
    BY DEF CloseImpl
  <2>2. isClosing' \in [Client -> BOOLEAN] /\ closed' \in [Client -> BOOLEAN]
    BY <1>1 DEF CloseImpl, TypeOK
  <2>3. QED
    BY <1>1, <2>1, <2>2 DEF TypeOK, ClientTypeOK, closeVars
<1>7. OthersKept(c)
  BY DEF OthersKept
<1>8. pc[c] # "connect" /\ (pc[c] = "send" => b.out < MaxOut)
  BY <1>1, <1>3 DEF ClientInv, NoCallbackYet
<1>9. "connected" \in b.pend => Real(c)
  BY <1>1, <1>3 DEF ClientInv
<1>10. isConnected[c] /\ ~torn[c] => Real(c)
  BY <1>1 DEF ClientInv
<1> HIDE DEF b
<1>11. QED
  BY <1>3, <1>4, <1>5, <1>6, <1>7, <1>8, <1>9, <1>10, BevStepInv

\* send and close on the loop's thread.
LEMMA UserInv ==
  ASSUME Core, NEW c \in Client, Send(c) \/ \E waiting \in BOOLEAN : Close(c, waiting)
  PROVE  Core'
<1>1. TypeOK /\ \A d \in Client : ClientInv(d)
  BY DEF Core
<1>2. bev[c] \in BevType /\ bev[c].out \in 0..MaxOut
  BY <1>1, BevFacts
<1>3. CASE Send(c)
  <2> DEFINE b == [bev[c] EXCEPT !.out = bev[c].out + 1]
  <2>1. bev[c].out + 1 \in 0..MaxOut
    BY <1>2, <1>3 DEF Send
  <2>2. b \in BevType /\ b.fd = bev[c].fd /\ b.pend = bev[c].pend
    BY <1>2, <2>1 DEF BevType
  <2>3. bev' = [bev EXCEPT ![c] = b]
    BY <1>1, <1>3 DEF Send, TypeOK
  <2>4. /\ HasBev(c) /\ c \notin OffLoop /\ pc' = pc /\ ClientTypeOK' /\ OthersKept(c)
        /\ isConnected' = isConnected /\ torn' = torn
        /\ UNCHANGED <<net, closeVars>>
    BY <1>1, <1>3 DEF Send, TypeOK, ClientTypeOK, OthersKept, clientVars, closeVars
  <2>5. pc[c] \notin {"connect", "send"} /\ ("connected" \in b.pend => Real(c))
        /\ (isConnected[c] /\ ~torn[c] => Real(c))
    BY <1>1, <2>2, <2>4 DEF ClientInv, NoCallbackYet
  <2> HIDE DEF b
  <2>6. QED
    BY <2>2, <2>3, <2>4, <2>5, BevStepInv
<1>4. ASSUME NEW waiting \in BOOLEAN, Close(c, waiting)
      PROVE  Core'
  <2>1. CASE waiting /\ bev[c].out > 0
    <3>1. ClientTypeOK' /\ OthersKept(c)
      BY <1>1, <1>4, <2>1 DEF Close, TypeOK, ClientTypeOK, OthersKept, closeVars
    <3>2. pc[c] = "send" => bev[c].out < MaxOut
      BY <1>1 DEF ClientInv
    <3>3. badClose' => raced'
      BY <1>4 DEF Close, closeVars, Core, SocketInv, NoDoubleClose
    <3>4. QED
      BY <1>4, <2>1, <3>1, <3>2, <3>3, NoBevStepInv DEF Close, closeVars
  <2>2. CASE ~(waiting /\ bev[c].out > 0)
    BY <1>4, <2>2, CloseImplStep DEF Close
  <2>3. QED
    BY <2>1, <2>2
<1>5. QED
  BY <1>3, <1>4

-----------------------------------------------------------------------------
\* A client on another thread.
OffSmall(c) ==
  \/ OffSetCb(c) \/ OffEnable(c) \/ OffSendTest(c) \/ OffSendWrite(c)
  \/ OffDestroy(c) \/ OffRace(c)

LEMMA OffInv ==
  ASSUME Core, NEW c \in Client, OffSmall(c)
  PROVE  Core'
<1>1. TypeOK /\ SocketInv /\ \A d \in Client : ClientInv(d)
  BY DEF Core
<1>2. /\ bev[c] \in BevType /\ bev[c].out \in 0..MaxOut
      /\ pc \in [Client -> PcState]
  BY <1>1, BevFacts DEF TypeOK
<1>3. /\ OthersKept(c) /\ ClientTypeOK'
      /\ pc[c] # "idle" /\ pc'[c] \notin {"idle", "connect"}
      /\ pc'[c] = "send" => bev[c].out < MaxOut /\ bev' = bev
      /\ isConnected' = isConnected /\ torn' = torn
      /\ UNCHANGED <<net, lost>> /\ (badClose' => raced')
      /\ bev' # bev => UNCHANGED closeVars
  <2>1. ClientTypeOK /\ (badClose => raced)
    BY <1>1 DEF TypeOK, ClientTypeOK, SocketInv, NoDoubleClose
  <2>2. CASE OffSetCb(c)
    BY <1>2, <2>1, <2>2 DEF OffSetCb, ClientTypeOK, OthersKept, clientVars, closeVars, PcState
  <2>3. CASE OffEnable(c)
    BY <1>2, <2>1, <2>3 DEF OffEnable, ClientTypeOK, OthersKept, clientVars, closeVars, PcState
  <2>4. CASE OffSendTest(c)
    BY <1>2, <2>1, <2>4 DEF OffSendTest, ClientTypeOK, OthersKept, clientVars, closeVars, PcState
  <2>5. CASE OffSendWrite(c)
    BY <1>2, <2>1, <2>5 DEF OffSendWrite, ClientTypeOK, OthersKept, clientVars, closeVars, PcState
  <2>6. CASE OffDestroy(c)
    BY <1>2, <2>1, <2>6 DEF OffDestroy, ClientTypeOK, OthersKept, clientVars, closeVars, PcState
  <2>7. CASE OffRace(c)
    BY <1>2, <2>1, <2>7 DEF OffRace, ClientTypeOK, OthersKept, clientVars, PcState
  <2>8. QED
    BY <2>2, <2>3, <2>4, <2>5, <2>6, <2>7 DEF OffSmall
<1>4. CASE bev' = bev
  BY <1>3, <1>4, NoBevStepInv
<1>5. ASSUME NEW b \in BevType, HasBev(c), bev' = [bev EXCEPT ![c] = b],
             b.fd = bev[c].fd, b.pend = bev[c].pend
      PROVE  Core'
  <2>1. /\ "connected" \in b.pend => Real(c)
        /\ isConnected[c] /\ ~torn[c] => Real(c)
    BY <1>1, <1>5 DEF ClientInv
  <2>2. CASE pc'[c] = "send" \/ bev' = bev
    BY <1>3, <1>4, <2>2
  <2>3. CASE pc'[c] # "send" /\ bev' # bev
    BY <1>3, <1>5, <2>1, <2>3, BevStepInv
  <2>4. QED
    BY <2>2, <2>3
<1>6. CASE OffSetCb(c)
  <2> DEFINE b == [bev[c] EXCEPT !.cb = TRUE]
  <2>1. HasBev(c)
    BY <1>6, BevThere DEF OffSetCb
  <2>2. b \in BevType /\ b.fd = bev[c].fd /\ b.pend = bev[c].pend
    BY <1>2 DEF BevType
  <2>3. bev' = [bev EXCEPT ![c] = b]
    BY <1>1, <1>6 DEF OffSetCb, TypeOK
  <2> HIDE DEF b
  <2>4. QED
    BY <1>5, <2>1, <2>2, <2>3
<1>7. CASE OffEnable(c) /\ HasBev(c) /\ bev' # bev
  <2> DEFINE b == [bev[c] EXCEPT !.rd = TRUE, !.wr = TRUE]
  <2>1. b \in BevType /\ b.fd = bev[c].fd /\ b.pend = bev[c].pend
    BY <1>2 DEF BevType
  <2>2. bev' = [bev EXCEPT ![c] = b]
    BY <1>1, <1>2, <1>7 DEF OffEnable, TypeOK, BevType
  <2> HIDE DEF b
  <2>3. QED
    BY <1>5, <1>7, <2>1, <2>2
<1>8. CASE OffSendWrite(c) /\ HasBev(c)
  <2> DEFINE b == [bev[c] EXCEPT !.out = bev[c].out + 1]
  <2>1. bev[c].out + 1 \in 0..MaxOut
    BY <1>1, <1>2, <1>8 DEF OffSendWrite, ClientInv
  <2>2. b \in BevType /\ b.fd = bev[c].fd /\ b.pend = bev[c].pend
    BY <1>2, <2>1 DEF BevType
  <2>3. bev' = [bev EXCEPT ![c] = b]
    BY <1>1, <1>8 DEF OffSendWrite, TypeOK
  <2> HIDE DEF b
  <2>4. QED
    BY <1>5, <1>8, <2>2, <2>3
<1>9. QED
  BY <1>4, <1>6, <1>7, <1>8
  DEF OffSmall, OffEnable, OffSendTest, OffSendWrite, OffDestroy, OffRace

-----------------------------------------------------------------------------
\* The loop's thread: noting and running what has happened.
LEMMA LoopInv ==
  ASSUME Core, NEW c \in Client,
         \/ RaiseConnect(c) \/ RaiseEnd(c) \/ RaiseWritten(c)
         \/ OnConnected(c) \/ OnWritten(c) \/ OnError(c)
  PROVE  Core'
<1>1. TypeOK /\ \A d \in Client : ClientInv(d)
  BY DEF Core
<1>2. /\ bev[c] \in BevType /\ bev[c].out \in 0..MaxOut
      /\ bev[c].pend \in SUBSET {"connected", "written", "error"}
  BY <1>1, BevFacts
<1>3. ClientTypeOK
  BY <1>1 DEF TypeOK, ClientTypeOK
<1>4. HasBev(c)
  BY <1>1, <1>2, BevThere
  DEF RaiseConnect, RaiseEnd, RaiseWritten, Up, OnConnected, OnWritten, OnError
<1>5. isConnected[c] /\ ~torn[c] => Real(c)
  BY <1>1 DEF ClientInv
\* What is left of the invariant for a new bufferevent b of c.
<1>6. ASSUME NEW b \in BevType, bev' = [bev EXCEPT ![c] = b], b.fd = bev[c].fd,
             b.out <= bev[c].out,
             pc[c] = "connect" => ~b.cb /\ b.pend = {},
             "connected" \in b.pend => Real(c),
             UNCHANGED <<net, closeVars, pc>>, ClientTypeOK', OthersKept(c),
             isConnected'[c] /\ ~torn'[c] => Real(c)
      PROVE  Core'
  <2>1. pc[c] = "send" => b.out < MaxOut
    BY <1>1, <1>2, <1>6 DEF ClientInv, BevType
  <2>2. QED
    BY <1>4, <1>6, <2>1, BevStepInv
<1>7. pc[c] = "connect" => ~bev[c].cb /\ bev[c].pend = {}
  BY <1>1 DEF ClientInv, NoCallbackYet
<1>8. CASE RaiseConnect(c)
  <2> DEFINE n == net[bev[c].fd]
             quiet == [bev[c] EXCEPT !.connecting = FALSE]
             what == IF n = "refused" THEN "error" ELSE "connected"
             b == Noted(quiet, what)
  <2>1. /\ quiet \in BevType /\ quiet.fd = bev[c].fd /\ quiet.cb = bev[c].cb
        /\ quiet.pend = bev[c].pend /\ quiet.out = bev[c].out
    BY <1>2 DEF BevType
  <2>2. n \in {"up", "ended", "refused"} /\ bev' = [bev EXCEPT ![c] = b]
    BY <1>8 DEF RaiseConnect
  <2>3. /\ b \in BevType /\ b.fd = quiet.fd /\ b.cb = quiet.cb
        /\ ~quiet.cb => b = quiet
        /\ b.pend \subseteq quiet.pend \cup {what}
    <3> HIDE DEF quiet
    <3>1. QED
      BY <2>1, NotedFacts
  <2>4. b.out = quiet.out
    BY <2>1 DEF Noted, BevType
  <2>5. "connected" \in b.pend => Real(c)
    <3>1. "connected" \in bev[c].pend => Real(c)
      BY <1>1 DEF ClientInv
    <3>2. what = "connected" => Real(c)
      BY <1>4, <2>2 DEF Real
    <3>3. QED
      BY <2>1, <2>3, <3>1, <3>2
  <2>6. /\ UNCHANGED <<net, closeVars, pc>> /\ ClientTypeOK' /\ OthersKept(c)
        /\ isConnected' = isConnected /\ torn' = torn
    BY <1>3, <1>8 DEF RaiseConnect, ClientTypeOK, OthersKept, clientVars, closeVars
  <2> HIDE DEF quiet, b
  <2>7. b.out <= bev[c].out
    BY <1>2, <2>1, <2>4
  <2>8. pc[c] = "connect" => ~b.cb /\ b.pend = {}
    BY <1>7, <2>1, <2>3
  <2>9. QED
    BY <1>5, <1>6, <2>1, <2>2, <2>3, <2>5, <2>6, <2>7, <2>8
<1>9. CASE RaiseEnd(c)
  <2> DEFINE b == Noted(bev[c], "error")
  <2>1. /\ b \in BevType /\ b.fd = bev[c].fd /\ b.cb = bev[c].cb
        /\ ~bev[c].cb => b = bev[c]
        /\ b.pend \subseteq bev[c].pend \cup {"error"}
    BY <1>2, NotedFacts
  <2>2. b.out = bev[c].out
    BY <1>2 DEF Noted, BevType
  <2>3. bev' = [bev EXCEPT ![c] = b]
    BY <1>1, <1>9 DEF RaiseEnd, TypeOK
  <2>4. /\ UNCHANGED <<net, closeVars, pc>> /\ ClientTypeOK' /\ OthersKept(c)
        /\ isConnected' = isConnected /\ torn' = torn
    BY <1>3, <1>9 DEF RaiseEnd, ClientTypeOK, OthersKept, clientVars, closeVars
  <2>5. "connected" \in b.pend => Real(c)
    BY <1>1, <2>1 DEF ClientInv
  <2>6. pc[c] = "connect" => ~b.cb /\ b.pend = {}
    <3> HIDE DEF b
    <3>1. QED
      BY <1>7, <2>1
  <2> HIDE DEF b
  <2>7. b.out <= bev[c].out
    BY <1>2, <2>2
  <2>8. QED
    BY <1>5, <1>6, <2>1, <2>3, <2>4, <2>5, <2>6, <2>7
<1>10. CASE RaiseWritten(c)
  <2>1. PICK left \in 0..bev[c].out - 1 :
          bev' = [bev EXCEPT ![c] = LET b == [bev[c] EXCEPT !.out = left]
                                    IN IF left = 0 THEN Noted(b, "written") ELSE b]
    BY <1>10 DEF RaiseWritten
  <2> DEFINE less == [bev[c] EXCEPT !.out = left]
             b == IF left = 0 THEN Noted(less, "written") ELSE less
  <2>2. left \in 0..MaxOut /\ left <= bev[c].out
    BY <1>2
  <2>3. /\ less \in BevType /\ less.fd = bev[c].fd /\ less.cb = bev[c].cb
        /\ less.pend = bev[c].pend /\ less.out = left
    BY <1>2, <2>2 DEF BevType
  <2>4. /\ Noted(less, "written") \in BevType
        /\ Noted(less, "written").fd = less.fd
        /\ Noted(less, "written").cb = less.cb
        /\ ~less.cb => Noted(less, "written") = less
        /\ Noted(less, "written").pend \subseteq less.pend \cup {"written"}
    <3> HIDE DEF less
    <3>1. QED
      BY <2>3, NotedFacts
  <2>5. Noted(less, "written").out = left
    BY <2>3 DEF Noted, BevType
  <2>6. /\ UNCHANGED <<net, closeVars, pc>> /\ ClientTypeOK' /\ OthersKept(c)
        /\ isConnected' = isConnected /\ torn' = torn
    BY <1>3, <1>10 DEF RaiseWritten, ClientTypeOK, OthersKept, clientVars, closeVars
  <2>7. bev' = [bev EXCEPT ![c] = b]
    BY <2>1
  <2>8. /\ b \in BevType /\ b.fd = bev[c].fd /\ b.out = left
        /\ ~bev[c].cb => b.pend = bev[c].pend /\ ~b.cb
        /\ b.pend \subseteq bev[c].pend \cup {"written"}
    <3> HIDE DEF less
    <3>1. QED
      BY <2>3, <2>4, <2>5
  <2>9. "connected" \in b.pend => Real(c)
    BY <1>1, <2>8 DEF ClientInv
  <2> HIDE DEF b
  <2>10. QED
    BY <1>5, <1>6, <1>7, <2>2, <2>6, <2>7, <2>8, <2>9
<1>11. CASE OnConnected(c)
  <2> DEFINE b == [bev[c] EXCEPT !.pend = bev[c].pend \ {"connected"}]
  <2>1. /\ b \in BevType /\ b.fd = bev[c].fd /\ b.out = bev[c].out
        /\ b.pend = bev[c].pend \ {"connected"}
    BY <1>2 DEF BevType
  <2>2. bev' = [bev EXCEPT ![c] = b]
    BY <1>1, <1>11 DEF OnConnected, TypeOK
  <2>3. Real(c) /\ pc[c] # "connect"
    BY <1>1, <1>11 DEF OnConnected, ClientInv, NoCallbackYet
  <2>4. isConnected' \in [Client -> BOOLEAN] /\ torn' \in [Client -> BOOLEAN]
        /\ OthersKept(c)
    BY <1>3, <1>11 DEF OnConnected, ClientTypeOK, OthersKept, closeVars
  <2>5. UNCHANGED <<net, closeVars, pc>> /\ ClientTypeOK'
    BY <1>3, <1>11, <2>4 DEF OnConnected, ClientTypeOK, closeVars
  <2> HIDE DEF b
  <2>6. b.out <= bev[c].out
    BY <1>2, <2>1
  <2>7. QED
    BY <1>6, <2>1, <2>2, <2>3, <2>4, <2>5, <2>6
<1>12. CASE OnWritten(c)
  <2>1. CASE isClosing[c] /\ bev[c].out = 0
    BY <1>4, <1>12, <2>1, CloseImplStep DEF OnWritten
  <2>2. CASE ~(isClosing[c] /\ bev[c].out = 0)
    <3> DEFINE b == [bev[c] EXCEPT !.pend = bev[c].pend \ {"written"}]
    <3>1. /\ b \in BevType /\ b.fd = bev[c].fd /\ b.out = bev[c].out
          /\ b.pend = bev[c].pend \ {"written"}
      BY <1>2 DEF BevType
    <3>2. bev' = [bev EXCEPT ![c] = b]
      BY <1>1, <1>12, <2>2 DEF OnWritten, TypeOK
    <3>3. pc[c] # "connect"
      BY <1>7, <1>12 DEF OnWritten
    <3>4. /\ UNCHANGED <<net, closeVars, pc>> /\ ClientTypeOK' /\ OthersKept(c)
          /\ isConnected' = isConnected /\ torn' = torn
      BY <1>3, <1>12, <2>2 DEF OnWritten, ClientTypeOK, OthersKept, closeVars
    <3>5. "connected" \in b.pend => Real(c)
      BY <1>1, <3>1 DEF ClientInv
    <3> HIDE DEF b
    <3>6. b.out <= bev[c].out
      BY <1>2, <3>1
    <3>7. QED
      BY <1>5, <1>6, <3>1, <3>2, <3>3, <3>4, <3>5, <3>6
  <2>3. QED
    BY <2>1, <2>2
<1>13. CASE OnError(c)
  <2> DEFINE b == [bev[c] EXCEPT !.pend = {}, !.rd = FALSE, !.wr = FALSE]
  <2>1. b \in BevType /\ b.fd = bev[c].fd /\ b.out = bev[c].out /\ b.pend = {}
    BY <1>2 DEF BevType
  <2>2. bev' = [bev EXCEPT ![c] = b]
    BY <1>13 DEF OnError
  <2>3. net' = net /\ badClose' = badClose
    <3>1. Closed(net, GetSocket(c)) = net /\ ~NotOpen(net, GetSocket(c))
      BY GetSocketInvalid DEF Closed, NotOpen
    <3>2. QED
      BY <1>1, <1>13, <3>1 DEF OnError, TypeOK
  <2>4. pc[c] # "connect"
    BY <1>7, <1>13 DEF OnError
  <2>5. /\ isConnected' \in [Client -> BOOLEAN] /\ torn' \in [Client -> BOOLEAN]
        /\ ~isConnected'[c] /\ OthersKept(c)
    BY <1>3, <1>13 DEF OnError, ClientTypeOK, OthersKept, closeVars
  <2>6. UNCHANGED <<net, closeVars, pc>> /\ ClientTypeOK'
    BY <1>3, <1>13, <2>3, <2>5 DEF OnError, ClientTypeOK, closeVars
  <2> HIDE DEF b
  <2>7. b.out <= bev[c].out
    BY <1>2, <2>1
  <2>8. QED
    BY <1>6, <2>1, <2>2, <2>4, <2>5, <2>6, <2>7
<1>14. QED
  BY <1>8, <1>9, <1>10, <1>11, <1>12, <1>13

-----------------------------------------------------------------------------
\* The kernel and the peers.
LEMMA KernelInv ==
  ASSUME Core, NEW c \in Client, KernelStep(c)
  PROVE  Core'
<1>1. TypeOK /\ SocketInv /\ \A d \in Client : ClientInv(d)
  BY DEF Core
<1>2. net \in [Fd -> NetState] /\ HasBev(c) /\ bev[c].fd \in Fd
  BY <1>1, BevFacts DEF TypeOK, KernelStep, Establish, Refuse, PeerEnds, Up
<1>3. PICK s \in {"up", "refused", "ended"} :
        /\ net' = [net EXCEPT ![bev[c].fd] = s]
        /\ \/ net[bev[c].fd] = "connecting"
           \/ net[bev[c].fd] = "up" /\ s = "ended"
  BY DEF KernelStep, Establish, Refuse, PeerEnds, Up
<1>4. /\ bev' = bev /\ lost' = lost /\ badClose' = badClose /\ raced' = raced
      /\ isConnected' = isConnected /\ torn' = torn /\ pc' = pc
  BY DEF KernelStep, Establish, Refuse, PeerEnds, clientVars, closeVars
<1>5. ClientTypeOK'
  BY <1>1
  DEF KernelStep, Establish, Refuse, PeerEnds, clientVars, closeVars, TypeOK, ClientTypeOK
<1>6. Kept
  BY <1>2, <1>3, <1>4 DEF Kept, NetState
<1>7. Settled
  BY <1>2, <1>3 DEF Settled
<1>8. SocketInv' /\ net' \in [Fd -> NetState] /\ lost' \in [Client -> Fd \cup {Invalid}]
  BY <1>1, <1>6, KeptSockets
<1>9. TypeOK'
  BY <1>1, <1>4, <1>5, <1>8 DEF TypeOK, ClientTypeOK, HasBev
<1>10. \A d \in Client : Real(d) => Real(d)'
  BY <1>1, <1>6, <1>7, KeptReal
<1>11. \A d \in Client : ClientInv(d)'
  BY <1>1, <1>4, <1>10 DEF ClientInv, NoCallbackYet, HasBev
<1>12. QED
  BY <1>8, <1>9, <1>11 DEF Core

-----------------------------------------------------------------------------
\* Nothing begins a connect, or says it is connected, while handleEvent runs.
LEMMA HandlingStep ==
  ASSUME IInv, Next
  PROVE  HandlingInv'
<1>1. /\ TypeOK /\ HandlingInv /\ \A d \in Client : ClientInv(d)
  BY DEF IInv, Core
<1>2. /\ pc \in [Client -> PcState] /\ isConnected \in [Client -> BOOLEAN]
      /\ handling \in SUBSET Client
  BY <1>1 DEF TypeOK
<1>3. PICK c \in Client :
        \/ OffStep(c) \/ KernelStep(c) \/ OnErrorFree(c)
        \/ handling = {} /\ (UserStep(c) \/ LoopStep(c))
  BY DEF Next
<1>4. CASE OffStep(c)
  <2>1. handling' = handling /\ isConnected' = isConnected
    BY <1>4 DEF OffStep, OffConnect, OffSetCb, OffEnable, OffSendTest, OffSendWrite,
                OffDestroy, OffRelease, OffRace, clientVars
  <2>2. \A d \in Client \ {c} : pc'[d] = pc[d]
    BY <1>2, <1>4 DEF OffStep, OffConnect, OffSetCb, OffEnable, OffSendTest,
                      OffSendWrite, OffDestroy, OffRelease, OffRace
  <2>3. \/ c \in OffLoop /\ pc[c] = "idle"
        \/ pc'[c] = pc[c]
        \/ pc'[c] \notin {"idle", "connect"}
    BY <1>2, <1>4 DEF OffStep, OffConnect, OffSetCb, OffEnable, OffSendTest,
                      OffSendWrite, OffDestroy, OffRelease, OffRace
  <2>4. QED
    BY <1>1, <1>2, <2>1, <2>2, <2>3 DEF HandlingInv
<1>5. CASE KernelStep(c)
  BY <1>1, <1>5 DEF KernelStep, Establish, Refuse, PeerEnds, clientVars, HandlingInv
<1>6. CASE OnErrorFree(c)
  BY <1>6 DEF OnErrorFree, HandlingInv
<1>7. CASE handling = {} /\ OnError(c)
  <2>1. bev[c].pend # {} /\ HasBev(c)
    BY <1>7, <1>1, BevThere DEF OnError, IInv
  <2>2. pc[c] # "connect" /\ (pc[c] = "idle" => c \notin OffLoop)
    BY <1>1, <2>1 DEF ClientInv, NoCallbackYet
  <2>3. handling' = {c} /\ pc' = pc /\ ~isConnected'[c]
    BY <1>2, <1>7 DEF OnError
  <2>4. QED
    BY <2>2, <2>3 DEF HandlingInv
<1>8. CASE handling = {} /\ (UserStep(c) \/ LoopStep(c)) /\ ~OnError(c)
  <2>1. handling' = {}
    BY <1>8 DEF UserStep, LoopStep, Connect, Reconnect, DisConnect, Send, Close,
                RaiseConnect, RaiseEnd, RaiseWritten, OnConnected, OnWritten
  <2>2. QED
    BY <2>1 DEF HandlingInv
<1>9. QED
  BY <1>3, <1>4, <1>5, <1>6, <1>7, <1>8

-----------------------------------------------------------------------------
LEMMA InitInv == Init => IInv
<1> SUFFICES ASSUME Init
             PROVE  IInv
  OBVIOUS
<1> USE DEF Init
<1>1. TypeOK
  <2>1. bev \in [Client -> BevType] /\ \A c \in Client : bev[c] = NoBev
    BY NewBevFacts
  <2>2. net \in [Fd -> NetState] /\ att \in [Client -> 0..MaxAtt]
    BY DEF NetState
  <2>3. pc \in [Client -> PcState] /\ lost \in [Client -> Fd \cup {Invalid}]
    BY DEF PcState
  <2>4. QED
    BY <2>1, <2>2, <2>3 DEF TypeOK
<1>2. \A c \in Client : ~HasBev(c)
  BY NewBevFacts DEF HasBev
<1>3. SocketInv
  BY <1>2 DEF SocketInv, Apart, Opened, Leaked, Held, NoDoubleClose
<1>4. \A c \in Client : ClientInv(c)
  BY <1>2, NewBevFacts DEF ClientInv
<1>5. HandlingInv
  BY DEF HandlingInv
<1>6. QED
  BY <1>1, <1>3, <1>4, <1>5 DEF IInv, Core

LEMMA InvStep == IInv /\ [Next]_vars => IInv'
<1> SUFFICES ASSUME IInv, [Next]_vars
             PROVE  IInv'
  OBVIOUS
<1>1. Core /\ HandlingInv
  BY DEF IInv
<1>2. ASSUME NEW c \in Client, OffStep(c)
      PROVE  Core'
  BY <1>1, <1>2, ConnectStep, OffInv, FreeStep DEF OffStep, OffSmall, Frees
<1>3. ASSUME NEW c \in Client, UserStep(c)
      PROVE  Core'
  BY <1>1, <1>3, ConnectStep, FreeStep, UserInv DEF UserStep, Frees
<1>4. ASSUME NEW c \in Client, LoopStep(c)
      PROVE  Core'
  BY <1>1, <1>4, LoopInv DEF LoopStep
<1>5. ASSUME NEW c \in Client, OnErrorFree(c)
      PROVE  Core'
  BY <1>1, <1>5, FreeStep DEF Frees
<1>6. CASE Next
  <2>1. Core'
    BY <1>1, <1>2, <1>3, <1>4, <1>5, <1>6, KernelInv DEF Next
  <2>2. QED
    BY <1>6, <2>1, HandlingStep DEF IInv
<1>7. CASE UNCHANGED vars
  <2>1. /\ bev' = bev /\ net' = net /\ lost' = lost /\ badClose' = badClose
        /\ isConnected' = isConnected /\ torn' = torn /\ pc' = pc
        /\ isClosing' = isClosing /\ closed' = closed /\ errno' = errno
        /\ crashed' = crashed /\ att' = att /\ refusedEver' = refusedEver
        /\ handling' = handling /\ raced' = raced
    BY <1>7 DEF vars, clientVars, closeVars
  <2>2. TypeOK'
    BY <1>1, <2>1 DEF Core, TypeOK, HasBev
  <2>3. SocketInv'
    BY <1>1, <2>1
    DEF Core, SocketInv, Apart, Opened, Leaked, Held, NoDoubleClose, HasBev
  <2>4. \A c \in Client : ClientInv(c)'
    BY <1>1, <2>1 DEF Core, ClientInv, NoCallbackYet, Real, HasBev
  <2>5. HandlingInv'
    BY <1>1, <2>1 DEF HandlingInv
  <2>6. QED
    BY <2>2, <2>3, <2>4, <2>5 DEF IInv, Core
<1>8. QED
  BY <1>6, <1>7

LEMMA Invariance == Spec => []IInv
BY InitInv, InvStep, PTL DEF Spec

-----------------------------------------------------------------------------
\* The state of the clients, their bufferevents and the sockets has its type,
\* for any number of them, on the loop's thread or off it: an output buffer
\* keeps its bound, and a null _bev_sptr has nothing pending
\* (tcpClient.h:56-220, tcp_socket.cpp:13-108).
THEOREM TypeCorrect == Spec => []TypeOK
<1>1. IInv => TypeOK
  BY DEF IInv, Core
<1>2. QED
  BY <1>1, Invariance, PTL

\* No descriptor is closed twice, whatever the clients of the loop's thread do,
\* and by a client of another thread only if it is released there while a
\* callback of it runs (tcpClient.cpp:41-48, tcp_socket.cpp:14-17).
THEOREM ClosedOnce == Spec => []NoDoubleClose
<1>1. IInv => NoDoubleClose
  BY DEF IInv, Core, SocketInv, NoDoubleClose
<1>2. QED
  BY <1>1, Invariance, PTL

\* Every open socket is held by one client and no other, by its bufferevent or
\* as what a failed bufferevent_socket_new has left; the client of such a socket
\* opens no other, as it crashes when it connects again or goes
\* (tcpClient.h:65-134).
THEOREM OneOwner == Spec => []SocketsAreHeld
<1>1. ASSUME IInv
      PROVE  SocketsAreHeld
  <2>1. Apart /\ Opened /\ Leaked /\ Held
    BY <1>1 DEF IInv, Core, SocketInv
  <2>2. ASSUME NEW f \in Fd, NEW c \in Client, f \in {bev[c].fd, lost[c]},
               NEW d \in Client, f \in {bev[d].fd, lost[d]}
        PROVE  d = c
    <3>1. f # Invalid
      BY FdFacts
    <3>2. CASE net[f] = "unused"
      <4>1. lost[c] = f /\ lost[d] = f
        BY <2>1, <2>2, <3>1, <3>2 DEF Opened, HasBev
      <4>2. QED
        BY <2>1, <3>1, <4>1 DEF Leaked
    <3>3. CASE net[f] # "unused"
      <4>1. bev[c].fd = f /\ bev[d].fd = f
        BY <2>1, <2>2, <3>1, <3>3 DEF Leaked
      <4>2. QED
        BY <2>1, <3>1, <4>1 DEF Apart, HasBev
    <3>4. QED
      BY <3>2, <3>3
  <2>3. QED
    BY <2>1, <2>2 DEF Held, SocketsAreHeld
<1>2. QED
  BY <1>1, Invariance, PTL

\* A client that says it is connected has a connection that was established,
\* unless it was dropped by disConnect or reconnect
\* (tcpClient.cpp:39-64).
THEOREM ConnectedMeansEstablished == Spec => []ConnectedIsReal
<1>1. IInv => ConnectedIsReal
  BY DEF IInv, Core, ClientInv, Real, ConnectedIsReal
<1>2. QED
  BY <1>1, Invariance, PTL
=============================================================================
