----------------------------- MODULE TcpClient -----------------------------
(***************************************************************************)
(* The clients of one loop: TcpClient and TcpSocket on libevent's          *)
(* bufferevents and the kernel's sockets.                                  *)
(*                                                                         *)
(* A client of the loop's own thread (a redis connection made by ADD_CONN) *)
(* calls the operations between two callbacks.  One in OffLoop is used as  *)
(* example.cpp uses its test clients: connect, send and the destructor run *)
(* on another thread while the loop delivers events.                       *)
(*                                                                         *)
(* Callbacks are deferred: libevent notes what has happened (pend) and runs*)
(* the callback later, connected before written before error.  An event    *)
(* that happens while no callback is set is not noted.  bufferevent_free   *)
(* drops what is pending and closes the socket (CLOSE_ON_FREE).  A         *)
(* bufferevent is locked while one of its callbacks runs; _bev_sptr is a   *)
(* plain shared_ptr that no lock protects.  The addresses of connect are   *)
(* well-formed.                                                            *)
(***************************************************************************)
EXTENDS Integers, FiniteSets

CONSTANTS
  Client,
  OffLoop,    \* the clients whose connect runs on another thread
  NFd,        \* sockets the process may have open
  MaxAtt,     \* bound on the calls of connect and reconnect, for each client
  MaxOut      \* bound on what an output buffer holds

ASSUME ClientAssumption ==
  /\ OffLoop \subseteq Client
  /\ NFd \in Nat \ {0}
  /\ MaxAtt \in Nat
  /\ MaxOut \in Nat

Invalid == 0     \* SOCKET_FD_INVALID
Fd == 1..NFd

VARIABLES
  bev,          \* what _bev_sptr points to; its fd is Invalid for null
  isConnected,  \* _isConnected
  isClosing,    \* _isClosing
  pc,           \* where the thread of a client off the loop is
  net,          \* the kernel's state of each socket
  errno,        \* of the loop's thread: "refused" or "other"
  lost,         \* the socket of a failed bufferevent_socket_new: _bev_sptr owns
                \* NULL and will call bufferevent_free(NULL)
  handling,     \* the client whose handleEvent is between its first and last step
  badClose,     \* a socket was closed that was not open
  crashed,      \* a null _bev_sptr was used or freed, or OffRace ended badly
  \* history
  raced,        \* OffRace has happened
  att,          \* the calls of connect and reconnect
  torn,         \* the user has dropped the connection that _isConnected is about
  closed,       \* closeImpl has run on the present bufferevent
  refusedEver   \* some connect was refused

clientVars == <<isConnected, isClosing, torn, closed>>
closeVars == <<lost, badClose, raced>>
vars == <<bev, clientVars, pc, net, errno, handling, closeVars, crashed, att, refusedEver>>

NetState == {"free", "unused", "connecting", "up", "refused", "ended"}

PcState == {"idle", "connect", "setcb", "done", "send", "drop", "destroy", "gone"}

BevType == [fd : Fd \cup {Invalid}, cb : BOOLEAN, rd : BOOLEAN, wr : BOOLEAN,
            connecting : BOOLEAN, out : 0..MaxOut,
            pend : SUBSET {"connected", "written", "error"}]

NoBev == [fd |-> Invalid, cb |-> FALSE, rd |-> FALSE, wr |-> FALSE,
          connecting |-> FALSE, out |-> 0, pend |-> {}]

\* After bufferevent_socket_connect; ready: setcb and enable have run, too.
NewBev(f, ready) ==
  [fd |-> f, cb |-> ready, rd |-> ready, wr |-> TRUE, connecting |-> TRUE,
   out |-> 0, pend |-> {}]

HasBev(c) == bev[c].fd # Invalid

\* Mutant: the test that a reader expects.
GetSocketOfBev(c) == bev[c].fd

\* The test is the wrong way round: the socket of a bufferevent that is there
\* is never returned.
GetSocket(c) == IF HasBev(c) THEN Invalid ELSE bev[c].fd

\* Mutant: the bufferevents do not own their sockets.
NotClosed(n, f) == n

\* close(f) on sockets n; without effect for Invalid.
Closed(n, f) == IF f = Invalid THEN n ELSE [n EXCEPT ![f] = "free"]

NotOpen(n, f) == f # Invalid /\ n[f] = "free"

Up(c) == HasBev(c) /\ net[bev[c].fd] = "up"

Init ==
  /\ bev = [c \in Client |-> NoBev]
  /\ isConnected = [c \in Client |-> FALSE]
  /\ isClosing = [c \in Client |-> FALSE]
  /\ pc = [c \in Client |-> "idle"]
  /\ net = [f \in Fd |-> "free"]
  /\ errno = "other"
  /\ lost = [c \in Client |-> Invalid]
  /\ handling = {}
  /\ raced = FALSE
  /\ badClose = FALSE
  /\ crashed = FALSE
  /\ att = [c \in Client |-> 0]
  /\ torn = [c \in Client |-> FALSE]
  /\ closed = [c \in Client |-> FALSE]
  /\ refusedEver = FALSE

-----------------------------------------------------------------------------
(* connect and reconnect.                                                  *)

\* connect and _connect with _bev_sptr = cur on sockets n; bad: freeing what
\* _bev_sptr was before has closed a socket that was not open.
ConnectWith(c, cur, n, bad, ready) ==
  /\ att[c] < MaxAtt
  /\ att' = [att EXCEPT ![c] = @ + 1]
  /\ \/ \* socket() fails
        /\ \A f \in Fd : n[f] # "free"
        /\ bev' = [bev EXCEPT ![c] = cur]
        /\ net' = n
        /\ torn' = [torn EXCEPT ![c] = IF cur = bev[c] THEN @ ELSE isConnected[c]]
        /\ badClose' = (badClose \/ bad)
        /\ UNCHANGED <<closed, lost, crashed>>
     \/ \* _bev_sptr.reset calls bufferevent_free(NULL)
        /\ lost[c] # Invalid
        /\ \E f \in Fd : n[f] = "free"
        /\ crashed' = TRUE
        /\ UNCHANGED <<bev, net, torn, badClose, closed, lost>>
     \/ \E f \in Fd :
          /\ lost[c] = Invalid
          /\ n[f] = "free"
          /\ badClose' = (badClose \/ bad \/ NotOpen(n, cur.fd))
          /\ torn' = [torn EXCEPT ![c] = isConnected[c]]
          /\ closed' = [closed EXCEPT ![c] = FALSE]
          /\ \/ \* bufferevent_socket_new fails: nobody closes f
                /\ bev' = [bev EXCEPT ![c] = NoBev]
                /\ net' = [Closed(n, cur.fd) EXCEPT ![f] = "unused"]
                /\ lost' = [lost EXCEPT ![c] = f]
             \/ \* bufferevent_socket_connect or bufferevent_enable fails
                /\ bev' = [bev EXCEPT ![c] = NoBev]
                /\ net' = Closed(n, cur.fd)
                /\ UNCHANGED lost
             \/ /\ bev' = [bev EXCEPT ![c] = NewBev(f, ready)]
                /\ net' = [Closed(n, cur.fd) EXCEPT ![f] = "connecting"]
                /\ UNCHANGED lost
          /\ UNCHANGED crashed

\* connect on the loop's thread; the connect(2) in it leaves EINPROGRESS.
Connect(c) ==
  /\ c \notin OffLoop
  /\ ConnectWith(c, bev[c], net, FALSE, TRUE)
  /\ errno' = "other"
  /\ UNCHANGED <<isConnected, isClosing, pc, handling, raced, refusedEver>>

\* reconnect frees the bufferevent and connects.
Reconnect(c) ==
  /\ c \notin OffLoop
  /\ ConnectWith(c, NoBev, Closed(net, bev[c].fd), NotOpen(net, bev[c].fd), TRUE)
  /\ errno' = "other"
  /\ UNCHANGED <<isConnected, isClosing, pc, handling, raced, refusedEver>>

\* connect on another thread, up to bufferevent_socket_connect ...
OffConnect(c) ==
  /\ c \in OffLoop
  /\ pc[c] = "idle"
  /\ ConnectWith(c, bev[c], net, FALSE, FALSE)
  /\ pc' = [pc EXCEPT ![c] = IF bev'[c] = NoBev THEN "done" ELSE "connect"]
  /\ UNCHANGED <<isConnected, isClosing, errno, handling, raced, refusedEver>>

\* ... bufferevent_setcb ...
OffSetCb(c) ==
  /\ pc[c] = "connect"
  /\ bev' = [bev EXCEPT ![c].cb = TRUE]
  /\ pc' = [pc EXCEPT ![c] = "setcb"]
  /\ UNCHANGED <<clientVars, net, errno, handling, closeVars, crashed, att, refusedEver>>

\* ... and bufferevent_enable, of what handleEvent may just have freed; when it
\* fails, _bev_sptr is about to be dropped.
OffEnable(c) ==
  /\ pc[c] = "setcb"
  /\ c \notin handling
  /\ IF HasBev(c)
     THEN /\ \/ /\ bev' = [bev EXCEPT ![c].rd = TRUE, ![c].wr = TRUE]
                /\ pc' = [pc EXCEPT ![c] = "done"]
             \/ /\ pc' = [pc EXCEPT ![c] = "drop"]
                /\ UNCHANGED bev
          /\ UNCHANGED crashed
     ELSE /\ crashed' = TRUE
          /\ UNCHANGED <<bev, pc>>
  /\ UNCHANGED <<clientVars, net, errno, handling, closeVars, att, refusedEver>>

\* send on another thread: the test of _bev_sptr ...
OffSendTest(c) ==
  /\ pc[c] = "done"
  /\ HasBev(c)
  /\ bev[c].out < MaxOut
  /\ pc' = [pc EXCEPT ![c] = "send"]
  /\ UNCHANGED <<bev, clientVars, net, errno, handling, closeVars, crashed, att, refusedEver>>

\* ... and the write, which handleEvent may have come between.
OffSendWrite(c) ==
  /\ pc[c] = "send"
  /\ c \notin handling
  /\ IF HasBev(c)
     THEN bev' = [bev EXCEPT ![c].out = @ + 1] /\ UNCHANGED crashed
     ELSE crashed' = TRUE /\ UNCHANGED bev
  /\ pc' = [pc EXCEPT ![c] = "done"]
  /\ UNCHANGED <<clientVars, net, errno, handling, closeVars, att, refusedEver>>

\* ~TcpClient at the end of the scope in main, up to the look at _bev_sptr.
OffDestroy(c) ==
  /\ pc[c] = "done"
  /\ pc' = [pc EXCEPT ![c] = IF HasBev(c) THEN "destroy" ELSE "gone"]
  /\ crashed' = (lost[c] # Invalid)
  /\ UNCHANGED <<bev, clientVars, net, errno, handling, closeVars, att, refusedEver>>

\* _bev_sptr is released by the destructor, or by connect after a failed
\* bufferevent_enable; bufferevent_free waits for a running callback.
OffRelease(c) ==
  /\ pc[c] \in {"destroy", "drop"}
  /\ c \notin handling
  /\ pc' = [pc EXCEPT ![c] = IF @ = "destroy" THEN "gone" ELSE "done"]
  /\ net' = Closed(net, bev[c].fd)
  /\ badClose' = (badClose \/ NotOpen(net, bev[c].fd))
  /\ bev' = [bev EXCEPT ![c] = NoBev]
  /\ torn' = [torn EXCEPT ![c] = isConnected[c]]
  /\ UNCHANGED <<isConnected, isClosing, closed, errno, handling, lost, raced, crashed, att,
                 refusedEver>>

\* A callback runs while the other thread releases _bev_sptr: both may find it
\* set, or one the object the other has freed.  Undefined; unless all goes well,
\* as in the other actions, the process ends, its socket closed twice or not.
OffRace(c) ==
  /\ pc[c] \in {"destroy", "drop"}
  /\ c \in handling \/ (handling = {} /\ bev[c].pend # {})
  /\ raced' = TRUE
  /\ crashed' = TRUE
  /\ badClose' \in {badClose, TRUE}
  /\ UNCHANGED <<bev, clientVars, pc, net, errno, handling, lost, att, refusedEver>>

-----------------------------------------------------------------------------
(* The other operations, on the loop's thread.                             *)

\* disConnect leaves _isConnected as it is.
DisConnect(c) ==
  /\ c \notin OffLoop
  /\ HasBev(c)
  /\ net' = Closed(net, bev[c].fd)
  /\ badClose' = (badClose \/ NotOpen(net, bev[c].fd))
  /\ bev' = [bev EXCEPT ![c] = NoBev]
  /\ torn' = [torn EXCEPT ![c] = isConnected[c]]
  /\ closed' = [closed EXCEPT ![c] = FALSE]
  /\ UNCHANGED <<isConnected, isClosing, pc, errno, handling, lost, raced, crashed, att, refusedEver>>

\* Mutant: _bev_sptr is not tested.
SendUntested(c) ==
  /\ c \notin OffLoop
  /\ ~isClosing[c]
  /\ bev[c].out < MaxOut
  /\ bev' = [bev EXCEPT ![c].out = @ + 1]
  /\ UNCHANGED <<clientVars, pc, net, errno, handling, closeVars, crashed, att, refusedEver>>

\* send, when it does not return false.
Send(c) ==
  /\ c \notin OffLoop
  /\ HasBev(c)
  /\ ~isClosing[c]
  /\ bev[c].out < MaxOut
  /\ bev' = [bev EXCEPT ![c].out = @ + 1]
  /\ UNCHANGED <<clientVars, pc, net, errno, handling, closeVars, crashed, att, refusedEver>>

\* closeImpl: EV_READ stays enabled, and shutdown gets what get_socket returns;
\* done: the callback it is called from.
CloseImpl(c, done) ==
  /\ isClosing' = [isClosing EXCEPT ![c] = FALSE]
  /\ bev' = [bev EXCEPT ![c].wr = FALSE, ![c].pend = @ \ done]
  /\ net' = IF GetSocket(c) = Invalid THEN net
            ELSE [net EXCEPT ![GetSocket(c)] = "ended"]
  /\ errno' = "other"
  /\ closed' = [closed EXCEPT ![c] = TRUE]

\* close(waiting)
Close(c, waiting) ==
  /\ c \notin OffLoop
  /\ HasBev(c)
  /\ IF waiting /\ bev[c].out > 0
     THEN /\ isClosing' = [isClosing EXCEPT ![c] = TRUE]
          /\ UNCHANGED <<bev, net, errno, closed>>
     ELSE CloseImpl(c, {})
  /\ UNCHANGED <<isConnected, torn, pc, handling, closeVars, crashed, att, refusedEver>>

-----------------------------------------------------------------------------
(* The kernel and the peers.                                               *)

Establish(c) ==
  /\ HasBev(c)
  /\ net[bev[c].fd] = "connecting"
  /\ net' = [net EXCEPT ![bev[c].fd] = "up"]
  /\ UNCHANGED <<bev, clientVars, pc, errno, handling, closeVars, crashed, att, refusedEver>>

\* ECONNREFUSED or ETIMEDOUT, which handleEvent treats alike.
Refuse(c) ==
  /\ HasBev(c)
  /\ net[bev[c].fd] = "connecting"
  /\ net' = [net EXCEPT ![bev[c].fd] = "refused"]
  /\ refusedEver' = TRUE
  /\ UNCHANGED <<bev, clientVars, pc, errno, handling, closeVars, crashed, att>>

PeerEnds(c) ==
  /\ Up(c)
  /\ net' = [net EXCEPT ![bev[c].fd] = "ended"]
  /\ UNCHANGED <<bev, clientVars, pc, errno, handling, closeVars, crashed, att, refusedEver>>

-----------------------------------------------------------------------------
(* libevent on the loop's thread: noting what has happened.                *)

\* b with `what` noted, if a callback is set to tell.
Noted(b, what) == IF b.cb THEN [b EXCEPT !.pend = @ \cup {what}] ELSE b

\* The connect of c has ended; the error of a failed one stays in errno.
RaiseConnect(c) ==
  /\ bev[c].connecting
  /\ LET n == net[bev[c].fd]
         b == [bev[c] EXCEPT !.connecting = FALSE]
     IN /\ n \in {"up", "ended", "refused"}
        /\ bev' = [bev EXCEPT ![c] = Noted(b, IF n = "refused" THEN "error" ELSE "connected")]
        /\ errno' = IF n = "refused" THEN "refused" ELSE errno
  /\ UNCHANGED <<clientVars, pc, net, handling, closeVars, crashed, att, refusedEver>>

\* A read finds the end of the connection, or that there is none.
RaiseEnd(c) ==
  /\ HasBev(c)
  /\ ~bev[c].connecting
  /\ bev[c].rd
  /\ net[bev[c].fd] \in {"ended", "refused"}
  /\ "error" \notin bev[c].pend
  /\ bev' = [bev EXCEPT ![c] = Noted(@, "error")]
  /\ UNCHANGED <<clientVars, pc, net, errno, handling, closeVars, crashed, att, refusedEver>>

\* The kernel takes some of the output; the callback is for an empty buffer.
RaiseWritten(c) ==
  /\ Up(c)
  /\ ~bev[c].connecting
  /\ bev[c].wr
  /\ \E left \in 0..bev[c].out - 1 :
       LET b == [bev[c] EXCEPT !.out = left]
       IN bev' = [bev EXCEPT ![c] = IF left = 0 THEN Noted(b, "written") ELSE b]
  /\ UNCHANGED <<clientVars, pc, net, errno, handling, closeVars, crashed, att, refusedEver>>

-----------------------------------------------------------------------------
(* ... and running the callbacks.                                          *)

\* Mutant: the test of errno is the wrong way round.
OnConnectedWrong(c) ==
  /\ "connected" \in bev[c].pend
  /\ bev' = [bev EXCEPT ![c].pend = @ \ {"connected"}]
  /\ isConnected' = [isConnected EXCEPT ![c] = @ \/ errno = "refused"]
  /\ torn' = [torn EXCEPT ![c] = @ /\ errno # "refused"]
  /\ UNCHANGED <<isClosing, closed, pc, net, errno, handling, closeVars, crashed, att, refusedEver>>

\* handleEvent, BEV_EVENT_CONNECTED: errno is whatever the thread's last
\* failing call has left.
OnConnected(c) ==
  /\ "connected" \in bev[c].pend
  /\ bev' = [bev EXCEPT ![c].pend = @ \ {"connected"}]
  /\ isConnected' = [isConnected EXCEPT ![c] = @ \/ errno # "refused"]
  /\ torn' = [torn EXCEPT ![c] = @ /\ errno = "refused"]
  /\ UNCHANGED <<isClosing, closed, pc, net, errno, handling, closeVars, crashed, att, refusedEver>>

\* Mutant: the waiting close is forgotten.
OnWrittenNothing(c) ==
  /\ "written" \in bev[c].pend
  /\ "connected" \notin bev[c].pend
  /\ bev' = [bev EXCEPT ![c].pend = @ \ {"written"}]
  /\ UNCHANGED <<clientVars, pc, net, errno, handling, closeVars, crashed, att, refusedEver>>

\* writeCallback: checkClosing.
OnWritten(c) ==
  /\ "written" \in bev[c].pend
  /\ "connected" \notin bev[c].pend
  /\ IF isClosing[c] /\ bev[c].out = 0
     THEN CloseImpl(c, {"written"})
     ELSE /\ bev' = [bev EXCEPT ![c].pend = @ \ {"written"}]
          /\ UNCHANGED <<isClosing, net, errno, closed>>
  /\ UNCHANGED <<isConnected, torn, pc, handling, closeVars, crashed, att, refusedEver>>

\* Mutant: _isConnected is not taken back.
OnErrorForgets(c) ==
  /\ bev[c].pend = {"error"}
  /\ bev' = [bev EXCEPT ![c].pend = {}, ![c].rd = FALSE, ![c].wr = FALSE]
  /\ net' = Closed(net, GetSocket(c))
  /\ badClose' = (badClose \/ NotOpen(net, GetSocket(c)))
  /\ errno' = "other"
  /\ handling' = {c}
  /\ UNCHANGED <<clientVars, pc, lost, raced, crashed, att, refusedEver>>

\* handleEvent, EOF or ERROR: disables the bufferevent, closes what get_socket
\* returns ...
OnError(c) ==
  /\ bev[c].pend = {"error"}
  /\ bev' = [bev EXCEPT ![c].pend = {}, ![c].rd = FALSE, ![c].wr = FALSE]
  /\ net' = Closed(net, GetSocket(c))
  /\ badClose' = (badClose \/ NotOpen(net, GetSocket(c)))
  /\ errno' = "other"
  /\ isConnected' = [isConnected EXCEPT ![c] = FALSE]
  /\ torn' = [torn EXCEPT ![c] = FALSE]
  /\ handling' = {c}
  /\ UNCHANGED <<isClosing, closed, pc, lost, raced, crashed, att, refusedEver>>

\* ... then tests and frees _bev_sptr, which closes the socket of its own.
OnErrorFree(c) ==
  /\ c \in handling
  /\ net' = Closed(net, bev[c].fd)
  /\ badClose' = (badClose \/ NotOpen(net, bev[c].fd))
  /\ bev' = [bev EXCEPT ![c] = NoBev]
  /\ closed' = [closed EXCEPT ![c] = FALSE]
  /\ handling' = {}
  /\ UNCHANGED <<isConnected, torn, isClosing, pc, errno, lost, raced, crashed, att, refusedEver>>

-----------------------------------------------------------------------------
OffStep(c) ==
  \/ OffConnect(c) \/ OffSetCb(c) \/ OffEnable(c)
  \/ OffSendTest(c) \/ OffSendWrite(c)
  \/ OffDestroy(c) \/ OffRelease(c) \/ OffRace(c)

UserStep(c) ==
  \/ Connect(c) \/ Reconnect(c) \/ DisConnect(c) \/ Send(c)
  \/ \E waiting \in BOOLEAN : Close(c, waiting)

KernelStep(c) == Establish(c) \/ Refuse(c) \/ PeerEnds(c)

LoopStep(c) ==
  \/ RaiseConnect(c) \/ RaiseEnd(c) \/ RaiseWritten(c)
  \/ OnConnected(c) \/ OnWritten(c) \/ OnError(c)

\* The loop's thread does nothing else while it is in handleEvent.
Next ==
  /\ ~crashed
  /\ \E c \in Client :
       \/ OffStep(c) \/ KernelStep(c) \/ OnErrorFree(c)
       \/ handling = {} /\ (UserStep(c) \/ LoopStep(c))

Spec == Init /\ [][Next]_vars

\* The loop's thread goes on, and sends and connects end.  Each step of the
\* loop is fair by itself: event_base_loop serves all that is active.
Fairness ==
  \A c \in Client :
    /\ WF_vars(~crashed /\ (Establish(c) \/ Refuse(c)))
    /\ WF_vars(~crashed /\ handling = {} /\ RaiseConnect(c))
    /\ WF_vars(~crashed /\ handling = {} /\ RaiseEnd(c))
    /\ WF_vars(~crashed /\ handling = {} /\ RaiseWritten(c))
    /\ WF_vars(~crashed /\ handling = {} /\ OnConnected(c))
    /\ WF_vars(~crashed /\ handling = {} /\ OnWritten(c))
    /\ WF_vars(~crashed /\ handling = {} /\ OnError(c))
    /\ WF_vars(~crashed /\ OnErrorFree(c))

FairSpec == Spec /\ Fairness

-----------------------------------------------------------------------------
(* Properties.                                                             *)

TypeOK ==
  /\ bev \in [Client -> BevType]
  /\ \A c \in Client : HasBev(c) \/ bev[c] = NoBev
  /\ isConnected \in [Client -> BOOLEAN]
  /\ isClosing \in [Client -> BOOLEAN]
  /\ pc \in [Client -> PcState]
  /\ net \in [Fd -> NetState]
  /\ errno \in {"refused", "other"}
  /\ lost \in [Client -> Fd \cup {Invalid}]
  /\ handling \in SUBSET Client
  /\ raced \in BOOLEAN
  /\ badClose \in BOOLEAN
  /\ crashed \in BOOLEAN
  /\ att \in [Client -> 0..MaxAtt]
  /\ torn \in [Client -> BOOLEAN]
  /\ closed \in [Client -> BOOLEAN]
  /\ refusedEver \in BOOLEAN

\* handleEvent closes a socket and frees a bufferevent that closes it too;
\* still no descriptor is closed twice, which could hit one opened since by
\* another client: get_socket returns the socket only when there is no
\* bufferevent (tcpClient.cpp:41-48, tcp_socket.cpp:14-17).  The exception is a
\* client released on another thread while a callback of it runs.
NoDoubleClose == badClose => raced

\* Every open socket is held by one client, and by one only, across failing
\* connects, reconnects, disconnects and events: by its bufferevent, or after a
\* failed bufferevent_socket_new by the client that will crash when it connects
\* again or goes (tcpClient.h:56-63, 76-102, 127-134).
SocketsAreHeld ==
  \A f \in Fd :
    net[f] # "free" =>
      \E c \in Client : /\ f \in {bev[c].fd, lost[c]}
                        /\ \A d \in Client : f \in {bev[d].fd, lost[d]} => d = c

\* A client that says it is connected has a bufferevent whose connection was
\* established, so a session that picks it by isConnected can send; except
\* that disConnect and reconnect leave _isConnected of the connection they
\* drop (tcpClient.cpp:39-64, tcp_session.cpp:45-53).
ConnectedIsReal ==
  \A c \in Client : isConnected[c] /\ ~torn[c] =>
                      HasBev(c) /\ net[bev[c].fd] \in {"up", "ended"}

\* A client of the loop's thread whose connection is up gets to know it, as
\* long as no connect of the thread was refused: after that a stale errno can
\* hide it for good (tcpClient.cpp:51-63).
EstablishedReported ==
  \A c \in Client \ OffLoop :
    Up(c) ~> (isConnected[c] /\ ~torn[c]) \/ ~Up(c) \/ refusedEver \/ crashed

\* A close(true) that waits for the output comes to its end once the output is
\* written, unless the connection ends or is replaced before; only one after
\* an earlier closeImpl on the bufferevent waits for ever (tcp_socket.cpp:45-49,
\* 90-105).
CloseFinishes ==
  \A c \in Client, k \in 1..MaxAtt :
    att[c] = k /\ isClosing[c] /\ bev[c].out > 0 /\ ~closed[c]
      ~> ~isClosing[c] \/ att[c] # k \/ ~HasBev(c) \/ crashed

\* "close connection" (tcp_socket.hpp:56): after closeImpl the connection is
\* not up any more.
ClosedIsDown == \A c \in Client : closed[c] => ~Up(c)
=============================================================================
