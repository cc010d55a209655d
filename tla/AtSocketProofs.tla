--------------------------- MODULE AtSocketProofs ---------------------------
(***************************************************************************)
(* Proofs about AtSocket, for any number of sockets, packets, events and   *)
(* connections, and the one user that the firmware has.                    *)
(***************************************************************************)
EXTENDS AtSocket, SequenceTheorems, WellFoundedInduction, TLAPS

\* The firmware: the "a9g" console command owns the only descriptor.
OneUser == \E u \in Users : Users = {u}

UserRecord == [pc: PCs, fd: Nat \cup {NULL}, sock: Slots \cup {NULL}]

\* The object at the end of the list.
Newest == list[Len(list)]

\* The list holds the allocated objects, each at the place its descriptor names. All
\* but the newest were half allocated.
ListOrder ==
    /\ \A p \in 1..Len(list) : sockets[list[p]].magic /\ sockets[list[p]].socket = p - 1
    /\ \A p \in 1..Len(list) : p < Len(list) => sockets[list[p]].ipc = "none"
    /\ \A s \in Slots : sockets[s].magic => \E p \in 1..Len(list) : list[p] = s

\* An object without its semaphore and mutex is as rt_memset left it.
Blank ==
    \A s \in Slots :
      /\ ~sockets[s].magic => sockets[s].ipc = "none"
      /\ sockets[s].ipc = "none" =>
           /\ sockets[s].state = "NONE" /\ sockets[s].recvpkt_list = << >>
           /\ ~linkLeft => link[s] = 0

\* The calls that work on the user's socket.
Working == PCs \ {"idle", "alloc", "hang"}

\* The user has a socket: the newest one.
Owner(u) == user[u].pc \in Working \/ (user[u].pc = "idle" /\ user[u].fd \in 0..Len(list) - 1)

Place(u) ==
    /\ user[u].pc \in Working \cup {"idle", "alloc"}
    /\ IF user[u].pc = "idle" THEN user[u].sock = NULL ELSE Len(list) > 0 /\ user[u].sock = Newest
    /\ Owner(u) => Len(list) > 0 /\ user[u].fd = Len(list) - 1 /\ sockets[Newest].ipc # "none"
    /\ ~Owner(u) /\ Len(list) > 0 => sockets[Newest].ipc = "none"

\* The user's socket, alive until it is being freed.
Alive(pc, sock) ==
    /\ sock.ipc = IF pc = "unlink" THEN "deleted" ELSE "live"
    /\ sock.state # "NONE"
    /\ sock.state = "CONNECT" => cb_set
    /\ pc = "connect" => sock.state # "CONNECT"
    /\ pc \in {"closing", "free", "unlink"} => sock.state = "CLOSED"
    /\ pc = "unlink" => sock.recvpkt_list = << >>

\* The reader between its look at the packets and its wait.
Reading(pc, sock) ==
    pc = "recvwait" \/ (pc = "recvtake" /\ sock.recv_notice = 0) =>
      sock.recv_notice = 0 /\ sock.recvpkt_list = << >> /\ sock.state # "CLOSED"

\* The packets and the link, as long as no link was left open.
Linked(pc, sock, l) ==
    ~linkLeft =>
      /\ \A p \in 1..Len(sock.recvpkt_list) : sock.recvpkt_list[p] = sock.conn
      /\ l # 0 => /\ l = sock.conn
                  /\ sock.state = "CLOSED" => pc = "closing"
                  /\ pc \notin {"connect", "free", "unlink"}
      /\ sock.state = "OPEN" /\ pc # "connected" => l = 0 /\ sock.recvpkt_list = << >>
      /\ pc = "connect" => sock.state = "OPEN"

\* The state and the link.
Joined(pc, sock, l, s) ==
    pc = "connected" \/ sock.state = "CONNECT" => l = sock.conn \/ s \in missed

\* rcvevent and the packets.
Pollable(pc, sock, s) ==
    sock.recvpkt_list # << >> => s \in raced \/ (sock.rcvevent > 0 /\ pc # "recvclean")

Current(u) ==
    /\ Alive(user[u].pc, sockets[Newest])
    /\ Reading(user[u].pc, sockets[Newest])
    /\ Linked(user[u].pc, sockets[Newest], link[Newest])
    /\ Joined(user[u].pc, sockets[Newest], link[Newest], Newest)
    /\ Pollable(user[u].pc, sockets[Newest], Newest)

\* An object that stayed half allocated.
Leftover(s) ==
    sockets[s].magic /\ sockets[s].ipc = "none" /\ \A u \in Users : ~(user[u].pc = "alloc" /\ s = Newest)

Faults == fault => linkLeft \/ \E s \in Slots : Leftover(s)

\* The inductive invariant.
IInv ==
    /\ OneUser
    /\ TypeOK
    /\ ListOrder
    /\ Blank
    /\ \A u \in Users : Place(u) /\ (Owner(u) => Current(u))
    /\ Faults
-----------------------------------------------------------------------------
(* What the steps have in common                                            *)

\* The initial state satisfies the invariant.
LEMMA InitIInv == Init /\ OneUser => IInv
  <1> SUFFICES ASSUME Init, OneUser PROVE IInv
    OBVIOUS
  <1>1. TypeOK
    <2>1. Zeroed \in SocketObject
      BY BoundsAssumption DEF Zeroed, SocketObject, States
    <2>2. sockets \in [Slots -> SocketObject] /\ link \in [Slots -> 0..MaxConn] /\ conns \in 0..MaxConn
      BY <2>1, BoundsAssumption DEF Init
    <2>3. user \in [Users -> UserRecord]
      BY DEF Init, UserRecord, PCs
    <2>4. list \in Seq(Slots)
      BY DEF Init
    <2> QED
      BY <2>2, <2>3, <2>4 DEF Init, TypeOK, UserRecord
  <1>2. \A s \in Slots : sockets[s] = Zeroed /\ link[s] = 0
    BY DEF Init
  <1>3. Len(list) = 0 /\ fault = FALSE
    BY DEF Init
  <1>4. ListOrder /\ Blank /\ Faults
    BY <1>2, <1>3 DEF ListOrder, Blank, Faults, Zeroed
  <1>5. \A u \in Users : ~Owner(u)
    BY <1>3 DEF Init, Owner, Working, NULL
  <1>6. \A u \in Users : Place(u)
    BY <1>3, <1>5 DEF Init, Place
  <1> QED
    BY <1>1, <1>4, <1>5, <1>6 DEF IInv

\* Only the newest socket is alive or being freed.
LEMMA LiveIsNewest ==
    ASSUME IInv, NEW s \in Slots, sockets[s].ipc # "none"
    PROVE  sockets[s].magic /\ Len(list) > 0 /\ s = Newest
  <1>1. sockets[s].magic
    BY DEF IInv, Blank, TypeOK, SocketObject
  <1>2. PICK p \in 1..Len(list) : list[p] = s
    BY <1>1 DEF IInv, ListOrder
  <1>3. p = Len(list)
    BY <1>2 DEF IInv, ListOrder, TypeOK
  <1> QED
    BY <1>1, <1>2, <1>3 DEF Newest, IInv, TypeOK

\* The socket of an owner.
LEMMA OwnerFacts ==
    ASSUME IInv, NEW u \in Users, Owner(u)
    PROVE  /\ Len(list) \in Nat /\ Len(list) > 0 /\ Newest \in Slots
           /\ sockets[Newest] \in SocketObject /\ user[u] \in UserRecord
           /\ sockets[Newest].magic /\ sockets[Newest].socket = Len(list) - 1
           /\ user[u].fd = Len(list) - 1
           /\ user[u].sock = IF user[u].pc = "idle" THEN NULL ELSE Newest
           /\ link[Newest] \in 0..MaxConn
           /\ Current(u)
           /\ \A v \in Users : v = u
  <1>1. Len(list) \in Nat /\ Len(list) > 0 /\ Newest \in Slots
    BY DEF IInv, Place, TypeOK, Newest
  <1>2. sockets[Newest] \in SocketObject /\ user[u] \in UserRecord /\ link[Newest] \in 0..MaxConn
    BY <1>1 DEF IInv, TypeOK, UserRecord
  <1>3. sockets[Newest].magic /\ sockets[Newest].socket = Len(list) - 1
    BY <1>1 DEF IInv, ListOrder, Newest
  <1>4. user[u].fd = Len(list) - 1 /\ user[u].sock = IF user[u].pc = "idle" THEN NULL ELSE Newest
    BY DEF IInv, Place
  <1>5. Current(u) /\ \A v \in Users : v = u
    BY DEF IInv, OneUser
  <1> QED
    BY <1>1, <1>2, <1>3, <1>4, <1>5

\* A descriptor that leads to a socket leads to the newest one.
LEMMA DescriptorOfOwner ==
    ASSUME IInv, NEW u \in Users, user[u].pc = "idle", at_get_socket(user[u].fd) # NULL
    PROVE  Owner(u) /\ at_get_socket(user[u].fd) = Newest
  <1>1. user[u].fd \in Nat \cup {NULL} /\ Len(list) \in Nat
    BY DEF IInv, TypeOK
  <1>2. user[u].fd >= 0 /\ user[u].fd < Len(list) /\ at_get_socket(user[u].fd) = list[user[u].fd + 1]
    BY DEF at_get_socket
  <1>3. Owner(u)
    BY <1>1, <1>2 DEF Owner, NULL
  <1> QED
    BY <1>1, <1>2, <1>3 DEF IInv, Place, Newest

\* The ways a user goes on.
LEMMA Moves ==
    ASSUME TypeOK, NEW u \in Users, NEW where \in PCs, NEW s \in Slots \cup {NULL}
    PROVE  /\ Goto(u, where) =>
                /\ user' \in [Users -> UserRecord] /\ user'[u].pc = where
                /\ user'[u].fd = user[u].fd /\ user'[u].sock = user[u].sock
           /\ Enter(u, where, s) =>
                /\ user' \in [Users -> UserRecord] /\ user'[u].pc = where
                /\ user'[u].fd = user[u].fd /\ user'[u].sock = s
           /\ Leave(u) =>
                /\ user' \in [Users -> UserRecord] /\ user'[u].pc = "idle"
                /\ user'[u].fd = user[u].fd /\ user'[u].sock = NULL
  <1>1. user \in [Users -> UserRecord] /\ "idle" \in PCs
    BY DEF TypeOK, UserRecord, PCs
  <1>2. ASSUME Goto(u, where)
        PROVE  /\ user' \in [Users -> UserRecord] /\ user'[u].pc = where
               /\ user'[u].fd = user[u].fd /\ user'[u].sock = user[u].sock
    BY <1>1, <1>2 DEF Goto, UserRecord
  <1>3. ASSUME Enter(u, where, s)
        PROVE  /\ user' \in [Users -> UserRecord] /\ user'[u].pc = where
               /\ user'[u].fd = user[u].fd /\ user'[u].sock = s
    BY <1>1, <1>3 DEF Enter, UserRecord
  <1>4. ASSUME Leave(u)
        PROVE  /\ user' \in [Users -> UserRecord] /\ user'[u].pc = "idle"
               /\ user'[u].fd = user[u].fd /\ user'[u].sock = NULL
    BY <1>1, <1>4 DEF Leave, UserRecord
  <1> QED
    BY <1>2, <1>3, <1>4

\* A step of the owner, or of the parser on its socket: it suffices to look at that
\* socket.
LEMMA OwnerStep ==
    ASSUME IInv, NEW u \in Users, Owner(u), list' = list,
           user' \in [Users -> UserRecord], user'[u].fd = user[u].fd,
           user'[u].pc \in Working \cup {"idle"},
           user'[u].sock = IF user'[u].pc = "idle" THEN NULL ELSE Newest,
           sockets' \in [Slots -> SocketObject],
           \A s \in Slots : s # Newest => sockets'[s] = sockets[s],
           sockets'[Newest].magic = sockets[Newest].magic,
           sockets'[Newest].socket = sockets[Newest].socket,
           link' \in [Slots -> 0..MaxConn],
           \A s \in Slots : s # Newest => link'[s] \in {0, link[s]},
           cb_set' \in BOOLEAN, conns' \in 0..MaxConn, linkLeft' \in BOOLEAN, linkLeft => linkLeft',
           raced' \in SUBSET Slots, missed' \in SUBSET Slots, fault' \in BOOLEAN,
           fault' => \/ fault \/ linkLeft'
                     \/ \E s \in Slots : s # Newest /\ sockets[s].magic /\ sockets[s].ipc = "none",
           Current(u)'
    PROVE  IInv'
  <1>1. /\ Len(list) \in Nat /\ Len(list) > 0 /\ Newest \in Slots
        /\ sockets[Newest].magic /\ sockets[Newest].socket = Len(list) - 1
        /\ user[u].fd = Len(list) - 1
        /\ \A v \in Users : v = u
    BY OwnerFacts
  <1>2. Newest' = Newest /\ sockets[Newest].ipc # "none" /\ sockets'[Newest].ipc # "none"
    BY DEF IInv, Place, Newest, Current, Alive
  <1>3. TypeOK'
    BY DEF IInv, TypeOK, UserRecord
  <1>4. ListOrder'
    <2>1. \A p \in 1..Len(list) : list[p] \in Slots
      BY DEF IInv, TypeOK
    <2>2. \A p \in 1..Len(list) : p < Len(list) => list[p] # Newest
      BY <1>2 DEF IInv, ListOrder
    <2>3. \A s \in Slots : sockets'[s].magic = sockets[s].magic /\ sockets'[s].socket = sockets[s].socket
      BY <1>1
    <2>4. ASSUME NEW p \in 1..Len(list)
          PROVE  /\ sockets'[list[p]].magic /\ sockets'[list[p]].socket = p - 1
                 /\ p < Len(list) => sockets'[list[p]].ipc = "none"
      <3>1. /\ sockets[list[p]].magic /\ sockets[list[p]].socket = p - 1
            /\ p < Len(list) => sockets[list[p]].ipc = "none"
        BY DEF IInv, ListOrder
      <3> QED
        BY <2>1, <2>2, <2>3, <3>1
    <2>5. ASSUME NEW s \in Slots, sockets'[s].magic PROVE \E p \in 1..Len(list) : list[p] = s
      BY <2>3, <2>5 DEF IInv, ListOrder
    <2> QED
      BY <2>4, <2>5 DEF ListOrder
  <1>5. Blank'
    <2> SUFFICES ASSUME NEW s \in Slots
                 PROVE  /\ ~sockets'[s].magic => sockets'[s].ipc = "none"
                        /\ sockets'[s].ipc = "none" =>
                             /\ sockets'[s].state = "NONE" /\ sockets'[s].recvpkt_list = << >>
                             /\ ~linkLeft' => link'[s] = 0
      BY DEF Blank
    <2>1. CASE s = Newest
      BY <1>1, <1>2, <2>1
    <2>2. CASE s # Newest
      <3>1. sockets'[s] = sockets[s] /\ link'[s] \in {0, link[s]} /\ (~linkLeft' => ~linkLeft)
        BY <2>2
      <3> QED
        BY <3>1 DEF IInv, Blank
    <2> QED
      BY <2>1, <2>2
  <1>6. Owner(u)' /\ Place(u)'
    <2>1. Owner(u)'
      BY <1>1 DEF Owner
    <2> QED
      BY <1>1, <1>2, <2>1 DEF Place
  <1>7. Faults'
    <2>1. ASSUME NEW s \in Slots, s # Newest, sockets[s].magic, sockets[s].ipc = "none"
          PROVE  Leftover(s)'
      BY <1>2, <2>1 DEF Leftover
    <2>2. \A s \in Slots : Leftover(s) => s # Newest
      BY <1>2 DEF Leftover
    <2> QED
      BY <2>1, <2>2 DEF IInv, Faults, Leftover
  <1>8. OneUser
    BY DEF IInv
  <1> QED
    BY <1>1, <1>3, <1>4, <1>5, <1>6, <1>7, <1>8 DEF IInv, OneUser

\* A step of the owner that leaves the objects, the links and the parser's history alone.
LEMMA OwnerMove ==
    ASSUME IInv, NEW u \in Users, Owner(u), UNCHANGED <<sockets, list, link, conns, cb_set, fault>>,
           UNCHANGED <<raced, missed>>, linkLeft' \in BOOLEAN, linkLeft => linkLeft',
           user' \in [Users -> UserRecord], user'[u].fd = user[u].fd,
           user'[u].pc \in Working \cup {"idle"},
           user'[u].sock = IF user'[u].pc = "idle" THEN NULL ELSE Newest,
           Alive(user'[u].pc, sockets[Newest]),
           Reading(user'[u].pc, sockets[Newest]),
           linkLeft' \/ Linked(user'[u].pc, sockets[Newest], link[Newest]),
           Joined(user'[u].pc, sockets[Newest], link[Newest], Newest),
           Pollable(user'[u].pc, sockets[Newest], Newest)
    PROVE  IInv'
  <1>1. Newest' = Newest
    BY DEF Newest
  <1>2. Current(u)'
    BY <1>1 DEF Current, Alive, Reading, Linked, Joined, Pollable
  <1>3. TypeOK
    BY DEF IInv
  <1> QED
    BY <1>2, <1>3, OwnerStep DEF TypeOK

\* at_connect keeps the invariant.
LEMMA ConnectBeginStep == ASSUME IInv, NEW u \in Users, ConnectBegin(u) PROVE IInv'
  <1>1. /\ Owner(u) /\ Enter(u, "connect", Newest) /\ sockets[Newest].state = "OPEN"
        /\ user[u].pc = "idle" /\ UNCHANGED <<sockets, list, link, conns, cb_set, fault>>
        /\ UNCHANGED <<raced, missed>> /\ linkLeft' = linkLeft
    BY DescriptorOfOwner DEF ConnectBegin
  <1>2. Newest \in Slots /\ Current(u) /\ TypeOK
    BY <1>1, OwnerFacts DEF IInv
  <1>3. /\ user' \in [Users -> UserRecord] /\ user'[u].pc = "connect"
        /\ user'[u].fd = user[u].fd /\ user'[u].sock = Newest
    BY <1>1, <1>2, Moves DEF PCs
  <1>4. "connect" \in Working
    BY DEF Working, PCs
  <1>5. /\ Alive("connect", sockets[Newest]) /\ Reading("connect", sockets[Newest])
        /\ Linked("connect", sockets[Newest], link[Newest])
        /\ Joined("connect", sockets[Newest], link[Newest], Newest)
        /\ Pollable("connect", sockets[Newest], Newest)
    BY <1>1, <1>2 DEF Current, Alive, Reading, Linked, Joined, Pollable
  <1> QED
    BY <1>1, <1>2, <1>3, <1>4, <1>5, OwnerMove DEF TypeOK

\* ConnectFailed: the device could not connect.
LEMMA ConnectFailedStep == ASSUME IInv, NEW u \in Users, ConnectFailed(u) PROVE IInv'
  <1>1. Owner(u) /\ user[u].pc = "connect"
    BY DEF ConnectFailed, Owner, Working, PCs
  <1>2. Current(u) /\ TypeOK
    BY <1>1, OwnerFacts DEF IInv
  <1>3. /\ user' \in [Users -> UserRecord] /\ user'[u].pc = "idle"
        /\ user'[u].fd = user[u].fd /\ user'[u].sock = NULL
    BY <1>2, Moves DEF ConnectFailed, PCs
  <1>4. /\ Alive("idle", sockets[Newest]) /\ Reading("idle", sockets[Newest])
        /\ Linked("idle", sockets[Newest], link[Newest])
        /\ Joined("idle", sockets[Newest], link[Newest], Newest)
        /\ Pollable("idle", sockets[Newest], Newest)
    BY <1>1, <1>2 DEF Current, Alive, Reading, Linked, Joined, Pollable
  <1> QED
    BY <1>1, <1>2, <1>3, <1>4, OwnerMove DEF TypeOK, ConnectFailed

\* ConnectTimedOut: the link is left open.
LEMMA ConnectTimedOutStep == ASSUME IInv, NEW u \in Users, ConnectTimedOut(u) PROVE IInv'
  <1>1. Owner(u) /\ user[u].pc = "connected" /\ linkLeft'
    BY DEF ConnectTimedOut, Owner, Working, PCs
  <1>2. Current(u) /\ TypeOK
    BY <1>1, OwnerFacts DEF IInv
  <1>3. /\ user' \in [Users -> UserRecord] /\ user'[u].pc = "idle"
        /\ user'[u].fd = user[u].fd /\ user'[u].sock = NULL
    BY <1>2, Moves DEF ConnectTimedOut, PCs
  <1>4. /\ Alive("idle", sockets[Newest]) /\ Reading("idle", sockets[Newest])
        /\ Joined("idle", sockets[Newest], link[Newest], Newest)
        /\ Pollable("idle", sockets[Newest], Newest)
    BY <1>1, <1>2 DEF Current, Alive, Reading, Joined, Pollable
  <1> QED
    BY <1>1, <1>2, <1>3, <1>4, OwnerMove DEF TypeOK, ConnectTimedOut

\* ConnectOpened: the modem opens the link.
LEMMA ConnectOpenedStep == ASSUME IInv, NEW u \in Users, ConnectOpened(u) PROVE IInv'
  <1>1. Owner(u) /\ user[u].pc = "connect"
    BY DEF ConnectOpened, Owner, Working, PCs
  <1>2. /\ Current(u) /\ TypeOK /\ Newest \in Slots /\ user[u].sock = Newest
        /\ sockets[Newest] \in SocketObject
    BY <1>1, OwnerFacts DEF IInv
  <1>3. /\ user' \in [Users -> UserRecord] /\ user'[u].pc = "connected"
        /\ user'[u].fd = user[u].fd /\ user'[u].sock = Newest
    BY <1>2, Moves DEF ConnectOpened, PCs
  <1>4. conns + 1 \in 0..MaxConn
    BY <1>2, BoundsAssumption DEF ConnectOpened, TypeOK
  <1>5. /\ sockets' \in [Slots -> SocketObject] /\ sockets'[Newest].conn = conns + 1
        /\ \A s \in Slots : s # Newest => sockets'[s] = sockets[s]
        /\ sockets'[Newest].magic = sockets[Newest].magic
        /\ sockets'[Newest].socket = sockets[Newest].socket
        /\ sockets'[Newest].ipc = sockets[Newest].ipc
        /\ sockets'[Newest].state = sockets[Newest].state
        /\ sockets'[Newest].recvpkt_list = sockets[Newest].recvpkt_list
        /\ sockets'[Newest].rcvevent = sockets[Newest].rcvevent
    BY <1>2, <1>4 DEF ConnectOpened, TypeOK, SocketObject
  <1>6. /\ link' \in [Slots -> 0..MaxConn] /\ link'[Newest] = conns + 1
        /\ \A s \in Slots : s # Newest => link'[s] = link[s]
    BY <1>2, <1>4 DEF ConnectOpened, TypeOK
  <1>7. Newest' = Newest
    BY DEF ConnectOpened, Newest
  <1>8. Len(sockets[Newest].recvpkt_list) \in Nat /\ (~linkLeft => sockets[Newest].recvpkt_list = << >>)
    BY <1>1, <1>2 DEF Current, Linked, SocketObject
  <1>9. Current(u)'
    BY <1>1, <1>2, <1>3, <1>5, <1>6, <1>7, <1>8
      DEF ConnectOpened, Current, Alive, Reading, Linked, Joined, Pollable
  <1>10. "connected" \in Working
    BY DEF Working, PCs
  <1> QED
    BY <1>1, <1>2, <1>3, <1>4, <1>5, <1>6, <1>9, <1>10, OwnerStep DEF TypeOK, ConnectOpened

\* ConnectDone: the socket becomes CONNECT.
LEMMA ConnectDoneStep == ASSUME IInv, NEW u \in Users, ConnectDone(u) PROVE IInv'
  <1>1. Owner(u) /\ user[u].pc = "connected"
    BY DEF ConnectDone, Owner, Working, PCs
  <1>2. /\ Current(u) /\ TypeOK /\ Newest \in Slots /\ user[u].sock = Newest
        /\ sockets[Newest] \in SocketObject
    BY <1>1, OwnerFacts DEF IInv
  <1>3. /\ user' \in [Users -> UserRecord] /\ user'[u].pc = "idle"
        /\ user'[u].fd = user[u].fd /\ user'[u].sock = NULL
    BY <1>2, Moves DEF ConnectDone, PCs
  <1>4. /\ sockets' \in [Slots -> SocketObject] /\ sockets'[Newest].state = "CONNECT"
        /\ \A s \in Slots : s # Newest => sockets'[s] = sockets[s]
        /\ sockets'[Newest].magic = sockets[Newest].magic
        /\ sockets'[Newest].socket = sockets[Newest].socket
        /\ sockets'[Newest].ipc = sockets[Newest].ipc
        /\ sockets'[Newest].conn = sockets[Newest].conn
        /\ sockets'[Newest].recvpkt_list = sockets[Newest].recvpkt_list
        /\ sockets'[Newest].rcvevent = sockets[Newest].rcvevent
    BY <1>2 DEF ConnectDone, TypeOK, SocketObject, States
  <1>5. Newest' = Newest
    BY DEF ConnectDone, Newest
  <1>6. Current(u)'
    BY <1>1, <1>2, <1>3, <1>4, <1>5 DEF ConnectDone, Current, Alive, Reading, Linked, Joined,
       Pollable
  <1> QED
    BY <1>1, <1>2, <1>3, <1>4, <1>6, OwnerStep DEF TypeOK, ConnectDone

\* A read takes packets from the front of the list and changes nothing else.
LEMMA ReadTakes ==
    ASSUME TypeOK, NEW s \in Slots, at_recvpkt_get(s)
    PROVE  /\ sockets' \in [Slots -> SocketObject]
           /\ \A t \in Slots : t # s => sockets'[t] = sockets[t]
           /\ sockets'[s].magic = sockets[s].magic /\ sockets'[s].socket = sockets[s].socket
           /\ sockets'[s].ipc = sockets[s].ipc /\ sockets'[s].conn = sockets[s].conn
           /\ sockets'[s].state = sockets[s].state /\ sockets'[s].rcvevent = sockets[s].rcvevent
           /\ sockets[s].recvpkt_list # << >>
           /\ \A p \in 1..Len(sockets'[s].recvpkt_list) : \E q \in 1..Len(sockets[s].recvpkt_list) :
                sockets'[s].recvpkt_list[p] = sockets[s].recvpkt_list[q]
  <1> DEFINE l == sockets[s].recvpkt_list
  <1>1. l \in Seq(1..MaxConn) /\ Len(l) \in Nat /\ sockets[s] \in SocketObject
    BY DEF TypeOK, SocketObject
  <1>2. PICK whole \in 0..Len(l) :
          sockets' = [sockets EXCEPT ![s].recvpkt_list = SubSeq(l, whole + 1, Len(l))]
    BY DEF at_recvpkt_get
  <1> DEFINE rest == SubSeq(l, whole + 1, Len(l))
  <1>3. /\ rest \in Seq(1..MaxConn) /\ Len(rest) = Len(l) - whole
        /\ \A p \in 1..Len(rest) : rest[p] = l[whole + p]
    <2> HIDE DEF l
    <2>1. whole \in Int /\ Len(l) \in Int /\ \A i \in whole + 1..Len(l) : l[i] \in 1..MaxConn
      <3>1. \A i \in 1..Len(l) : l[i] \in 1..MaxConn
        BY <1>1, ElementOfSeq
      <3>2. \A i \in whole + 1..Len(l) : i \in 1..Len(l)
        BY <1>1
      <3> QED
        BY <1>1, <3>1, <3>2
    <2>2. /\ rest \in Seq(1..MaxConn)
          /\ Len(rest) = IF whole + 1 <= Len(l) THEN Len(l) - (whole + 1) + 1 ELSE 0
          /\ \A i \in 1..Len(l) - (whole + 1) + 1 : rest[i] = l[whole + 1 + i - 1]
      BY <2>1, SubSeqProperties
    <2> HIDE DEF rest
    <2>3. Len(rest) = Len(l) - whole
      BY <1>1, <2>2
    <2>4. ASSUME NEW p \in 1..Len(rest) PROVE rest[p] = l[whole + p]
      <3>1. p \in 1..Len(l) - (whole + 1) + 1 /\ whole + 1 + p - 1 = whole + p
        BY <1>1, <2>3
      <3> QED
        BY <2>2, <3>1
    <2> QED
      BY <2>2, <2>3, <2>4
  <1> HIDE DEF rest
  <1>4. /\ sockets' \in [Slots -> SocketObject] /\ sockets'[s].recvpkt_list = rest
        /\ \A t \in Slots : t # s => sockets'[t] = sockets[t]
        /\ sockets'[s].magic = sockets[s].magic /\ sockets'[s].socket = sockets[s].socket
        /\ sockets'[s].ipc = sockets[s].ipc /\ sockets'[s].conn = sockets[s].conn
        /\ sockets'[s].state = sockets[s].state /\ sockets'[s].rcvevent = sockets[s].rcvevent
    BY <1>1, <1>2, <1>3 DEF TypeOK, SocketObject, rest
  <1>5. ASSUME NEW p \in 1..Len(rest) PROVE \E q \in 1..Len(l) : rest[p] = l[q]
    <2>1. whole + p \in 1..Len(l) /\ rest[p] = l[whole + p]
      BY <1>1, <1>3
    <2> QED
      BY <2>1
  <1> QED
    BY <1>4, <1>5 DEF at_recvpkt_get

\* at_recvfrom keeps the invariant, whichever way it takes.
LEMMA RecvBeginStep == ASSUME IInv, NEW u \in Users, RecvBegin(u) PROVE IInv'
  <1>1. Owner(u) /\ user[u].pc = "idle" /\ at_get_socket(user[u].fd) = Newest
    BY DescriptorOfOwner DEF RecvBegin
  <1>2. /\ Current(u) /\ TypeOK /\ Newest \in Slots /\ sockets[Newest] \in SocketObject
        /\ sockets[Newest].ipc = "live"
    BY <1>1, OwnerFacts DEF IInv, Current, Alive
  <1>3. Newest' = Newest
    BY DEF RecvBegin, Newest
  <1>4. CASE at_recvpkt_get(Newest) /\ Enter(u, "recvexit", Newest) /\ UNCHANGED fault
    <2>1. /\ user' \in [Users -> UserRecord] /\ user'[u].pc = "recvexit"
          /\ user'[u].fd = user[u].fd /\ user'[u].sock = Newest
      BY <1>2, <1>4, Moves DEF PCs
    <2> DEFINE old == sockets[Newest].recvpkt_list
               new == sockets'[Newest].recvpkt_list
    <2>2. /\ sockets' \in [Slots -> SocketObject]
          /\ \A t \in Slots : t # Newest => sockets'[t] = sockets[t]
          /\ sockets'[Newest].magic = sockets[Newest].magic
          /\ sockets'[Newest].socket = sockets[Newest].socket
          /\ sockets'[Newest].ipc = sockets[Newest].ipc /\ sockets'[Newest].conn = sockets[Newest].conn
          /\ sockets'[Newest].state = sockets[Newest].state
          /\ sockets'[Newest].rcvevent = sockets[Newest].rcvevent
          /\ old # << >> /\ \A p \in 1..Len(new) : \E q \in 1..Len(old) : new[p] = old[q]
      BY <1>2, <1>4, ReadTakes
    <2>3. Current(u)'
      BY <1>1, <1>2, <1>3, <2>1, <2>2
        DEF RecvBegin, Current, Alive, Reading, Linked, Joined, Pollable
    <2>4. "recvexit" \in Working
      BY DEF Working, PCs
    <2> QED
      BY <1>1, <1>2, <1>4, <2>1, <2>2, <2>3, <2>4, OwnerStep DEF TypeOK, RecvBegin
  <1>5. CASE /\ sockets[Newest].recvpkt_list = << >> /\ sockets[Newest].state \in {"CONNECT", "OPEN"}
             /\ Enter(u, "recvtake", Newest) /\ UNCHANGED <<sockets, fault>>
    <2>1. /\ user' \in [Users -> UserRecord] /\ user'[u].pc = "recvtake"
          /\ user'[u].fd = user[u].fd /\ user'[u].sock = Newest
      BY <1>2, <1>5, Moves DEF PCs
    <2>2. /\ Alive("recvtake", sockets[Newest]) /\ Reading("recvtake", sockets[Newest])
          /\ Linked("recvtake", sockets[Newest], link[Newest])
          /\ Joined("recvtake", sockets[Newest], link[Newest], Newest)
          /\ Pollable("recvtake", sockets[Newest], Newest)
      BY <1>1, <1>2, <1>5 DEF Current, Alive, Reading, Linked, Joined, Pollable
    <2>3. "recvtake" \in Working
      BY DEF Working, PCs
    <2> QED
      BY <1>1, <1>2, <1>5, <2>1, <2>2, <2>3, OwnerMove DEF TypeOK, RecvBegin
  <1> QED
    BY <1>1, <1>2, <1>4, <1>5 DEF RecvBegin

\* RecvTake: the reader takes a token or waits.
LEMMA RecvTakeStep == ASSUME IInv, NEW u \in Users, RecvTake(u) PROVE IInv'
  <1>1. Owner(u) /\ user[u].pc = "recvtake"
    BY DEF RecvTake, Owner, Working, PCs
  <1>2. /\ Current(u) /\ TypeOK /\ Newest \in Slots /\ user[u].sock = Newest
        /\ sockets[Newest] \in SocketObject /\ sockets[Newest].ipc = "live"
    BY <1>1, OwnerFacts DEF IInv, Current, Alive
  <1>3. Newest' = Newest /\ fault' = fault
    BY <1>2 DEF RecvTake, Newest
  <1>4. CASE sockets[Newest].recv_notice > 0
    <2>1. /\ user' \in [Users -> UserRecord] /\ user'[u].pc = "recvwoken"
          /\ user'[u].fd = user[u].fd /\ user'[u].sock = Newest
      BY <1>2, <1>4, Moves DEF RecvTake, PCs
    <2>2. /\ sockets' \in [Slots -> SocketObject]
          /\ \A t \in Slots : t # Newest => sockets'[t] = sockets[t]
          /\ sockets'[Newest].magic = sockets[Newest].magic
          /\ sockets'[Newest].socket = sockets[Newest].socket
          /\ sockets'[Newest].ipc = sockets[Newest].ipc /\ sockets'[Newest].conn = sockets[Newest].conn
          /\ sockets'[Newest].state = sockets[Newest].state
          /\ sockets'[Newest].recvpkt_list = sockets[Newest].recvpkt_list
          /\ sockets'[Newest].rcvevent = sockets[Newest].rcvevent
      <3>1. sockets' = [sockets EXCEPT ![Newest].recv_notice = sockets[Newest].recv_notice - 1]
        BY <1>2, <1>4 DEF RecvTake
      <3>2. sockets[Newest].recv_notice - 1 \in Nat
        BY <1>2, <1>4 DEF SocketObject
      <3> QED
        BY <1>2, <3>1, <3>2 DEF TypeOK, SocketObject
    <2>3. Current(u)'
      BY <1>1, <1>2, <1>3, <2>1, <2>2
        DEF RecvTake, Current, Alive, Reading, Linked, Joined, Pollable
    <2>4. "recvwoken" \in Working
      BY DEF Working, PCs
    <2> QED
      BY <1>1, <1>2, <1>3, <2>1, <2>2, <2>3, <2>4, OwnerStep DEF TypeOK, RecvTake
  <1>5. CASE sockets[Newest].recv_notice = 0
    <2>1. /\ user' \in [Users -> UserRecord] /\ user'[u].pc = "recvwait"
          /\ user'[u].fd = user[u].fd /\ user'[u].sock = Newest /\ sockets' = sockets
      BY <1>2, <1>5, Moves DEF RecvTake, PCs
    <2>2. /\ Alive("recvwait", sockets[Newest]) /\ Reading("recvwait", sockets[Newest])
          /\ Linked("recvwait", sockets[Newest], link[Newest])
          /\ Joined("recvwait", sockets[Newest], link[Newest], Newest)
          /\ Pollable("recvwait", sockets[Newest], Newest)
      BY <1>1, <1>2, <1>5 DEF Current, Alive, Reading, Linked, Joined, Pollable
    <2>3. "recvwait" \in Working
      BY DEF Working, PCs
    <2> QED
      BY <1>1, <1>2, <1>3, <2>1, <2>2, <2>3, OwnerMove DEF TypeOK, RecvTake
  <1> QED
    BY <1>2, <1>4, <1>5 DEF SocketObject

\* RecvWoken: the reader looks again.
LEMMA RecvWokenStep == ASSUME IInv, NEW u \in Users, RecvWoken(u) PROVE IInv'
  <1>1. Owner(u) /\ user[u].pc = "recvwoken"
    BY DEF RecvWoken, Owner, Working, PCs
  <1>2. /\ Current(u) /\ TypeOK /\ Newest \in Slots /\ user[u].sock = Newest
        /\ sockets[Newest] \in SocketObject
    BY <1>1, OwnerFacts DEF IInv
  <1>3. Newest' = Newest
    BY DEF RecvWoken, Newest
  <1>4. CASE at_recvpkt_get(Newest) /\ Goto(u, "recvexit")
    <2>1. /\ user' \in [Users -> UserRecord] /\ user'[u].pc = "recvexit"
          /\ user'[u].fd = user[u].fd /\ user'[u].sock = Newest
      BY <1>2, <1>4, Moves DEF PCs
    <2> DEFINE old == sockets[Newest].recvpkt_list
               new == sockets'[Newest].recvpkt_list
    <2>2. /\ sockets' \in [Slots -> SocketObject]
          /\ \A t \in Slots : t # Newest => sockets'[t] = sockets[t]
          /\ sockets'[Newest].magic = sockets[Newest].magic
          /\ sockets'[Newest].socket = sockets[Newest].socket
          /\ sockets'[Newest].ipc = sockets[Newest].ipc /\ sockets'[Newest].conn = sockets[Newest].conn
          /\ sockets'[Newest].state = sockets[Newest].state
          /\ sockets'[Newest].rcvevent = sockets[Newest].rcvevent
          /\ old # << >> /\ \A p \in 1..Len(new) : \E q \in 1..Len(old) : new[p] = old[q]
      BY <1>2, <1>4, ReadTakes
    <2>3. Current(u)'
      BY <1>1, <1>2, <1>3, <2>1, <2>2
        DEF RecvWoken, Current, Alive, Reading, Linked, Joined, Pollable
    <2>4. "recvexit" \in Working
      BY DEF Working, PCs
    <2> QED
      BY <1>1, <1>2, <1>4, <2>1, <2>2, <2>3, <2>4, OwnerStep DEF TypeOK, RecvWoken
  <1>5. CASE /\ sockets[Newest].state = "CONNECT" /\ sockets[Newest].recvpkt_list = << >>
             /\ Goto(u, "recvtake") /\ UNCHANGED sockets
    <2>1. /\ user' \in [Users -> UserRecord] /\ user'[u].pc = "recvtake"
          /\ user'[u].fd = user[u].fd /\ user'[u].sock = Newest
      BY <1>2, <1>5, Moves DEF PCs
    <2>2. /\ Alive("recvtake", sockets[Newest]) /\ Reading("recvtake", sockets[Newest])
          /\ Linked("recvtake", sockets[Newest], link[Newest])
          /\ Joined("recvtake", sockets[Newest], link[Newest], Newest)
          /\ Pollable("recvtake", sockets[Newest], Newest)
      BY <1>1, <1>2, <1>5 DEF Current, Alive, Reading, Linked, Joined, Pollable
    <2>3. "recvtake" \in Working
      BY DEF Working, PCs
    <2> QED
      BY <1>1, <1>2, <1>5, <2>1, <2>2, <2>3, OwnerMove DEF TypeOK, RecvWoken
  <1>6. CASE Leave(u) /\ UNCHANGED sockets
    <2>1. /\ user' \in [Users -> UserRecord] /\ user'[u].pc = "idle"
          /\ user'[u].fd = user[u].fd /\ user'[u].sock = NULL
      BY <1>2, <1>6, Moves DEF PCs
    <2>2. /\ Alive("idle", sockets[Newest]) /\ Reading("idle", sockets[Newest])
          /\ Linked("idle", sockets[Newest], link[Newest])
          /\ Joined("idle", sockets[Newest], link[Newest], Newest)
          /\ Pollable("idle", sockets[Newest], Newest)
      BY <1>1, <1>2, <1>6 DEF Current, Alive, Reading, Linked, Joined, Pollable
    <2> QED
      BY <1>1, <1>2, <1>6, <2>1, <2>2, OwnerMove DEF TypeOK, RecvWoken
  <1> QED
    BY <1>2, <1>4, <1>5, <1>6 DEF RecvWoken

\* RecvTimedOut: SO_RCVTIMEO is over.
LEMMA RecvTimedOutStep == ASSUME IInv, NEW u \in Users, RecvTimedOut(u) PROVE IInv'
  <1>1. Owner(u) /\ user[u].pc = "recvwait"
    BY DEF RecvTimedOut, Owner, Working, PCs
  <1>2. /\ Current(u) /\ TypeOK /\ Newest \in Slots /\ user[u].sock = Newest
        /\ sockets[Newest] \in SocketObject
    BY <1>1, OwnerFacts DEF IInv
  <1>3. Newest' = Newest
    BY DEF RecvTimedOut, Newest
  <1>4. /\ user' \in [Users -> UserRecord] /\ user'[u].pc = "idle"
        /\ user'[u].fd = user[u].fd /\ user'[u].sock = NULL
    BY <1>2, Moves DEF RecvTimedOut, PCs
  <1>5. /\ Alive("idle", sockets[Newest]) /\ Reading("idle", sockets[Newest])
        /\ Linked("idle", sockets[Newest], link[Newest])
        /\ Joined("idle", sockets[Newest], link[Newest], Newest)
        /\ Pollable("idle", sockets[Newest], Newest)
    BY <1>1, <1>2 DEF Current, Alive, Reading, Linked, Joined, Pollable
  <1> QED
    BY <1>1, <1>2, <1>4, <1>5, OwnerMove DEF TypeOK, RecvTimedOut

\* RecvExit: rcvevent after a read.
LEMMA RecvExitStep == ASSUME IInv, NEW u \in Users, RecvExit(u) PROVE IInv'
  <1>1. Owner(u) /\ user[u].pc = "recvexit"
    BY DEF RecvExit, Owner, Working, PCs
  <1>2. /\ Current(u) /\ TypeOK /\ Newest \in Slots /\ user[u].sock = Newest
        /\ sockets[Newest] \in SocketObject
    BY <1>1, OwnerFacts DEF IInv
  <1>3. Newest' = Newest
    BY DEF RecvExit, Newest
  <1> DEFINE less == IF sockets[Newest].rcvevent > 0 THEN sockets[Newest].rcvevent - 1 ELSE 0
  <1>4. less \in Nat
    BY <1>2 DEF SocketObject
  <1>5. CASE sockets[Newest].recvpkt_list # << >>
    <2> DEFINE more == less + 1
    <2>1. sockets' = [sockets EXCEPT ![Newest].rcvevent = more] /\ Leave(u)
      BY <1>2, <1>5 DEF RecvExit
    <2>2. /\ user' \in [Users -> UserRecord] /\ user'[u].pc = "idle"
          /\ user'[u].fd = user[u].fd /\ user'[u].sock = NULL
      BY <1>2, <2>1, Moves DEF PCs
    <2>3. more \in Nat /\ more > 0
      BY <1>4
    <2> HIDE DEF less, more
    <2>4. /\ sockets' \in [Slots -> SocketObject]
          /\ \A t \in Slots : t # Newest => sockets'[t] = sockets[t]
          /\ sockets'[Newest].rcvevent = more
          /\ sockets'[Newest].magic = sockets[Newest].magic
          /\ sockets'[Newest].socket = sockets[Newest].socket
          /\ sockets'[Newest].ipc = sockets[Newest].ipc
          /\ sockets'[Newest].conn = sockets[Newest].conn
          /\ sockets'[Newest].state = sockets[Newest].state
          /\ sockets'[Newest].recvpkt_list = sockets[Newest].recvpkt_list
          /\ sockets'[Newest].recv_notice = sockets[Newest].recv_notice
      BY <1>2, <2>1, <2>3 DEF TypeOK, SocketObject
    <2>5. Current(u)'
      BY <1>1, <1>2, <1>3, <2>2, <2>3, <2>4
        DEF RecvExit, Current, Alive, Reading, Linked, Joined, Pollable
    <2> QED
      BY <1>1, <1>2, <2>2, <2>4, <2>5, OwnerStep DEF TypeOK, RecvExit
  <1>6. CASE sockets[Newest].recvpkt_list = << >>
    <2>1. sockets' = [sockets EXCEPT ![Newest].rcvevent = less] /\ Goto(u, "recvclean")
      BY <1>2, <1>6 DEF RecvExit
    <2>2. /\ user' \in [Users -> UserRecord] /\ user'[u].pc = "recvclean"
          /\ user'[u].fd = user[u].fd /\ user'[u].sock = Newest
      BY <1>2, <2>1, Moves DEF PCs
    <2> HIDE DEF less
    <2>3. /\ sockets' \in [Slots -> SocketObject]
          /\ \A t \in Slots : t # Newest => sockets'[t] = sockets[t]
          /\ sockets'[Newest].rcvevent = less
          /\ sockets'[Newest].magic = sockets[Newest].magic
          /\ sockets'[Newest].socket = sockets[Newest].socket
          /\ sockets'[Newest].ipc = sockets[Newest].ipc
          /\ sockets'[Newest].conn = sockets[Newest].conn
          /\ sockets'[Newest].state = sockets[Newest].state
          /\ sockets'[Newest].recvpkt_list = sockets[Newest].recvpkt_list
          /\ sockets'[Newest].recv_notice = sockets[Newest].recv_notice
      BY <1>2, <1>4, <2>1 DEF TypeOK, SocketObject
    <2>4. Current(u)'
      BY <1>1, <1>2, <1>3, <1>4, <1>6, <2>2, <2>3
        DEF RecvExit, Current, Alive, Reading, Linked, Joined, Pollable
    <2>5. "recvclean" \in Working
      BY DEF Working, PCs
    <2> QED
      BY <1>1, <1>2, <2>2, <2>3, <2>4, <2>5, OwnerStep DEF TypeOK, RecvExit
  <1> QED
    BY <1>5, <1>6

\* RecvClean: rcvevent is cleared.
LEMMA RecvCleanStep == ASSUME IInv, NEW u \in Users, RecvClean(u) PROVE IInv'
  <1>1. Owner(u) /\ user[u].pc = "recvclean"
    BY DEF RecvClean, Owner, Working, PCs
  <1>2. /\ Current(u) /\ TypeOK /\ Newest \in Slots /\ user[u].sock = Newest
        /\ sockets[Newest] \in SocketObject
    BY <1>1, OwnerFacts DEF IInv
  <1>3. Newest' = Newest
    BY DEF RecvClean, Newest
  <1>4. /\ user' \in [Users -> UserRecord] /\ user'[u].pc = "idle"
        /\ user'[u].fd = user[u].fd /\ user'[u].sock = NULL
    BY <1>2, Moves DEF RecvClean, PCs
  <1>5. /\ sockets' \in [Slots -> SocketObject]
        /\ \A t \in Slots : t # Newest => sockets'[t] = sockets[t]
        /\ sockets'[Newest].rcvevent = 0
        /\ sockets'[Newest].magic = sockets[Newest].magic
        /\ sockets'[Newest].socket = sockets[Newest].socket
        /\ sockets'[Newest].ipc = sockets[Newest].ipc
        /\ sockets'[Newest].conn = sockets[Newest].conn
        /\ sockets'[Newest].state = sockets[Newest].state
        /\ sockets'[Newest].recvpkt_list = sockets[Newest].recvpkt_list
        /\ sockets'[Newest].recv_notice = sockets[Newest].recv_notice
    BY <1>2 DEF RecvClean, TypeOK, SocketObject
  <1>6. Current(u)'
    BY <1>1, <1>2, <1>3, <1>4, <1>5
      DEF RecvClean, Current, Alive, Reading, Linked, Joined, Pollable
  <1> QED
    BY <1>1, <1>2, <1>4, <1>5, <1>6, OwnerStep DEF TypeOK, RecvClean

\* at_closesocket keeps the invariant.
LEMMA CloseBeginStep == ASSUME IInv, NEW u \in Users, CloseBegin(u) PROVE IInv'
  <1>1. Owner(u) /\ user[u].pc = "idle" /\ at_get_socket(user[u].fd) = Newest
    BY DescriptorOfOwner DEF CloseBegin
  <1>2. Current(u) /\ TypeOK /\ Newest \in Slots /\ sockets[Newest] \in SocketObject
    BY <1>1, OwnerFacts DEF IInv
  <1>3. Newest' = Newest
    BY DEF CloseBegin, Newest
  <1> DEFINE where == IF sockets[Newest].state # "CLOSED" THEN "closing" ELSE "free"
  <1>4. where \in PCs /\ where \in Working
    BY DEF Working, PCs
  <1>5. /\ user' \in [Users -> UserRecord] /\ user'[u].pc = where
        /\ user'[u].fd = user[u].fd /\ user'[u].sock = Newest
    <2>1. Enter(u, where, Newest)
      BY <1>1 DEF CloseBegin
    <2> HIDE DEF where
    <2> QED
      BY <1>2, <1>4, <2>1, Moves
  <1>6. /\ sockets' \in [Slots -> SocketObject]
        /\ \A t \in Slots : t # Newest => sockets'[t] = sockets[t]
        /\ sockets'[Newest].state = "CLOSED"
        /\ sockets'[Newest].magic = sockets[Newest].magic
        /\ sockets'[Newest].socket = sockets[Newest].socket
        /\ sockets'[Newest].ipc = sockets[Newest].ipc
        /\ sockets'[Newest].conn = sockets[Newest].conn
        /\ sockets'[Newest].recvpkt_list = sockets[Newest].recvpkt_list
        /\ sockets'[Newest].recv_notice = sockets[Newest].recv_notice
        /\ sockets'[Newest].rcvevent = sockets[Newest].rcvevent
    BY <1>1, <1>2 DEF CloseBegin, States, TypeOK, SocketObject
  <1>7. Current(u)'
    BY <1>1, <1>2, <1>3, <1>5, <1>6
      DEF CloseBegin, Current, Alive, Reading, Linked, Joined, Pollable
  <1>8. where # "idle"
    OBVIOUS
  <1> HIDE DEF where
  <1> QED
    BY <1>1, <1>2, <1>4, <1>5, <1>6, <1>7, <1>8, OwnerStep DEF TypeOK, CloseBegin

\* CloseDevice: AT+CIPCLOSE.
LEMMA CloseDeviceStep == ASSUME IInv, NEW u \in Users, CloseDevice(u) PROVE IInv'
  <1>1. Owner(u) /\ user[u].pc = "closing"
    BY DEF CloseDevice, Owner, Working, PCs
  <1>2. /\ Current(u) /\ TypeOK /\ Newest \in Slots /\ user[u].sock = Newest
        /\ sockets[Newest] \in SocketObject
    BY <1>1, OwnerFacts DEF IInv
  <1>3. Newest' = Newest
    BY DEF CloseDevice, Newest
  <1>4. /\ user' \in [Users -> UserRecord] /\ user'[u].pc = "free"
        /\ user'[u].fd = user[u].fd /\ user'[u].sock = Newest
    BY <1>2, Moves DEF CloseDevice, PCs
  <1>5. /\ link' \in [Slots -> 0..MaxConn] /\ linkLeft' \in BOOLEAN /\ (linkLeft => linkLeft')
        /\ \A s \in Slots : s # Newest => link'[s] = link[s]
        /\ linkLeft' \/ link'[Newest] = 0
    <2>1. CASE link' = [link EXCEPT ![Newest] = 0] /\ linkLeft' = linkLeft
      <3>1. 0 \in 0..MaxConn /\ link \in [Slots -> 0..MaxConn]
        BY <1>2, BoundsAssumption DEF TypeOK
      <3> QED
        BY <1>2, <2>1, <3>1 DEF TypeOK
    <2>2. CASE link' = link /\ linkLeft' = (linkLeft \/ link[Newest] # 0)
      BY <1>2, <2>2 DEF TypeOK
    <2> QED
      BY <1>2, <2>1, <2>2 DEF CloseDevice
  <1>6. Current(u)'
    BY <1>1, <1>2, <1>3, <1>4, <1>5
      DEF CloseDevice, Current, Alive, Reading, Linked, Joined, Pollable
  <1>7. "free" \in Working
    BY DEF Working, PCs
  <1> QED
    BY <1>1, <1>2, <1>4, <1>5, <1>6, <1>7, OwnerStep DEF TypeOK, CloseDevice

\* FreeIpc: the semaphore and the mutex are deleted.
LEMMA FreeIpcStep == ASSUME IInv, NEW u \in Users, FreeIpc(u) PROVE IInv'
  <1>1. Owner(u) /\ user[u].pc = "free"
    BY DEF FreeIpc, Owner, Working, PCs
  <1>2. /\ Current(u) /\ TypeOK /\ Newest \in Slots /\ user[u].sock = Newest
        /\ sockets[Newest] \in SocketObject
    BY <1>1, OwnerFacts DEF IInv
  <1>3. Newest' = Newest
    BY DEF FreeIpc, Newest
  <1>4. /\ user' \in [Users -> UserRecord] /\ user'[u].pc = "unlink"
        /\ user'[u].fd = user[u].fd /\ user'[u].sock = Newest
    <2>1. \A v \in Users : v = u
      BY DEF IInv, OneUser
    <2>2. user' = [v \in Users |-> [user[u] EXCEPT !.pc = "unlink"]]
      BY <2>1 DEF FreeIpc
    <2>3. user[u] \in UserRecord /\ "unlink" \in PCs
      BY <1>2 DEF TypeOK, UserRecord, PCs
    <2> QED
      BY <1>2, <2>2, <2>3 DEF UserRecord
  <1>5. /\ sockets' \in [Slots -> SocketObject]
        /\ \A t \in Slots : t # Newest => sockets'[t] = sockets[t]
        /\ sockets'[Newest].ipc = "deleted"
        /\ sockets'[Newest].recvpkt_list = << >>
        /\ sockets'[Newest].magic = sockets[Newest].magic
        /\ sockets'[Newest].socket = sockets[Newest].socket
        /\ sockets'[Newest].conn = sockets[Newest].conn
        /\ sockets'[Newest].state = sockets[Newest].state
        /\ sockets'[Newest].recv_notice = sockets[Newest].recv_notice
        /\ sockets'[Newest].rcvevent = sockets[Newest].rcvevent
    <2> DEFINE o == [sockets[Newest] EXCEPT !.ipc = "deleted", !.recvpkt_list = << >>]
    <2>1. << >> \in Seq(1..MaxConn)
      OBVIOUS
    <2>2. o \in SocketObject
      BY <1>2, <2>1 DEF SocketObject
    <2>3. sockets' = [sockets EXCEPT ![Newest] = o]
      BY <1>2 DEF FreeIpc
    <2>4. /\ o.ipc = "deleted" /\ o.recvpkt_list = << >> /\ o.magic = sockets[Newest].magic
          /\ o.socket = sockets[Newest].socket /\ o.conn = sockets[Newest].conn
          /\ o.state = sockets[Newest].state /\ o.recv_notice = sockets[Newest].recv_notice
          /\ o.rcvevent = sockets[Newest].rcvevent
      BY <1>2 DEF SocketObject
    <2> HIDE DEF o
    <2> QED
      BY <1>2, <2>2, <2>3, <2>4 DEF TypeOK
  <1>6. Len(sockets'[Newest].recvpkt_list) = 0
    BY <1>5
  <1>7. Alive(user[u].pc, sockets[Newest])' /\ Reading(user[u].pc, sockets[Newest])'
    BY <1>1, <1>2, <1>3, <1>4, <1>5 DEF FreeIpc, Current, Alive, Reading
  <1>8. Linked(user[u].pc, sockets[Newest], link[Newest])'
    <2>1. (~linkLeft => link[Newest] = 0) /\ sockets[Newest].state = "CLOSED"
      BY <1>1, <1>2 DEF Current, Linked, Alive
    <2>2. linkLeft' = linkLeft /\ link'[Newest] = link[Newest] /\ sockets'[Newest].state = "CLOSED"
      BY <1>5, <2>1 DEF FreeIpc
    <2>3. \A p \in 1..Len(sockets'[Newest].recvpkt_list) : FALSE
      BY <1>6
    <2> QED
      BY <1>3, <1>4, <2>1, <2>2, <2>3 DEF Linked
  <1>9. Current(u)'
    BY <1>1, <1>2, <1>3, <1>4, <1>5, <1>7, <1>8 DEF FreeIpc, Current, Alive, Joined, Pollable
  <1>10. "unlink" \in Working
    BY DEF Working, PCs
  <1>11. /\ UNCHANGED <<list, link, cb_set, conns, linkLeft, raced, missed, fault>>
         /\ link \in [Slots -> 0..MaxConn] /\ cb_set \in BOOLEAN /\ conns \in 0..MaxConn
         /\ linkLeft \in BOOLEAN /\ raced \in SUBSET Slots /\ missed \in SUBSET Slots
         /\ fault \in BOOLEAN
    BY <1>2 DEF TypeOK, FreeIpc
  <1> QED
    BY <1>1, <1>2, <1>4, <1>5, <1>9, <1>10, <1>11, OwnerStep

\* A callback that only drops a link, or finds no semaphore to release.
LEMMA ParserFrame ==
    ASSUME IInv, UNCHANGED <<sockets, list, user, cb_set, conns, linkLeft, raced>>,
           link' \in [Slots -> 0..MaxConn], \A s \in Slots : link'[s] \in {0, link[s]},
           missed' \in SUBSET Slots, fault' \in BOOLEAN,
           fault' => fault \/ linkLeft \/ \E s \in Slots : Leftover(s),
           \A u \in Users : Owner(u) => Joined(user[u].pc, sockets[Newest], link[Newest], Newest)'
    PROVE  IInv'
  <1>1. Newest' = Newest
    BY DEF Newest
  <1>2. TypeOK'
    BY DEF IInv, TypeOK
  <1>3. ListOrder' /\ Blank'
    BY DEF IInv, ListOrder, Blank
  <1>4. ASSUME NEW u \in Users PROVE Place(u)' /\ (Owner(u)' => Current(u)')
    <2>1. Place(u)' /\ (Owner(u)' <=> Owner(u))
      BY <1>1 DEF IInv, Place, Owner
    <2>2. ASSUME Owner(u) PROVE Current(u)'
      <3>1. Newest \in Slots /\ Current(u)
        BY <2>2, OwnerFacts
      <3>2. Alive(user[u].pc, sockets[Newest])' /\ Reading(user[u].pc, sockets[Newest])'
        BY <1>1, <3>1 DEF Current, Alive, Reading
      <3>3. Linked(user[u].pc, sockets[Newest], link[Newest])'
        BY <1>1, <3>1 DEF Current, Linked
      <3>4. Pollable(user[u].pc, sockets[Newest], Newest)'
        BY <1>1, <3>1 DEF Current, Pollable
      <3> QED
        BY <2>2, <3>2, <3>3, <3>4 DEF Current
    <2> QED
      BY <2>1, <2>2
  <1>5. Faults'
    <2>1. \A s \in Slots : Leftover(s) => Leftover(s)'
      BY <1>1 DEF Leftover
    <2> QED
      BY <2>1 DEF IInv, Faults
  <1> QED
    BY <1>2, <1>3, <1>4, <1>5 DEF IInv

\* A socket with its semaphore has an owner.
LEMMA LiveHasOwner ==
    ASSUME IInv, NEW s \in Slots, sockets[s].ipc # "none"
    PROVE  s = Newest /\ \A u \in Users : Owner(u)
  <1>1. s = Newest /\ Len(list) > 0
    BY LiveIsNewest
  <1> QED
    BY <1>1 DEF IInv, Place

\* As long as no link was left open, an open link is that of the user's socket, which
\* is not being freed yet.
LEMMA OpenLinkIsLive ==
    ASSUME IInv, ~linkLeft, NEW s \in Slots, link[s] # 0
    PROVE  sockets[s].ipc = "live" /\ s = Newest
  <1>1. sockets[s].ipc # "none"
    BY DEF IInv, Blank
  <1>2. s = Newest /\ \A u \in Users : Owner(u)
    BY <1>1, LiveHasOwner
  <1>3. PICK u \in Users : TRUE
    BY DEF IInv, OneUser
  <1>4. Current(u)
    BY <1>2, OwnerFacts
  <1> QED
    BY <1>2, <1>4 DEF Current, Linked, Alive

\* rt_sem_release on the user's socket.
LEMMA Released ==
    ASSUME IInv, NEW u \in Users, Owner(u), Resume(Newest)
    PROVE  /\ user' \in [Users -> UserRecord] /\ user'[u].fd = user[u].fd
           /\ user'[u].pc = IF user[u].pc = "recvwait" THEN "recvwoken" ELSE user[u].pc
           /\ user'[u].sock = user[u].sock
           /\ Tokens(Newest) \in Nat
           /\ user[u].pc = "recvwait" \/ Tokens(Newest) > 0
  <1>1. /\ TypeOK /\ \A v \in Users : v = u
        /\ sockets[Newest] \in SocketObject
        /\ user[u].sock = IF user[u].pc = "idle" THEN NULL ELSE Newest
    BY OwnerFacts DEF IInv
  <1>2. CASE user[u].pc = "recvwait"
    <2>1. Waiting(Newest) # {} /\ Waiting(Newest) \subseteq Users
      BY <1>1, <1>2 DEF Waiting
    <2>2. Goto(u, "recvwoken")
      BY <1>1, <2>1 DEF Resume
    <2>3. "recvwoken" \in PCs
      BY DEF PCs
    <2>4. Tokens(Newest) \in Nat
      BY <1>1, <2>1 DEF Tokens, SocketObject
    <2> QED
      BY <1>1, <1>2, <2>2, <2>3, <2>4, Moves
  <1>3. CASE user[u].pc # "recvwait"
    <2>1. Waiting(Newest) = {}
      BY <1>1, <1>3 DEF Waiting
    <2>2. user' = user
      BY <2>1 DEF Resume
    <2>3. Tokens(Newest) \in Nat /\ Tokens(Newest) > 0
      BY <1>1, <2>1 DEF Tokens, SocketObject
    <2> QED
      BY <1>1, <1>3, <2>2, <2>3 DEF TypeOK, UserRecord
  <1> QED
    BY <1>2, <1>3

\* at_recv_notice_cb keeps the invariant.
LEMMA RecvNoticeStep == ASSUME IInv, NEW s \in Slots, at_recv_notice_cb(s) PROVE IInv'
  <1>1. TypeOK /\ link[s] # 0
    BY DEF IInv, at_recv_notice_cb
  <1>2. CASE sockets[s].ipc = "live"
    <2>1. s = Newest /\ \A u \in Users : Owner(u)
      BY <1>2, LiveHasOwner
    <2>2. PICK u \in Users : Users = {u}
      BY DEF IInv, OneUser
    <2>3. /\ Owner(u) /\ Current(u) /\ Newest \in Slots /\ sockets[Newest] \in SocketObject
          /\ user[u] \in UserRecord
          /\ user[u].sock = IF user[u].pc = "idle" THEN NULL ELSE Newest
          /\ link[Newest] \in 1..MaxConn
      <3>1. Owner(u)
        BY <2>1
      <3> QED
        BY <1>1, <2>1, <3>1, OwnerFacts
    <2> DEFINE tok == Tokens(Newest)
               ev  == sockets[Newest].rcvevent + 1
    <2>4. PICK pkt \in {<<link[Newest]>>, << >>} :
            sockets' = [sockets EXCEPT ![Newest].recvpkt_list = sockets[Newest].recvpkt_list \o pkt,
                                       ![Newest].recv_notice = tok, ![Newest].rcvevent = ev]
      BY <1>2, <2>1 DEF at_recv_notice_cb
    <2>5. /\ user' \in [Users -> UserRecord] /\ user'[u].fd = user[u].fd
          /\ user'[u].pc = IF user[u].pc = "recvwait" THEN "recvwoken" ELSE user[u].pc
          /\ user'[u].sock = user[u].sock
          /\ tok \in Nat /\ (user[u].pc = "recvwait" \/ tok > 0)
      BY <1>2, <2>1, <2>3, Released DEF at_recv_notice_cb
    <2>6. ev \in Nat /\ ev > 0
      BY <2>3 DEF SocketObject
    <2> DEFINE old == sockets[Newest].recvpkt_list
               new == old \o pkt
    <2>7. /\ new \in Seq(1..MaxConn)
          /\ \A p \in 1..Len(new) : new[p] = link[Newest] \/ \E q \in 1..Len(old) : new[p] = old[q]
      <3>1. pkt \in Seq(1..MaxConn) /\ (\A p \in 1..Len(pkt) : pkt[p] = link[Newest])
        <4>1. CASE pkt = <<link[Newest]>>
          <5>1. pkt \in Seq(1..MaxConn) /\ Len(pkt) = 1 /\ pkt[1] = link[Newest]
            BY <2>3, <4>1
          <5> QED
            BY <5>1
        <4>2. CASE pkt = << >>
          BY <4>2
        <4> QED
          BY <4>1, <4>2
      <3>2. old \in Seq(1..MaxConn)
        BY <2>3 DEF SocketObject
      <3> HIDE DEF old
      <3>3. /\ new \in Seq(1..MaxConn) /\ Len(new) = Len(old) + Len(pkt)
            /\ \A i \in 1..Len(new) : new[i] = IF i <= Len(old) THEN old[i] ELSE pkt[i - Len(old)]
        BY <3>1, <3>2, ConcatProperties
      <3> HIDE DEF new
      <3>4. Len(old) \in Nat /\ Len(pkt) \in Nat
        BY <3>1, <3>2
      <3>5. ASSUME NEW p \in 1..Len(new)
            PROVE  new[p] = link[Newest] \/ \E q \in 1..Len(old) : new[p] = old[q]
        <4>1. CASE p <= Len(old)
          BY <3>3, <3>4, <4>1
        <4>2. CASE p > Len(old)
          <5>1. p - Len(old) \in 1..Len(pkt) /\ new[p] = pkt[p - Len(old)]
            BY <3>3, <3>4, <4>2
          <5> QED
            BY <3>1, <5>1
        <4> QED
          BY <3>3, <3>4, <4>1, <4>2
      <3> QED
        BY <3>3, <3>5
    <2> DEFINE o == [sockets[Newest] EXCEPT !.recvpkt_list = new, !.recv_notice = tok, !.rcvevent = ev]
    <2>8. sockets' = [sockets EXCEPT ![Newest] = o]
      BY <1>1, <2>3, <2>4 DEF TypeOK
    <2> HIDE DEF tok, ev, new
    <2>9. o \in SocketObject
      BY <2>3, <2>5, <2>6, <2>7 DEF SocketObject
    <2>10. /\ o.recvpkt_list = new /\ o.recv_notice = tok /\ o.rcvevent = ev
           /\ o.magic = sockets[Newest].magic /\ o.socket = sockets[Newest].socket
           /\ o.ipc = sockets[Newest].ipc /\ o.conn = sockets[Newest].conn
           /\ o.state = sockets[Newest].state
      BY <2>3 DEF SocketObject
    <2> HIDE DEF o
    <2>11. sockets' \in [Slots -> SocketObject] /\ sockets'[Newest] = o
      BY <1>1, <2>3, <2>8, <2>9 DEF TypeOK
    <2>12. Newest' = Newest
      BY DEF at_recv_notice_cb, Newest
    <2>13. Alive(user[u].pc, sockets[Newest])' /\ Reading(user[u].pc, sockets[Newest])'
      BY <1>2, <2>1, <2>3, <2>5, <2>10, <2>11, <2>12 DEF at_recv_notice_cb, Current, Alive, Reading
    <2>14. Linked(user[u].pc, sockets[Newest], link[Newest])'
      BY <1>1, <2>1, <2>3, <2>5, <2>7, <2>10, <2>11, <2>12 DEF at_recv_notice_cb, Current, Linked
    <2>15. Joined(user[u].pc, sockets[Newest], link[Newest], Newest)'
      BY <2>3, <2>5, <2>10, <2>11, <2>12 DEF at_recv_notice_cb, Current, Joined
    <2>16. /\ raced' \in SUBSET Slots /\ raced \subseteq raced'
           /\ user[u].pc = "recvclean" => Newest \in raced'
      BY <1>1, <1>2, <2>1, <2>3 DEF at_recv_notice_cb, TypeOK
    <2>17. Pollable(user[u].pc, sockets[Newest], Newest)'
      BY <2>3, <2>5, <2>6, <2>10, <2>11, <2>12, <2>16 DEF Pollable
    <2>18. Current(u)'
      BY <2>13, <2>14, <2>15, <2>17 DEF Current
    <2>19. "recvwoken" \in Working /\ user'[u].pc \in Working \cup {"idle"}
      BY <2>3, <2>5 DEF Owner, Working, PCs
    <2>20. user'[u].sock = IF user'[u].pc = "idle" THEN NULL ELSE Newest
      BY <2>3, <2>5
    <2>21. \A t \in Slots : t # Newest => sockets'[t] = sockets[t]
      BY <1>1, <2>8 DEF TypeOK
    <2>22. UNCHANGED <<list, link, cb_set, conns, fault, linkLeft, missed>>
      BY <1>2 DEF at_recv_notice_cb
    <2>23. /\ link' \in [Slots -> 0..MaxConn] /\ cb_set' \in BOOLEAN /\ conns' \in 0..MaxConn
           /\ linkLeft' \in BOOLEAN /\ missed' \in SUBSET Slots /\ fault' \in BOOLEAN
      BY <1>1, <2>22 DEF TypeOK
    <2>24. sockets'[Newest].magic = sockets[Newest].magic
           /\ sockets'[Newest].socket = sockets[Newest].socket
      BY <2>10, <2>11
    <2> QED
      BY <2>3, <2>5, <2>11, <2>16, <2>18, <2>19, <2>20, <2>21, <2>22, <2>23, <2>24, OwnerStep
  <1>3. CASE sockets[s].ipc # "live"
    <2>1. linkLeft
      BY <1>1, <1>3, OpenLinkIsLive DEF IInv, TypeOK
    <2>2. /\ UNCHANGED <<sockets, list, user, cb_set, conns, linkLeft, raced>>
          /\ link' = link /\ missed' = missed /\ fault' = TRUE /\ Newest' = Newest
      BY <1>3 DEF at_recv_notice_cb, Newest
    <2>3. ASSUME NEW u \in Users, Owner(u)
          PROVE  Joined(user[u].pc, sockets[Newest], link[Newest], Newest)'
      BY <2>2, <2>3, OwnerFacts DEF Current, Joined
    <2> QED
      BY <1>1, <2>1, <2>2, <2>3, ParserFrame DEF TypeOK
  <1> QED
    BY <1>2, <1>3

\* at_closed_notice_cb keeps the invariant. The socket that is told of the close is
\* always that of slot 0.
LEMMA ClosedNoticeStep == ASSUME IInv, NEW s \in Slots, at_closed_notice_cb(s) PROVE IInv'
  <1>1. TypeOK /\ link[s] # 0 /\ 0 \in Slots /\ 0 \in 0..MaxConn /\ Newest' = Newest
    BY SocketNumAssumption, BoundsAssumption DEF IInv, at_closed_notice_cb, Slots, Newest
  <1>2. /\ link' \in [Slots -> 0..MaxConn] /\ link'[s] = 0
        /\ \A t \in Slots : t # s => link'[t] = link[t]
    BY <1>1 DEF at_closed_notice_cb, TypeOK
  <1>3. /\ missed' \in SUBSET Slots /\ missed \subseteq missed' /\ (s # 0 => s \in missed')
        /\ \A u \in Users : user[u].pc = "connected" /\ user[u].sock = s => s \in missed'
    BY <1>1 DEF at_closed_notice_cb, ClosedSlot, TypeOK
  <1>4. UNCHANGED <<list, cb_set, conns, linkLeft, raced>>
    BY DEF at_closed_notice_cb
  <1>5. CASE cb_set /\ sockets[0].magic /\ sockets[0].ipc = "live"
    <2>1. 0 = Newest /\ \A u \in Users : Owner(u)
      BY <1>1, <1>5, LiveHasOwner
    <2>2. PICK u \in Users : Users = {u}
      BY DEF IInv, OneUser
    <2>3. /\ Owner(u) /\ Current(u) /\ Newest \in Slots /\ sockets[Newest] \in SocketObject
          /\ user[u] \in UserRecord
          /\ user[u].sock = IF user[u].pc = "idle" THEN NULL ELSE Newest
      <3>1. Owner(u)
        BY <2>1
      <3> QED
        BY <3>1, OwnerFacts
    <2> DEFINE tok == Tokens(Newest)
               ev  == sockets[Newest].rcvevent + 1
               o   == [sockets[Newest] EXCEPT !.state = "CLOSED", !.recv_notice = tok, !.rcvevent = ev]
    <2>4. sockets' = [sockets EXCEPT ![Newest] = o] /\ Resume(Newest) /\ fault' = fault
      BY <1>1, <1>5, <2>1 DEF at_closed_notice_cb, ClosedSlot, TypeOK
    <2>5. /\ user' \in [Users -> UserRecord] /\ user'[u].fd = user[u].fd
          /\ user'[u].pc = IF user[u].pc = "recvwait" THEN "recvwoken" ELSE user[u].pc
          /\ user'[u].sock = user[u].sock
          /\ tok \in Nat /\ (user[u].pc = "recvwait" \/ tok > 0)
      BY <2>3, <2>4, Released
    <2>6. ev \in Nat /\ ev > 0
      BY <2>3 DEF SocketObject
    <2> HIDE DEF tok, ev
    <2>7. o \in SocketObject
      BY <2>3, <2>5, <2>6 DEF SocketObject, States
    <2>8. /\ o.state = "CLOSED" /\ o.recv_notice = tok /\ o.rcvevent = ev
          /\ o.magic = sockets[Newest].magic /\ o.socket = sockets[Newest].socket
          /\ o.ipc = sockets[Newest].ipc /\ o.conn = sockets[Newest].conn
          /\ o.recvpkt_list = sockets[Newest].recvpkt_list
      BY <2>3 DEF SocketObject
    <2> HIDE DEF o
    <2>9. /\ sockets' \in [Slots -> SocketObject] /\ sockets'[Newest] = o
          /\ \A t \in Slots : t # Newest => sockets'[t] = sockets[t]
      BY <1>1, <2>3, <2>4, <2>7 DEF TypeOK
    <2>10. Alive(user[u].pc, sockets[Newest])' /\ Reading(user[u].pc, sockets[Newest])'
      BY <1>1, <1>5, <2>1, <2>3, <2>5, <2>8, <2>9 DEF Current, Alive, Reading
    <2>11. Linked(user[u].pc, sockets[Newest], link[Newest])'
      <3>1. ~linkLeft => s = Newest
        BY <1>1, OpenLinkIsLive DEF IInv, TypeOK
      <3> QED
        BY <1>1, <1>2, <1>4, <2>3, <2>5, <2>8, <2>9, <3>1 DEF Current, Linked
    <2>12. Joined(user[u].pc, sockets[Newest], link[Newest], Newest)'
      BY <1>1, <1>2, <1>3, <2>3, <2>5, <2>8, <2>9 DEF Current, Joined
    <2>13. Pollable(user[u].pc, sockets[Newest], Newest)'
      BY <1>1, <1>4, <2>3, <2>5, <2>6, <2>8, <2>9 DEF Current, Pollable
    <2>14. Current(u)'
      BY <2>10, <2>11, <2>12, <2>13 DEF Current
    <2>15. "recvwoken" \in Working /\ user'[u].pc \in Working \cup {"idle"}
      BY <2>3, <2>5 DEF Owner, Working, PCs
    <2>16. user'[u].sock = IF user'[u].pc = "idle" THEN NULL ELSE Newest
      BY <2>3, <2>5
    <2>17. \A t \in Slots : t # Newest => link'[t] \in {0, link[t]}
      BY <1>2
    <2>18. /\ cb_set' \in BOOLEAN /\ conns' \in 0..MaxConn /\ linkLeft' \in BOOLEAN
           /\ raced' \in SUBSET Slots /\ fault' \in BOOLEAN /\ (linkLeft => linkLeft')
      BY <1>1, <1>4, <2>4 DEF TypeOK
    <2>19. /\ sockets'[Newest].magic = sockets[Newest].magic
           /\ sockets'[Newest].socket = sockets[Newest].socket
      BY <2>8, <2>9
    <2> QED
      BY <1>2, <1>3, <1>4, <2>3, <2>4, <2>5, <2>9, <2>14, <2>15, <2>16, <2>17, <2>18, <2>19,
         OwnerStep
  <1>6. CASE ~(cb_set /\ sockets[0].magic /\ sockets[0].ipc = "live")
    <2>1. UNCHANGED <<sockets, user>> /\ fault' \in BOOLEAN
      BY <1>1, <1>6 DEF at_closed_notice_cb, ClosedSlot, TypeOK
    <2>2. ASSUME fault', ~fault, ~linkLeft PROVE Leftover(0)
      <3>1. sockets[0].magic /\ sockets[0].ipc # "live"
        BY <1>6, <2>2 DEF at_closed_notice_cb, ClosedSlot
      <3>2. sockets[s].ipc = "live" /\ s = Newest /\ \A u \in Users : Owner(u)
        <4>1. sockets[s].ipc = "live" /\ s = Newest
          BY <1>1, <2>2, OpenLinkIsLive
        <4> QED
          BY <4>1, LiveHasOwner
      <3>3. sockets[0].ipc = "none"
        BY <1>1, <3>1, <3>2, LiveHasOwner
      <3> QED
        BY <3>1, <3>2, <3>3 DEF Leftover, Owner, Working
    <2>3. ASSUME NEW u \in Users, Owner(u)
          PROVE  Joined(user[u].pc, sockets[Newest], link[Newest], Newest)'
      <3>1. /\ Current(u) /\ Newest \in Slots /\ sockets[Newest].magic
            /\ user[u].sock = IF user[u].pc = "idle" THEN NULL ELSE Newest
        BY <2>3, OwnerFacts
      <3>2. CASE s = Newest /\ s = 0
        BY <1>1, <1>2, <1>3, <1>6, <2>1, <3>1, <3>2 DEF Current, Joined, Alive
      <3>3. CASE s = Newest /\ s # 0
        BY <1>1, <1>3, <3>3 DEF Joined
      <3>4. CASE s # Newest
        BY <1>1, <1>2, <1>3, <2>1, <3>1, <3>4 DEF Current, Joined
      <3> QED
        BY <3>2, <3>3, <3>4
    <2>4. \A t \in Slots : link'[t] \in {0, link[t]}
      BY <1>2
    <2>5. fault' => fault \/ linkLeft \/ \E t \in Slots : Leftover(t)
      BY <1>1, <2>2
    <2>6. UNCHANGED <<sockets, list, user, cb_set, conns, linkLeft, raced>>
      BY <1>4, <2>1
    <2> QED
      BY <1>2, <1>3, <2>1, <2>3, <2>4, <2>5, <2>6, ParserFrame
  <1> QED
    BY <1>5, <1>6
-----------------------------------------------------------------------------
(* The steps that change the list                                           *)

\* A non-empty set of slots has a least one, which is what Min chooses.
LEMMA LeastFree ==
    ASSUME NEW S \in SUBSET Slots, S # {}
    PROVE  Min(S) \in S
  <1>1. S \subseteq Nat
    BY SocketNumAssumption DEF Slots
  <1>2. \E x \in S : \A y \in S : ~(<<y, x>> \in OpToRel(<, Nat))
    BY <1>1, NatLessThanWellFounded, WFMin
  <1>3. PICK x \in S : \A y \in S : ~(<<y, x>> \in OpToRel(<, Nat))
    BY <1>2
  <1>4. \A m, n \in Nat : m < n => <<m, n>> \in OpToRel(<, Nat)
    BY SMT DEF OpToRel
  <1>5. \A y \in S : ~(y < x)
    BY <1>1, <1>3, <1>4
  <1>6. \A y \in S : x <= y
    BY <1>1, <1>5
  <1> QED
    BY <1>6 DEF Min

\* A thread that asks for a socket, or is being given one, has none: every object in the
\* list is half allocated.
LEMMA WithoutSocket ==
    ASSUME IInv, NEW u \in Users, NoSocket(u) \/ user[u].pc = "alloc"
    PROVE  /\ ~Owner(u) /\ Len(list) \in Nat
           /\ \A p \in 1..Len(list) :
                /\ list[p] \in Slots /\ sockets[list[p]].magic
                /\ sockets[list[p]].socket = p - 1 /\ sockets[list[p]].ipc = "none"
  <1>1. Len(list) \in Nat /\ \A p \in 1..Len(list) : list[p] \in Slots
    BY DEF IInv, TypeOK
  <1>2. \A s \in Slots : s # NULL
    BY SocketNumAssumption DEF Slots, NULL
  <1>3. ~Owner(u)
    <2>1. ASSUME NoSocket(u), user[u].fd \in 0..Len(list) - 1 PROVE FALSE
      <3>1. user[u].fd + 1 \in 1..Len(list) /\ user[u].fd >= 0 /\ user[u].fd < Len(list)
        BY <1>1, <2>1
      <3>2. sockets[list[user[u].fd + 1]].magic
        BY <3>1 DEF IInv, ListOrder
      <3> QED
        BY <1>1, <1>2, <2>1, <3>1, <3>2 DEF NoSocket, at_get_socket
    <2> QED
      BY <2>1 DEF NoSocket, Owner, Working
  <1>4. Len(list) > 0 => sockets[Newest].ipc = "none"
    BY <1>3 DEF IInv, Place
  <1>5. ASSUME NEW p \in 1..Len(list) PROVE sockets[list[p]].ipc = "none"
    <2>1. CASE p = Len(list)
      BY <1>1, <1>4, <2>1 DEF Newest
    <2>2. CASE p < Len(list)
      BY <2>2 DEF IInv, ListOrder
    <2> QED
      BY <1>1, <2>1, <2>2
  <1> QED
    BY <1>1, <1>3, <1>5 DEF IInv, ListOrder

\* alloc_socket_by_device keeps the invariant; the list never becomes circular.
LEMMA AllocSlotStep == ASSUME IInv, NEW u \in Users, AllocSlot(u) PROVE IInv'
  <1> DEFINE i == Min(Free)
             n == Len(list)
             o == [Zeroed EXCEPT !.magic = TRUE, !.socket = n]
  <1>1. /\ TypeOK /\ NoSocket(u) /\ user[u].pc = "idle" /\ user \in [Users -> UserRecord]
        /\ (\A v \in Users : v = u) /\ i \in Free
    <2>1. Free # {} /\ Free \in SUBSET Slots
      BY DEF AllocSlot, Free
    <2> QED
      BY <2>1, LeastFree DEF IInv, AllocSlot, NoSocket, OneUser, TypeOK, UserRecord
  <1> HIDE DEF i
  <1>2. i \in Slots /\ ~sockets[i].magic /\ sockets[i].ipc = "none"
    BY <1>1 DEF Free, IInv, Blank
  <1>3. /\ ~Owner(u) /\ n \in Nat
        /\ \A p \in 1..n : /\ list[p] \in Slots /\ sockets[list[p]].magic
                           /\ sockets[list[p]].socket = p - 1 /\ sockets[list[p]].ipc = "none"
    BY <1>1, WithoutSocket
  <1>4. /\ list' = Append(list, i) /\ sockets' = [sockets EXCEPT ![i] = o]
        /\ Enter(u, "alloc", i)
        /\ UNCHANGED <<cb_set, link, conns, fault, linkLeft, raced, missed>>
    BY <1>2, <1>3 DEF AllocSlot, i
  <1>5. /\ o.magic /\ o.socket = n /\ o.ipc = "none" /\ o.state = "NONE"
        /\ o.recvpkt_list = << >>
    BY DEF Zeroed
  <1>6. o \in SocketObject
    <2>1. Zeroed \in SocketObject
      BY BoundsAssumption DEF Zeroed, SocketObject, States
    <2> QED
      BY <1>3, <2>1 DEF SocketObject
  <1> HIDE DEF o
  <1>7. /\ sockets' \in [Slots -> SocketObject] /\ sockets'[i] = o
        /\ \A s \in Slots : s # i => sockets'[s] = sockets[s]
    BY <1>1, <1>2, <1>4, <1>6 DEF TypeOK
  <1>8. /\ list' \in Seq(Slots) /\ Len(list') = n + 1 /\ list'[n + 1] = i
        /\ \A p \in 1..n : list'[p] = list[p]
    <2>1. list \in Seq(Slots)
      BY <1>1 DEF TypeOK
    <2> QED
      BY <1>2, <1>4, <2>1, AppendProperties
  <1> HIDE DEF n
  <1>9. Newest' = i /\ Len(list') > 0
    BY <1>3, <1>8 DEF Newest
  <1>10. /\ user' \in [Users -> UserRecord] /\ user'[u].pc = "alloc"
         /\ user'[u].fd = user[u].fd /\ user'[u].sock = i
    BY <1>1, <1>2, <1>4, Moves DEF PCs
  <1>11. TypeOK'
    BY <1>1, <1>4, <1>7, <1>8, <1>10 DEF TypeOK, UserRecord
  <1>12. ListOrder'
    <2>1. \A p \in 1..n : sockets'[list'[p]] = sockets[list[p]] /\ p < n + 1
      BY <1>2, <1>3, <1>7, <1>8
    <2>2. \A p \in 1..Len(list') : p \in 1..n \/ p = n + 1
      BY <1>3, <1>8
    <2>3. ASSUME NEW s \in Slots, sockets'[s].magic
          PROVE  \E p \in 1..Len(list') : list'[p] = s
      <3>1. CASE s = i
        BY <1>3, <1>8, <3>1
      <3>2. CASE s # i
        <4>1. PICK p \in 1..n : list[p] = s
          BY <1>7, <2>3, <3>2 DEF IInv, ListOrder, n
        <4> QED
          BY <1>3, <1>8, <4>1
      <3> QED
        BY <3>1, <3>2
    <2>4. ASSUME NEW p \in 1..Len(list')
          PROVE  /\ sockets'[list'[p]].magic /\ sockets'[list'[p]].socket = p - 1
                 /\ sockets'[list'[p]].ipc = "none"
      <3>1. CASE p \in 1..n
        BY <1>3, <2>1, <3>1
      <3>2. CASE p = n + 1
        BY <1>3, <1>5, <1>7, <1>8, <3>2
      <3> QED
        BY <2>2, <3>1, <3>2
    <2> QED
      BY <2>3, <2>4 DEF ListOrder
  <1>13. Blank'
    BY <1>2, <1>4, <1>5, <1>7 DEF IInv, Blank
  <1>14. ~Owner(u)' /\ Place(u)'
    BY <1>5, <1>7, <1>9, <1>10 DEF Owner, Working, Place
  <1>15. Faults'
    <2>1. ASSUME NEW s \in Slots, Leftover(s) PROVE Leftover(s)'
      <3>1. s # i
        BY <1>2, <2>1 DEF Leftover
      <3> QED
        BY <1>7, <1>9, <2>1, <3>1 DEF Leftover
    <2> QED
      BY <1>4, <2>1 DEF IInv, Faults
  <1> QED
    BY <1>1, <1>11, <1>12, <1>13, <1>14, <1>15 DEF IInv

\* A step that leaves the user without a socket and the objects as they are.
LEMMA StillWithout ==
    ASSUME IInv, NEW u \in Users, ~Owner(u),
           UNCHANGED <<sockets, list, cb_set, link, conns, fault, linkLeft, raced, missed>>,
           user' \in [Users -> UserRecord], user'[u].pc = "idle", user'[u].fd = NULL,
           user'[u].sock = NULL
    PROVE  IInv'
  <1>1. Newest' = Newest /\ \A v \in Users : v = u
    BY DEF Newest, IInv, OneUser
  <1>2. TypeOK' /\ ListOrder' /\ Blank'
    BY DEF IInv, TypeOK, UserRecord, ListOrder, Blank
  <1>3. ~Owner(u)'
    BY DEF Owner, Working, NULL
  <1>4. Place(u)'
    BY <1>1, <1>3 DEF IInv, Place
  <1>5. Faults'
    <2>1. \A s \in Slots : Leftover(s) => Leftover(s)'
      BY <1>1 DEF Leftover
    <2> QED
      BY <2>1 DEF IInv, Faults
  <1> QED
    BY <1>1, <1>2, <1>3, <1>4, <1>5 DEF IInv

\* AllocFull: every object is in use.
LEMMA AllocFullStep == ASSUME IInv, NEW u \in Users, AllocFull(u) PROVE IInv'
  <1>1. NoSocket(u) /\ ~Owner(u) /\ user[u].pc = "idle" /\ user \in [Users -> UserRecord]
    BY WithoutSocket DEF AllocFull, NoSocket, IInv, TypeOK, UserRecord
  <1>2. user[u].sock = NULL
    BY <1>1 DEF IInv, Place
  <1>3. /\ user' \in [Users -> UserRecord] /\ user'[u].pc = "idle" /\ user'[u].fd = NULL
        /\ user'[u].sock = NULL
    BY <1>1, <1>2 DEF AllocFull, UserRecord
  <1> QED
    BY <1>1, <1>3, StillWithout DEF AllocFull

\* AllocNoMem: the object stays half allocated.
LEMMA AllocNoMemStep == ASSUME IInv, NEW u \in Users, AllocNoMem(u) PROVE IInv'
  <1>1. ~Owner(u) /\ user \in [Users -> UserRecord]
    BY WithoutSocket DEF AllocNoMem, IInv, TypeOK, UserRecord
  <1>2. /\ user' \in [Users -> UserRecord] /\ user'[u].pc = "idle" /\ user'[u].fd = NULL
        /\ user'[u].sock = NULL
    BY <1>1 DEF AllocNoMem, UserRecord, PCs
  <1> QED
    BY <1>1, <1>2, StillWithout DEF AllocNoMem

\* The end of at_socket keeps the invariant: the thread owns the newest socket.
LEMMA AllocDoneStep == ASSUME IInv, NEW u \in Users, AllocDone(u) PROVE IInv'
  <1>1. /\ TypeOK /\ user[u].pc = "alloc" /\ user \in [Users -> UserRecord]
        /\ (\A v \in Users : v = u) /\ user[u].sock = Newest /\ Len(list) > 0
    BY DEF IInv, AllocDone, OneUser, TypeOK, UserRecord, Place
  <1>2. /\ ~Owner(u) /\ Len(list) \in Nat
        /\ \A p \in 1..Len(list) :
             /\ list[p] \in Slots /\ sockets[list[p]].magic
             /\ sockets[list[p]].socket = p - 1 /\ sockets[list[p]].ipc = "none"
    BY <1>1, WithoutSocket
  <1>3. /\ Newest \in Slots /\ sockets[Newest] \in SocketObject /\ sockets[Newest].magic
        /\ sockets[Newest].socket = Len(list) - 1 /\ sockets[Newest].ipc = "none"
        /\ Newest' = Newest
    BY <1>1, <1>2 DEF Newest, TypeOK, AllocDone
  <1>4. /\ sockets[Newest].recvpkt_list = << >> /\ Len(sockets[Newest].recvpkt_list) = 0
        /\ ~linkLeft => link[Newest] = 0
    BY <1>3 DEF IInv, Blank
  <1>5. /\ sockets' \in [Slots -> SocketObject]
        /\ sockets'[Newest].ipc = "live" /\ sockets'[Newest].state = "OPEN"
        /\ sockets'[Newest].magic = sockets[Newest].magic
        /\ sockets'[Newest].socket = sockets[Newest].socket
        /\ sockets'[Newest].recvpkt_list = sockets[Newest].recvpkt_list
        /\ \A s \in Slots : s # Newest => sockets'[s] = sockets[s]
    <2> DEFINE o == [sockets[Newest] EXCEPT !.ipc = "live", !.state = "OPEN"]
    <2>1. sockets' = [sockets EXCEPT ![Newest] = o]
      BY <1>1, <1>3 DEF AllocDone, TypeOK
    <2>2. o \in SocketObject
      BY <1>3 DEF SocketObject, States
    <2>3. /\ o.ipc = "live" /\ o.state = "OPEN" /\ o.magic = sockets[Newest].magic
          /\ o.socket = sockets[Newest].socket /\ o.recvpkt_list = sockets[Newest].recvpkt_list
      BY <1>3 DEF SocketObject
    <2> HIDE DEF o
    <2> QED
      BY <1>1, <1>3, <2>1, <2>2, <2>3 DEF TypeOK
  <1>6. /\ user' \in [Users -> UserRecord] /\ user'[u].pc = "idle" /\ user'[u].sock = NULL
        /\ user'[u].fd = Len(list) - 1
    <2>1. Len(list) - 1 \in Nat
      BY <1>1, <1>2
    <2>2. user' = [user EXCEPT ![u] = [pc |-> "idle", fd |-> Len(list) - 1, sock |-> NULL]]
      BY <1>1, <1>3 DEF AllocDone
    <2> QED
      BY <1>1, <2>1, <2>2 DEF UserRecord, PCs
  <1>7. UNCHANGED <<list, cb_set, link, conns, fault, linkLeft, raced, missed>>
    BY DEF AllocDone
  <1>8. TypeOK'
    BY <1>1, <1>5, <1>6, <1>7 DEF TypeOK, UserRecord
  <1>9. ListOrder'
    <2>1. \A p \in 1..Len(list) : p < Len(list) => list[p] # Newest
      BY <1>2, <1>3
    <2>2. \A s \in Slots : sockets'[s].magic = sockets[s].magic /\ sockets'[s].socket = sockets[s].socket
      BY <1>5
    <2> QED
      BY <1>2, <1>5, <1>7, <2>1, <2>2 DEF IInv, ListOrder
  <1>10. Blank'
    BY <1>3, <1>5, <1>7 DEF IInv, Blank
  <1>11. Owner(u)' /\ Place(u)'
    <2>1. Owner(u)'
      BY <1>1, <1>2, <1>6, <1>7 DEF Owner
    <2> QED
      BY <1>1, <1>3, <1>5, <1>6, <1>7, <2>1 DEF Place
  <1>12. Current(u)'
    <2>1. \A p \in 1..Len(sockets'[Newest].recvpkt_list) : FALSE
      BY <1>4, <1>5
    <2>2. Linked(user[u].pc, sockets[Newest], link[Newest])'
      BY <1>3, <1>4, <1>5, <1>6, <1>7, <2>1 DEF Linked
    <2> QED
      BY <1>3, <1>4, <1>5, <1>6, <2>2 DEF Current, Alive, Reading, Joined, Pollable
  <1>13. Faults'
    <2>1. ASSUME NEW s \in Slots, Leftover(s) PROVE Leftover(s)'
      <3>1. s # Newest
        BY <1>1, <2>1 DEF Leftover
      <3> QED
        BY <1>3, <1>5, <1>6, <2>1, <3>1 DEF Leftover
    <2> QED
      BY <1>7, <2>1 DEF IInv, Faults
  <1> QED
    BY <1>1, <1>8, <1>9, <1>10, <1>11, <1>12, <1>13 DEF IInv

\* free_socket takes the user's socket from the end of the list.
LEMMA UnlinkedIsFront ==
    ASSUME IInv, NEW u \in Users, user[u].pc = "unlink"
    PROVE  /\ Unlinked(Newest) \in Seq(Slots) /\ Len(Unlinked(Newest)) = Len(list) - 1
           /\ \A p \in 1..Len(list) - 1 : Unlinked(Newest)[p] = list[p] /\ list[p] # Newest
  <1> DEFINE n == Len(list)
             front == SubSeq(list, 1, n - 1)
             back  == SubSeq(list, n + 1, n)
  <1>1. Owner(u)
    BY DEF Owner, Working, PCs
  <1>2. /\ n \in Nat /\ n > 0 /\ sockets[Newest].socket = n - 1 /\ sockets[Newest].ipc # "none"
        /\ list \in Seq(Slots)
    BY <1>1, OwnerFacts DEF IInv, TypeOK, Place
  <1>3. /\ front \in Seq(Slots) /\ Len(front) = n - 1
        /\ \A p \in 1..n - 1 : front[p] = list[p] /\ list[p] # Newest
    <2>1. \A p \in 1..n - 1 : p \in 1..n /\ p < n
      BY <1>2
    <2>2. \A p \in 1..n - 1 : list[p] \in Slots /\ list[p] # Newest
      BY <1>2, <2>1, ElementOfSeq DEF IInv, ListOrder
    <2>3. 1 \in Int /\ n - 1 \in Int
      BY <1>2
    <2>4. /\ front \in Seq(Slots) /\ Len(front) = IF 1 <= n - 1 THEN n - 1 - 1 + 1 ELSE 0
          /\ \A p \in 1..n - 1 - 1 + 1 : front[p] = list[1 + p - 1]
      BY <2>2, <2>3, SubSeqProperties
    <2> HIDE DEF front, n
    <2>5. \A p \in 1..n - 1 : p \in 1..n - 1 - 1 + 1 /\ 1 + p - 1 = p
      BY <1>2
    <2>6. Len(front) = n - 1
      BY <1>2, <2>4
    <2> QED
      BY <2>2, <2>4, <2>5, <2>6
  <1>4. RemoveAt(list, n) = front \o back
    BY DEF RemoveAt
  <1>5. back = << >>
    BY <1>2, SubSeqEmpty
  <1>6. RemoveAt(list, n) = front
    <2> HIDE DEF front, back
    <2> QED
      BY <1>3, <1>4, <1>5
  <1>7. ~ \E p \in 1..Len(front) : front[p] = Newest
    BY <1>3
  <1>8. Unlinked(Newest) = front
    <2> DEFINE at == sockets[Newest].socket + 1
               l  == IF at <= Len(list) THEN RemoveAt(list, at) ELSE list
    <2>1. at = n /\ n <= Len(list)
      BY <1>2
    <2>2. l = front
      BY <1>6, <2>1
    <2>3. Unlinked(Newest) = IF \E p \in 1..Len(l) : l[p] = Newest
                               THEN SubSeq(l, 1, CHOOSE p \in 1..Len(l) : l[p] = Newest)
                               ELSE l
      BY DEF Unlinked
    <2> HIDE DEF l, front
    <2> QED
      BY <1>7, <2>2, <2>3
  <1> HIDE DEF front
  <1> QED
    BY <1>3, <1>8

\* FreeUnlink: the object leaves the list and is zeroed.
LEMMA FreeUnlinkStep == ASSUME IInv, NEW u \in Users, FreeUnlink(u) PROVE IInv'
  <1> DEFINE n == Len(list)
  <1>1. user[u].pc = "unlink" /\ Owner(u) /\ TypeOK
    BY DEF FreeUnlink, Owner, Working, PCs, IInv
  <1>2. /\ n \in Nat /\ n > 0 /\ Newest \in Slots /\ sockets[Newest].magic
        /\ user[u].fd = n - 1 /\ user[u].sock = Newest /\ Current(u)
        /\ \A v \in Users : v = u
    BY <1>1, OwnerFacts
  <1>3. /\ list' \in Seq(Slots) /\ Len(list') = n - 1
        /\ \A p \in 1..n - 1 : list'[p] = list[p] /\ list[p] # Newest
    BY <1>1, <1>2, UnlinkedIsFront DEF FreeUnlink
  <1>4. Zeroed \in SocketObject
    BY BoundsAssumption DEF Zeroed, SocketObject, States
  <1>5. ~Zeroed.magic /\ Zeroed.ipc = "none" /\ Zeroed.state = "NONE" /\ Zeroed.recvpkt_list = << >>
    BY DEF Zeroed
  <1>6. /\ sockets' \in [Slots -> SocketObject] /\ sockets'[Newest] = Zeroed
        /\ \A s \in Slots : s # Newest => sockets'[s] = sockets[s]
    BY <1>1, <1>2, <1>4 DEF FreeUnlink, TypeOK
  <1>7. /\ user' \in [Users -> UserRecord] /\ user'[u].pc = "idle"
        /\ user'[u].fd = n - 1 /\ user'[u].sock = NULL
    BY <1>1, <1>2, Moves DEF FreeUnlink, PCs
  <1>8. UNCHANGED <<cb_set, link, conns, fault, linkLeft>>
    BY DEF FreeUnlink
  <1>9. raced' \in SUBSET Slots /\ missed' \in SUBSET Slots
    BY <1>1 DEF FreeUnlink, TypeOK
  <1>10. TypeOK'
    BY <1>1, <1>3, <1>6, <1>7, <1>8, <1>9 DEF TypeOK, UserRecord
  <1>11. \A p \in 1..n - 1 : /\ list'[p] \in Slots /\ sockets'[list'[p]] = sockets[list[p]]
                             /\ p \in 1..n /\ p < n
    <2>1. \A p \in 1..n - 1 : p \in 1..n /\ p < n
      BY <1>2
    <2>2. \A p \in 1..n : list[p] \in Slots
      BY <1>1 DEF TypeOK
    <2> QED
      BY <1>3, <1>6, <2>1, <2>2
  <1>12. \A p \in 1..n - 1 : /\ sockets'[list'[p]].magic /\ sockets'[list'[p]].socket = p - 1
                             /\ sockets'[list'[p]].ipc = "none"
    BY <1>11 DEF IInv, ListOrder
  <1>13. ListOrder'
    <2>1. ASSUME NEW s \in Slots, sockets'[s].magic PROVE \E p \in 1..n - 1 : list'[p] = s
      <3>1. s # Newest
        BY <1>5, <1>6, <2>1
      <3>2. PICK p \in 1..n : list[p] = s
        BY <1>6, <2>1, <3>1 DEF IInv, ListOrder
      <3>3. p \in 1..n - 1
        BY <1>2, <3>1, <3>2 DEF Newest
      <3> QED
        BY <1>3, <3>2, <3>3
    <2> QED
      BY <1>3, <1>12, <2>1 DEF ListOrder
  <1>14. Blank'
    <2>1. ~linkLeft => link[Newest] = 0
      BY <1>1, <1>2 DEF Current, Linked
    <2> QED
      BY <1>5, <1>6, <1>8, <2>1 DEF IInv, Blank
  <1>15. ~Owner(u)'
    BY <1>2, <1>3, <1>7 DEF Owner, Working
  <1>16. Place(u)'
    <2>1. Len(list') > 0 => sockets'[list'[Len(list')]].ipc = "none"
      BY <1>2, <1>3, <1>12
    <2> QED
      BY <1>7, <1>15, <2>1 DEF Place, Newest
  <1>17. Faults'
    <2>1. ASSUME NEW s \in Slots, Leftover(s) PROVE Leftover(s)'
      <3>1. s # Newest
        BY <1>1, <1>2, <2>1 DEF Leftover, Current, Alive
      <3> QED
        BY <1>2, <1>6, <1>7, <2>1, <3>1 DEF Leftover
    <2> QED
      BY <1>8, <2>1 DEF IInv, Faults
  <1> QED
    BY <1>2, <1>10, <1>13, <1>14, <1>15, <1>16, <1>17 DEF IInv
-----------------------------------------------------------------------------
(* The theorems                                                             *)

\* The invariant is inductive: every step of the user and of the parser keeps it.
LEMMA NextIInv == IInv /\ [Next]_vars => IInv'
  <1> SUFFICES ASSUME IInv, [Next]_vars PROVE IInv'
    OBVIOUS
  <1>1. ASSUME NEW u \in Users, UserStep(u) PROVE IInv'
    BY <1>1, AllocSlotStep, AllocFullStep, AllocDoneStep, AllocNoMemStep, ConnectBeginStep,
       ConnectOpenedStep, ConnectFailedStep, ConnectTimedOutStep, ConnectDoneStep, RecvBeginStep,
       RecvTakeStep, RecvWokenStep, RecvTimedOutStep, RecvExitStep, RecvCleanStep, CloseBeginStep,
       CloseDeviceStep, FreeIpcStep, FreeUnlinkStep
       DEF UserStep
  <1>2. ASSUME NEW s \in Slots, ParserStep(s) PROVE IInv'
    BY <1>2, RecvNoticeStep, ClosedNoticeStep DEF ParserStep
  <1>3. CASE UNCHANGED vars
    BY <1>3 DEF vars, IInv, OneUser, TypeOK, ListOrder, Blank, Place, Owner, Newest, Current, Alive,
       Reading, Linked, Joined, Pollable, Faults, Leftover
  <1> QED
    BY <1>1, <1>2, <1>3 DEF Next

\* The inductive invariant holds in every reachable state of the firmware, which has one
\* user of the AT sockets.
THEOREM Invariance == OneUser /\ Spec => []IInv
  BY InitIInv, NextIInv, PTL DEF Spec

\* What alloc_socket_by_device and free_socket keep in order (StructureOK): every value
\* has its type, the list holds every allocated object once and nothing else, and the
\* descriptor of an allocated object is its place in the list.
THEOREM StructureKept == OneUser /\ Spec => []StructureOK
  <1>1. ASSUME IInv PROVE ListSound
    <2>1. \A p, q \in 1..Len(list) : list[p] = list[q] => p = q
      <3>1. ASSUME NEW p \in 1..Len(list), NEW q \in 1..Len(list), list[p] = list[q] PROVE p = q
        <4>1. p - 1 = q - 1
          BY <1>1, <3>1 DEF IInv, ListOrder
        <4> QED
          BY <4>1
      <3> QED
        BY <3>1
    <2>2. DOMAIN list = 1..Len(list) /\ \A p \in 1..Len(list) : list[p] \in Slots
      BY <1>1 DEF IInv, TypeOK
    <2>3. ToSet(list) = {i \in Slots : sockets[i].magic}
      BY <1>1, <2>2 DEF IInv, ListOrder, ToSet
    <2> QED
      BY <2>1, <2>3 DEF ListSound
  <1>2. ASSUME IInv PROVE DescriptorFindsSocket
    <2>1. ASSUME NEW s \in Slots, sockets[s].magic PROVE at_get_socket(sockets[s].socket) = s
      <3>1. PICK p \in 1..Len(list) : list[p] = s
        BY <1>2, <2>1 DEF IInv, ListOrder
      <3>2. sockets[s].socket = p - 1 /\ Len(list) \in Nat
        BY <1>2, <3>1 DEF IInv, ListOrder, TypeOK
      <3>3. p - 1 >= 0 /\ p - 1 < Len(list) /\ p - 1 + 1 = p
        BY <3>2
      <3> QED
        BY <2>1, <3>1, <3>2, <3>3 DEF at_get_socket
    <2> QED
      BY <2>1 DEF DescriptorFindsSocket
  <1>3. IInv => StructureOK
    BY <1>1, <1>2 DEF IInv, StructureOK
  <1> QED
    BY <1>3, Invariance, PTL

\* A reader suspended in at_recvfrom has nothing to read and nothing to learn
\* (NoStuckReader), whatever the parser thread does between its look at the packets and
\* its wait.
THEOREM ReaderNotStuck == OneUser /\ Spec => []NoStuckReader
  <1>1. ASSUME IInv PROVE NoStuckReader
    <2>1. ASSUME NEW u \in Users, user[u].pc = "recvwait"
          PROVE  /\ sockets[user[u].sock].recvpkt_list = << >>
                 /\ sockets[user[u].sock].recv_notice = 0
                 /\ sockets[user[u].sock].state # "CLOSED"
      <3>1. Owner(u)
        BY <2>1 DEF Owner, Working, PCs
      <3>2. user[u].sock = Newest /\ Current(u)
        BY <1>1, <2>1, <3>1, OwnerFacts
      <3> QED
        BY <2>1, <3>2 DEF Current, Reading
    <2> QED
      BY <2>1 DEF NoStuckReader
  <1> QED
    BY <1>1, Invariance, PTL

\* A socket that holds packets or a state other than NONE is the user's own.
LEMMA InUse ==
    ASSUME IInv, NEW s \in Slots,
           sockets[s].recvpkt_list # << >> \/ sockets[s].state # "NONE"
    PROVE  s = Newest /\ \E u \in Users : Current(u)
  <1>1. sockets[s].ipc # "none"
    BY DEF IInv, Blank
  <1>2. s = Newest /\ \A u \in Users : Owner(u)
    BY <1>1, LiveHasOwner
  <1> QED
    BY <1>2, OwnerFacts DEF IInv, OneUser

\* Only a link left open, or an object left half allocated, by an earlier failure brings
\* foreign data to a socket or a deleted semaphore to the kernel (LeftoversOnly).
THEOREM OnlyLeftovers == OneUser /\ Spec => []LeftoversOnly
  <1>1. ASSUME IInv PROVE OwnData
    <2>1. ASSUME ~linkLeft, NEW s \in Slots, NEW p \in 1..Len(sockets[s].recvpkt_list)
          PROVE  sockets[s].recvpkt_list[p] = sockets[s].conn
      <3>1. sockets[s].recvpkt_list # << >>
        BY <2>1
      <3>2. s = Newest /\ \E u \in Users : Current(u)
        BY <1>1, <3>1, InUse
      <3> QED
        BY <2>1, <3>2 DEF Current, Linked
    <2> QED
      BY <2>1 DEF OwnData
  <1>2. IInv => FaultNeedsLeftover
    BY DEF IInv, Faults, Leftover, FaultNeedsLeftover
  <1>3. IInv => LeftoversOnly
    BY <1>1, <1>2 DEF LeftoversOnly
  <1> QED
    BY <1>3, Invariance, PTL

\* poll sees the packets that wait, except for one that came while at_recvfrom cleared
\* rcvevent (PollMissesOnlyByRace).
THEOREM PollSees == OneUser /\ Spec => []PollMissesOnlyByRace
  <1>1. ASSUME IInv PROVE PollMissesOnlyByRace
    <2>1. ASSUME NEW s \in Slots, sockets[s].recvpkt_list # << >>, sockets[s].rcvevent = 0
          PROVE  s \in raced
      <3>1. s = Newest /\ \E u \in Users : Current(u)
        BY <1>1, <2>1, InUse
      <3> QED
        BY <2>1, <3>1 DEF Current, Pollable
    <2> QED
      BY <2>1 DEF PollMissesOnlyByRace
  <1> QED
    BY <1>1, Invariance, PTL

\* A socket in state CONNECT has its link, unless the report of its close was lost in
\* one of the two ways the code has (ConnectedHasLink).
THEOREM ConnectedIsLinked == OneUser /\ Spec => []ConnectedHasLink
  <1>1. ASSUME IInv PROVE ConnectedHasLink
    <2>1. ASSUME NEW s \in Slots, sockets[s].state = "CONNECT", link[s] # sockets[s].conn
          PROVE  s \in missed
      <3>1. s = Newest /\ \E u \in Users : Current(u)
        BY <1>1, <2>1, InUse
      <3> QED
        BY <2>1, <3>1 DEF Current, Joined
    <2> QED
      BY <2>1 DEF ConnectedHasLink
  <1> QED
    BY <1>1, Invariance, PTL
=============================================================================
