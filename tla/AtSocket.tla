------------------------------ MODULE AtSocket ------------------------------
(***************************************************************************)
(* The AT socket layer: the descriptor list, the socket objects of the     *)
(* device, and the callbacks by which the AT parser thread delivers data   *)
(* and remote closes to them.                                              *)
(*                                                                         *)
(* Code: rt-thread/components/net/at/at_socket/at_socket.c, used by        *)
(* applications/client_server.c (one descriptor variable per user, never   *)
(* reset after a close) over the A9G operations of                         *)
(* applications/at_socket_a9g.c.                                           *)
(*                                                                         *)
(* The parser thread has a higher priority than the users: a callback is   *)
(* one step, and it may come between any two steps of a user.              *)
(***************************************************************************)
EXTENDS Integers, Sequences, FiniteSetsExt, SequencesExt

CONSTANTS
    Users,      \* application threads that own a descriptor variable
    socket_num, \* number of socket objects of the device
    MaxPkts,    \* bound: packets waiting in one socket
    MaxEvents,  \* bound: value of rcvevent and of recv_notice (uint16_t in the code)
    MaxConn     \* bound: connections ever made

ASSUME SocketNumAssumption == socket_num \in Nat \ {0}
ASSUME BoundsAssumption ==
    MaxPkts \in Nat \ {0} /\ MaxEvents \in Nat \ {0} /\ MaxConn \in Nat \ {0}

Slots == 0..(socket_num - 1)
NULL  == -1

VARIABLES
    sockets,   \* sockets[i]: device->sockets[i]
    list,      \* _socket_list: the slots in list order
    cb_set,    \* at_evt_cb_set: the notice callbacks have been installed
    user,      \* user[u]: program counter, descriptor variable and sock pointer
    link,      \* link[i]: number of the connection open on link i of the modem, or 0
    conns,     \* number of connections made so far
    fault,     \* history: a deleted semaphore or mutex was used
    linkLeft,  \* history: a socket was given up while the modem kept its link
    raced,     \* history: slots where data came while at_recvfrom cleared rcvevent
    missed     \* history: slots whose remote close was overwritten or given to another

vars == <<sockets, list, cb_set, user, link, conns, fault, linkLeft, raced, missed>>

-----------------------------------------------------------------------------
States == {"NONE", "OPEN", "CONNECT", "CLOSED"}

\* conn is history: the connection this socket object was opened for.
SocketObject == [magic: BOOLEAN, state: States, socket: Nat, ipc: {"none", "live", "deleted"},
                 recvpkt_list: Seq(1..MaxConn), recv_notice: Nat, rcvevent: Nat, conn: 0..MaxConn]

\* What rt_memset(sock, 0, ...) leaves.
Zeroed == [magic |-> FALSE, state |-> "NONE", socket |-> 0, ipc |-> "none",
           recvpkt_list |-> << >>, recv_notice |-> 0, rcvevent |-> 0, conn |-> 0]

PCs == {"idle", "alloc", "connect", "connected", "recvtake", "recvwait", "recvwoken",
        "recvexit", "recvclean", "closing", "free", "unlink", "hang"}

Init ==
    /\ sockets = [i \in Slots |-> Zeroed]
    /\ list = << >>
    /\ cb_set = FALSE
    /\ user = [u \in Users |-> [pc |-> "idle", fd |-> NULL, sock |-> NULL]]
    /\ link = [i \in Slots |-> 0]
    /\ conns = 0
    /\ fault = FALSE
    /\ linkLeft = FALSE
    /\ raced = {}
    /\ missed = {}

Goto(u, where) == user' = [user EXCEPT ![u].pc = where]
Enter(u, where, s) == user' = [user EXCEPT ![u].pc = where, ![u].sock = s]
Leave(u) == user' = [user EXCEPT ![u].pc = "idle", ![u].sock = NULL]

\* The object at position fd of the list, if it is a live socket.
at_get_socket(fd) ==
    IF fd >= 0 /\ fd < Len(list) /\ sockets[list[fd + 1]].magic
      THEN list[fd + 1]
      ELSE NULL

\* connect_aliot_http_device closes what its descriptor leads to before it asks
\* for a new socket.
NoSocket(u) == user[u].pc = "idle" /\ at_get_socket(user[u].fd) = NULL

Free == {i \in Slots : ~sockets[i].magic}

-----------------------------------------------------------------------------
(* at_socket, alloc_socket_by_device                                        *)

\* Under at_slock: the first free object is appended to the list; its
\* descriptor is its position at that moment. An object that is still linked
\* makes the list circular, and the thread never leaves rt_slist_len.
AllocSlot(u) ==
    /\ NoSocket(u)
    /\ \A v \in Users : user[v].pc # "alloc"
    /\ Free # {}
    /\ LET i == Min(Free) IN
         IF \E p \in 1..Len(list) : list[p] = i
           THEN Goto(u, "hang") /\ UNCHANGED <<sockets, list>>
           ELSE /\ list' = Append(list, i)
                /\ sockets' = [sockets EXCEPT ![i] =
                     [Zeroed EXCEPT !.magic = TRUE, !.socket = Len(list)]]
                /\ Enter(u, "alloc", i)
    /\ UNCHANGED <<cb_set, link, conns, fault, linkLeft, raced, missed>>

\* Every object is in use: at_socket returns -1, which the user stores.
AllocFull(u) ==
    /\ NoSocket(u)
    /\ \A v \in Users : user[v].pc # "alloc"
    /\ Free = {}
    /\ user' = [user EXCEPT ![u].fd = NULL]
    /\ UNCHANGED <<sockets, list, cb_set, link, conns, fault, linkLeft, raced, missed>>

AllocDone(u) ==
    /\ user[u].pc = "alloc"
    /\ LET i == user[u].sock IN
         /\ sockets' = [sockets EXCEPT ![i].ipc = "live", ![i].state = "OPEN"]
         /\ user' = [user EXCEPT ![u] = [pc |-> "idle", fd |-> sockets[i].socket, sock |-> NULL]]
    /\ UNCHANGED <<list, cb_set, link, conns, fault, linkLeft, raced, missed>>

\* No memory for the semaphore or the mutex: the object stays allocated.
AllocNoMem(u) ==
    /\ user[u].pc = "alloc"
    /\ user' = [user EXCEPT ![u] = [pc |-> "idle", fd |-> NULL, sock |-> NULL]]
    /\ UNCHANGED <<sockets, list, cb_set, link, conns, fault, linkLeft, raced, missed>>

-----------------------------------------------------------------------------
(* at_connect                                                               *)

ConnectBegin(u) ==
    /\ user[u].pc = "idle"
    /\ LET s == at_get_socket(user[u].fd) IN
         /\ s # NULL
         /\ sockets[s].state = "OPEN"
         /\ Enter(u, "connect", s)
    /\ UNCHANGED <<sockets, list, cb_set, link, conns, fault, linkLeft, raced, missed>>

\* The modem opens the link (a9g_socket_connect closes one left open and tries
\* again); from now on it may send data for it.
ConnectOpened(u) ==
    /\ user[u].pc = "connect"
    /\ conns < MaxConn
    /\ conns' = conns + 1
    /\ link' = [link EXCEPT ![user[u].sock] = conns + 1]
    /\ sockets' = [sockets EXCEPT ![user[u].sock].conn = conns + 1]
    /\ Goto(u, "connected")
    /\ UNCHANGED <<list, cb_set, fault, linkLeft, raced, missed>>

\* at_connect of the device failed; the socket stays "OPEN".
ConnectFailed(u) ==
    /\ user[u].pc = "connect"
    /\ Leave(u)
    /\ UNCHANGED <<sockets, list, cb_set, link, conns, fault, linkLeft, raced, missed>>

\* The link is open but its answer came too late: at_connect returns -1.
ConnectTimedOut(u) ==
    /\ user[u].pc = "connected"
    /\ linkLeft' = TRUE
    /\ Leave(u)
    /\ UNCHANGED <<sockets, list, cb_set, link, conns, fault, raced, missed>>

\* state = CONNECT and the callbacks are set, whatever the parser did meanwhile.
ConnectDone(u) ==
    /\ user[u].pc = "connected"
    /\ sockets' = [sockets EXCEPT ![user[u].sock].state = "CONNECT"]
    /\ cb_set' = TRUE
    /\ Leave(u)
    /\ UNCHANGED <<list, link, conns, fault, linkLeft, raced, missed>>

-----------------------------------------------------------------------------
(* at_recvfrom                                                              *)

\* A read that finds data: the buffer of the caller is filled with some whole
\* packets and perhaps a part of the next one, which stays in the list.
at_recvpkt_get(s) ==
    /\ sockets[s].recvpkt_list # << >>
    /\ \E whole \in 0..Len(sockets[s].recvpkt_list) :
         sockets' = [sockets EXCEPT ![s].recvpkt_list = SubSeq(@, whole + 1, Len(@))]

\* Data that is already there is returned; a closed socket returns 0; a blocking
\* call goes on to the semaphore.
RecvBegin(u) ==
    /\ user[u].pc = "idle"
    /\ LET s == at_get_socket(user[u].fd) IN
         /\ s # NULL
         /\ \/ /\ sockets[s].ipc # "live"
               /\ fault' = TRUE
               /\ UNCHANGED <<sockets, user>>
            \/ /\ sockets[s].ipc = "live"
               /\ at_recvpkt_get(s)
               /\ Enter(u, "recvexit", s)
               /\ UNCHANGED fault
            \/ /\ sockets[s].ipc = "live"
               /\ sockets[s].recvpkt_list = << >>
               /\ sockets[s].state \in {"CONNECT", "OPEN"}
               /\ Enter(u, "recvtake", s)
               /\ UNCHANGED <<sockets, fault>>
    /\ UNCHANGED <<list, cb_set, link, conns, linkLeft, raced, missed>>

RecvTake(u) ==
    /\ user[u].pc = "recvtake"
    /\ LET s == user[u].sock IN
         IF sockets[s].ipc # "live"
           THEN fault' = TRUE /\ Leave(u) /\ UNCHANGED sockets
         ELSE IF sockets[s].recv_notice > 0
           THEN /\ sockets' = [sockets EXCEPT ![s].recv_notice = @ - 1]
                /\ Goto(u, "recvwoken")
                /\ UNCHANGED fault
           ELSE Goto(u, "recvwait") /\ UNCHANGED <<sockets, fault>>
    /\ UNCHANGED <<list, cb_set, link, conns, linkLeft, raced, missed>>

\* After the semaphore: data is returned if the socket is still connected, a
\* socket closed meanwhile returns 0, a surplus token makes the loop go round.
RecvWoken(u) ==
    /\ user[u].pc = "recvwoken"
    /\ LET s == user[u].sock IN
         \/ /\ sockets[s].state = "CONNECT"
            /\ at_recvpkt_get(s)
            /\ Goto(u, "recvexit")
         \/ /\ sockets[s].state = "CONNECT"
            /\ sockets[s].recvpkt_list = << >>
            /\ Goto(u, "recvtake")
            /\ UNCHANGED sockets
         \/ /\ sockets[s].state # "CONNECT"
            /\ Leave(u)
            /\ UNCHANGED sockets
    /\ UNCHANGED <<list, cb_set, link, conns, fault, linkLeft, raced, missed>>

\* SO_RCVTIMEO is over.
RecvTimedOut(u) ==
    /\ user[u].pc = "recvwait"
    /\ Leave(u)
    /\ UNCHANGED <<sockets, list, cb_set, link, conns, fault, linkLeft, raced, missed>>

\* rcvevent after a successful read: one less, one more if data is left, and
\* cleared (in a step of its own) if the list was seen empty.
RecvExit(u) ==
    /\ user[u].pc = "recvexit"
    /\ LET s == user[u].sock
           less == IF sockets[s].rcvevent > 0 THEN sockets[s].rcvevent - 1 ELSE 0
       IN IF sockets[s].recvpkt_list # << >>
            THEN /\ sockets' = [sockets EXCEPT ![s].rcvevent = less + 1]
                 /\ Leave(u)
            ELSE /\ sockets' = [sockets EXCEPT ![s].rcvevent = less]
                 /\ Goto(u, "recvclean")
    /\ UNCHANGED <<list, cb_set, link, conns, fault, linkLeft, raced, missed>>

RecvClean(u) ==
    /\ user[u].pc = "recvclean"
    /\ sockets' = [sockets EXCEPT ![user[u].sock].rcvevent = 0]
    /\ Leave(u)
    /\ UNCHANGED <<list, cb_set, link, conns, fault, linkLeft, raced, missed>>

-----------------------------------------------------------------------------
(* at_closesocket, at_shutdown, free_socket                                 *)

\* Mutant: the device is not told to close the link.
CloseSkipsDevice(u) ==
    /\ user[u].pc = "idle"
    /\ LET s == at_get_socket(user[u].fd) IN
         /\ s # NULL
         /\ sockets' = [sockets EXCEPT ![s].state = "CLOSED"]
         /\ Enter(u, "free", s)
    /\ UNCHANGED <<list, cb_set, link, conns, fault, linkLeft, raced, missed>>

\* The descriptor variable keeps its value (client_server.c).
CloseBegin(u) ==
    /\ user[u].pc = "idle"
    /\ LET s == at_get_socket(user[u].fd) IN
         /\ s # NULL
         /\ sockets' = [sockets EXCEPT ![s].state = "CLOSED"]
         /\ Enter(u, IF sockets[s].state # "CLOSED" THEN "closing" ELSE "free", s)
    /\ UNCHANGED <<list, cb_set, link, conns, fault, linkLeft, raced, missed>>

\* AT+CIPCLOSE: the modem drops the link, or the command fails. The socket is
\* freed either way.
CloseDevice(u) ==
    /\ user[u].pc = "closing"
    /\ \/ /\ link' = [link EXCEPT ![user[u].sock] = 0]
          /\ UNCHANGED linkLeft
       \/ /\ linkLeft' = (linkLeft \/ link[user[u].sock] # 0)
          /\ UNCHANGED link
    /\ Goto(u, "free")
    /\ UNCHANGED <<sockets, list, cb_set, conns, fault, raced, missed>>

\* The semaphore and the mutex are deleted first; the object still has its
\* magic. Threads suspended on the semaphore are resumed with an error.
FreeIpc(u) ==
    /\ user[u].pc = "free"
    /\ LET s == user[u].sock IN
         /\ sockets' = [sockets EXCEPT ![s].ipc = "deleted", ![s].recvpkt_list = << >>]
         /\ user' = [v \in Users |->
              IF v = u THEN [user[u] EXCEPT !.pc = "unlink"]
              ELSE IF user[v].pc = "recvwait" /\ user[v].sock = s
                THEN [user[v] EXCEPT !.pc = "idle", !.sock = NULL]
                ELSE user[v]]
    /\ UNCHANGED <<list, cb_set, link, conns, fault, linkLeft, raced, missed>>

\* Mutant: the list is counted from one instead of zero.
UnlinkedOffByOne(s) ==
    LET at == sockets[s].socket
        l  == IF at \in 1..Len(list) THEN RemoveAt(list, at) ELSE list
    IN IF \E p \in 1..Len(l) : l[p] = s
         THEN SubSeq(l, 1, CHOOSE p \in 1..Len(l) : l[p] = s)
         ELSE l

\* The node at position sock->socket is removed, then the object is zeroed; a
\* zeroed object that is still linked ends the list.
Unlinked(s) ==
    LET at == sockets[s].socket + 1
        l  == IF at <= Len(list) THEN RemoveAt(list, at) ELSE list
    IN IF \E p \in 1..Len(l) : l[p] = s
         THEN SubSeq(l, 1, CHOOSE p \in 1..Len(l) : l[p] = s)
         ELSE l

FreeUnlink(u) ==
    /\ user[u].pc = "unlink"
    /\ list' = Unlinked(user[u].sock)
    /\ sockets' = [sockets EXCEPT ![user[u].sock] = Zeroed]
    /\ raced' = raced \ {user[u].sock}
    /\ missed' = missed \ {user[u].sock}
    /\ Leave(u)
    /\ UNCHANGED <<cb_set, link, conns, fault, linkLeft>>

-----------------------------------------------------------------------------
(* The callbacks, run by the parser thread                                  *)

\* Mutant: the suspended reader is not resumed.
ResumeNobody(s) == UNCHANGED user

\* rt_sem_release(sock->recv_notice): resumes a suspended reader or counts the
\* token. (Two readers of one socket: the first one is resumed.)
Waiting(s) == {v \in Users : user[v].pc = "recvwait" /\ user[v].sock = s}
Resume(s)  ==
    IF Waiting(s) = {} THEN UNCHANGED user
    ELSE \E v \in Waiting(s) : Goto(v, "recvwoken")
Tokens(s)  == IF Waiting(s) = {} THEN sockets[s].recv_notice + 1 ELSE sockets[s].recv_notice

\* Mutant: the receive event is not counted.
RecvNoticeUncounted(s) ==
    /\ link[s] # 0
    /\ cb_set
    /\ sockets[s].magic
    /\ Len(sockets[s].recvpkt_list) < MaxPkts
    /\ sockets[s].recv_notice < MaxEvents
    /\ sockets[s].ipc = "live"
    /\ sockets' = [sockets EXCEPT ![s].recvpkt_list = Append(@, link[s]),
                                  ![s].recv_notice = Tokens(s)]
    /\ Resume(s)
    /\ UNCHANGED <<list, cb_set, link, conns, fault, linkLeft, raced, missed>>

\* urc_recv_func and at_recv_notice_cb: data of link s goes to object s; without
\* memory for the list node it is dropped, but notified all the same.
at_recv_notice_cb(s) ==
    /\ link[s] # 0
    /\ cb_set
    /\ sockets[s].magic
    /\ Len(sockets[s].recvpkt_list) < MaxPkts
    /\ sockets[s].rcvevent < MaxEvents
    /\ sockets[s].recv_notice < MaxEvents
    /\ IF sockets[s].ipc = "live"
         THEN /\ \E pkt \in {<<link[s]>>, << >>} :
                   sockets' = [sockets EXCEPT ![s].recvpkt_list = @ \o pkt,
                                              ![s].recv_notice = Tokens(s),
                                              ![s].rcvevent = @ + 1]
              /\ Resume(s)
              /\ raced' = IF \E v \in Users : user[v].pc = "recvclean" /\ user[v].sock = s
                            THEN raced \cup {s} ELSE raced
              /\ UNCHANGED fault
         ELSE fault' = TRUE /\ UNCHANGED <<sockets, user, raced>>
    /\ UNCHANGED <<list, cb_set, link, conns, linkLeft, missed>>

\* urc_close_func: the number is read with "%d,%*s" from a line that begins with
\* "CLOSED:", so it keeps its initial value.
ClosedSlot(s) == 0

\* Mutant: the close is announced, but the state of the socket is left as it is.
ClosedNoticeOnly(s) ==
    /\ link[s] # 0
    /\ link' = [link EXCEPT ![s] = 0]
    /\ sockets' = IF sockets[s].ipc = "live" /\ sockets[s].rcvevent < MaxEvents
                    THEN [sockets EXCEPT ![s].recv_notice = Tokens(s), ![s].rcvevent = @ + 1]
                    ELSE sockets
    /\ Resume(s)
    /\ UNCHANGED <<list, cb_set, conns, fault, linkLeft, raced, missed>>

\* urc_close_func and at_closed_notice_cb: the remote end closed link s.
at_closed_notice_cb(s) ==
    /\ link[s] # 0
    /\ link' = [link EXCEPT ![s] = 0]
    /\ LET i == ClosedSlot(s) IN
         IF cb_set /\ sockets[i].magic
           THEN IF sockets[i].ipc = "live"
                  THEN /\ sockets' = [sockets EXCEPT ![i].state = "CLOSED",
                                                     ![i].recv_notice = Tokens(i),
                                                     ![i].rcvevent = @ + 1]
                       /\ Resume(i)
                       /\ UNCHANGED fault
                  ELSE fault' = TRUE /\ UNCHANGED <<sockets, user>>
           ELSE UNCHANGED <<sockets, user, fault>>
    /\ missed' = IF ClosedSlot(s) # s \/ \E u \in Users : user[u].pc = "connected" /\ user[u].sock = s
                   THEN missed \cup {s} ELSE missed
    /\ UNCHANGED <<list, cb_set, conns, linkLeft, raced>>

-----------------------------------------------------------------------------
UserStep(u) ==
    \/ AllocSlot(u) \/ AllocFull(u) \/ AllocDone(u) \/ AllocNoMem(u)
    \/ ConnectBegin(u) \/ ConnectOpened(u) \/ ConnectFailed(u) \/ ConnectTimedOut(u)
    \/ ConnectDone(u)
    \/ RecvBegin(u) \/ RecvTake(u) \/ RecvWoken(u) \/ RecvTimedOut(u) \/ RecvExit(u)
    \/ RecvClean(u)
    \/ CloseBegin(u) \/ CloseDevice(u) \/ FreeIpc(u) \/ FreeUnlink(u)

ParserStep(s) == at_recv_notice_cb(s) \/ at_closed_notice_cb(s)

Next == (\E u \in Users : UserStep(u)) \/ (\E s \in Slots : ParserStep(s))

Spec == Init /\ [][Next]_vars

-----------------------------------------------------------------------------
TypeOK ==
    /\ sockets \in [Slots -> SocketObject]
    /\ list \in Seq(Slots)
    /\ cb_set \in BOOLEAN
    /\ user \in [Users -> [pc: PCs, fd: Nat \cup {NULL}, sock: Slots \cup {NULL}]]
    /\ link \in [Slots -> 0..MaxConn]
    /\ conns \in 0..MaxConn
    /\ fault \in BOOLEAN
    /\ linkLeft \in BOOLEAN
    /\ raced \in SUBSET Slots
    /\ missed \in SUBSET Slots

\* A reader suspended in at_recvfrom has nothing to read and nothing to learn:
\* no packet waits in its socket, no token is left, and the socket has not been
\* closed (unless a close of it is under way, which will resume the reader).
NoStuckReader ==
    \A u \in Users : user[u].pc = "recvwait" =>
      LET s == user[u].sock IN
        /\ sockets[s].recvpkt_list = << >>
        /\ sockets[s].recv_notice = 0
        /\ sockets[s].state = "CLOSED" =>
             \E v \in Users : user[v].sock = s /\ user[v].pc \in {"closing", "free"}

\* Data is delivered to the socket that opened the connection it came on, unless
\* an earlier close or connect failed and left its link open at the modem.
OwnData ==
    ~linkLeft => \A s \in Slots : \A p \in 1..Len(sockets[s].recvpkt_list) :
                   sockets[s].recvpkt_list[p] = sockets[s].conn

\* A socket that counts as connected has its link, unless the remote close was
\* reported for another socket (ClosedSlot) or came while at_connect had not yet
\* assigned its CONNECT, which then overwrites it (at_socket.c:690).
ConnectedHasLink ==
    \A s \in Slots :
      sockets[s].magic /\ sockets[s].state = "CONNECT" /\ link[s] # sockets[s].conn => s \in missed

\* poll sees the data that waits (rcvevent > 0), except when a packet came in
\* exactly between the last look of at_recvfrom at the list and its reset of
\* rcvevent.
PollMissesOnlyByRace ==
    \A s \in Slots :
      sockets[s].recvpkt_list # << >> /\ sockets[s].rcvevent = 0 => s \in raced

\* The list holds every allocated object once and no other object.
ListSound ==
    /\ \A p, q \in 1..Len(list) : list[p] = list[q] => p = q
    /\ ToSet(list) = {i \in Slots : sockets[i].magic}

\* at_socket.c:320 "the socket descriptor is the number of sockte lists": an
\* allocated socket is the one its descriptor leads to, also after one that was half
\* allocated has stayed in the list. (A second user who closes an older socket would
\* shift the list and break this; the firmware has one.)
DescriptorFindsSocket ==
    \A s \in Slots : sockets[s].magic => at_get_socket(sockets[s].socket) = s

\* rt_mutex_take and rt_sem_release assert that the object they are given is a
\* mutex or a semaphore (ipc.c). The parser gives them a deleted or missing one only
\* if a link was left open at the modem, or an object half allocated for want of memory.
FaultNeedsLeftover ==
    fault => linkLeft \/ \E s \in Slots : sockets[s].magic /\ sockets[s].ipc = "none"

\* urc_close_func: "get the current socket by receive data" (at_socket_a9g.c:495):
\* a socket is closed on behalf of the remote end only when its own link is gone.
ClosedHasNoLink ==
    \A s \in Slots :
      /\ sockets[s].magic /\ sockets[s].state = "CLOSED"
      /\ link[s] # 0 /\ link[s] = sockets[s].conn
      => \E u \in Users : user[u].sock = s /\ user[u].pc \in {"closing", "free", "unlink"}

\* The data structure as a whole: types, list and descriptors.
StructureOK == TypeOK /\ ListSound /\ DescriptorFindsSocket

\* Nothing but what an earlier failure has left behind, at the modem or in the list,
\* brings foreign data to a socket or a deleted object to the kernel.
LeftoversOnly == OwnData /\ FaultNeedsLeftover
=============================================================================
