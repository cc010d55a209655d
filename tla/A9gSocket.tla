----------------------------- MODULE A9gSocket -----------------------------
(***************************************************************************)
(* Connecting a socket of the A9G module: a9g_socket_connect waits on the  *)
(* event object that all sockets of the device share for what the parser   *)
(* thread's URC handlers report about AT+CIPSTART.                         *)
(*                                                                         *)
(* Code: applications/at_socket_a9g.c; rt_event_send and rt_event_recv of  *)
(* rt-thread/src/ipc.c.                                                    *)
(***************************************************************************)
EXTENDS Naturals

CONSTANTS
    Threads,  \* application threads that connect sockets
    Sockets   \* device sockets in use, numbered from 0

ASSUME SocketsAssumption == Sockets \subseteq 0..7

\* Bits of the event word: the results, and SET_EVENT's (socket + 1) << 16.
CONN_OK   == 0
CONN_FAIL == 4
SEND_FAIL == 5

\* Mutant: SET_EVENT shifts by one bit too few.
SocketBitsLow(s) == {15 + k : k \in {k \in 0..3 : ((s + 1) \div 2^k) % 2 = 1}}

SocketBits(s) == {16 + k : k \in {k \in 0..3 : ((s + 1) \div 2^k) % 2 = 1}}
SET_EVENT(s, events) == SocketBits(s) \cup events
Bits == {CONN_OK, CONN_FAIL, SEND_FAIL} \cup 16..19

VARIABLES
    event,    \* device->socket_event: the bits that are set
    queue,    \* the threads on its suspend list
    ahead,    \* ahead[t]: the threads before t on that list
    thread,   \* thread[t]: place, socket, wanted and received bits, retryed, result
    link,     \* link[s]: is link s open at the modem
    starting, \* starting[s]: AT+CIPSTART of socket s has no result yet
    heard     \* history: heard[t]: what was reported since t last cleared its events

vars == <<event, queue, ahead, thread, link, starting, heard>>

Idle == [pc |-> "idle", sock |-> 0, want |-> {}, recved |-> {}, retryed |-> FALSE,
         result |-> "none"]

Init ==
    /\ event = {}
    /\ queue = {}
    /\ ahead = [t \in Threads |-> {}]
    /\ thread = [t \in Threads |-> Idle]
    /\ link = [s \in Sockets |-> FALSE]
    /\ starting = [s \in Sockets |-> FALSE]
    /\ heard = [t \in Threads |-> {}]

Goto(t, where) == thread' = [thread EXCEPT ![t].pc = where]
Done(t, what)  == thread' = [thread EXCEPT ![t].pc = "exit", ![t].result = what]

-----------------------------------------------------------------------------
(* rt_event_send, rt_event_recv (always with RT_EVENT_FLAG_OR | _CLEAR)      *)

\* Mutant: a bit that is already set is not sent again to the waiting threads.
EventSendNewOnly(set) ==
    /\ event' = event \cup set
    /\ UNCHANGED <<queue, ahead, thread>>

\* The suspended threads take, in the order of the list, the bits they want and
\* clear them: a bit goes to the first thread that wants it.
Taken(t, set) ==
    {b \in thread[t].want \cap (event \cup set) :
       \A v \in ahead[t] : b \notin thread[v].want}

rt_event_send(set) ==
    LET woken == {t \in queue : Taken(t, set) # {}} IN
    /\ event' = (event \cup set) \ UNION {thread[t].want : t \in queue}
    /\ queue' = queue \ woken
    /\ ahead' = [t \in Threads |-> IF t \in woken THEN {} ELSE ahead[t] \ woken]
    /\ thread' = [t \in Threads |->
         IF t \in woken
           THEN [thread[t] EXCEPT !.pc = IF @ = "suspend1" THEN "wait2" ELSE "check",
                                  !.want = {}, !.recved = Taken(t, set)]
           ELSE thread[t]]

\* A thread that finds a wanted bit clears all the bits it asked for.
rt_event_recv(t, set, next, suspended) ==
    IF event \cap set # {}
      THEN /\ event' = event \ set
           /\ thread' = [thread EXCEPT ![t].pc = next, ![t].recved = event \cap set]
           /\ UNCHANGED <<queue, ahead>>
      ELSE /\ queue' = queue \cup {t}
           /\ ahead' = [ahead EXCEPT ![t] = queue]
           /\ thread' = [thread EXCEPT ![t].pc = suspended, ![t].want = set]
           /\ UNCHANGED event

\* The thread timer takes the thread off the suspend list.
EventTimeout(t) ==
    /\ thread[t].pc \in {"suspend1", "suspend2"}
    /\ queue' = queue \ {t}
    /\ ahead' = [v \in Threads |-> IF v = t THEN {} ELSE ahead[v] \ {t}]
    /\ thread' = [thread EXCEPT ![t].pc = "exit", ![t].want = {}, ![t].result = "ETIMEOUT"]
    /\ UNCHANGED <<event, link, starting, heard>>

-----------------------------------------------------------------------------
(* a9g_socket_connect                                                       *)

\* A socket belongs to one thread at a time.
ConnectCall(t, s) ==
    /\ thread[t].pc = "idle"
    /\ \A v \in Threads : thread[v].pc # "idle" => thread[v].sock # s
    /\ thread' = [thread EXCEPT ![t] = [Idle EXCEPT !.pc = "clear", !.sock = s]]
    /\ UNCHANGED <<event, queue, ahead, link, starting, heard>>

\* Mutant: the events of an earlier attempt are not cleared.
ClearNothing(t) ==
    /\ thread[t].pc = "clear"
    /\ Goto(t, "start")
    /\ heard' = [heard EXCEPT ![t] = {}]
    /\ UNCHANGED <<event, queue, ahead, link, starting>>

\* __retry: old events of this socket are cleared, without waiting.
ClearEvents(t) ==
    /\ thread[t].pc = "clear"
    /\ event' = event \ SET_EVENT(thread[t].sock, {CONN_OK, CONN_FAIL})
    /\ heard' = [heard EXCEPT ![t] = {}]
    /\ Goto(t, "start")
    /\ UNCHANGED <<queue, ahead, link, starting>>

\* AT+CIPSTART is sent without a response object, so it cannot fail here.
CipStart(t) ==
    /\ thread[t].pc = "start"
    /\ starting' = [starting EXCEPT ![thread[t].sock] = TRUE]
    /\ Goto(t, "wait1")
    /\ UNCHANGED <<event, queue, ahead, link, heard>>

\* Any event of this socket ...
WaitSocket(t) ==
    /\ thread[t].pc = "wait1"
    /\ rt_event_recv(t, SET_EVENT(thread[t].sock, {}), "wait2", "suspend1")
    /\ UNCHANGED <<link, starting, heard>>

\* ... and then the result, whichever socket it is about.
WaitResult(t) ==
    /\ thread[t].pc = "wait2"
    /\ rt_event_recv(t, {CONN_OK, CONN_FAIL}, "check", "suspend2")
    /\ UNCHANGED <<link, starting, heard>>

CheckOk(t) ==
    /\ thread[t].pc = "check"
    /\ CONN_FAIL \notin thread[t].recved
    /\ Done(t, "EOK")
    /\ UNCHANGED <<event, queue, ahead, link, starting, heard>>

\* Mutant: the retry is not remembered.
RetryForever(t) ==
    /\ thread[t].pc = "check"
    /\ CONN_FAIL \in thread[t].recved
    /\ Goto(t, "clear")
    /\ link' = [link EXCEPT ![thread[t].sock] = FALSE]
    /\ UNCHANGED <<event, queue, ahead, starting, heard>>

\* The first failure: a9g_socket_close, and once more if AT+CIPCLOSE succeeds.
CheckRetry(t) ==
    /\ thread[t].pc = "check"
    /\ CONN_FAIL \in thread[t].recved
    /\ ~thread[t].retryed
    /\ \/ /\ thread' = [thread EXCEPT ![t].pc = "clear", ![t].retryed = TRUE]
          /\ link' = [link EXCEPT ![thread[t].sock] = FALSE]
       \/ /\ Done(t, "ERROR")
          /\ UNCHANGED link
    /\ UNCHANGED <<event, queue, ahead, starting, heard>>

CheckFail(t) ==
    /\ thread[t].pc = "check"
    /\ CONN_FAIL \in thread[t].recved
    /\ thread[t].retryed
    /\ Done(t, "ERROR")
    /\ UNCHANGED <<event, queue, ahead, link, starting, heard>>

ConnectReturn(t) ==
    /\ thread[t].pc = "exit"
    /\ thread' = [thread EXCEPT ![t] = Idle]
    /\ heard' = [heard EXCEPT ![t] = {}]
    /\ UNCHANGED <<event, queue, ahead, link, starting>>

\* a9g_socket_close by the owner of the socket.
a9g_socket_close(s) ==
    /\ link[s]
    /\ \A v \in Threads : thread[v].pc # "idle" => thread[v].sock # s
    /\ link' = [link EXCEPT ![s] = FALSE]
    /\ UNCHANGED <<event, queue, ahead, thread, starting, heard>>

-----------------------------------------------------------------------------
(* The URC handlers, run by the parser thread when the modem reports.        *)

\* A report counts for a thread from its ClearEvents on.
Hear(s, what) ==
    heard' = [t \in Threads |->
      IF thread[t].pc \in {"idle", "clear", "exit"} THEN heard[t]
      ELSE heard[t] \cup {<<s, what>>}]

\* "<s>,CONNECT OK": the link was closed and is open now.
urc_connect_ok(s) ==
    /\ starting[s]
    /\ ~link[s]
    /\ starting' = [starting EXCEPT ![s] = FALSE]
    /\ link' = [link EXCEPT ![s] = TRUE]
    /\ Hear(s, CONN_OK)
    /\ rt_event_send(SET_EVENT(s, {CONN_OK}))

\* "<s>,CONNECT FAIL".
urc_connect_fail(s) ==
    /\ starting[s]
    /\ starting' = [starting EXCEPT ![s] = FALSE]
    /\ Hear(s, CONN_FAIL)
    /\ rt_event_send(SET_EVENT(s, {CONN_FAIL}))
    /\ UNCHANGED link

\* "<s>,SEND FAIL": an event nobody waits for, with the bits of its socket.
urc_send_func(s) ==
    /\ link[s]
    /\ Hear(s, SEND_FAIL)
    /\ rt_event_send(SET_EVENT(s, {SEND_FAIL}))
    /\ UNCHANGED <<link, starting>>

\* The command is lost, or the remote end closes the link: no event.
ModemSilent(s) ==
    /\ \/ starting[s] /\ starting' = [starting EXCEPT ![s] = FALSE] /\ UNCHANGED link
       \/ link[s] /\ link' = [link EXCEPT ![s] = FALSE] /\ UNCHANGED starting
    /\ UNCHANGED <<event, queue, ahead, thread, heard>>

-----------------------------------------------------------------------------
ConnectStep(t) ==
    \/ ClearEvents(t) \/ CipStart(t) \/ WaitSocket(t) \/ WaitResult(t) \/ EventTimeout(t)
    \/ CheckOk(t) \/ CheckRetry(t) \/ CheckFail(t) \/ ConnectReturn(t)

Modem(s) ==
    urc_connect_ok(s) \/ urc_connect_fail(s) \/ urc_send_func(s) \/ ModemSilent(s)

Next ==
    \/ \E t \in Threads : ConnectStep(t) \/ \E s \in Sockets : ConnectCall(t, s)
    \/ \E s \in Sockets : Modem(s) \/ a9g_socket_close(s)

\* Threads are scheduled and their timers expire; nothing is assumed of the modem.
Spec == Init /\ [][Next]_vars /\ \A t \in Threads : WF_vars(ConnectStep(t))

-----------------------------------------------------------------------------
ThreadState ==
    [pc: {"idle", "clear", "start", "wait1", "suspend1", "wait2", "suspend2", "check", "exit"},
     sock: Sockets \cup {0}, want: SUBSET Bits, recved: SUBSET Bits, retryed: BOOLEAN,
     result: {"none", "EOK", "ERROR", "ETIMEOUT"}]

TypeOK ==
    /\ event \in SUBSET Bits
    /\ queue \in SUBSET Threads
    /\ ahead \in [Threads -> SUBSET Threads]
    /\ thread \in [Threads -> ThreadState]
    /\ link \in [Sockets -> BOOLEAN]
    /\ starting \in [Sockets -> BOOLEAN]
    /\ heard \in [Threads -> SUBSET (Sockets \X {CONN_OK, CONN_FAIL, SEND_FAIL})]

\* No lost event: exactly the suspended threads are on the list, in one order, and
\* none of the bits one of them waits for is set, whatever others send, clear or
\* time out in the meantime.
NoLostEvent ==
    /\ queue = {t \in Threads : thread[t].pc \in {"suspend1", "suspend2"}}
    /\ \A t \in queue : thread[t].want # {} /\ thread[t].want \cap event = {}
    /\ \A t, v \in queue : t # v => (t \in ahead[v] <=> v \notin ahead[t])

\* a9g_socket_connect, "@return 0: connect success" (at_socket_a9g.c:122): the
\* modem has reported CONNECT OK for this very socket during the call.
SuccessIsOwn ==
    \A t \in Threads :
      thread[t].result = "EOK" => <<thread[t].sock, CONN_OK>> \in heard[t]

\* Success is never a leftover of an earlier call or attempt: since the events were
\* last cleared, some socket was connected and an event with a bit of this socket sent.
SuccessIsFresh ==
    \A t \in Threads : thread[t].result = "EOK" =>
      /\ \E e \in heard[t] : e[2] = CONN_OK
      /\ \E e \in heard[t] : SocketBits(e[1]) \cap SocketBits(thread[t].sock) # {}

\* Every connect returns, also when the modem never answers: one retry at most,
\* and each wait ends with an event or with the timer.
ConnectReturns == \A t \in Threads : thread[t].pc # "idle" ~> thread[t].pc = "idle"
=============================================================================
