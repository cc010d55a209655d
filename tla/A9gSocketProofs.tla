-------------------------- MODULE A9gSocketProofs --------------------------
(***************************************************************************)
(* Proofs about A9gSocket for every set of threads and of sockets: the     *)
(* shared event object loses no event, and a connect does not succeed on   *)
(* what was left from an earlier one.                                      *)
(***************************************************************************)
EXTENDS A9gSocket, TLAPS

Suspended == {"suspend1", "suspend2"}

\* The places between the reset of the events and the decision.
Active == {"start", "wait1", "suspend1", "wait2", "suspend2", "check"}

\* What a thread waits for follows from where it is.
Wants(t) ==
    thread[t].want = IF thread[t].pc = "suspend1" THEN SocketBits(thread[t].sock)
                     ELSE IF thread[t].pc = "suspend2" THEN {CONN_OK, CONN_FAIL}
                     ELSE {}

\* The suspend list: the suspended threads, in one order, with nothing to take.
List ==
    /\ queue = {t \in Threads : thread[t].pc \in Suspended}
    /\ \A t \in Threads : Wants(t)
    /\ \A t \in queue : thread[t].want \cap event = {}
    /\ \A t \in Threads : ahead[t] \in SUBSET queue
    /\ \A t, v \in queue : t # v => (t \in ahead[v] <=> v \notin ahead[t])

HeardOk(t)  == \E e \in heard[t] : e[2] = CONN_OK
HeardBit(t) == \E e \in heard[t] : SocketBits(e[1]) \cap SocketBits(thread[t].sock) # {}

\* What is set, or was taken, has been reported since the thread cleared its events.
Reported(t) ==
    /\ thread[t].pc \in Active =>
         /\ CONN_OK \in event => HeardOk(t)
         /\ SocketBits(thread[t].sock) \cap event # {} => HeardBit(t)
    /\ thread[t].pc \in {"wait2", "suspend2", "check"} => HeardBit(t)
    /\ thread[t].pc = "check" =>
         /\ thread[t].recved \in SUBSET {CONN_OK, CONN_FAIL} /\ thread[t].recved # {}
         /\ CONN_OK \in thread[t].recved => HeardOk(t)
    /\ thread[t].result # "none" => thread[t].pc = "exit"
    /\ thread[t].result = "EOK" => HeardOk(t) /\ HeardBit(t)

IInv == TypeOK /\ List /\ \A t \in Threads : Reported(t)

-----------------------------------------------------------------------------
\* The four low powers of two.
LEMMA Powers == 2^0 = 1 /\ 2^1 = 2 /\ 2^2 = 4 /\ 2^3 = 8
  OBVIOUS

\* SET_EVENT gives every socket at least one bit, all of them above the results.
LEMMA SocketBitsFacts ==
    ASSUME NEW s \in 0..7
    PROVE  SocketBits(s) # {} /\ SocketBits(s) \in SUBSET (16..19)
  <1>1. \E k \in 0..3 : ((s + 1) \div 2^k) % 2 = 1
    <2>1. CASE s \in {0, 2, 4, 6}
      <3> ((s + 1) \div 2^0) % 2 = 1
        BY Powers, <2>1
      <3> QED OBVIOUS
    <2>2. CASE s \in {1, 5}
      <3> ((s + 1) \div 2^1) % 2 = 1
        BY Powers, <2>2
      <3> QED OBVIOUS
    <2>3. CASE s = 3
      <3> ((s + 1) \div 2^2) % 2 = 1
        BY Powers, <2>3
      <3> QED OBVIOUS
    <2>4. CASE s = 7
      <3> ((s + 1) \div 2^3) % 2 = 1
        BY Powers, <2>4
      <3> QED OBVIOUS
    <2> QED BY <2>1, <2>2, <2>3, <2>4
  <1> QED BY <1>1 DEF SocketBits

\* The bits of the socket of a thread, whichever it is.
LEMMA OwnBits ==
    ASSUME TypeOK, NEW t \in Threads
    PROVE  /\ SocketBits(thread[t].sock) # {}
           /\ SocketBits(thread[t].sock) \in SUBSET (16..19)
  <1>1. thread[t].sock \in Sockets \cup {0}
    BY DEF TypeOK, ThreadState
  <1>2. thread[t].sock \in 0..7
    BY <1>1, SocketsAssumption
  <1> QED BY <1>2, SocketBitsFacts

\* The initial state satisfies the invariant.
LEMMA InitIInv == Init => IInv
  <1> SUFFICES ASSUME Init PROVE IInv
    OBVIOUS
  <1>1. TypeOK
    BY DEF Init, Idle, TypeOK, ThreadState
  <1>2. List
    BY DEF Init, Idle, List, Wants, Suspended
  <1>3. \A t \in Threads : Reported(t)
    BY DEF Init, Idle, Reported, Active
  <1> QED BY <1>1, <1>2, <1>3 DEF IInv

\* Stuttering keeps the invariant.
LEMMA StutterIInv == IInv /\ UNCHANGED vars => IInv'
  <1> SUFFICES ASSUME IInv, UNCHANGED vars PROVE IInv'
    OBVIOUS
  <1>1. TypeOK'
    BY DEF IInv, vars, TypeOK
  <1>2. List'
    BY DEF IInv, vars, List, Wants
  <1>3. ASSUME NEW t \in Threads PROVE Reported(t)'
    BY <1>3 DEF IInv, vars, Reported, HeardOk, HeardBit
  <1> QED BY <1>1, <1>2, <1>3 DEF IInv

\* The states of a thread that is not on the list.
FreePlaces == {"idle", "clear", "start", "wait1", "wait2", "check", "exit"}
FreeState ==
    [pc: FreePlaces, sock: Sockets \cup {0}, want: {{}}, recved: SUBSET Bits, retryed: BOOLEAN,
     result: {"none", "EOK", "ERROR", "ETIMEOUT"}]

\* A thread that waits for nothing may take what it got to a place off the list.
LEMMA FreeStateGot ==
    ASSUME NEW r \in ThreadState, r.want = {}, NEW where \in FreePlaces, NEW got \in SUBSET Bits
    PROVE  [r EXCEPT !.pc = where, !.recved = got] \in FreeState
  BY DEF ThreadState, FreeState, FreePlaces

\* A step of thread t that neither sends nor waits: t moves between places off
\* the list, the event word only loses bits, and nobody else is concerned.
LEMMA LocalStep ==
    ASSUME IInv, NEW t \in Threads, NEW r,
           thread' = [thread EXCEPT ![t] = r],
           r \in FreeState,
           thread[t].pc \notin Suspended,
           event' \in SUBSET event, queue' = queue, ahead' = ahead,
           heard' \in [Threads -> SUBSET (Sockets \X {CONN_OK, CONN_FAIL, SEND_FAIL})],
           \A v \in Threads \ {t} : heard'[v] = heard[v],
           link' \in [Sockets -> BOOLEAN], starting' \in [Sockets -> BOOLEAN],
           Reported(t)'
    PROVE  IInv'
  <1> USE DEF IInv
  <1>1. TypeOK'
    <2>1. r \in ThreadState
      BY DEF FreeState, FreePlaces, ThreadState
    <2> QED BY <2>1 DEF TypeOK
  <1>2. /\ \A v \in Threads : v # t => thread'[v] = thread[v]
        /\ thread'[t] = r
    BY DEF TypeOK
  <1>3. List'
    <2>1. queue' = {v \in Threads : thread'[v].pc \in Suspended}
      BY <1>2 DEF List, Suspended, FreeState, FreePlaces
    <2>2. ASSUME NEW v \in Threads PROVE Wants(v)'
      <3>1. CASE v = t
        BY <3>1, <1>2 DEF Wants, FreeState, FreePlaces
      <3>2. CASE v # t
        <4>1. thread'[v] = thread[v] /\ Wants(v)
          BY <3>2, <1>2 DEF List
        <4> QED BY <4>1 DEF Wants
      <3> QED BY <3>1, <3>2
    <2>3. \A v \in queue' : thread'[v].want \cap event' = {}
      BY <1>2 DEF List, FreeState
    <2> QED BY <2>1, <2>2, <2>3 DEF List
  <1>4. ASSUME NEW v \in Threads, v # t PROVE Reported(v)'
    BY <1>2, <1>4 DEF Reported, HeardOk, HeardBit
  <1> QED BY <1>1, <1>3, <1>4

\* The state of a thread that is put on the list.
LEMMA ParkedState ==
    ASSUME NEW r \in ThreadState, NEW where \in Suspended, NEW set \in SUBSET Bits
    PROVE  [r EXCEPT !.pc = where, !.want = set] \in ThreadState
  BY DEF ThreadState, Suspended

\* rt_event_recv with an empty pick: t goes to the end of the list.
LEMMA SuspendStep ==
    ASSUME IInv, NEW t \in Threads, NEW set \in SUBSET Bits, NEW where \in Suspended,
           thread[t].pc = IF where = "suspend1" THEN "wait1" ELSE "wait2",
           set = IF where = "suspend1" THEN SocketBits(thread[t].sock) ELSE {CONN_OK, CONN_FAIL},
           event \cap set = {}, event' = event,
           queue' = queue \cup {t}, ahead' = [ahead EXCEPT ![t] = queue],
           thread' = [thread EXCEPT ![t].pc = where, ![t].want = set],
           UNCHANGED <<link, starting, heard>>
    PROVE  IInv'
  <1> USE DEF IInv
  <1>1. /\ \A v \in Threads : v # t => thread'[v] = thread[v] /\ ahead'[v] = ahead[v]
        /\ thread'[t] = [thread[t] EXCEPT !.pc = where, !.want = set]
        /\ ahead'[t] = queue
    BY DEF TypeOK
  <1>2. /\ thread'[t].pc = where /\ thread'[t].want = set /\ thread'[t].sock = thread[t].sock
        /\ thread'[t].recved = thread[t].recved /\ thread'[t].result = thread[t].result
    BY <1>1 DEF TypeOK, ThreadState
  <1>3. TypeOK'
    <2>1. thread'[t] \in ThreadState
      <3>1. thread[t] \in ThreadState
        BY DEF TypeOK
      <3>2. [thread[t] EXCEPT !.pc = where, !.want = set] \in ThreadState
        BY <3>1, ParkedState
      <3> QED BY <1>1, <3>2, Zenon
    <2>2. thread' \in [Threads -> ThreadState]
      BY <2>1 DEF TypeOK
    <2> QED BY <2>2 DEF TypeOK
  <1>4. t \notin queue
    BY DEF List, Suspended
  <1>5. List'
    <2>1. queue' = {v \in Threads : thread'[v].pc \in Suspended}
      <3>1. \A v \in Threads : v \in queue <=> thread[v].pc \in Suspended
        BY DEF List
      <3>2. \A v \in Threads : v \in queue' <=> thread'[v].pc \in Suspended
        BY <1>1, <1>2, <3>1
      <3> QED BY <3>2, <1>3 DEF TypeOK
    <2>2. ASSUME NEW v \in Threads PROVE Wants(v)'
      <3>1. CASE v = t
        BY <3>1, <1>2 DEF Wants, Suspended
      <3>2. CASE v # t
        <4>1. thread'[v] = thread[v] /\ Wants(v)
          BY <3>2, <1>1 DEF List
        <4> QED BY <4>1 DEF Wants
      <3> QED BY <3>1, <3>2
    <2>3. \A v \in queue' : thread'[v].want \cap event' = {}
      BY <1>1, <1>2 DEF List
    <2>4. \A v \in Threads : ahead'[v] \in SUBSET queue'
      BY <1>1 DEF List
    <2>5. ASSUME NEW v \in queue', NEW w \in queue', v # w
          PROVE  v \in ahead'[w] <=> w \notin ahead'[v]
      <3>1. CASE v = t
        BY <3>1, <2>5, <1>1, <1>4 DEF List, TypeOK
      <3>2. CASE w = t
        BY <3>2, <2>5, <1>1, <1>4 DEF List, TypeOK
      <3>3. CASE v # t /\ w # t
        BY <3>3, <2>5, <1>1 DEF List, TypeOK
      <3> QED BY <3>1, <3>2, <3>3
    <2> QED BY <2>1, <2>2, <2>3, <2>4, <2>5 DEF List
  <1>6. ASSUME NEW v \in Threads PROVE Reported(v)'
    <2>1. CASE v = t
      <3>1. Reported(t)
        OBVIOUS
      <3> QED BY <3>1, <2>1, <1>2 DEF Reported, HeardOk, HeardBit, Active, Suspended
    <2>2. CASE v # t
      <3>1. thread'[v] = thread[v] /\ Reported(v)
        BY <2>2, <1>1
      <3> QED BY <3>1 DEF Reported, HeardOk, HeardBit
    <2> QED BY <2>1, <2>2
  <1> QED BY <1>3, <1>5, <1>6

\* The timer: t leaves the list, those behind it move up.
LEMMA TimeoutStep ==
    ASSUME IInv, NEW t \in Threads, EventTimeout(t)
    PROVE  IInv'
  <1> USE DEF IInv
  <1>1. /\ \A v \in Threads : v # t => thread'[v] = thread[v] /\ ahead'[v] = ahead[v] \ {t}
        /\ thread'[t] = [thread[t] EXCEPT !.pc = "exit", !.want = {}, !.result = "ETIMEOUT"]
        /\ ahead'[t] = {}
    BY DEF TypeOK, EventTimeout
  <1>2. thread'[t].pc = "exit" /\ thread'[t].want = {} /\ thread'[t].result = "ETIMEOUT"
    BY <1>1 DEF TypeOK, ThreadState
  <1>3. TypeOK'
    <2>1. thread'[t] \in ThreadState
      <3>1. thread[t] \in ThreadState
        BY DEF TypeOK
      <3> QED BY <1>1, <3>1 DEF ThreadState
    <2>2. thread' \in [Threads -> ThreadState]
      BY <2>1 DEF TypeOK, EventTimeout
    <2> QED BY <2>2 DEF TypeOK, EventTimeout
  <1>4. List'
    <2>1. queue' = {v \in Threads : thread'[v].pc \in Suspended}
      <3>1. queue' = queue \ {t} /\ queue = {v \in Threads : thread[v].pc \in Suspended}
        BY DEF List, EventTimeout
      <3>2. thread'[t].pc \notin Suspended
        BY <1>2 DEF Suspended
      <3>3. \A v \in Threads : v # t => thread'[v] = thread[v]
        BY <1>1
      <3> HIDE DEF IInv
      <3> QED BY <3>1, <3>2, <3>3
    <2>2. ASSUME NEW v \in Threads PROVE Wants(v)'
      <3>1. CASE v = t
        BY <3>1, <1>2 DEF Wants
      <3>2. CASE v # t
        <4>1. thread'[v] = thread[v] /\ Wants(v)
          BY <3>2, <1>1 DEF List
        <4> QED BY <4>1 DEF Wants
      <3> QED BY <3>1, <3>2
    <2>3. \A v \in queue' : thread'[v].want \cap event' = {}
      BY <1>1, <1>2 DEF List, EventTimeout
    <2>4. \A v \in Threads : ahead'[v] \in SUBSET queue'
      BY <1>1 DEF List, EventTimeout
    <2>5. \A v, w \in queue' : v # w => (v \in ahead'[w] <=> w \notin ahead'[v])
      BY <1>1 DEF List, EventTimeout, TypeOK
    <2> QED BY <2>1, <2>2, <2>3, <2>4, <2>5 DEF List
  <1>5. ASSUME NEW v \in Threads PROVE Reported(v)'
    <2>1. CASE v = t
      BY <2>1, <1>2 DEF Reported, Active
    <2>2. CASE v # t
      <3>1. thread'[v] = thread[v] /\ Reported(v) /\ event' = event /\ heard' = heard
        BY <2>2, <1>1 DEF EventTimeout
      <3> QED BY <3>1 DEF Reported, HeardOk, HeardBit
    <2> QED BY <2>1, <2>2
  <1> QED BY <1>3, <1>4, <1>5

\* The state of a thread that rt_event_send takes off the list.
LEMMA WokenState ==
    ASSUME NEW r \in ThreadState, NEW got \in SUBSET Bits
    PROVE  [r EXCEPT !.pc = IF @ = "suspend1" THEN "wait2" ELSE "check",
                     !.want = {}, !.recved = got] \in ThreadState
  BY DEF ThreadState

\* rt_event_send by a URC handler: the threads that get a bit leave the list, and
\* no bit is left set that one of those who stay waits for.
LEMMA SendStep ==
    ASSUME IInv, NEW s \in Sockets, NEW x \in {CONN_OK, CONN_FAIL, SEND_FAIL},
           rt_event_send(SET_EVENT(s, {x})), Hear(s, x),
           link' \in [Sockets -> BOOLEAN], starting' \in [Sockets -> BOOLEAN]
    PROVE  IInv'
  <1> DEFINE set   == SET_EVENT(s, {x})
             got(t) == Taken(t, set)
             woken == {t \in queue : got(t) # {}}
             wake(t) == [thread[t] EXCEPT !.pc = IF @ = "suspend1" THEN "wait2" ELSE "check",
                                          !.want = {}, !.recved = got(t)]
  <1>1. set \in SUBSET Bits
    <2>1. s \in 0..7
      BY SocketsAssumption
    <2>2. SocketBits(s) \in SUBSET (16..19)
      BY <2>1, SocketBitsFacts
    <2> QED BY <2>2 DEF SET_EVENT, Bits
  <1>2. \A t \in Threads : got(t) \in SUBSET Bits
    BY <1>1 DEF Taken, IInv, TypeOK
  <1>3. /\ event' = (event \cup set) \ UNION {thread[t].want : t \in queue}
        /\ queue' = queue \ woken
        /\ \A t \in Threads : ahead'[t] = IF t \in woken THEN {} ELSE ahead[t] \ woken
        /\ \A t \in Threads : thread'[t] = IF t \in woken THEN wake(t) ELSE thread[t]
    BY DEF rt_event_send
  <1>4. /\ ahead' = [t \in Threads |-> ahead'[t]]
        /\ thread' = [t \in Threads |-> thread'[t]]
    BY DEF rt_event_send
  <1>5. woken \in SUBSET queue /\ queue \in SUBSET Threads
    BY DEF IInv, TypeOK
  <1>6. ASSUME NEW t \in woken
        PROVE  /\ thread'[t].pc = IF thread[t].pc = "suspend1" THEN "wait2" ELSE "check"
               /\ thread'[t].want = {} /\ thread'[t].recved = got(t)
               /\ thread'[t].sock = thread[t].sock /\ thread'[t].result = thread[t].result
    <2>1. thread[t] \in ThreadState /\ thread'[t] = wake(t)
      BY <1>3, <1>5, <1>6 DEF IInv, TypeOK
    <2> HIDE DEF got
    <2> QED BY <2>1 DEF ThreadState
  <1>7. TypeOK'
    <2>1. ASSUME NEW t \in Threads PROVE thread'[t] \in ThreadState
      <3>1. thread[t] \in ThreadState
        BY DEF IInv, TypeOK
      <3>2. wake(t) \in ThreadState
        BY <3>1, <1>2, WokenState
      <3> HIDE DEF wake, woken
      <3> QED BY <3>1, <3>2, <1>3
    <2>2. thread' \in [Threads -> ThreadState]
      BY <2>1, <1>4
    <2>3. event' \in SUBSET Bits /\ queue' \in SUBSET Threads
      BY <1>1, <1>3, <1>5 DEF IInv, TypeOK
    <2>4. ahead' \in [Threads -> SUBSET Threads]
      <3>1. \A t \in Threads : ahead'[t] \in SUBSET Threads
        BY <1>3 DEF IInv, TypeOK
      <3> QED BY <3>1, <1>4
    <2>5. heard' \in [Threads -> SUBSET (Sockets \X {CONN_OK, CONN_FAIL, SEND_FAIL})]
      BY DEF Hear, IInv, TypeOK
    <2> QED BY <2>2, <2>3, <2>4, <2>5 DEF TypeOK
  <1>8. List'
    <2>1. queue' = {t \in Threads : thread'[t].pc \in Suspended}
      <3>1. \A t \in Threads : t \in queue <=> thread[t].pc \in Suspended
        BY DEF IInv, List
      <3>2. ASSUME NEW t \in Threads PROVE t \in queue' <=> thread'[t].pc \in Suspended
        <4>1. CASE t \in woken
          <5>1. thread'[t].pc \in {"wait2", "check"}
            BY <4>1, <1>6
          <5> QED BY <5>1, <4>1, <1>3 DEF Suspended
        <4>2. CASE t \notin woken
          <5>1. thread'[t] = thread[t]
            BY <4>2, <1>3
          <5> QED BY <5>1, <4>2, <3>1, <1>3
        <4> QED BY <4>1, <4>2
      <3> QED BY <3>2, <1>7 DEF TypeOK
    <2>2. ASSUME NEW t \in Threads PROVE Wants(t)'
      <3>1. CASE t \in woken
        <4>1. thread'[t].pc \in {"wait2", "check"} /\ thread'[t].want = {}
          BY <3>1, <1>6
        <4> QED BY <4>1 DEF Wants
      <3>2. CASE t \notin woken
        <4>1. thread'[t] = thread[t] /\ Wants(t)
          BY <3>2, <1>3 DEF IInv, List
        <4> QED BY <4>1 DEF Wants
      <3> QED BY <3>1, <3>2
    <2>3. ASSUME NEW t \in queue' PROVE thread'[t].want \cap event' = {}
      <3>1. t \in queue /\ t \in Threads /\ thread'[t] = thread[t]
        BY <1>3, <1>5
      <3> QED BY <3>1, <1>3
    <2>4. \A t \in Threads : ahead'[t] \in SUBSET queue'
      <3>1. \A t \in Threads : ahead[t] \in SUBSET queue
        BY DEF IInv, List
      <3> HIDE DEF woken
      <3>2. ASSUME NEW t \in Threads PROVE ahead'[t] \in SUBSET queue'
        BY <3>1, <3>2, <1>3
      <3> QED BY <3>2
    <2>5. \A t, v \in queue' : t # v => (t \in ahead'[v] <=> v \notin ahead'[t])
      <3>1. \A t, v \in queue : t # v => (t \in ahead[v] <=> v \notin ahead[t])
        BY DEF IInv, List
      <3> HIDE DEF woken
      <3>2. ASSUME NEW t \in queue', NEW v \in queue', t # v
            PROVE  t \in ahead'[v] <=> v \notin ahead'[t]
        <4>1. /\ t \in queue /\ v \in queue /\ t \notin woken /\ v \notin woken
              /\ t \in Threads /\ v \in Threads
          BY <1>3, <1>5
        <4>2. ahead'[t] = ahead[t] \ woken /\ ahead'[v] = ahead[v] \ woken
          BY <4>1, <1>3
        <4> QED BY <3>1, <3>2, <4>1, <4>2
      <3> QED BY <3>2
    <2> QED BY <2>1, <2>2, <2>3, <2>4, <2>5 DEF List
  <1>9. ASSUME NEW t \in Threads PROVE Reported(t)'
    <2>1. heard'[t] = IF thread[t].pc \in {"idle", "clear", "exit"} THEN heard[t]
                      ELSE heard[t] \cup {<<s, x>>}
      BY DEF Hear
    <2>2. heard[t] \in SUBSET heard'[t]
      BY <2>1
    <2>3. thread[t].pc \in Active => <<s, x>> \in heard'[t]
      BY <2>1 DEF Active
    <2>4. HeardOk(t) => HeardOk(t)'
      BY <2>2 DEF HeardOk
    <2>5. thread'[t].sock = thread[t].sock /\ thread'[t].result = thread[t].result
      BY <1>3, <1>6
    <2>6. HeardBit(t) => HeardBit(t)'
      BY <2>2, <2>5 DEF HeardBit
    <2>7. SocketBits(thread[t].sock) # {} /\ SocketBits(thread[t].sock) \in SUBSET (16..19)
      BY OwnBits DEF IInv
    <2>8. thread[t].pc \in Active /\ CONN_OK \in set => HeardOk(t)'
      <3>1. s \in 0..7
        BY SocketsAssumption
      <3>2. SocketBits(s) \in SUBSET (16..19)
        BY <3>1, SocketBitsFacts
      <3>3. CONN_OK \in set => x = CONN_OK
        BY <3>2 DEF SET_EVENT, CONN_OK
      <3> QED BY <3>3, <2>3 DEF HeardOk
    <2>9. thread[t].pc \in Active /\ SocketBits(thread[t].sock) \cap set # {} => HeardBit(t)'
      <3> SUFFICES ASSUME thread[t].pc \in Active, SocketBits(thread[t].sock) \cap set # {}
                   PROVE  HeardBit(t)'
        OBVIOUS
      <3>1. SocketBits(s) \cap SocketBits(thread[t].sock) # {}
        BY <2>7 DEF SET_EVENT, CONN_OK, CONN_FAIL, SEND_FAIL
      <3>2. <<s, x>> \in heard'[t] /\ <<s, x>>[1] = s
        BY <2>3
      <3>3. SocketBits(<<s, x>>[1]) \cap SocketBits(thread'[t].sock) # {}
        BY <3>1, <3>2, <2>5
      <3> QED BY <3>2, <3>3, Zenon DEF HeardBit
    <2>10. Reported(t)
      BY DEF IInv
    <2>11. event' \in SUBSET (event \cup set)
      BY <1>3
    <2>12. thread[t].pc \in Active => /\ CONN_OK \in event \cup set => HeardOk(t)'
                                      /\ SocketBits(thread[t].sock) \cap (event \cup set) # {}
                                           => HeardBit(t)'
      BY <2>4, <2>6, <2>8, <2>9, <2>10 DEF Reported
    <2> HIDE DEF set
    <2>13. CASE t \in woken
      <3>1. /\ thread[t].pc \in Suspended
            /\ got(t) # {} /\ got(t) \in SUBSET (thread[t].want \cap (event \cup set))
            /\ Wants(t)
        BY <2>13 DEF IInv, List, Taken
      <3>2. thread[t].pc \in Active
        BY <3>1 DEF Active, Suspended
      <3> HIDE DEF got, woken
      <3>3. CASE thread[t].pc = "suspend1"
        <4>1. HeardBit(t)'
          BY <3>1, <3>2, <3>3, <2>12 DEF Wants
        <4>2. thread'[t].pc = "wait2"
          BY <3>3, <2>13, <1>6
        <4>3. thread[t].result = "none"
          BY <3>3, <2>10 DEF Reported
        <4> QED BY <4>1, <4>2, <4>3, <2>5, <2>11, <2>12, <3>2 DEF Reported
      <3>4. CASE thread[t].pc = "suspend2"
        <4>1. thread'[t].pc = "check" /\ thread'[t].recved = got(t)
          BY <3>4, <2>13, <1>6
        <4>2. got(t) \in SUBSET {CONN_OK, CONN_FAIL} /\ got(t) \in SUBSET (event \cup set)
          BY <3>1, <3>4 DEF Wants
        <4>3. thread[t].result = "none" /\ HeardBit(t)'
          BY <3>4, <2>6, <2>10 DEF Reported
        <4>4. CONN_OK \in got(t) => HeardOk(t)'
          BY <4>2, <2>12, <3>2
        <4> QED BY <4>1, <4>2, <4>3, <4>4, <3>1, <3>2, <2>5, <2>11, <2>12 DEF Reported
      <3> QED BY <3>1, <3>3, <3>4 DEF Suspended
    <2>14. CASE t \notin woken
      <3>1. thread'[t] = thread[t]
        BY <2>14, <1>3
      <3> HIDE DEF woken
      <3> QED BY <3>1, <2>4, <2>6, <2>10, <2>11, <2>12 DEF Reported
    <2> QED BY <2>13, <2>14
  <1> QED BY <1>7, <1>8, <1>9 DEF IInv

-----------------------------------------------------------------------------
\* The waits: a bit that is set is taken at once, otherwise the thread is suspended.
LEMMA WaitSocketStep ==
    ASSUME IInv, NEW t \in Threads, WaitSocket(t)
    PROVE  IInv'
  <1> DEFINE set == SocketBits(thread[t].sock)
  <1>1. set \in SUBSET Bits /\ set # {} /\ SET_EVENT(thread[t].sock, {}) = set
    BY OwnBits DEF IInv, Bits, SET_EVENT
  <1>2. thread[t] \in ThreadState /\ thread[t].pc = "wait1" /\ Reported(t)
    BY DEF IInv, TypeOK, WaitSocket
  <1> HIDE DEF set
  <1>3. CASE event \cap set # {}
    <2> DEFINE r == [thread[t] EXCEPT !.pc = "wait2", !.recved = event \cap set]
    <2>1. /\ thread' = [thread EXCEPT ![t] = r] /\ event' = event \ set
          /\ UNCHANGED <<queue, ahead, link, starting, heard>>
      BY <1>1, <1>2, <1>3 DEF WaitSocket, rt_event_recv, IInv, TypeOK
    <2>2. thread[t].want = {}
      BY <1>2 DEF IInv, List, Wants
    <2>3. /\ r.pc = "wait2" /\ r.sock = thread[t].sock /\ r.want = {} /\ r.recved = event \cap set
          /\ r.result = thread[t].result
      BY <1>2, <2>2 DEF ThreadState
    <2>4. thread'[t] = r
      BY <2>1 DEF IInv, TypeOK
    <2>5. Reported(t)'
      BY <1>2, <1>3, <2>1, <2>3, <2>4 DEF Reported, HeardOk, HeardBit, Active, set
    <2>6. r \in FreeState
      <3>1. "wait2" \in FreePlaces /\ event \cap set \in SUBSET Bits
        BY <1>1 DEF FreePlaces
      <3> QED BY <1>2, <2>2, <3>1, FreeStateGot
    <2> HIDE DEF r
    <2> QED BY <1>2, <2>1, <2>5, <2>6, LocalStep DEF IInv, TypeOK, Suspended
  <1>4. CASE event \cap set = {}
    <2>1. /\ thread' = [thread EXCEPT ![t].pc = "suspend1", ![t].want = set]
          /\ queue' = queue \cup {t} /\ ahead' = [ahead EXCEPT ![t] = queue]
          /\ UNCHANGED <<event, link, starting, heard>>
      BY <1>1, <1>4 DEF WaitSocket, rt_event_recv
    <2> QED BY <1>1, <1>2, <1>4, <2>1, SuspendStep DEF Suspended, set
  <1> QED BY <1>3, <1>4

\* A thread waits for the result of its AT+CIPSTART.
LEMMA WaitResultStep ==
    ASSUME IInv, NEW t \in Threads, WaitResult(t)
    PROVE  IInv'
  <1> DEFINE set == {CONN_OK, CONN_FAIL}
  <1>1. set \in SUBSET Bits
    BY DEF Bits
  <1>2. thread[t] \in ThreadState /\ thread[t].pc = "wait2" /\ Reported(t)
    BY DEF IInv, TypeOK, WaitResult
  <1>3. CASE event \cap set # {}
    <2> DEFINE r == [thread[t] EXCEPT !.pc = "check", !.recved = event \cap set]
    <2>1. /\ thread' = [thread EXCEPT ![t] = r] /\ event' = event \ set
          /\ UNCHANGED <<queue, ahead, link, starting, heard>>
      BY <1>2, <1>3 DEF WaitResult, rt_event_recv, IInv, TypeOK
    <2>2. thread[t].want = {}
      BY <1>2 DEF IInv, List, Wants
    <2>3. /\ r.pc = "check" /\ r.sock = thread[t].sock /\ r.want = {} /\ r.recved = event \cap set
          /\ r.result = thread[t].result
      BY <1>2, <2>2 DEF ThreadState
    <2>4. thread'[t] = r
      BY <2>1 DEF IInv, TypeOK
    <2>5. Reported(t)'
      BY <1>2, <1>3, <2>1, <2>3, <2>4 DEF Reported, HeardOk, HeardBit, Active
    <2>6. r \in FreeState
      <3>1. "check" \in FreePlaces /\ event \cap set \in SUBSET Bits
        BY <1>1 DEF FreePlaces
      <3> QED BY <1>2, <2>2, <3>1, FreeStateGot
    <2> HIDE DEF r
    <2> QED BY <1>2, <2>1, <2>5, <2>6, LocalStep DEF IInv, TypeOK, Suspended
  <1>4. CASE event \cap set = {}
    <2>1. /\ thread' = [thread EXCEPT ![t].pc = "suspend2", ![t].want = set]
          /\ queue' = queue \cup {t} /\ ahead' = [ahead EXCEPT ![t] = queue]
          /\ UNCHANGED <<event, link, starting, heard>>
      BY <1>4 DEF WaitResult, rt_event_recv
    <2> QED BY <1>1, <1>2, <1>4, <2>1, SuspendStep DEF Suspended
  <1> QED BY <1>3, <1>4

-----------------------------------------------------------------------------
\* The other steps of a9g_socket_connect.
LEMMA FreeStateMoved ==
    ASSUME NEW r \in ThreadState, r.want = {}, NEW where \in FreePlaces,
           NEW again \in BOOLEAN, NEW res \in {"none", "EOK", "ERROR", "ETIMEOUT"}
    PROVE  /\ [r EXCEPT !.pc = where] \in FreeState
           /\ [r EXCEPT !.pc = where, !.retryed = again] \in FreeState
           /\ [r EXCEPT !.pc = where, !.result = res] \in FreeState
  BY DEF ThreadState, FreeState, FreePlaces

\* a9g_socket_connect is called.
LEMMA ConnectCallStep ==
    ASSUME IInv, NEW t \in Threads, NEW s \in Sockets, ConnectCall(t, s)
    PROVE  IInv'
  <1> DEFINE r == [Idle EXCEPT !.pc = "clear", !.sock = s]
  <1>1. r \in FreeState /\ r.pc = "clear" /\ r.result = "none"
    BY DEF Idle, FreeState, FreePlaces
  <1>2. /\ thread' = [thread EXCEPT ![t] = r] /\ thread[t].pc = "idle"
        /\ UNCHANGED <<event, queue, ahead, link, starting, heard>>
    BY DEF ConnectCall
  <1> HIDE DEF r
  <1>3. thread'[t] = r
    BY <1>2 DEF IInv, TypeOK
  <1>4. Reported(t)'
    BY <1>1, <1>3 DEF Reported, Active
  <1> QED BY <1>1, <1>2, <1>4, LocalStep DEF IInv, TypeOK, Suspended

\* The events of the socket are cleared before an attempt.
LEMMA ClearEventsStep ==
    ASSUME IInv, NEW t \in Threads, ClearEvents(t)
    PROVE  IInv'
  <1> DEFINE r == [thread[t] EXCEPT !.pc = "start"]
             bits == SocketBits(thread[t].sock)
  <1>1. thread[t] \in ThreadState /\ thread[t].pc = "clear" /\ Reported(t) /\ thread[t].want = {}
    BY DEF IInv, TypeOK, List, Wants, ClearEvents
  <1>2. r \in FreeState
    <2>1. "start" \in FreePlaces
      BY DEF FreePlaces
    <2> QED BY <1>1, <2>1, FreeStateMoved
  <1>3. r.pc = "start" /\ r.sock = thread[t].sock /\ r.result = thread[t].result
    BY <1>1 DEF ThreadState
  <1>4. /\ thread' = [thread EXCEPT ![t] = r] /\ event' = event \ (bits \cup {CONN_OK, CONN_FAIL})
        /\ heard' = [heard EXCEPT ![t] = {}] /\ UNCHANGED <<queue, ahead, link, starting>>
    BY DEF ClearEvents, Goto, SET_EVENT, IInv, TypeOK
  <1> HIDE DEF r
  <1>5. thread'[t] = r
    BY <1>4 DEF IInv, TypeOK
  <1>6. thread[t].result = "none"
    BY <1>1 DEF Reported
  <1>7. CONN_OK \notin event' /\ SocketBits(thread'[t].sock) \cap event' = {}
    BY <1>3, <1>4, <1>5
  <1>8. Reported(t)'
    BY <1>3, <1>5, <1>6, <1>7 DEF Reported
  <1>9. /\ heard' \in [Threads -> SUBSET (Sockets \X {CONN_OK, CONN_FAIL, SEND_FAIL})]
        /\ \A v \in Threads \ {t} : heard'[v] = heard[v]
        /\ link' \in [Sockets -> BOOLEAN] /\ starting' \in [Sockets -> BOOLEAN]
        /\ event' \in SUBSET event
    BY <1>4 DEF IInv, TypeOK
  <1>10. thread[t].pc \notin Suspended
    BY <1>1 DEF Suspended
  <1> QED BY <1>2, <1>4, <1>8, <1>9, <1>10, LocalStep

\* AT+CIPSTART goes out.
LEMMA CipStartStep ==
    ASSUME IInv, NEW t \in Threads, CipStart(t)
    PROVE  IInv'
  <1> DEFINE r == [thread[t] EXCEPT !.pc = "wait1"]
  <1>1. thread[t] \in ThreadState /\ thread[t].pc = "start" /\ Reported(t) /\ thread[t].want = {}
    BY DEF IInv, TypeOK, List, Wants, CipStart
  <1>2. r \in FreeState
    <2>1. "wait1" \in FreePlaces
      BY DEF FreePlaces
    <2> QED BY <1>1, <2>1, FreeStateMoved
  <1>3. r.pc = "wait1" /\ r.sock = thread[t].sock /\ r.result = thread[t].result
    BY <1>1 DEF ThreadState
  <1>4. /\ thread' = [thread EXCEPT ![t] = r]
        /\ UNCHANGED <<event, queue, ahead, link, heard>>
    BY DEF CipStart, Goto, IInv, TypeOK
  <1> HIDE DEF r
  <1>5. thread'[t] = r
    BY <1>4 DEF IInv, TypeOK
  <1>6. Reported(t)'
    BY <1>1, <1>3, <1>4, <1>5 DEF Reported, HeardOk, HeardBit, Active
  <1>7. /\ starting' \in [Sockets -> BOOLEAN] /\ thread[t].pc \notin Suspended
        /\ link' \in [Sockets -> BOOLEAN]
        /\ heard' \in [Threads -> SUBSET (Sockets \X {CONN_OK, CONN_FAIL, SEND_FAIL})]
    BY <1>1, <1>4 DEF CipStart, IInv, TypeOK, Suspended
  <1> QED BY <1>2, <1>4, <1>6, <1>7, LocalStep

\* Success is decided on what the two waits received.
LEMMA CheckOkStep ==
    ASSUME IInv, NEW t \in Threads, CheckOk(t)
    PROVE  IInv'
  <1> DEFINE r == [thread[t] EXCEPT !.pc = "exit", !.result = "EOK"]
  <1>1. thread[t] \in ThreadState /\ thread[t].pc = "check" /\ Reported(t) /\ thread[t].want = {}
    BY DEF IInv, TypeOK, List, Wants, CheckOk
  <1>2. r \in FreeState
    <2>1. "exit" \in FreePlaces
      BY DEF FreePlaces
    <2> QED BY <1>1, <2>1, FreeStateMoved
  <1>3. r.pc = "exit" /\ r.sock = thread[t].sock /\ r.result = "EOK"
    BY <1>1 DEF ThreadState
  <1>4. /\ thread' = [thread EXCEPT ![t] = r]
        /\ UNCHANGED <<event, queue, ahead, link, starting, heard>>
    BY DEF CheckOk, Done, IInv, TypeOK
  <1> HIDE DEF r
  <1>5. thread'[t] = r
    BY <1>4 DEF IInv, TypeOK
  <1>6. HeardOk(t) /\ HeardBit(t)
    <2>1. CONN_OK \in thread[t].recved
      BY <1>1 DEF Reported, CheckOk
    <2> QED BY <2>1, <1>1 DEF Reported
  <1>7. Reported(t)'
    BY <1>3, <1>4, <1>5, <1>6 DEF Reported, HeardOk, HeardBit, Active
  <1> QED BY <1>1, <1>2, <1>4, <1>7, LocalStep DEF IInv, TypeOK, Suspended

\* Both ends of a failure: the call ends with an error, or it starts again.
LEMMA CheckNotOkStep ==
    ASSUME IInv, NEW t \in Threads, CheckRetry(t) \/ CheckFail(t)
    PROVE  IInv'
  <1>1. thread[t] \in ThreadState /\ thread[t].pc = "check" /\ Reported(t) /\ thread[t].want = {}
    BY DEF IInv, TypeOK, List, Wants, CheckRetry, CheckFail
  <1>2. /\ UNCHANGED <<event, queue, ahead, starting, heard>> /\ link' \in [Sockets -> BOOLEAN]
        /\ thread[t].pc \notin Suspended
    BY <1>1 DEF CheckRetry, CheckFail, IInv, TypeOK, Suspended
  <1>3. ASSUME NEW r \in FreeState, thread' = [thread EXCEPT ![t] = r],
               r.pc \in {"clear", "exit"}, r.result \in {"none", "ERROR"},
               r.result = "ERROR" => r.pc = "exit"
        PROVE  IInv'
    <2>1. thread'[t] = r
      BY <1>3 DEF IInv, TypeOK
    <2>2. Reported(t)'
      BY <1>3, <2>1 DEF Reported, Active
    <2> QED BY <1>2, <1>3, <2>2, LocalStep DEF IInv, TypeOK
  <1>4. CASE thread' = [thread EXCEPT ![t].pc = "exit", ![t].result = "ERROR"]
    <2> DEFINE r == [thread[t] EXCEPT !.pc = "exit", !.result = "ERROR"]
    <2>1. r \in FreeState
      <3>1. "exit" \in FreePlaces
        BY DEF FreePlaces
      <3> QED BY <1>1, <3>1, FreeStateMoved
    <2>2. thread' = [thread EXCEPT ![t] = r] /\ r.pc = "exit" /\ r.result = "ERROR"
      BY <1>1, <1>4 DEF IInv, TypeOK, ThreadState
    <2> QED BY <2>1, <2>2, <1>3
  <1>5. CASE thread' = [thread EXCEPT ![t].pc = "clear", ![t].retryed = TRUE]
    <2> DEFINE r == [thread[t] EXCEPT !.pc = "clear", !.retryed = TRUE]
    <2>1. r \in FreeState
      <3>1. "clear" \in FreePlaces
        BY DEF FreePlaces
      <3> QED BY <1>1, <3>1, FreeStateMoved
    <2>2. /\ thread' = [thread EXCEPT ![t] = r] /\ r.pc = "clear"
          /\ r.result = thread[t].result
      BY <1>1, <1>5 DEF IInv, TypeOK, ThreadState
    <2>3. thread[t].result = "none"
      BY <1>1 DEF Reported
    <2> QED BY <2>1, <2>2, <2>3, <1>3
  <1> QED BY <1>4, <1>5 DEF CheckRetry, CheckFail, Done

\* a9g_socket_connect returns.
LEMMA ConnectReturnStep ==
    ASSUME IInv, NEW t \in Threads, ConnectReturn(t)
    PROVE  IInv'
  <1>1. Idle \in FreeState /\ Idle.pc = "idle" /\ Idle.result = "none"
    BY DEF Idle, FreeState, FreePlaces
  <1>2. thread'[t] = Idle
    BY DEF ConnectReturn, IInv, TypeOK
  <1>3. Reported(t)'
    BY <1>1, <1>2 DEF Reported, Active
  <1>4. /\ heard' \in [Threads -> SUBSET (Sockets \X {CONN_OK, CONN_FAIL, SEND_FAIL})]
        /\ \A v \in Threads \ {t} : heard'[v] = heard[v]
        /\ link' \in [Sockets -> BOOLEAN] /\ starting' \in [Sockets -> BOOLEAN]
        /\ thread[t].pc \notin Suspended
        /\ thread' = [thread EXCEPT ![t] = Idle] /\ UNCHANGED <<event, queue, ahead>>
    BY DEF ConnectReturn, IInv, TypeOK, Suspended
  <1> QED BY <1>1, <1>3, <1>4, LocalStep

\* Steps of the modem or of a close that send no event.
LEMMA LinkStep ==
    ASSUME IInv, UNCHANGED <<event, queue, ahead, thread, heard>>,
           link' \in [Sockets -> BOOLEAN], starting' \in [Sockets -> BOOLEAN]
    PROVE  IInv'
  <1>1. TypeOK'
    BY DEF IInv, TypeOK
  <1>2. List'
    BY DEF IInv, List, Wants
  <1>3. ASSUME NEW t \in Threads PROVE Reported(t)'
    BY <1>3 DEF IInv, Reported, HeardOk, HeardBit
  <1> QED BY <1>1, <1>2, <1>3 DEF IInv

\* The module reports on a link, or a link is closed.
LEMMA ModemStep ==
    ASSUME IInv, NEW s \in Sockets, Modem(s) \/ a9g_socket_close(s)
    PROVE  IInv'
  <1>1. link' \in [Sockets -> BOOLEAN] /\ starting' \in [Sockets -> BOOLEAN]
    BY DEF IInv, TypeOK, Modem, a9g_socket_close, urc_connect_ok, urc_connect_fail,
           urc_send_func, ModemSilent
  <1>2. CASE urc_connect_ok(s)
    BY <1>1, <1>2, SendStep DEF urc_connect_ok
  <1>3. CASE urc_connect_fail(s)
    BY <1>1, <1>3, SendStep DEF urc_connect_fail
  <1>4. CASE urc_send_func(s)
    BY <1>1, <1>4, SendStep DEF urc_send_func
  <1>5. CASE ModemSilent(s) \/ a9g_socket_close(s)
    BY <1>1, <1>5, LinkStep DEF ModemSilent, a9g_socket_close
  <1> QED BY <1>2, <1>3, <1>4, <1>5 DEF Modem

-----------------------------------------------------------------------------
\* Every step keeps the invariant.
LEMMA StepIInv == IInv /\ [Next]_vars => IInv'
  <1> SUFFICES ASSUME IInv, [Next]_vars PROVE IInv'
    OBVIOUS
  <1>1. CASE UNCHANGED vars
    BY <1>1, StutterIInv
  <1>2. ASSUME NEW t \in Threads, ConnectStep(t) PROVE IInv'
    BY <1>2, ClearEventsStep, CipStartStep, WaitSocketStep, WaitResultStep, TimeoutStep,
       CheckOkStep, CheckNotOkStep, ConnectReturnStep DEF ConnectStep
  <1>3. ASSUME NEW t \in Threads, NEW s \in Sockets, ConnectCall(t, s) PROVE IInv'
    BY <1>3, ConnectCallStep
  <1>4. ASSUME NEW s \in Sockets, Modem(s) \/ a9g_socket_close(s) PROVE IInv'
    BY <1>4, ModemStep
  <1> QED BY <1>1, <1>2, <1>3, <1>4 DEF Next

\* The inductive invariant holds in every reachable state.
LEMMA Invariance == Spec => []IInv
  BY InitIInv, StepIInv, PTL DEF Spec

\* The invariant contains the properties.
LEMMA IInvImplies == IInv => TypeOK /\ NoLostEvent /\ SuccessIsFresh
  <1> SUFFICES ASSUME IInv PROVE TypeOK /\ NoLostEvent /\ SuccessIsFresh
    OBVIOUS
  <1>1. TypeOK
    BY DEF IInv
  <1>2. ASSUME NEW t \in queue PROVE thread[t].want # {}
    <2>1. t \in Threads /\ thread[t].pc \in Suspended /\ Wants(t)
      BY DEF IInv, List
    <2>2. SocketBits(thread[t].sock) # {}
      BY <1>1, <2>1, OwnBits
    <2> QED BY <2>1, <2>2 DEF Wants, Suspended
  <1>3. NoLostEvent
    BY <1>2 DEF NoLostEvent, IInv, List, Suspended
  <1>4. SuccessIsFresh
    BY DEF SuccessIsFresh, IInv, Reported, HeardOk, HeardBit
  <1> QED BY <1>1, <1>3, <1>4

\* Types of the connect machinery, for every number of threads and of sockets.
THEOREM TypeCorrect == Spec => []TypeOK
  BY Invariance, IInvImplies, PTL

\* The shared event object never leaves a thread suspended although a bit it waits
\* for is set, however many threads connect, time out and are woken in any order.
THEOREM EventsNotLost == Spec => []NoLostEvent
  BY Invariance, IInvImplies, PTL

\* a9g_socket_connect never returns success on events left from before it cleared
\* them, whichever threads share the event object.
THEOREM SuccessFresh == Spec => []SuccessIsFresh
  BY Invariance, IInvImplies, PTL
=============================================================================
