------------------------------ MODULE AtClient ------------------------------
(***************************************************************************)
(* The AT command client of the car locator: the threads that issue AT     *)
(* commands (at_obj_exec_cmd, at_client_obj_wait_connect), the parser      *)
(* thread that turns the modem's lines into responses (client_parser), the *)
(* interactive AT console, and the A9G modem at the other end of the UART. *)
(*                                                                         *)
(* Code: rt-thread/components/net/at/src/at_client.c, src/at_cli.c, and    *)
(* rt_sem_take / rt_sem_release of rt-thread/src/ipc.c.                    *)
(*                                                                         *)
(* The parser has a higher priority than every thread that issues a        *)
(* command, so one parsed line is one step; a caller can be preempted by   *)
(* the parser between any two of its own steps.                            *)
(***************************************************************************)
EXTENDS Naturals, Sequences

CONSTANTS
    Callers,    \* threads that issue AT commands
    None,       \* RT_NULL / no owner
    LineNums,   \* the line_num values the callers pass to at_create_resp
    BufLines,   \* lines that fit in a response buffer (buf_size)
    MaxTries,   \* bound: "AT" probes sent by one wait_connect before its time is over
    MaxTx,      \* bound: commands a modem keeps that it has not answered yet
    MaxRx       \* bound: lines on their way to the parser

ASSUME NoneAssumption == None \notin Callers
ASSUME LineNumsAssumption == LineNums \subseteq Nat
ASSUME BoundsAssumption ==
    /\ BufLines \in Nat \ {0}
    /\ MaxTries \in Nat \ {0}
    /\ MaxTx \in Nat \ {0}
    /\ MaxRx \in Nat \ {0}

VARIABLES
    status,       \* client->status: "INITIALIZED" or "CLI"
    lock,         \* owner of the mutex client->lock, or None
    section,      \* the callers that hold the mutex around several commands
    resp,         \* client->resp: the caller whose response object it is, or None
    resp_status,  \* client->resp_status
    resp_notice,  \* value of the semaphore client->resp_notice
    obj,          \* obj[c]: the response object of caller c
    pc,           \* pc[c]: where caller c is
    op,           \* op[c]: the function it runs
    result,       \* result[c]: what that function is about to return
    tries,        \* tries[c]: probes sent by wait_connect so far
    tx,           \* number of commands the modem has not answered yet
    rx,           \* lines sent by the modem and not read yet
    ended,        \* history: ended[c]: the parser saw the end of c's response
    desync        \* history: a command was left before its answer was complete

clientVars == <<status, lock, section, resp, resp_status, resp_notice>>
callerVars == <<obj, pc, op, result, tries>>
modemVars  == <<tx, rx>>
ghostVars  == <<ended, desync>>
vars == <<clientVars, callerVars, modemVars, ghostVars>>

-----------------------------------------------------------------------------
Lines    == {"data", "OK", "ERROR", "urc"}
Statuses == {"OK", "ERROR", "TIMEOUT", "BUFF_FULL"}
Results  == {"none", "EOK", "ERROR", "ETIMEOUT"}
Ops      == {"exec", "noresp", "wait_connect"}

\* A caller that is past rt_mutex_take and before rt_mutex_release.
Inside == {"send", "loop", "take", "wait", "timedout", "taken", "delete", "exit"}
PCs    == Inside \cup {"idle", "lock"}

RespObject == [alive: BOOLEAN, line_num: LineNums \cup {0}, line_counts: Nat]
NoObject   == [alive |-> FALSE, line_num |-> 0, line_counts |-> 0]

\* What the modem may answer to one command; nothing when the command is lost.
Replies == { <<"OK">>, <<"data", "OK">>, <<"ERROR">>, << >> }

Init ==
    /\ status = "INITIALIZED"
    /\ lock = None
    /\ section = {}
    /\ resp = None
    /\ resp_status = "OK"
    /\ resp_notice = 0
    /\ obj = [c \in Callers |-> NoObject]
    /\ pc = [c \in Callers |-> "idle"]
    /\ op = [c \in Callers |-> "exec"]
    /\ result = [c \in Callers |-> "none"]
    /\ tries = [c \in Callers |-> 0]
    /\ tx = 0
    /\ rx = << >>
    /\ ended = [c \in Callers |-> FALSE]
    /\ desync = FALSE

Goto(c, where) == pc' = [pc EXCEPT ![c] = where]
\* A command goes out on the UART; a modem with MaxTx open commands loses it.
Write == tx' = IF tx < MaxTx THEN tx + 1 ELSE tx
Return(c, what) == result' = [result EXCEPT ![c] = what]

-----------------------------------------------------------------------------
(* Response objects: at_create_resp, at_resp_set_info, at_delete_resp.      *)

\* The response object a caller passes on: a new one, or the one it has kept
\* from an earlier command with line_num set anew (buf_len and line_counts stay).
at_create_resp(c, n) ==
    IF obj[c].alive
      THEN [obj[c] EXCEPT !.line_num = n]
      ELSE [alive |-> TRUE, line_num |-> n, line_counts |-> 0]

\* The caller frees its response object once its command has returned.
at_delete_resp(c) ==
    /\ pc[c] = "idle"
    /\ obj[c].alive
    /\ obj' = [obj EXCEPT ![c] = NoObject]
    /\ UNCHANGED <<clientVars, pc, op, result, tries, modemVars, ghostVars>>

-----------------------------------------------------------------------------
(* A caller that needs several commands in a row takes the (recursive)      *)
(* mutex itself, as a9g_socket_send does.                                    *)

SectionTake(c) ==
    /\ pc[c] = "idle"
    /\ lock = None
    /\ lock' = c
    /\ section' = section \cup {c}
    /\ UNCHANGED <<status, resp, resp_status, resp_notice, callerVars, modemVars, ghostVars>>

SectionRelease(c) ==
    /\ pc[c] = "idle"
    /\ c \in section
    /\ lock' = None
    /\ section' = section \ {c}
    /\ UNCHANGED <<status, resp, resp_status, resp_notice, callerVars, modemVars, ghostVars>>

\* The mutex is free, or already owned by c, which takes it a second time.
CanTake(c) == lock \in {None, c}

\* Mutant: a function returns without the release.
ReleasedNever(c) == c

\* The owner after the last release of a function called by c.
Released(c) == IF c \in section THEN c ELSE None

-----------------------------------------------------------------------------
(* at_obj_exec_cmd                                                          *)

\* In console mode a command with a response object returns -RT_EBUSY at once
\* and changes nothing.
ExecBegin(c, n) ==
    /\ pc[c] = "idle"
    /\ status # "CLI"
    /\ obj' = [obj EXCEPT ![c] = at_create_resp(c, n)]
    /\ op' = [op EXCEPT ![c] = "exec"]
    /\ Goto(c, "lock")
    /\ UNCHANGED <<clientVars, result, tries, modemVars, ghostVars>>

\* A command without response object: CIPSTART, or a line typed in the console.
ExecBeginNoResp(c) ==
    /\ pc[c] = "idle"
    /\ op' = [op EXCEPT ![c] = "noresp"]
    /\ Goto(c, "lock")
    /\ UNCHANGED <<clientVars, obj, result, tries, modemVars, ghostVars>>

\* Mutant: the mutex is not waited for.
ExecArmUnlocked(c) ==
    /\ pc[c] = "lock"
    /\ op[c] \in {"exec", "noresp"}
    /\ lock' = c
    /\ resp_status' = "OK"
    /\ resp' = IF op[c] = "exec" THEN c ELSE None
    /\ Goto(c, "send")
    /\ UNCHANGED <<status, section, resp_notice, obj, op, result, tries, modemVars, ghostVars>>

\* The mutex is taken and client->resp set. The parser may run before the
\* response object is emptied, which is why that is part of the next step.
ExecArm(c) ==
    /\ pc[c] = "lock"
    /\ op[c] \in {"exec", "noresp"}
    /\ CanTake(c)
    /\ lock' = c
    /\ resp_status' = "OK"
    /\ resp' = IF op[c] = "exec" THEN c ELSE None
    /\ Goto(c, "send")
    /\ UNCHANGED <<status, section, resp_notice, obj, op, result, tries, modemVars, ghostVars>>

ExecSend(c) ==
    /\ pc[c] = "send"
    /\ op[c] \in {"exec", "noresp"}
    /\ Write
    /\ IF op[c] = "exec"
         THEN /\ obj' = [obj EXCEPT ![c].line_counts = 0]
              /\ Goto(c, "take")
              /\ UNCHANGED <<result, desync>>
         ELSE /\ desync' = TRUE
              /\ Return(c, "EOK")
              /\ Goto(c, "exit")
              /\ UNCHANGED obj
    /\ UNCHANGED <<clientVars, op, tries, rx, ended>>

\* rt_sem_take returned -RT_ETIMEOUT; client->resp is still set.
ExecTimedOut(c) ==
    /\ pc[c] = "timedout"
    /\ op[c] = "exec"
    /\ resp_status' = "TIMEOUT"
    /\ desync' = TRUE
    /\ Return(c, "ETIMEOUT")
    /\ Goto(c, "exit")
    /\ UNCHANGED <<status, lock, section, resp, resp_notice, obj, op, tries, modemVars, ended>>

ExecTaken(c) ==
    /\ pc[c] = "taken"
    /\ op[c] = "exec"
    /\ Return(c, IF resp_status = "OK" THEN "EOK" ELSE "ERROR")
    /\ desync' = (desync \/ obj[c].line_num # 0)
    /\ Goto(c, "exit")
    /\ UNCHANGED <<clientVars, obj, op, tries, modemVars, ended>>

\* Mutant: client->resp is not reset.
ExecExitKeepsResp(c) ==
    /\ pc[c] = "exit"
    /\ lock' = Released(c)
    /\ Goto(c, "idle")
    /\ op' = [op EXCEPT ![c] = "exec"]
    /\ Return(c, "none")
    /\ tries' = [tries EXCEPT ![c] = 0]
    /\ ended' = [ended EXCEPT ![c] = FALSE]
    /\ UNCHANGED <<status, section, resp, resp_status, resp_notice, obj, modemVars, desync>>

\* __exit: client->resp = RT_NULL and the mutex is released. The local variables
\* of the call (op, result, tries and the history ended) end with it.
ExecExit(c) ==
    /\ pc[c] = "exit"
    /\ resp' = None
    /\ lock' = Released(c)
    /\ Goto(c, "idle")
    /\ op' = [op EXCEPT ![c] = "exec"]
    /\ Return(c, "none")
    /\ tries' = [tries EXCEPT ![c] = 0]
    /\ ended' = [ended EXCEPT ![c] = FALSE]
    /\ UNCHANGED <<status, section, resp_status, resp_notice, obj, modemVars, desync>>

-----------------------------------------------------------------------------
(* at_client_obj_wait_connect                                               *)

WaitConnectBegin(c) ==
    /\ pc[c] = "idle"
    /\ obj' = [obj EXCEPT ![c] = [alive |-> TRUE, line_num |-> 0, line_counts |-> 0]]
    /\ op' = [op EXCEPT ![c] = "wait_connect"]
    /\ Goto(c, "lock")
    /\ UNCHANGED <<clientVars, result, tries, modemVars, ghostVars>>

\* Here client->resp_status is left as the previous command set it.
WaitConnectArm(c) ==
    /\ pc[c] = "lock"
    /\ op[c] = "wait_connect"
    /\ CanTake(c)
    /\ lock' = c
    /\ resp' = c
    /\ Goto(c, "loop")
    /\ UNCHANGED <<status, section, resp_status, resp_notice, obj, op, result, tries,
                   modemVars, ghostVars>>

\* The head of the loop: the time is over, or one more "AT" is sent. The time
\* (seconds) cannot be over at the first look, right after start_time was read.
WaitConnectTimeout(c) ==
    /\ pc[c] = "loop"
    /\ tries[c] > 0
    /\ Return(c, "ETIMEOUT")
    /\ desync' = TRUE
    /\ Goto(c, "delete")
    /\ UNCHANGED <<clientVars, obj, op, tries, modemVars, ended>>

WaitConnectProbe(c) ==
    /\ pc[c] = "loop"
    /\ tries[c] < MaxTries
    /\ tries' = [tries EXCEPT ![c] = @ + 1]
    /\ obj' = [obj EXCEPT ![c].line_counts = 0]
    /\ Write
    /\ Goto(c, "take")
    /\ UNCHANGED <<clientVars, op, result, rx, ghostVars>>

\* No answer to this probe in time: continue, with client->resp still set.
WaitConnectRetry(c) ==
    /\ pc[c] = "timedout"
    /\ op[c] = "wait_connect"
    /\ desync' = TRUE
    /\ Goto(c, "loop")
    /\ UNCHANGED <<clientVars, obj, op, result, tries, modemVars, ended>>

WaitConnectTaken(c) ==
    /\ pc[c] = "taken"
    /\ op[c] = "wait_connect"
    /\ Return(c, "EOK")
    /\ Goto(c, "delete")
    /\ UNCHANGED <<clientVars, obj, op, tries, modemVars, ghostVars>>

\* at_delete_resp(resp) comes before client->resp = RT_NULL (and the release
\* of the mutex, which is ExecExit's).
WaitConnectDelete(c) ==
    /\ pc[c] = "delete"
    /\ obj' = [obj EXCEPT ![c] = NoObject]
    /\ Goto(c, "exit")
    /\ UNCHANGED <<clientVars, op, result, tries, modemVars, ghostVars>>

-----------------------------------------------------------------------------
(* The semaphore client->resp_notice                                        *)

\* Mutant: the value is not looked at.
SemTakeUnchecked(c) ==
    /\ pc[c] = "take"
    /\ resp_notice' = resp_notice - 1
    /\ Goto(c, "taken")
    /\ UNCHANGED <<status, lock, section, resp, resp_status, obj, op, result, tries,
                   modemVars, ghostVars>>

rt_sem_take(c) ==
    /\ pc[c] = "take"
    /\ IF resp_notice > 0
         THEN resp_notice' = resp_notice - 1 /\ Goto(c, "taken")
         ELSE Goto(c, "wait") /\ UNCHANGED resp_notice
    /\ UNCHANGED <<status, lock, section, resp, resp_status, obj, op, result, tries,
                   modemVars, ghostVars>>

\* The thread timer takes the caller off the semaphore's suspend list.
rt_thread_timeout(c) ==
    /\ pc[c] = "wait"
    /\ Goto(c, "timedout")
    /\ UNCHANGED <<clientVars, obj, op, result, tries, modemVars, ghostVars>>

\* Mutant: the suspended caller is not resumed.
SemReleaseCounts ==
    /\ resp_notice' = resp_notice + 1
    /\ UNCHANGED pc

\* Hands the token to the suspended caller, or counts it.
rt_sem_release ==
    IF \E c \in Callers : pc[c] = "wait"
      THEN /\ \E c \in Callers : pc[c] = "wait" /\ Goto(c, "taken")
           /\ UNCHANGED resp_notice
      ELSE /\ resp_notice' = resp_notice + 1
           /\ UNCHANGED pc

-----------------------------------------------------------------------------
(* client_parser                                                            *)

\* The line goes into the response buffer, if it fits.
StoredLine(o) == IF o.line_counts < BufLines
                   THEN [o EXCEPT !.line_counts = @ + 1]
                   ELSE o

\* client->resp_status after the line has been looked at. The end markers
\* overwrite the AT_RESP_BUFF_FULL of a line that did not fit.
LineStatus(line, o, old) ==
    IF line = "OK" /\ o.line_num = 0 THEN "OK"
    ELSE IF line = "ERROR" THEN "ERROR"
    ELSE IF StoredLine(o).line_counts = o.line_num /\ o.line_num # 0 THEN "OK"
    ELSE IF o.line_counts < BufLines THEN old ELSE "BUFF_FULL"

\* Mutant: any line ends a response that has no line count.
EndsAtAnyLine(line, o) ==
    \/ o.line_num = 0
    \/ StoredLine(o).line_counts = o.line_num

\* The response is complete with this line.
EndsResponse(line, o) ==
    \/ line = "OK" /\ o.line_num = 0
    \/ line = "ERROR"
    \/ StoredLine(o).line_counts = o.line_num /\ o.line_num # 0

\* A URC is handled by its own function; a line nobody waits for is dropped.
ParserOther ==
    /\ status # "CLI"
    /\ rx # << >>
    /\ Head(rx) = "urc" \/ resp = None
    /\ rx' = Tail(rx)
    /\ UNCHANGED <<clientVars, callerVars, tx, ghostVars>>

\* Mutant: client->resp is left set at the end of the response.
ParserLineKeepsResp ==
    /\ status # "CLI"
    /\ rx # << >>
    /\ Head(rx) # "urc"
    /\ resp # None
    /\ obj[resp].alive
    /\ rx' = Tail(rx)
    /\ obj' = [obj EXCEPT ![resp] = StoredLine(obj[resp])]
    /\ resp_status' = LineStatus(Head(rx), obj[resp], resp_status)
    /\ IF EndsResponse(Head(rx), obj[resp])
         THEN /\ ended' = [ended EXCEPT ![resp] = TRUE]
              /\ rt_sem_release
         ELSE UNCHANGED <<ended, resp_notice, pc>>
    /\ UNCHANGED <<status, lock, section, resp, op, result, tries, tx, desync>>

ParserLine ==
    /\ status # "CLI"
    /\ rx # << >>
    /\ Head(rx) # "urc"
    /\ resp # None
    /\ obj[resp].alive
    /\ rx' = Tail(rx)
    /\ obj' = [obj EXCEPT ![resp] = StoredLine(obj[resp])]
    /\ resp_status' = LineStatus(Head(rx), obj[resp], resp_status)
    /\ IF EndsResponse(Head(rx), obj[resp])
         THEN /\ resp' = None
              /\ ended' = [ended EXCEPT ![resp] = TRUE]
              /\ rt_sem_release
         ELSE UNCHANGED <<resp, ended, resp_notice, pc>>
    /\ UNCHANGED <<status, lock, section, op, result, tries, tx, desync>>

\* The same step on a response object that has been freed: what the memory
\* holds decides whether the response ends, so either may happen.
ParserLineFreed ==
    /\ status # "CLI"
    /\ rx # << >>
    /\ Head(rx) # "urc"
    /\ resp # None
    /\ ~obj[resp].alive
    /\ rx' = Tail(rx)
    /\ \/ /\ resp' = None
          /\ rt_sem_release
          /\ resp_status' \in {"OK", "ERROR"}
       \/ /\ resp_status' \in {resp_status, "BUFF_FULL"}
          /\ UNCHANGED <<resp, resp_notice, pc>>
    /\ UNCHANGED <<status, lock, section, obj, op, result, tries, tx, ghostVars>>

-----------------------------------------------------------------------------
(* The console ("at client", at_cli.c): while it is open the received       *)
(* characters go to it and not to the parser.                               *)

CliEnter ==
    /\ status = "INITIALIZED"
    /\ status' = "CLI"
    /\ UNCHANGED <<lock, section, resp, resp_status, resp_notice, callerVars, modemVars, ghostVars>>

CliLeave ==
    /\ status = "CLI"
    /\ status' = "INITIALIZED"
    /\ UNCHANGED <<lock, section, resp, resp_status, resp_notice, callerVars, modemVars, ghostVars>>

CliLine ==
    /\ status = "CLI"
    /\ rx # << >>
    /\ rx' = Tail(rx)
    /\ UNCHANGED <<clientVars, callerVars, tx, ghostVars>>

-----------------------------------------------------------------------------
(* The modem (external)                                                     *)

ModemReply ==
    /\ tx > 0
    /\ tx' = tx - 1
    /\ \E r \in Replies :
         /\ Len(rx) + Len(r) <= MaxRx
         /\ rx' = rx \o r
    /\ UNCHANGED <<clientVars, callerVars, ghostVars>>

ModemUrc ==
    /\ Len(rx) < MaxRx
    /\ rx' = Append(rx, "urc")
    /\ UNCHANGED <<clientVars, callerVars, tx, ghostVars>>

-----------------------------------------------------------------------------
\* A step of a call that is under way.
CallStep(c) ==
    \/ ExecArm(c) \/ ExecSend(c) \/ ExecTimedOut(c) \/ ExecTaken(c) \/ ExecExit(c)
    \/ WaitConnectArm(c) \/ WaitConnectTimeout(c) \/ WaitConnectProbe(c)
    \/ WaitConnectRetry(c) \/ WaitConnectTaken(c) \/ WaitConnectDelete(c)
    \/ rt_sem_take(c) \/ rt_thread_timeout(c)

\* A new call by a caller.
CallBegin(c) ==
    \/ \E n \in LineNums : ExecBegin(c, n)
    \/ ExecBeginNoResp(c)
    \/ WaitConnectBegin(c)
    \/ SectionTake(c) \/ SectionRelease(c)
    \/ at_delete_resp(c)

Parser == ParserOther \/ ParserLine \/ ParserLineFreed
Cli    == CliEnter \/ CliLeave \/ CliLine
Modem  == ModemReply \/ ModemUrc

Next == (\E c \in Callers : CallStep(c) \/ CallBegin(c)) \/ Parser \/ Cli \/ Modem

\* The scheduler runs every ready thread, the thread timer expires, and the
\* FIFO mutex serves every waiting caller. A section is a loop over the packets
\* of one send, so it ends. Nothing is assumed of the modem or of the console.
Fairness ==
    \A c \in Callers :
      /\ SF_vars(ExecArm(c) \/ WaitConnectArm(c))
      /\ SF_vars(SectionRelease(c))
      /\ WF_vars(CallStep(c))

Spec == Init /\ [][Next]_vars /\ Fairness

-----------------------------------------------------------------------------
TypeOK ==
    /\ status \in {"INITIALIZED", "CLI"}
    /\ lock \in Callers \cup {None}
    /\ section \in SUBSET Callers
    /\ resp \in Callers \cup {None}
    /\ resp_status \in Statuses
    /\ resp_notice \in Nat
    /\ obj \in [Callers -> RespObject]
    /\ pc \in [Callers -> PCs]
    /\ op \in [Callers -> Ops]
    /\ result \in [Callers -> Results]
    /\ tries \in [Callers -> 0..MaxTries]
    /\ tx \in 0..MaxTx
    /\ rx \in Seq(Lines)
    /\ ended \in [Callers -> BOOLEAN]
    /\ desync \in BOOLEAN

-----------------------------------------------------------------------------
\* client->lock protects the client: two callers are never both between
\* rt_mutex_take and rt_mutex_release, and the one inside owns the mutex.
LockOwner ==
    \A c \in Callers : (pc[c] \in Inside \/ c \in section) => lock = c

\* client->resp is only ever the response object of the caller that owns the
\* lock and is still inside its call: the parser never writes a line into the
\* response of a command that has returned or of another thread's command.
RespOwner ==
    resp # None => lock = resp /\ pc[resp] \in Inside /\ op[resp] # "noresp"

\* client->resp points to freed memory only between at_delete_resp and the
\* assignment of RT_NULL at the end of wait_connect (at_client.c:397-399).
RespAlive ==
    resp # None => \/ obj[resp].alive
                   \/ op[resp] = "wait_connect" /\ pc[resp] = "exit"

\* A response that ends after its caller timed out leaves a token behind in
\* resp_notice, which nothing resets. The tokens never pile up: outside a call
\* at most one is left over, and before rt_sem_take at most one more can come
\* from the command under way.
BeforeTake == \E c \in Callers : pc[c] \in {"send", "loop", "take"}
Armed      == IF resp = None THEN 0 ELSE 1
TokenBound == resp_notice + Armed <= (IF BeforeTake THEN 2 ELSE 1)

\* No lost wake-up: a caller suspended on resp_notice has no token to take and
\* its response has not ended.
NoLostWakeup ==
    \A c \in Callers : pc[c] = "wait" => resp_notice = 0 /\ resp = c

\* As long as every command has waited for the whole of its answer, nothing is
\* in flight between two calls: no command at the modem, no response line and
\* no token that the next command could take for its own.
QuietChannel ==
    ~desync /\ (\A c \in Callers : pc[c] \notin Inside)
      => /\ tx = 0
         /\ \A i \in 1..Len(rx) : rx[i] = "urc"
         /\ resp_notice = 0

\* at_create_resp (at_client.c:39) and at_obj_exec_cmd: with line_num = 0 the
\* command returns success when 'OK' was received, so a successful command is
\* one whose response the parser has seen to its end.
OkWhenReceived ==
    \A c \in Callers : pc[c] = "exit" /\ op[c] = "exec" /\ result[c] = "EOK" => ended[c]

\* Every call returns, whatever the modem answers or loses: at_obj_exec_cmd and
\* wait_connect give the mutex back and no caller waits for it for ever.
CallsReturn == \A c \in Callers : pc[c] # "idle" ~> pc[c] = "idle"

\* The parser writes into the response of the caller inside its call, and that
\* response exists.
RespSound == RespOwner /\ RespAlive
=============================================================================
