----------------------------- MODULE A9gDevice -----------------------------
(***************************************************************************)
(* Bringing the A9G device up and down: the flags device->is_init and      *)
(* NETDEV_FLAG_UP, the initialization threads that a9g_net_init starts and *)
(* does not wait for, and the link threads they leave behind.              *)
(*                                                                         *)
(* Code: applications/at_device_a9g.c (built with AT_DEVICE_A9G_INIT_ASYN),*)
(* called through netdev_set_up and netdev_set_down of                     *)
(* rt-thread/components/net/netdev/src/netdev.c.                           *)
(*                                                                         *)
(* An AT command is one step that succeeds or fails; what happens below it *)
(* is the matter of AtClient. Addresses and other texts are left out.      *)
(***************************************************************************)
EXTENDS Naturals, Sequences, FiniteSets

CONSTANTS
    InitThreads,  \* identities for threads "a9g_net_init"
    INIT_RETRY,   \* attempts of one initialization
    PollRetry,    \* bound: stands for CPIN_, CREG_, CGREG_ and CSQ_RETRY
    MaxDowns      \* bound: calls of netdev_set_down

ASSUME RetryAssumption == INIT_RETRY \in Nat \ {0} /\ PollRetry \in Nat \ {0}
ASSUME DownsAssumption == MaxDowns \in Nat

VARIABLES
    is_init,      \* device->is_init
    up, link_up,  \* NETDEV_FLAG_UP, NETDEV_FLAG_LINK_UP
    app,          \* the thread that sets the device up and down
    init,         \* init[t]: an initialization thread
    links,        \* number of link threads; they never end
    pins,         \* power_pin and power_status_pin: wired (not -1), key, status
    attached,     \* the modem has an active PDP context
    downs,        \* number of netdev_set_down calls
    initOk,       \* history: the last set_up was followed by a finished initialization
    torn,         \* history: is_init and the interface's flag were last written by two
                  \* threads at the same time
    raced,        \* history: an initialization that was set down has not ended, or no
                  \* set_up came since
    nomem         \* history: the last initialization was not even begun for want of memory

vars == <<is_init, up, link_up, app, init, links, pins, attached, downs, initOk, torn, raced,
          nomem>>

\* One attempt of a9g_init_thread_entry, as groups of commands that are tried
\* together. "detach" ignores errors; the polled ones ask again.
Phases == <<"connect", "sim", "reset", "creg", "detach", "gprs", "csq", "mux", "cops",
            "cifsr", "gps">>
Polled == {"sim", "creg", "gprs", "csq"}

NoThread == [pc |-> "none", retry_num |-> 0, phase |-> 0, tries |-> 0]
Active   == {t \in InitThreads : init[t].pc # "none"}
PhaseOf(t) == Phases[init[t].phase]

\* The pins are wired or not; the module may be on already when the device is found.
Init ==
    /\ is_init = FALSE
    /\ up = FALSE
    /\ link_up = FALSE
    /\ app = "idle"
    /\ init = [t \in InitThreads |-> NoThread]
    /\ links = 0
    /\ pins \in [wired: BOOLEAN, key: {FALSE}, status: BOOLEAN]
    /\ attached = FALSE
    /\ downs = 0
    /\ initOk = FALSE
    /\ torn = FALSE
    /\ raced = FALSE
    /\ nomem = FALSE

\* The two flags are written one after the other, is_init first: here by a thread
\* that is between the two, or by the application.
Writing == app \in {"upstatus", "setdown"} \/ \E t \in InitThreads : init[t].pc \in {"info", "status"}

\* is_init is written; torn remembers whether another thread is between its two writes.
SetInit(value) == is_init' = value /\ torn' = Writing

-----------------------------------------------------------------------------
(* a9g_power_on, a9g_power_off: the key is held until the status pin follows *)

PowerOnWaits  == pins.wired /\ ~pins.status
PowerOffWaits == pins.wired /\ pins.status

HoldKey    == pins' = [pins EXCEPT !.key = TRUE]
ReleaseKey == pins' = [pins EXCEPT !.key = FALSE]

\* The module switches on or off while its key is held, or it does not. Either way
\* there is no PDP context then.
ModuleSwitch ==
    /\ pins.key
    /\ pins' = [pins EXCEPT !.status = ~@]
    /\ attached' = FALSE
    /\ UNCHANGED <<is_init, up, link_up, app, init, links, downs, initOk, torn, raced, nomem>>

-----------------------------------------------------------------------------
(* a9g_netdev_set_up, a9g_netdev_set_down                                   *)

\* a9g_net_init starts a thread, or has no memory for one; its result is not used.
StartInit ==
    \/ \E t \in InitThreads \ Active :
          /\ init' = [init EXCEPT ![t] = [NoThread EXCEPT !.pc = "created", !.retry_num = INIT_RETRY]]
          /\ nomem' = FALSE
    \/ nomem' = TRUE /\ UNCHANGED init

\* Mutant: neither netdev.c nor the driver asks whether the device is up already.
SetUpAgain ==
    /\ app = "idle"
    /\ app' = "setup"
    /\ StartInit
    /\ initOk' = FALSE
    /\ raced' = (raced /\ Active # {})
    /\ UNCHANGED <<is_init, up, link_up, links, pins, attached, downs, torn>>

SetUp ==
    /\ app = "idle"
    /\ ~up
    /\ ~is_init
    /\ app' = "setup"
    /\ StartInit
    /\ initOk' = FALSE
    /\ raced' = (raced /\ Active # {})
    /\ UNCHANGED <<is_init, up, link_up, links, pins, attached, downs, torn>>

SetUpInit ==
    /\ app = "setup"
    /\ SetInit(TRUE)
    /\ app' = "upstatus"
    /\ UNCHANGED <<up, link_up, init, links, pins, attached, downs, initOk, raced, nomem>>

\* The new thread begins with a sleep of 500 ms, in which the caller gets here.
SetUpDone ==
    /\ app = "upstatus"
    /\ up' = TRUE
    /\ app' = "idle"
    /\ init' = [t \in InitThreads |->
         IF init[t].pc = "created" THEN [init[t] EXCEPT !.pc = "sleep"] ELSE init[t]]
    /\ UNCHANGED <<is_init, link_up, links, pins, attached, downs, initOk, torn, raced, nomem>>

\* A device that is not initialized is left as it is, up or not.
SetDown ==
    /\ app = "idle"
    /\ up
    /\ is_init
    /\ downs < MaxDowns
    /\ downs' = downs + 1
    /\ raced' = (raced \/ Active # {})
    /\ IF PowerOffWaits
         THEN HoldKey /\ app' = "poweroff" /\ UNCHANGED <<is_init, torn>>
         ELSE SetInit(FALSE) /\ app' = "setdown" /\ UNCHANGED pins
    /\ UNCHANGED <<up, link_up, init, links, attached, initOk, nomem>>

SetDownOff ==
    /\ app = "poweroff"
    /\ ~pins.status
    /\ ReleaseKey
    /\ SetInit(FALSE)
    /\ app' = "setdown"
    /\ UNCHANGED <<up, link_up, init, links, attached, downs, initOk, raced, nomem>>

SetDownDone ==
    /\ app = "setdown"
    /\ up' = FALSE
    /\ app' = "idle"
    /\ UNCHANGED <<is_init, link_up, init, links, pins, attached, downs, initOk, torn, raced, nomem>>

-----------------------------------------------------------------------------
(* a9g_init_thread_entry                                                    *)

\* No memory for the response object: the thread just ends.
InitNoMem(t) ==
    /\ init[t].pc \in {"created", "sleep"}
    /\ init[t].retry_num = INIT_RETRY
    /\ init' = [init EXCEPT ![t] = NoThread]
    /\ nomem' = TRUE
    /\ UNCHANGED <<is_init, up, link_up, app, links, pins, attached, downs, initOk, torn, raced>>

\* The sleep is over: power on, which waits if the module is off.
InitStart(t) ==
    /\ init[t].pc = "sleep"
    /\ IF PowerOnWaits
         THEN HoldKey /\ init' = [init EXCEPT ![t].pc = "poweron"]
         ELSE UNCHANGED pins /\ init' = [init EXCEPT ![t].pc = "run", ![t].phase = 1]
    /\ UNCHANGED <<is_init, up, link_up, app, links, attached, downs, initOk, torn, raced, nomem>>

PowerOnDone(t) ==
    /\ init[t].pc = "poweron"
    /\ pins.status
    /\ ReleaseKey
    /\ init' = [init EXCEPT ![t].pc = "run", ![t].phase = 1]
    /\ UNCHANGED <<is_init, up, link_up, app, links, attached, downs, initOk, torn, raced, nomem>>

\* What the commands of a phase do to the modem.
Effect(phase) ==
    CASE phase = "reset"  -> attached' = FALSE
      [] phase = "detach" -> attached' \in {attached, FALSE}
      [] phase = "gprs"   -> attached' = TRUE
      [] OTHER            -> UNCHANGED attached

\* The phase is passed, the next one follows; after the last one result is RT_EOK.
InitPass(t) ==
    /\ init[t].pc = "run"
    /\ Effect(PhaseOf(t))
    /\ init' = [init EXCEPT ![t] =
         IF init[t].phase < Len(Phases)
         THEN [init[t] EXCEPT !.phase = init[t].phase + 1, !.tries = 0]
         ELSE [NoThread EXCEPT !.pc = "success"]]
    /\ UNCHANGED <<is_init, up, link_up, app, links, pins, downs, initOk, torn, raced, nomem>>

\* Mutant: the retries of an initialization are not counted.
RetryUncounted(t) ==
    init' = [init EXCEPT ![t] = [NoThread EXCEPT !.pc = "sleep", !.retry_num = INIT_RETRY]]

\* The next attempt, if one is left.
AttemptOver(t) ==
    init' = [init EXCEPT ![t] = IF init[t].retry_num > 1
      THEN [NoThread EXCEPT !.pc = "sleep", !.retry_num = init[t].retry_num - 1]
      ELSE [NoThread EXCEPT !.pc = "failure"]]

\* __exit with an error: power off, which waits if the module is on.
AttemptFailed(t) ==
    IF PowerOffWaits
      THEN /\ HoldKey
           /\ init' = [init EXCEPT ![t] = [NoThread EXCEPT !.pc = "poweroff", !.retry_num = init[t].retry_num]]
      ELSE UNCHANGED pins /\ AttemptOver(t)

PowerOffDone(t) ==
    /\ init[t].pc = "poweroff"
    /\ ~pins.status
    /\ ReleaseKey
    /\ AttemptOver(t)
    /\ UNCHANGED <<is_init, up, link_up, app, links, attached, downs, initOk, torn, raced, nomem>>

\* Mutant: an attempt that fails marks the device as down at once.
InitFailReports(t) ==
    /\ init[t].pc = "run"
    /\ AttemptFailed(t)
    /\ is_init' = FALSE
    /\ up' = FALSE
    /\ UNCHANGED <<link_up, app, links, attached, downs, initOk, torn, raced, nomem>>

\* AT_SEND_CMD: a command that fails ends the attempt.
InitFail(t) ==
    /\ init[t].pc = "run"
    /\ PhaseOf(t) # "detach"
    /\ AttemptFailed(t)
    /\ UNCHANGED <<is_init, up, link_up, app, links, attached, downs, initOk, torn, raced, nomem>>

\* Mutant: the number of polls is not limited.
PollUnlimited(t) ==
    /\ init[t].pc = "run"
    /\ PhaseOf(t) \in Polled
    /\ init' = [init EXCEPT ![t].tries = @ + 1]
    /\ UNCHANGED <<is_init, up, link_up, app, links, pins, attached, downs, initOk, torn, raced,
                   nomem>>

\* The answer is not the one hoped for: ask again, or give the attempt up.
InitPoll(t) ==
    /\ init[t].pc = "run"
    /\ PhaseOf(t) \in Polled
    /\ IF init[t].tries + 1 < PollRetry
         THEN init' = [init EXCEPT ![t].tries = @ + 1] /\ Effect(PhaseOf(t)) /\ UNCHANGED pins
         ELSE AttemptFailed(t) /\ UNCHANGED attached
    /\ UNCHANGED <<is_init, up, link_up, app, links, downs, initOk, torn, raced, nomem>>

\* After a success: is_init, then a9g_netdev_set_info (its result is not used),
\* then a9g_netdev_check_link_status.
SuccessInit(t) ==
    /\ init[t].pc = "success"
    /\ SetInit(TRUE)
    /\ initOk' = TRUE
    /\ init' = [init EXCEPT ![t].pc = "info"]
    /\ UNCHANGED <<up, link_up, app, links, pins, attached, downs, raced, nomem>>

SuccessInfo(t) ==
    /\ init[t].pc = "info"
    /\ up' = TRUE
    /\ link_up' = TRUE
    /\ init' = [init EXCEPT ![t].pc = "link"]
    /\ UNCHANGED <<is_init, app, links, pins, attached, downs, initOk, torn, raced, nomem>>

SuccessLink(t) ==
    /\ init[t].pc = "link"
    /\ links' \in {links, links + 1}
    /\ init' = [init EXCEPT ![t] = NoThread]
    /\ UNCHANGED <<is_init, up, link_up, app, pins, attached, downs, initOk, torn, raced, nomem>>

FailureInit(t) ==
    /\ init[t].pc = "failure"
    /\ SetInit(FALSE)
    /\ init' = [init EXCEPT ![t].pc = "status"]
    /\ UNCHANGED <<up, link_up, app, links, pins, attached, downs, initOk, raced, nomem>>

\* Mutant: the flag of the network interface is not taken back.
FailureKeepsUp(t) ==
    /\ init[t].pc = "status"
    /\ init' = [init EXCEPT ![t] = NoThread]
    /\ UNCHANGED <<is_init, up, link_up, app, links, pins, attached, downs, initOk, torn, raced,
                   nomem>>

FailureStatus(t) ==
    /\ init[t].pc = "status"
    /\ up' = FALSE
    /\ init' = [init EXCEPT ![t] = NoThread]
    /\ UNCHANGED <<is_init, link_up, app, links, pins, attached, downs, initOk, torn, raced, nomem>>

\* check_link_status_entry: the link flag follows what AT+CREG? says.
LinkCheck ==
    /\ links > 0
    /\ link_up' = ~link_up
    /\ UNCHANGED <<is_init, up, app, init, links, pins, attached, downs, initOk, torn, raced, nomem>>

-----------------------------------------------------------------------------
App == SetUp \/ SetUpInit \/ SetUpDone \/ SetDown \/ SetDownOff \/ SetDownDone

InitStep(t) ==
    \/ InitNoMem(t) \/ InitStart(t) \/ PowerOnDone(t) \/ InitPass(t) \/ InitFail(t)
    \/ InitPoll(t) \/ PowerOffDone(t) \/ SuccessInit(t) \/ SuccessInfo(t) \/ SuccessLink(t)
    \/ FailureInit(t) \/ FailureStatus(t)

Next == App \/ LinkCheck \/ ModuleSwitch \/ \E t \in InitThreads : InitStep(t)

\* Every thread is scheduled; nothing is assumed of what the modem answers, nor that
\* it ever follows its key.
Spec ==
    /\ Init /\ [][Next]_vars
    /\ WF_vars(SetUpInit \/ SetUpDone \/ SetDownOff \/ SetDownDone)
    /\ \A t \in InitThreads : WF_vars(InitStep(t))

-----------------------------------------------------------------------------
PCs == {"none", "created", "sleep", "poweron", "run", "poweroff", "success", "info", "link",
        "failure", "status"}

TypeOK ==
    /\ {is_init, up, link_up, attached, initOk, torn, raced, nomem} \subseteq BOOLEAN
    /\ app \in {"idle", "setup", "upstatus", "poweroff", "setdown"}
    /\ init \in [InitThreads -> [pc: PCs, retry_num: 0..INIT_RETRY, phase: 0..Len(Phases),
                                 tries: 0..(PollRetry - 1)]]
    /\ pins \in [wired: BOOLEAN, key: BOOLEAN, status: BOOLEAN]
    /\ links \in Nat
    /\ downs \in 0..MaxDowns

\* Two initializations never talk to the modem at the same time, as long as the
\* device is not set down during an initialization.
OneInitialization == ~raced => Cardinality(Active) <= 1

\* An initialization that reports success leaves the modem with a PDP context:
\* no phase after "gprs", no power key held for too long and no other thread has
\* reset, detached or switched it off. Same condition.
SuccessIsAttached ==
    ~raced => \A t \in InitThreads : init[t].pc \in {"success", "info", "link"} => attached

\* Initializations do not disturb each other: one at a time, and one that reports
\* success has attached the modem.
UndisturbedInit == OneInitialization /\ SuccessIsAttached

\* The device counts as initialized exactly when its interface is up: otherwise
\* netdev_set_up and netdev_set_down would both do nothing (netdev.c:377 and
\* at_device_a9g.c:346 ask different flags). It holds with initializations under way
\* and set down, whoever wrote the flags last, unless two wrote at the same time.
FlagsAgree == ~torn /\ ~Writing => is_init = up

\* set_up marks the device as initialized before its initialization has begun
\* (at_device_a9g.c:349). When nothing is under way, a device that counts as
\* initialized has been initialized, unless the thread could not be started.
InitDecides == ~raced /\ ~nomem /\ is_init /\ Active = {} /\ app = "idle" => initOk

\* The two flags agree with each other and, when nothing is under way, with what the
\* last initialization achieved.
Settled == FlagsAgree /\ InitDecides

\* A link thread never ends (at_device_a9g.c:279-303) and neither set_down nor a second
\* set_up stops an initialization. Whatever races, there are never more of both than
\* the device was set down, and one: setting up again after a failure, or while an
\* initialization that was set down still runs, does not pile threads up. (A thread that
\* has reported its failure counts no more.)
ThreadsBounded ==
    links + Cardinality({t \in Active : init[t].pc # "status"}) <= downs + 1

\* Every initialization ends, whatever the modem answers, or it waits for the status
\* pin for ever: the loops of a9g_power_on and a9g_power_off are the only ones without
\* a limit, and they are not entered as the pins are configured in rtconfig.h (-1).
InitEnds ==
    \A t \in InitThreads :
        \/ []<>(init[t].pc = "none")
        \/ pins.wired /\ <>[](init[t].pc \in {"poweron", "poweroff"})
=============================================================================
