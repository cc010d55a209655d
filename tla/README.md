# Car locator: TLA+ models and proofs

The car locator (`src/software/Car_Locator`) is an STM32F4 firmware on RT-Thread.
It reads positions from a GPS receiver on one UART and talks to a server through
an A9G GSM/GPRS modem on another. The part of it that can go wrong in ways a test
will hardly show is everything around the modem: several threads, an interrupt
and a slow, unreliable peer share a few semaphores, an event object and a handful
of flags. This directory models that part, checks the models with TLC on small
instances, and proves the most important properties with TLAPS for all sizes.

Paths below are relative to `src/software/Car_Locator`. `AT/` is short for
`rt-thread/components/net/at/`.

## 1. The system

```
 a9g console command            main loop            GPS module
 applications/client_server.c   (LEDs)                   | bytes, by interrupt
        |                                                v
   SAL -> AT/at_socket/at_socket.c             applications/gps.c
        |        ^ notice callbacks            receiver thread, NMEA parser
        v        |                                       |
 applications/at_socket_a9g.c  <- URC handlers           v
        |                             ^               gps_data, LCD
        v                             |
 AT/src/at_client.c : callers  | parser thread <- serial driver <- A9G modem
        ^
 applications/at_device_a9g.c : set_up / set_down, init thread, link thread
```

| Component | State | Operations | What is hard | What makes it correct |
|---|---|---|---|---|
| AT client (`AT/src/at_client.c`) | mutex, current response, its status, semaphore `resp_notice` | `at_obj_exec_cmd`, `at_client_obj_wait_connect`, `client_parser` | a response racing the timeout of its caller; a pointer shared with the parser | one owner of the response; no lost wake-up; no stale tokens piling up; every call returns |
| AT console (`AT/src/at_cli.c`) | `client->status`, the receive callback | enter and leave client mode | takes the modem's lines away while a command waits | commands still return |
| AT socket layer (`AT/at_socket/at_socket.c`) | socket objects, descriptor list, packet lists, poll counters | `at_socket`, `at_connect`, `at_recvfrom`, `at_closesocket`, two callbacks | callbacks between any two steps of the user; reuse of objects | a reader is woken; data reaches its own connection; the list is sound |
| A9G sockets (`applications/at_socket_a9g.c`) | one event object for all sockets; the `>` end sign | connect, close, send, resolve, URC handlers | overlapping event bits, late answers, one retry; answers told apart by counting lines | success means this connection, now; what is reported as sent was accepted; calls return |
| A9G device (`applications/at_device_a9g.c`) | `is_init`, interface flags, power pins, init and link threads | `set_up`, `set_down`, initialization with retries | asynchronous initialization that nobody waits for; a power key held until a pin follows | one initialization at a time; flags agree; threads do not pile up; every initialization ends or waits for the pin |
| GPS receiver (`applications/gps.c`) | driver queue, event, line buffer, 8-bit `count`, `gps_data` | `uart_getchar`, `data_read`, `GPS_Analysis`, `NMEA_...` | interrupt between look and sleep; 8-bit index into 512 bytes; malformed fields, 16-bit speed, floats | no byte left behind; writes in bounds; lines intact; numbers read as written |
| Kernel IPC (`rt-thread/src/ipc.c`) | semaphores, event objects, mutexes | take, release, send, receive | timeouts racing releases | modelled inside the modules that use them |
| Serial driver (`rt-thread/components/drivers/serial/serial.c`, `libraries/HAL_Drivers/drv_usart.c`) | receive fifo, DMA position, idle flag | interrupt and DMA handlers, read | DMA running ahead of the driver; wrap and overrun; flags cleared late | a queue that drops only the oldest bytes; every byte is read in the end |

The threads, with their priorities (a smaller number is more urgent): GPS receiver 8;
AT parser 9 (`RT_THREAD_PRIORITY_MAX / 3 - 1`); main 10; initialization thread 16;
console 20; link thread 30. Everything else in the
repository is listed with the reason it is left out in `PROJECT.json` (LCD, LEDs,
keys, RFID reader, the unbuilt driver variants, the mini program, vendored RT-Thread,
HAL and CMSIS).

## 2. Modules

One module per component, an `MC` module that instantiates it for TLC, and a module
of proofs where there are proofs. `PROJECT.json` ("map") gives the source lines of
every definition.

### AtClient

State: `status`, `lock`, `resp`, `resp_status`, `resp_notice` are the fields of
`struct at_client`; `obj[c]` is the response object of caller `c`; `pc`, `op`,
`result`, `tries` are the caller's control state; `tx` and `rx` are the UART. Two
history variables: `ended[c]` (the parser saw the end of `c`'s response) and `desync`
(some command was left before its answer was complete).

Actions: `ExecBegin`, `ExecArm`, `ExecSend`, `rt_sem_take`, `rt_thread_timeout`,
`ExecTimedOut`, `ExecTaken`, `ExecExit` are `at_obj_exec_cmd`, cut wherever the parser
can come in between; the `WaitConnect...` actions are `at_client_obj_wait_connect`;
`ParserLine`, `ParserOther` and `ParserLineFreed` are one round of `client_parser`;
`SectionTake` and `SectionRelease` are a caller that holds the recursive mutex around
several commands, as `a9g_socket_send` does; `Cli...` is the console. The modem may
answer a command with any of the forms in `Replies`, late, or never, and may send an
unsolicited line at any time.

One parsed line is one step because the parser has a higher priority than all its
callers and does not block while it handles a line. Lines arrive whole; their text is
reduced to what `client_parser` tells apart (`data`, `OK`, `ERROR`, URC). The time of
`wait_connect` is taken not to be over at its first look at the clock.

### AtSocket

State: `sockets[i]` is `device->sockets[i]` (magic, state, descriptor, packet list,
`recv_notice`, `rcvevent`); `list` is `_socket_list`; `user[u]` is a thread with its
descriptor variable, which is not reset after a close, as in `client_server.c`;
`link[i]` is what the modem has open. Packets are named by the connection they belong
to, which is what `OwnData` needs. `AllocNoMem` is the path on which the semaphore
or the mutex cannot be created; `RecvExit` and `RecvClean` are two steps because
`at_recvfrom` looks at the list and resets the counter without the lock.
`sendevent` and `errevent` are not modelled; nothing in the firmware polls them.
The modem is taken to report the number of the link that data came on. The history
variable `missed` holds the sockets that were not told of a remote close: because it
was reported for socket 0, or because `at_connect` wrote CONNECT over it. AT+CIPSTART
carries no socket number; here the link it opens is that of the socket that connects.
A connect that succeeds on the events of another socket is the matter of `A9gSocket`
(`SuccessIsOwn`), and outside what `ConnectedHasLink` says.

### A9gSocket

State: the event word as a set of bits, its suspend list (`queue`, the suspended
threads, and `ahead[t]`, the ones before `t`), the threads inside `a9g_socket_connect`,
the modem's links, and which `AT+CIPSTART` has no result yet. `rt_event_send` serves
the suspended threads in order, each clearing what it takes: a bit goes to the first
thread of the list that wants it (`Taken`). The history variable `heard[t]` holds what
was reported since thread `t` last cleared its events.

### A9gTransfer

`a9g_socket_send` and `a9g_domain_resolve` down to the lines of the answers. State:
`call` is the caller with its place, packet and try; `resp`, `notice` and `end_sign` are
the fields of the AT client that matter here; `tx` and `rx` are the UART; `modem` says
whether the module waits for a command or for the data of a packet. A packet takes
`ExecPrompt` (AT+CIPSEND, two lines: an empty one and `>`), `WriteData`, and
`ExecConfirm` (an empty command that waits for OK). Every command and answer carries the
tag of the packet it belongs to, which the code cannot see. The history variables are kept
with it: `module` has the packets the module accepted, those whose data it met as a command,
and those for whose data it took something else; `trust` has the packets prompted by lines
of their own, and those given up between their command and their data (by a timeout of the
prompt, a write of nothing, or an error of another command). `call.quiet` says that when the
call began nothing was left of earlier ones that the module could still answer with OK. The
properties compare what the caller believes with what the module did. The module (external) reads and answers in order; it
may lose a command, refuse it, answer after the timeout, and send an unsolicited report,
with the empty line before it, between any two answers. One caller is enough: the mutex
is held during a send. The console is taken not to be in client mode, and responses not
to overflow their buffers; `AtClient` has both.

### SerialRx and RxQueue

`SerialRx` is the way of a byte from the UART to the parser thread. `fifo` is
`struct rt_serial_rx_fifo`, `dma` the position of the DMA, `last_index` and the pending
wrap interrupt, `isr` the place of `uart_isr`, `parser` that of `at_client_getchar`. With
DMA the memory of the fifo is written byte by byte (`DmaByte`) and the driver is told
when the line is idle (`IsrEnter`, `IsrCount`, `IsrDone`) or the DMA wraps (`RxCplt`,
which preempts `uart_isr`). Bytes are numbered, so that the fifo's content can be
compared with what was sent. `rtconfig.h` selects DMA for all three UARTs; the receive
interrupt is the other way `at_client.c` opens them. The length of a report after the
race is a negative number in the model; in the code it is the same number modulo 2^16
when it is added to `put_index`.

`RxQueue` is the promise: a bounded queue that drops the oldest byte. `ImplementsQueue`
maps the fifo to it (`Queue`, INSTANCE ... WITH).

### Nmea

The parser of fields in `gps.c`. The sentence (`buf`) and the field asked for (`want`) are
chosen at the start. Each loop is an action, and one step is one iteration: the search of
`NMEA_Comma_Pos` (`CommaNext`, ended by `CommaHere` or `CommaNone`), then the three loops of
`NMEA_Str2num`: counting the digits (`Scan`), adding up those before the point (`SumWhole`,
`WholeDone`) and those behind it (`SumDecimals`, `Str2numReturn`). `pc` is the loop, `cx` and
`pos` belong to the first function, `str`, `sum` and `num` to the second; `seen` is history,
the last character looked at. What `NMEA_GNVTG_Analysis` and `NMEA_GNRMC_Analysis` make of the
number are the operators `speed` and `coordinate`. The single precision arithmetic of the
coordinates is done exactly, with rounding to 24 bits to the nearest, ties to even
(`FloatSum`). The reference says when a field spells a number (`Spells`) and which number its
digits stand for (`Value`). A number of more than `MaxDigits` (10) digits, which no 32-bit
integer holds, is not followed. The sums are integers without a width; that those of the
code do not wrap on the numbers the properties speak of is proved (`NoWrap`).

### A9gDevice

State: `is_init`, the two interface flags, the initialization threads, the number of
link threads, the power pins, and whether the modem has a PDP context. One attempt of
`a9g_init_thread_entry` is the sequence `Phases`; a phase is passed, fails
(`AT_SEND_CMD` jumps to `__exit`) or, where the code polls, is asked again.

`pins` says whether the pins are wired (`rtconfig.h` sets them to -1), whether the key is
held, and what the status pin shows. `a9g_power_on` and `a9g_power_off` are two steps each
where they wait: the key is taken (`InitStart`, `AttemptFailed`, `SetDown`), and released
once the pin has followed (`PowerOnDone`, `PowerOffDone`, `SetDownOff`). In between the
thread sleeps in a loop without a limit. The module (external) may switch on or off while
the key is held (`ModuleSwitch`), again and again, or never.

History variables, none of which stays true for good:
`raced` (an initialization that was set down has not ended, or no set_up came since), `torn`
(`is_init` and the interface flag were last written by two threads at the same time),
`nomem` (the last initialization was not begun for want of memory), `initOk` (the last
set_up was followed by an initialization that ended well).

A new thread sleeps 500 ms before it does anything, in which `a9g_netdev_set_up` is taken to
finish. The application calls `netdev_set_up` and `netdev_set_down`, one at a time;
`a9g_deinit`, which nothing calls, is left out. Without memory for the thread (`SetUp`) or
its response object (`InitNoMem`) no initialization happens.

### Gps

State: the driver's queue (bounded, drops the oldest byte), the event, the thread's
place, `count`, the array `line`, initially undefined. `CountMod` is 2^8 in the code
and `BuffLen` 512; the assumption `CountMod < BuffLen` is what makes the code safe.

## 3. Runs

| Run | Shows | States |
|---|---|---|
| `at_client` | ownership of lock and response, no lost wake-up, bounded tokens, quiet channel between complete commands | 942,854 |
| `at_client_live` | every call returns, whatever the modem does | 107,172 |
| `at_client_stale` (violation) | a stale token makes the next command succeed early | - |
| `at_socket` | no stuck reader, own data, poll misses data only by one race, sound list, descriptors find their socket, a connected socket has its link but for two named races, deleted semaphores used only after a leftover | 79,791 |
| `at_socket_closed` (violation) | a remote close of link 1 closes socket 0 | - |
| `a9g_connect` | no lost event, success is fresh, connect returns | 30,478 |
| `a9g_connect_cross` (violation) | connect of socket 2 succeeds on socket 0's late CONNECT OK | - |
| `a9g_transfer` | what is reported as sent was accepted, no data before a prompt of its own, no command taken for the data of a packet unless that packet was given up, calls return | 702,904 |
| `a9g_device` | one initialization, success is attached, flags agree, initialization decides, threads bounded by the downs, an initialization ends or waits for the status pin | 220,669 |
| `serial_rx` | the driver implements `RxQueue`, a sleeping reader has nothing to read, every byte is read in the end; named races excepted | 122,753 |
| `gps_receiver` | no stranded byte, writes in bounds, lines intact, lines analysed | 103,440 |
| `nmea` | numbers, fields, speed and coordinates agree with the reference | 1,334,861 |

Each property of a passing run has a mutant: a plausible bug, written next to the
definition it replaces and marked `Mutant:`, under which TLC finds the property
violated. Each violating run is one disagreement between the code and a line of its own
documentation, quoted in `PROJECT.json` ("findings").

Where two or three invariants belong together the run checks their conjunction:
`RespSound` of `AtClient`, `StructureOK` and `LeftoversOnly` of `AtSocket`, `Settled` and
`UndisturbedInit` of `A9gDevice`.

Several properties have an exception with a name: `raced`, `nomem`, `missed`, `torn`,
`skipped`, `wiped`, `lost`, `gaveup`. These are what the code lets happen. The property says
that nothing else goes wrong and so confines the case; it does not catch it:

- an initialization that was running when the device was set down goes on, and sets the
  device up again when it ends well (`a9g_device`, `raced`). "This function will disable
  network interface device" (`netdev.c:390`) is then not true. Two initializations may talk
  to the modem; `ThreadsBounded` has no exception and says how many there can be;
- two threads that are between their two writes of `is_init` and the interface flag at the
  same time can leave the flags different at rest; neither `netdev_set_up` nor
  `netdev_set_down` does anything then (`a9g_device`, `torn`);
- without memory for the initialization thread the device counts as initialized
  (`a9g_device`, `nomem`);
- a remote close is lost when it comes before `at_connect` has stored CONNECT
  (`at_socket`, `missed`);
- the last bytes of an answer wait for the next byte when their token is dropped by the
  reset in `at_client_getchar` (`serial_rx`, `wiped`), or when their idle flag is cleared
  with an earlier one (`skipped`);
- bytes are counted twice when the DMA wraps between the entry of `uart_isr` and its look
  at the counter (`serial_rx`, `raced`), and a slow reader gets bytes the DMA has
  overwritten (`torn`);
- a line that comes while the GPS receiver's driver drops bytes may never be analysed
  (`gps_receiver`, `lost`), and one of 256 bytes or more reaches the analysis mixed
  (`LineIntact` speaks of shorter ones);
- after a packet was given up between its command and its data, the module takes the next
  command for data (`a9g_transfer`, `gaveup`, packet by packet);
- the empty line of an unsolicited report, or a late answer, may be counted in place of
  the prompt, and the data then goes out too early (`DataAfterPrompt` speaks of `prompted`
  packets, whose two lines were their own). Such a packet is never reported as sent unless
  the module took it (`SentIsAccepted`);
- an OK that an earlier call left behind may confirm a packet of the next
  (`SentIsAccepted` speaks of calls that were `quiet` when they began);
- a field that ends in a point is read on into the next one (`FieldLocal`), and a speed
  above 65.535 km/h wraps (`SpeedInThousandths`).

Three things the models show that no property forbids:

- `a9g_socket_send` returns the size of the last packet, not of all ("the size of send
  success", `at_socket_a9g.c:233`);
- `a9g_domain_resolve` returns 0 without an address when all its tries brought none
  (`result` is still RT_EOK after the loop, `at_socket_a9g.c:328` and `:399`), against "0:
  domain resolve success" (`at_socket_a9g.c:319`), and `at_gethostbyname` does not notice.
  In `A9gTransfer` that is the last alternative of `Resolved`;
- an OK for the data that comes before the empty command has armed its response is not
  counted: the send fails after its timeout although the data went out.

### Bounds

- `at_client`: two callers are the smallest number that can disturb each other, and
  symmetric. Two open commands and two lines under way are enough for an answer to
  arrive in the middle of the next command with its end still to come. `BufLines = 1`
  makes the overflow of a response buffer happen. `at_client_live` is smaller because
  its fairness is strong and symmetry is not used.
- `at_socket`: two socket objects and three connections let every object be used again
  after a close; two packets let a reader take one and leave one. One user is the
  firmware as built. A second one would break `DescriptorFindsSocket`: a descriptor is
  the position in the list at allocation, and closing an older socket shifts the list.
- `a9g_connect`: sockets 0 and 2 share an event bit, 0 and 1 do not. One thread, because
  `ConnectReturns` is out of TLC's reach with two; `NoLostEvent` and `SuccessIsFresh` are
  proved for any number of threads.
- `a9g_transfer`: two sends or a send and a resolution need three tags; an answer that
  comes after its timeout then meets the next command of the same call and the first of
  the next call. `RESOLVE_RETRY` is 5 in the code.
- `serial_rx`: a fifo of 3 bytes and 7 bytes on the wire wrap around twice, overrun the
  fifo and leave room for a wrap inside `uart_isr`. `bufsz` is 64 in the code.
- `nmea`: all fields of up to six characters (`MaxLen`) over two digits and the four
  characters that steer the parser, with fields behind them; the proofs show the rest.
  `LongDecimals` have more decimals than are kept. Coordinates are on both sides of each
  power of two up to 2^24.
- `a9g_device`: two attempts and two polls reach every path of the retry loops; two
  calls of `set_down` let the device be set up three times. The pins are wired or not, and
  the module on or off, from the first state on.
- `gps_receiver`: `BuffLen` 4, `CountMod` 3 keep the order of the real sizes; lines
  have any length, so `count` wraps any number of times.

### Fairness

Threads are scheduled (weak fairness on their steps) because RT-Thread is preemptive
with timers. Fairness of a wait is assumed only where the wait has a timeout or is on a
FIFO mutex. The loops of `a9g_power_on` and `a9g_power_off` on the status pin
(`at_device_a9g.c:63-66`, `88-91`) have neither: the module and its pin are not fair, and
`InitEnds` says that an initialization ends or waits in one of these two loops for ever,
the latter only with the pins wired.
In `AtClient` taking the mutex is strongly fair: the kernel hands it to the thread that
has waited longest. A section that holds the mutex is a finite loop over the packets of
one send, so it is left in the end. Nothing is assumed of the modem, the network, the
console or memory. In `Gps` bytes need not arrive; only the thread (priority 8) runs. In
`SerialRx` interrupts are served, a line that carries no more bytes goes idle, and the
thread runs; its wait is RT_WAITING_FOREVER in `at_recv_readline`, so no timeout is
assumed. In `A9gTransfer` only the caller is fair, its timeouts included.

`CHECK_DEADLOCK FALSE` stands where the system may rest: nothing happens if no thread
calls anything, no byte comes, or the bounds on connections, commands or `set_down` calls
are used up; `Nmea` ends when the number is returned.

## 4. Proofs

Every invariant and action property that a run checks is proved for all values of the
constants. Each module of proofs has one inductive invariant,
`IInv`, the lemmas that the initial states have it and that every action keeps it (one
per action), and the theorems that follow from it. Candidates for `IInv` were checked
with TLC before they were proved.

`AtClientProofs` (1320 obligations), for any set of callers, any response sizes and any
bounds:

- `TypeCorrect`, `MutualExclusion` (`LockOwner`), `ResponseOwnership` (`RespSound`:
  `RespOwner` and `RespAlive`), `TokensBounded` (`TokenBound`), `WakeupNotLost` (`NoLostWakeup`).
- The inductive invariant `IInv` adds three parts to these. `OpAt` and `ObjAt` say
  which function a caller is in at each place and that its response object exists
  there. `TokenAt` is the heart: a caller about to wait has a token to take or a
  response to come, and a caller that goes round the loop of `wait_connect` again
  brings no second token along. Without it neither `TokenBound` nor `NoLostWakeup` is
  inductive.
- `ChannelQuiet` (`QuietChannel`) rests on a second invariant, `Channel`: as long as no
  command was left before its answer was complete, an answer is one end marker with
  nothing but reports behind it (`OneAnswer`), so that a response an end marker ends
  leaves nothing on the way and no token behind.
- Assumptions: `NoneAssumption`, `LineNumsAssumption`, `BoundsAssumption` of `AtClient`.

`GpsProofs` (170 obligations), for every size of the array, of `count` and of the
driver's buffer: `TypeCorrect`, `NoByteStranded`, `WritesInBounds`, `LinesIntact`.
The invariant adds that a thread about to wait with a byte in the queue has its event
set (`Wakeup`), and that `count` numbers the bytes of the line as long as the line fits
(`Stored`). Assumption: `SizesAssumption`, in particular `CountMod < BuffLen`.

`A9gSocketProofs` (778 obligations), for any set of threads and any sockets among 0..7:
`TypeCorrect`, `EventsNotLost` (`NoLostEvent`), `SuccessFresh` (`SuccessIsFresh`). The
inductive invariant has two parts beside the types. `List` says that the suspend list
holds exactly the sleeping threads, that each wants something and none of it is set, and
that `ahead` is a strict order on them; without the order it cannot be shown that a bit
goes to one thread only, and that those left behind still want nothing that is set.
`Reported` says that every bit that is set, or that a thread has taken, was reported
since that thread cleared its events; this makes a success fresh. Assumption:
`SocketsAssumption`.

`A9gTransferProofs` (2665 obligations), for any number of packets, tries, commands,
reports and lines under way: `TypeCorrect`, `SentAccepted` (`SentIsAccepted`),
`PromptBeforeData` (`DataAfterPrompt`), `NotSwallowed` (`CommandNotSwallowed`). The caller
and the module see each other only through two queues of lines, so the invariant says
what may be on them. `Tagged` and `Unread`: tags are given out in order, and an
AT+CIPSEND that was not read is newer than everything before it and everything answered.
`InStep`: each AT+CIPSEND is followed by its data and the module waits only for data that
is next or still to be written, unless that very packet was given up. `ErrorApart`: an error
never answers the packet the module waits for, which is why a refused command leaves
nothing half done. `PromptMeant`: as long as the module has not prompted, at most one
line of the current command can be counted, so two lines of its own are the prompt, after
which the data finds the module waiting (`DataExpected`). Six parts speak of a call that
began with nothing left: the packet in hand is all the module can answer with OK (`Alone`),
there is one OK for it (`OneOk`), its data is read once (`OneData`), there is no token but
that of its response (`OneToken`), so a response that ends well was earned (`Earned`), and
all packets before the one in hand were accepted (`Outcome`). The five steps with which the
module reads share one lemma, `ModemReadsStep`, on what it may do with what it reads.
Assumption: `BoundsAssumption`.

`AtSocketProofs` (1727 obligations), for any number of sockets, packets, events and
connections: `StructureKept` (`StructureOK`), `ReaderNotStuck` (`NoStuckReader`),
`OnlyLeftovers` (`LeftoversOnly`), `PollSees` (`PollMissesOnlyByRace`),
`ConnectedIsLinked` (`ConnectedHasLink`). The theorems have the hypothesis `OneUser`: one
thread uses sockets, which is the firmware as built (one descriptor, `g_socket_id` of
`client_server.c`). With two, `DescriptorFindsSocket` is false. The invariant says that
all objects of the list but the newest were left half allocated (`ListOrder`), that these
are as `rt_memset` left them (`Blank`), that the user's socket is the newest (`Place`),
and, for that one, what its state, semaphore, packets, link and poll counter are at each
place of the user (`Alive`, `Reading`, `Linked`, `Joined`, `Pollable`). `Reading` is what
keeps a reader from sleeping: between its look at the packets and its wait it relies on
the token. Assumptions: `SocketNumAssumption`, `BoundsAssumption`.

`A9gDeviceProofs` (1516 obligations), for any threads, retries, polls and calls of
`set_down`, with the pins wired or not: `TypeCorrect`, `InitUndisturbed`
(`UndisturbedInit`), `FlagsSettle` (`Settled`), `ThreadsStayBounded` (`ThreadsBounded`).
Three parts of the invariant hold without exception: the power key is held only by somebody
who waits for the status pin (`KeyHeld`), as long as no two threads write the flags at once
the writer has written `is_init` last and with no writer the flags agree (`Writes`), and the
threads are never more than the downs and, while the device counts as initialized or is
being set up, one (`Bound`; without this `Room` it is not inductive). The fourth, `Calm`,
holds while no initialization that was set down is left over (`raced`): at most one thread
initializes (`Alone`), and at each of its places the flags (`FlagsAt`), the PDP context and
`initOk` (`Achieved`), and the application (`AppAt`) are as that place requires.
Assumptions: `RetryAssumption`, `DownsAssumption`.

`SerialRxProofs` (1276 obligations), for a fifo of any size and any number of bytes:
`TypeCorrect`, `ReaderWoken` (`StrandedOnlyByReset`) and `DriverImplementsQueue`
(`ImplementsQueue`), the refinement of `RxQueue`: the initial states map to its initial
states, and each step of the interrupts, the DMA and the reader maps to one of its steps
or to none. The invariant says how far the DMA is ahead of the driver (`Sync`, `Ahead`),
that the memory holds the newest bytes, round by round (`Contents`), that `is_full` tells
a full fifo from an empty one (`Full`), and that a thread about to wait with a byte in
the fifo lost its token to the reset (`Noticed`). Lemmas on the fifo's operations say
what each does to the number of bytes in it. Assumption: `BufszAssumption`.

`NmeaProofs` (2354 obligations), for any set of sentences and any fields: `NumberReadInvariant`
(`NumberRead`), `FieldLocalInvariant` (`FieldLocal`), `CommaFoundInvariant` (`CommaFound`),
`SpeedInvariant` (`SpeedInThousandths`), `CoordinateInvariant` (`CoordinateClose`),
`NoWrapInvariant`. What a loop computes is an invariant of its iterations, so no induction
over data is needed. The inductive invariant says that the search is past `want - cx` commas
and nothing that ends a sentence (`Searched`); that the characters counted have been looked
at, and the cursor is in the sentence (`Cursor`) and in the field (`Local`); and how far each
loop has come in a number the field spells (`Number`): its place among sign, digits and
decimals in the first loop, the value of the first `i` digits times the weight of the `i`-th
in the other two. `Horner` is the step of those, one more digit; it splits the sum of
`Value` for each of the ten possible lengths. The rest are facts about integers:

- a speed below 65.536 km/h and its unscaled number are both below 2^16, so cutting before
  scaling loses nothing;
- `SplitDigits`: dividing the number by a power of ten gives the degrees and the minutes
  as the reference reads them;
- `RoundBetween`, `QuotientBetween`, `CutBetween`, `EvenBetween`: a quotient rounded to the
  nearest, at either of the two places, stays between the integers (beyond 2^24 the even
  integers) around it. `SumClose` puts the roundings together, for each number of bits the
  sum can have.
- `Growing`: the digits read so far, moved up to their place, are at most the whole number,
  from which `NoWrap` follows.

`NoWrap` is stated in `NmeaProofs` and is not the property of a run. Assumptions:
`SentencesAssumption` (a line has at most 255 characters and ends in a line feed and a NUL,
which is what `data_read` leaves, `LineIntact` of `Gps`) and `FieldsAssumption`.

Only model-checked: all liveness properties (`CallsReturn`, `ConnectReturns`, `InitEnds`,
`Drained`, `LineAnalysed`), since fairness and ENABLED are out of the prover's reach.

## 5. What is not modelled

- `at_recv_readline`: bytes become lines between `SerialRx` and `AtClient`, including
  the line that is longer than its buffer. `A9gTransfer` has its end sign.
- The texts of commands and answers. In the initialization thread `parsed_data` may hold
  the answer to an earlier command when a parse fails (`at_device_a9g.c:709`); the check
  there is taken to pass or fail at will.
- `at_sendto` beyond the driver's send, bind, socket options; the write paths of the
  serial driver; the number of bytes `urc_recv_func` reads.
- Date and time of GNRMC, which are split by the same division as everywhere.
- The GPGSV and GPGSA handlers: they fill tables that nothing reads. The loop over GPGSV
  sentences searches a buffer that holds one line, so from its second round on it reads
  from address 0; what is there is decided by the chip.
- Memory reuse: `at_recvpkt_get` follows the next pointer of a node it has just freed;
  the model takes the pointer as still valid.
- The 16-bit wrap of `rcvevent` and of semaphore values: they are bounded by
  `MaxEvents`.
- LCD, LEDs, keys, the RFID reader, the mini program, and the vendored RT-Thread, HAL and
  CMSIS code, which is almost all of the repository by size, beyond the kernel and driver
  functions named above.

## 6. Plan

What is left: `AtSocket` with several users, for which an invariant is wanted that says what
remains true of the objects when descriptors shift.
