------------------------------ MODULE SerialRx ------------------------------
(***************************************************************************)
(* The way of a received byte from the UART to the parser thread of the AT *)
(* client: the receive fifo of the serial driver, filled by the receive    *)
(* interrupt or by circular DMA, and at_client_getchar, which empties it.  *)
(* The DMA writes into the fifo's memory byte by byte and the driver hears *)
(* of it later: when the line goes idle, or when the DMA wraps around.     *)
(*                                                                         *)
(* Code: rt-thread/components/drivers/serial/serial.c;                     *)
(* libraries/HAL_Drivers/drv_usart.c; at_client_getchar and                *)
(* at_client_rx_ind of rt-thread/components/net/at/src/at_client.c.        *)
(***************************************************************************)
EXTENDS Integers, Sequences

CONSTANTS
    bufsz,     \* serial->config.bufsz
    MaxBytes   \* bound: bytes on the wire

ASSUME BufszAssumption == bufsz \in Nat /\ bufsz > 1
ASSUME MaxBytesAssumption == MaxBytes \in Nat

VARIABLES
    open,      \* "closed", "INT_RX" or "DMA_RX"
    fifo,      \* struct rt_serial_rx_fifo: buffer, put_index, get_index, is_full
    dma,       \* next: where the DMA writes; last_index; tc: wrap interrupt pending
    idle,      \* UART_FLAG_IDLE
    isr,       \* uart_isr: "none", "count" (interrupts disabled) or "done", and recv_len
    parser,    \* the thread in at_client_getchar: "read", "reset", "take" or "suspend"
    rx_notice, \* value of the semaphore
    got,       \* the byte read last
    history    \* sent, announced: bytes on the wire and bytes the fifo was told of; quiet,
               \* counted: sent when the line was last idle, and quiet at the last look at the
               \* counter; raced, torn, skipped, wiped: what went wrong

vars == <<open, fifo, dma, idle, isr, parser, rx_notice, got, history>>
reader == <<parser, rx_notice, got>>

Init ==
    /\ open = "closed"
    /\ fifo = [buffer |-> [i \in 0..bufsz - 1 |-> 0], put |-> 0, get |-> 0, is_full |-> FALSE]
    /\ dma = [next |-> 0, last_index |-> 0, tc |-> FALSE]
    /\ idle = FALSE
    /\ isr = [pc |-> "none", len |-> 0]
    /\ parser = "read"
    /\ rx_notice = 0
    /\ got = 0
    /\ history = [sent |-> 0, announced |-> 0, quiet |-> 0, counted |-> 0,
                  raced |-> FALSE, torn |-> FALSE, skipped |-> FALSE, wiped |-> FALSE]

\* Mutant: the index may be one past the end.
WrapLate(x) == IF x > bufsz THEN x - bufsz ELSE x

\* An index that ran past the end of the buffer, by less than its size.
Wrap(x) == IF x >= bufsz THEN x - bufsz ELSE x

Count(f) ==
    IF f.put = f.get THEN IF f.is_full THEN bufsz ELSE 0
    ELSE IF f.put > f.get THEN f.put - f.get ELSE bufsz - (f.get - f.put)

-----------------------------------------------------------------------------
(* The interrupt side of the fifo                                           *)

\* at_client_rx_ind: wakes the parser thread, or leaves it a token.
at_client_rx_ind ==
    IF parser = "suspend" THEN parser' = "read" /\ UNCHANGED rx_notice
    ELSE rx_notice' = rx_notice + 1 /\ UNCHANGED parser

\* RT_SERIAL_EVENT_RX_IND: when the next position is the read index, it is moved on.
IntStore(f, ch) ==
    LET put == Wrap(f.put + 1)
        full == put = f.get IN
    [buffer |-> [f.buffer EXCEPT ![f.put] = ch], put |-> put,
     get |-> IF full THEN Wrap(f.get + 1) ELSE f.get,
     is_full |-> f.is_full \/ full]

\* rt_dma_recv_update_put_index: a fifo that is overrun reads from its write index on.
update_put_index(f, len) ==
    LET to == f.put + len
        put == Wrap(to)
        full == \/ f.is_full
                \/ f.get <= f.put /\ to >= bufsz /\ put >= f.get
                \/ f.get > f.put /\ to >= f.get
    IN
    [f EXCEPT !.put = put, !.is_full = full, !.get = IF full THEN put ELSE @]

\* RT_SERIAL_EVENT_RX_DMADONE: the callback runs when the fifo is not empty.
DmaDone(len) ==
    /\ fifo' = update_put_index(fifo, len)
    /\ IF Count(fifo') > 0 THEN at_client_rx_ind ELSE UNCHANGED <<parser, rx_notice>>

-----------------------------------------------------------------------------
(* The hardware and its interrupts, which are served before any thread.  One *)
(* byte takes longer than the driver keeps interrupts disabled.             *)

\* Opened for DMA when the UART has it, for the receive interrupt otherwise.
rt_serial_open(mode) ==
    /\ open = "closed"
    /\ open' = mode
    /\ UNCHANGED <<fifo, dma, idle, isr, reader, history>>

\* A byte, and the receive interrupt it raises.
RxInd ==
    /\ open = "INT_RX" /\ history.sent < MaxBytes
    /\ fifo' = IntStore(fifo, history.sent + 1)
    /\ history' = [history EXCEPT !.sent = @ + 1, !.announced = @ + 1, !.wiped = FALSE]
    /\ at_client_rx_ind
    /\ UNCHANGED <<open, dma, idle, isr, got>>

\* A byte the DMA writes; a wrap that falls between the entry of uart_isr and its look
\* at the counter is the race.
DmaByte ==
    /\ open = "DMA_RX" /\ history.sent < MaxBytes /\ ~dma.tc
    /\ fifo' = [fifo EXCEPT !.buffer[dma.next] = history.sent + 1]
    /\ dma' = [dma EXCEPT !.next = Wrap(@ + 1), !.tc = (dma.next = bufsz - 1)]
    /\ history' = [history EXCEPT !.sent = @ + 1,
                                  !.raced = @ \/ (isr.pc = "count" /\ dma.next = bufsz - 1)]
    /\ UNCHANGED <<open, idle, isr, reader>>

\* The line is silent for one character after the last byte.
LineIdle ==
    /\ open = "DMA_RX" /\ history.sent > history.quiet
    /\ idle' = TRUE
    /\ history' = [history EXCEPT !.quiet = history.sent]
    /\ UNCHANGED <<open, fifo, dma, isr, reader>>

\* HAL_UART_RxCpltCallback: preempts uart_isr unless that has interrupts disabled.
RxCplt ==
    LET len == bufsz - dma.last_index IN
    /\ dma.tc /\ isr.pc # "count"
    /\ dma' = [dma EXCEPT !.last_index = 0, !.tc = FALSE]
    /\ DmaDone(len)
    /\ history' = [history EXCEPT !.announced = @ + len, !.wiped = FALSE]
    /\ UNCHANGED <<open, idle, isr, got>>

\* uart_isr, entered for the idle line ...
IsrEnter ==
    /\ isr.pc = "none" /\ idle /\ ~dma.tc
    /\ isr' = [isr EXCEPT !.pc = "count"]
    /\ UNCHANGED <<open, fifo, dma, idle, reader, history>>

\* ... reads how far the DMA is, ...
IsrCount ==
    /\ isr.pc = "count"
    /\ isr' = [pc |-> "done", len |-> dma.next - dma.last_index]
    /\ dma' = [dma EXCEPT !.last_index = dma.next]
    /\ history' = [history EXCEPT !.counted = history.quiet]
    /\ UNCHANGED <<open, fifo, idle, reader>>

\* Mutant: the difference is stored, but the callback is not run.
IsrDoneSilent ==
    /\ isr.pc = "done" /\ ~dma.tc
    /\ isr' = [pc |-> "none", len |-> 0]
    /\ idle' = FALSE
    /\ fifo' = update_put_index(fifo, isr.len)
    /\ history' = [history EXCEPT !.announced = @ + isr.len]
    /\ UNCHANGED <<open, dma, reader>>

\* Mutant: the flag is cleared only when there is something to report.
IsrDoneKeepsIdle ==
    /\ isr.pc = "done" /\ ~dma.tc
    /\ isr' = [pc |-> "none", len |-> 0]
    /\ idle' = (isr.len = 0)
    /\ IF isr.len = 0 THEN UNCHANGED <<fifo, parser, rx_notice>> ELSE DmaDone(isr.len)
    /\ history' = [history EXCEPT !.announced = @ + isr.len, !.wiped = @ /\ isr.len = 0]
    /\ UNCHANGED <<open, dma, got>>

\* ... reports the difference if there is any, and clears the flag, which may have been
\* raised once more since the counter was read.
IsrDone ==
    /\ isr.pc = "done" /\ ~dma.tc
    /\ isr' = [pc |-> "none", len |-> 0]
    /\ idle' = FALSE
    /\ IF isr.len = 0 THEN UNCHANGED <<fifo, parser, rx_notice>> ELSE DmaDone(isr.len)
    /\ history' = [history EXCEPT !.announced = @ + isr.len,
                                  !.wiped = @ /\ isr.len = 0,
                                  !.skipped = history.quiet > history.counted]
    /\ UNCHANGED <<open, dma, got>>

-----------------------------------------------------------------------------
(* at_client_getchar, in the parser thread                                  *)

\* No thread runs while an interrupt is pending or being served.
ThreadRuns == open # "closed" /\ isr.pc = "none" /\ ~idle /\ ~dma.tc

\* Mutant: a read leaves is_full set.
TakeKeepsFull(f) == [f EXCEPT !.get = Wrap(@ + 1)]

\* _serial_int_rx and rt_dma_recv_update_get_index, for one byte.
Take(f) == [f EXCEPT !.get = Wrap(@ + 1), !.is_full = FALSE]

\* rt_device_read of one byte, which may already have been overwritten by the DMA.
ReadByte ==
    /\ ThreadRuns /\ parser = "read"
    /\ Count(fifo) > 0
    /\ got' = fifo.buffer[fifo.get]
    /\ fifo' = Take(fifo)
    /\ history' = [history EXCEPT
         !.torn = @ \/ Count(fifo) + history.sent - history.announced > bufsz]
    /\ UNCHANGED <<open, dma, idle, isr, parser, rx_notice>>

ReadNothing ==
    /\ ThreadRuns /\ parser = "read"
    /\ Count(fifo) = 0
    /\ parser' = "reset"
    /\ UNCHANGED <<open, fifo, dma, idle, isr, rx_notice, got, history>>

\* The reset drops the token of a byte that came after the read.
ResetNotice ==
    /\ ThreadRuns /\ parser = "reset"
    /\ rx_notice' = 0
    /\ parser' = "take"
    /\ history' = [history EXCEPT !.wiped = Count(fifo) > 0]
    /\ UNCHANGED <<open, fifo, dma, idle, isr, got>>

TakeNotice ==
    /\ ThreadRuns /\ parser = "take"
    /\ IF rx_notice > 0 THEN rx_notice' = rx_notice - 1 /\ parser' = "read"
       ELSE parser' = "suspend" /\ UNCHANGED rx_notice
    /\ UNCHANGED <<open, fifo, dma, idle, isr, got, history>>

\* at_client_obj_recv waits with a timeout, gives up, and the next call reads again.
NoticeTimeout ==
    /\ ThreadRuns /\ parser = "suspend"
    /\ parser' = "read"
    /\ UNCHANGED <<open, fifo, dma, idle, isr, rx_notice, got, history>>

-----------------------------------------------------------------------------
Interrupt == RxCplt \/ IsrEnter \/ IsrCount \/ IsrDone
Getchar == ReadByte \/ ReadNothing \/ ResetNotice \/ TakeNotice

Next ==
    \/ \E mode \in {"INT_RX", "DMA_RX"} : rt_serial_open(mode)
    \/ RxInd \/ DmaByte \/ LineIdle \/ NoticeTimeout
    \/ Interrupt \/ Getchar

\* Interrupts are served, the thread is scheduled, and a line that carries no more
\* bytes goes idle.  The wait of the line reader has no timeout: none is assumed.
Spec ==
    /\ Init /\ [][Next]_vars
    /\ WF_vars(LineIdle) /\ WF_vars(Interrupt) /\ WF_vars(Getchar)

-----------------------------------------------------------------------------
TypeOK ==
    /\ open \in {"closed", "INT_RX", "DMA_RX"}
    /\ fifo \in [buffer: [0..bufsz - 1 -> Nat], put: 0..bufsz - 1, get: 0..bufsz - 1,
                 is_full: BOOLEAN]
    /\ dma \in [next: 0..bufsz - 1, last_index: 0..bufsz - 1, tc: BOOLEAN]
    /\ idle \in BOOLEAN
    /\ isr \in [pc: {"none", "count", "done"}, len: Int]
    /\ parser \in {"read", "reset", "take", "suspend"}
    /\ rx_notice \in Nat
    /\ got \in Nat
    /\ history \in [sent: Nat, announced: Int, quiet: Nat, counted: Nat, raced: BOOLEAN,
                    torn: BOOLEAN, skipped: BOOLEAN, wiped: BOOLEAN]

\* The fifo as the queue of the bytes it was told of.
Queue == INSTANCE RxQueue WITH
    capacity <- CASE open = "closed" -> 0 [] open = "INT_RX" -> bufsz - 1 [] OTHER -> bufsz,
    arrived <- history.announced,
    queue <- [i \in 1..Count(fifo) |-> history.announced - Count(fifo) + i],
    read <- got

\* The driver implements the queue of RxQueue, for both ways of receiving: indices that
\* wrap, is_full and the forced move of the read index lose nothing but the oldest bytes
\* and repeat nothing, until the DMA overwrites a byte that is then read, or wraps around
\* while uart_isr is about to read its counter.
ImplementsQueue ==
    Queue!Init /\ [][Queue!Next \/ history'.raced \/ history'.torn]_(Queue!vars)

\* A thread suspended on rx_notice has nothing to read, unless the token for the
\* last bytes was dropped by the reset of at_client_getchar.
StrandedOnlyByReset == (parser = "suspend" /\ Count(fifo) > 0) => history.wiped

\* Bytes on the wire that were neither read nor dropped.
Pending == history.sent - (history.announced - Count(fifo))

\* Every byte received is read or dropped in the end, although nothing follows it, unless
\* its token was dropped by the reset or its idle flag was cleared with that of an
\* earlier byte.
Drained ==
    Pending > 0 ~> (Pending = 0 \/ history.wiped \/ history.skipped)
=============================================================================
