--------------------------- MODULE SerialRxProofs ---------------------------
(***************************************************************************)
(* Proofs about SerialRx, for a fifo of any size and any number of bytes:  *)
(* the types, the wakeups of the reader, and that the driver implements    *)
(* the queue of RxQueue.                                                   *)
(***************************************************************************)
EXTENDS SerialRx, SequenceTheorems, TLAPS

\* The types of the four records.
History ==
    [sent: Nat, announced: Int, quiet: Nat, counted: Nat, raced: BOOLEAN, torn: BOOLEAN,
     skipped: BOOLEAN, wiped: BOOLEAN]
Dma == [next: 0..bufsz - 1, last_index: 0..bufsz - 1, tc: BOOLEAN]
Isr == [pc: {"none", "count", "done"}, len: Int]
Fifo == [buffer: [0..bufsz - 1 -> Nat], put: 0..bufsz - 1, get: 0..bufsz - 1, is_full: BOOLEAN]

\* What the interrupts may be doing, and how far the DMA is.
Hardware ==
    /\ open # "DMA_RX" => ~dma.tc /\ ~idle /\ isr.pc = "none"
    /\ open = "closed" => /\ fifo.put = 0 /\ fifo.get = 0 /\ ~fifo.is_full
                          /\ dma.next = 0 /\ dma.last_index = 0
                          /\ history.sent = 0 /\ history.announced = 0
    /\ isr.pc # "done" => isr.len = 0
    /\ isr.len \in 1 - bufsz..bufsz - 1
    /\ IF dma.tc THEN dma.next = 0 ELSE dma.last_index <= dma.next
    /\ ~history.raced => isr.len >= 0 /\ (isr.pc = "count" => ~dma.tc)

\* The write index of the fifo follows the DMA: with what uart_isr is about to add it
\* is where the driver looked last.
Sync == open # "INT_RX" => fifo.put + isr.len \in {dma.last_index, dma.last_index + bufsz}

\* What is on the wire and not announced is what the DMA has moved on since.
Ahead ==
    IF open = "INT_RX" THEN history.sent = history.announced
    ELSE history.sent = history.announced + isr.len + dma.next - dma.last_index
                          + (IF dma.tc THEN bufsz ELSE 0)

\* Where the next byte goes, and how many bytes were stored in full rounds before it.
Position == IF open = "INT_RX" THEN fifo.put ELSE dma.next
Rounds == history.sent - Position

\* The memory of the fifo holds the newest bytes.
Contents ==
    /\ Rounds = 0 \/ Rounds >= bufsz
    /\ \A p \in 0..bufsz - 1 :
         /\ p < Position => fifo.buffer[p] = Rounds + p + 1
         /\ p >= Position /\ Rounds >= bufsz => fifo.buffer[p] = Rounds + p + 1 - bufsz

\* With DMA is_full tells a full fifo from an empty one; with the interrupt one place
\* stays free.
Full ==
    /\ open # "INT_RX" => (fifo.is_full => fifo.put = fifo.get)
    /\ open = "INT_RX" => (fifo.put = fifo.get => ~fifo.is_full)

\* The fifo holds no more than it was told of.
Counted == ~history.raced => Count(fifo) <= history.announced

\* Between the reset and the wakeup the thread relies on its token.
Noticed ==
    (parser = "suspend" \/ (parser = "take" /\ rx_notice = 0)) /\ Count(fifo) > 0
      => history.wiped

IInv ==
    TypeOK /\ Hardware /\ Sync /\ Ahead /\ Contents /\ Full /\ Counted /\ Noticed
-----------------------------------------------------------------------------
(* The operations of the fifo                                               *)

\* Count is between empty and full.
LEMMA CountRange == ASSUME NEW f \in Fifo PROVE Count(f) \in 0..bufsz
  BY BufszAssumption DEF Fifo, Count

\* The receive interrupt: one byte more, or the oldest one makes room for it.
LEMMA IntStoreCount ==
    ASSUME NEW f \in Fifo, NEW ch \in Nat, f.put = f.get => ~f.is_full
    PROVE  LET g == IntStore(f, ch) IN
           /\ g \in Fifo
           /\ g.put = Wrap(f.put + 1)
           /\ g.buffer = [f.buffer EXCEPT ![f.put] = ch]
           /\ g.put = g.get => ~g.is_full
           /\ Count(f) \in 0..bufsz - 1
           /\ Count(g) = IF Count(f) < bufsz - 1 THEN Count(f) + 1 ELSE bufsz - 1
           /\ Count(g) > 0
  <1> DEFINE g == IntStore(f, ch)
             put == Wrap(f.put + 1)
             full == put = f.get
             get == IF full THEN Wrap(f.get + 1) ELSE f.get
  <1>0. f.put \in 0..bufsz - 1 /\ f.get \in 0..bufsz - 1
    BY DEF Fifo
  <1>1. put \in 0..bufsz - 1 /\ get \in 0..bufsz - 1 /\ put # get
    <2>1. put \in 0..bufsz - 1 /\ Wrap(f.get + 1) \in 0..bufsz - 1 /\ Wrap(f.get + 1) # f.get
      BY <1>0, BufszAssumption DEF Wrap
    <2> QED
      BY <1>0, <2>1
  <1>2. g.put = put /\ g.get = get /\ g.buffer = [f.buffer EXCEPT ![f.put] = ch]
    BY DEF IntStore
  <1>3. g \in Fifo
    <2>1. [f.buffer EXCEPT ![f.put] = ch] \in [0..bufsz - 1 -> Nat] /\ (f.is_full \/ full) \in BOOLEAN
      BY DEF Fifo
    <2> QED
      BY <1>1, <2>1 DEF IntStore, Fifo
  <1>4. Count(f) \in 0..bufsz - 1
    BY BufszAssumption DEF Fifo, Count
  <1>5. Count(g) = IF put > get THEN put - get ELSE bufsz - (get - put)
    BY <1>1, <1>2 DEF Count
  <1>6. Count(g) = IF Count(f) < bufsz - 1 THEN Count(f) + 1 ELSE bufsz - 1
    <2>1. CASE full
      <3>1. Count(f) = bufsz - 1
        BY <1>0, <2>1, BufszAssumption DEF Count, Wrap
      <3>2. get = Wrap(put + 1)
        BY <2>1
      <3>3. Count(g) = bufsz - 1
        BY <1>1, <1>5, <3>2, BufszAssumption DEF Wrap
      <3> QED
        BY <3>1, <3>3, BufszAssumption
    <2>2. CASE ~full
      <3>1. get = f.get /\ put # f.get
        BY <2>2
      <3>2. Count(f) = IF f.put >= f.get THEN f.put - f.get ELSE bufsz - (f.get - f.put)
        BY <1>0, BufszAssumption DEF Count
      <3>3. Count(g) = Count(f) + 1
        BY <1>0, <1>5, <3>1, <3>2, BufszAssumption DEF Wrap
      <3>4. Count(f) < bufsz - 1
        BY <1>0, <3>1, <3>2, BufszAssumption DEF Wrap
      <3> QED
        BY <3>3, <3>4
    <2> QED
      BY <2>1, <2>2
  <1>7. Count(g) > 0
    BY <1>4, <1>6, BufszAssumption
  <1> QED
    BY <1>1, <1>2, <1>3, <1>4, <1>6, <1>7

\* What the DMA interrupts do to the indices, whatever uart_isr has counted.
LEMMA UpdateTypes ==
    ASSUME NEW f \in Fifo, NEW len \in Int, f.put + len \in 0..2 * bufsz - 1,
           f.is_full => f.put = f.get
    PROVE  LET g == update_put_index(f, len) IN
           /\ g \in Fifo
           /\ g.put = Wrap(f.put + len)
           /\ g.buffer = f.buffer
           /\ g.is_full => g.put = g.get
  <1> DEFINE to == f.put + len
             put == Wrap(to)
             full == \/ f.is_full
                     \/ f.get <= f.put /\ to >= bufsz /\ put >= f.get
                     \/ f.get > f.put /\ to >= f.get
             get == IF full THEN put ELSE f.get
             g == update_put_index(f, len)
  <1>1. put \in 0..bufsz - 1 /\ full \in BOOLEAN
    BY BufszAssumption DEF Fifo, Wrap
  <1>2. g = [f EXCEPT !.put = put, !.is_full = full, !.get = get]
    BY DEF update_put_index
  <1> HIDE DEF put, full
  <1>3. get \in 0..bufsz - 1 /\ (full => put = get)
    BY <1>1 DEF Fifo
  <1> HIDE DEF get, g
  <1>4. g \in Fifo
    BY <1>1, <1>2, <1>3 DEF Fifo
  <1>5. g.put = put /\ g.get = get /\ g.is_full = full /\ g.buffer = f.buffer
    BY <1>2 DEF Fifo
  <1> QED
    BY <1>3, <1>4, <1>5 DEF put, g

\* The bytes that are announced are added; what does not fit drops the oldest ones.
LEMMA UpdateCount ==
    ASSUME NEW f \in Fifo, NEW len \in 1..bufsz, f.is_full => f.put = f.get
    PROVE  LET g == update_put_index(f, len) IN
           /\ Count(g) = IF Count(f) + len < bufsz THEN Count(f) + len ELSE bufsz
           /\ Count(g) > 0
  <1> DEFINE to == f.put + len
             put == Wrap(to)
             full == \/ f.is_full
                     \/ f.get <= f.put /\ to >= bufsz /\ put >= f.get
                     \/ f.get > f.put /\ to >= f.get
             g == update_put_index(f, len)
  <1>1. /\ bufsz \in Nat /\ bufsz > 0 /\ len \in Nat /\ len > 0 /\ len <= bufsz
        /\ f.put \in Nat /\ f.put < bufsz /\ f.get \in Nat /\ f.get < bufsz /\ f.is_full \in BOOLEAN
    BY BufszAssumption DEF Fifo
  <1>2. g.put = put /\ g.get = (IF full THEN put ELSE f.get) /\ g.is_full = full
    BY DEF update_put_index, Fifo
  <1>3. Count(f) \in 0..bufsz
    BY CountRange
  <1>4. CASE full
    <2>1. Count(g) = bufsz
      BY <1>2, <1>4 DEF Count
    <2>2. Count(f) + len >= bufsz
      BY <1>1, <1>4 DEF Count, Wrap
    <2> QED
      BY <2>1, <2>2, <1>1, <1>3
  <1>5. CASE ~full
    <2>1. Count(f) = IF f.get <= f.put THEN f.put - f.get ELSE bufsz - (f.get - f.put)
      BY <1>1, <1>5 DEF Count
    <2>2. CASE f.get <= f.put /\ to < bufsz
      <3>1. put = to /\ put > f.get /\ Count(f) = f.put - f.get
        BY <1>1, <2>1, <2>2 DEF Wrap
      <3>2. Count(g) = put - f.get
        BY <1>1, <1>2, <1>5, <3>1 DEF Count
      <3> QED
        BY <1>1, <2>2, <3>1, <3>2
    <2>3. CASE f.get <= f.put /\ to >= bufsz
      <3>1. put = to - bufsz /\ put < f.get /\ Count(f) = f.put - f.get
        BY <1>1, <1>5, <2>1, <2>3 DEF Wrap
      <3>2. Count(g) = bufsz - (f.get - put)
        BY <1>1, <1>2, <1>5, <3>1 DEF Count
      <3> QED
        BY <1>1, <2>3, <3>1, <3>2
    <2>4. CASE f.get > f.put
      <3>1. to < f.get /\ put = to /\ Count(f) = bufsz - (f.get - f.put)
        BY <1>1, <1>5, <2>1, <2>4 DEF Wrap
      <3>2. Count(g) = bufsz - (f.get - put)
        BY <1>1, <1>2, <1>5, <3>1 DEF Count
      <3> QED
        BY <1>1, <2>4, <3>1, <3>2
    <2> QED
      BY <1>1, <2>2, <2>3, <2>4
  <1> QED
    BY <1>4, <1>5

\* A read takes one byte, whatever the way of receiving.
LEMMA TakeCount ==
    ASSUME NEW f \in Fifo, Count(f) > 0
    PROVE  LET g == Take(f) IN
           /\ g \in Fifo
           /\ g.put = f.put /\ g.buffer = f.buffer /\ g.is_full = FALSE
           /\ Count(g) = Count(f) - 1
  <1> DEFINE g == Take(f)
             get == Wrap(f.get + 1)
  <1>1. get \in 0..bufsz - 1
    BY BufszAssumption DEF Fifo, Wrap
  <1>2. g \in Fifo /\ g.put = f.put /\ g.buffer = f.buffer /\ g.is_full = FALSE /\ g.get = get
    BY <1>1 DEF Take, Fifo
  <1>3. Count(g) = IF f.put = get THEN 0
                   ELSE IF f.put > get THEN f.put - get ELSE bufsz - (get - f.put)
    BY <1>2 DEF Count
  <1>4. f.put \in 0..bufsz - 1 /\ f.get \in 0..bufsz - 1
    BY DEF Fifo
  <1>5. Count(g) = Count(f) - 1
    <2>1. CASE f.put = f.get
      <3>1. Count(f) = bufsz
        BY <2>1 DEF Count
      <3> QED
        BY <3>1, <1>3, <1>4, <2>1, BufszAssumption DEF Wrap
    <2>2. CASE f.put > f.get
      BY <2>2, <1>3, <1>4, BufszAssumption DEF Count, Wrap
    <2>3. CASE f.put < f.get
      BY <2>3, <1>3, <1>4, BufszAssumption DEF Count, Wrap
    <2> QED
      BY <2>1, <2>2, <2>3, <1>4
  <1> QED
    BY <1>2, <1>5
-----------------------------------------------------------------------------
(* The steps                                                                *)

\* The initial state satisfies the invariant.
LEMMA InitIInv == Init => IInv
  <1> SUFFICES ASSUME Init PROVE IInv
    OBVIOUS
  <1> USE BufszAssumption
  <1>1. TypeOK
    <2>1. fifo \in Fifo /\ dma \in Dma
      BY DEF Init, Fifo, Dma
    <2>2. history \in History /\ isr \in Isr
      BY DEF Init, History, Isr
    <2> QED
      BY <2>1, <2>2 DEF Init, TypeOK, Fifo, Dma, History, Isr
  <1>2. Hardware /\ Sync /\ Ahead
    BY DEF Init, Hardware, Sync, Ahead
  <1>3. Contents
    BY DEF Init, Contents, Rounds, Position
  <1>4. Full /\ Counted /\ Noticed
    BY DEF Init, Full, Counted, Noticed, Count
  <1> QED
    BY <1>1, <1>2, <1>3, <1>4 DEF IInv

\* The device is opened: nothing has been received.
LEMMA rt_serial_openIInv ==
    ASSUME IInv, NEW mode \in {"INT_RX", "DMA_RX"}, rt_serial_open(mode)
    PROVE  IInv'
  <1> USE BufszAssumption
  <1>1. TypeOK'
    BY DEF IInv, TypeOK, rt_serial_open, reader
  <1>2. Hardware'
    BY DEF IInv, TypeOK, Hardware, rt_serial_open, reader
  <1>3. Sync'
    BY DEF IInv, TypeOK, Hardware, Sync, rt_serial_open, reader
  <1>4. Ahead'
    BY DEF IInv, TypeOK, Hardware, Ahead, rt_serial_open, reader
  <1>5. Contents'
    BY DEF IInv, TypeOK, Hardware, Contents, Rounds, Position, rt_serial_open, reader
  <1>6. Full' /\ Counted'
    BY DEF IInv, TypeOK, Hardware, Full, Counted, Count, rt_serial_open, reader
  <1>7. Noticed'
    BY DEF IInv, TypeOK, Noticed, Count, rt_serial_open, reader
  <1> QED
    BY <1>1, <1>2, <1>3, <1>4, <1>5, <1>6, <1>7 DEF IInv

\* The callback of the driver leaves the reader awake or with a token.
LEMMA WakesReader ==
    ASSUME parser \in {"read", "reset", "take", "suspend"}, rx_notice \in Nat, at_client_rx_ind
    PROVE  /\ parser' \in {"read", "reset", "take", "suspend"} /\ rx_notice' \in Nat
           /\ parser' # "suspend" /\ (parser' = "take" => rx_notice' > 0)
  <1>1. CASE parser = "suspend"
    BY <1>1 DEF at_client_rx_ind
  <1>2. CASE parser # "suspend"
    BY <1>2 DEF at_client_rx_ind
  <1> QED
    BY <1>1, <1>2

\* A byte stored at the current position leaves the newest bytes in memory.
LEMMA StoreContents ==
    ASSUME Contents, Position \in 0..bufsz - 1, history.sent \in Nat,
           history'.sent = history.sent + 1,
           Position' = Wrap(Position + 1),
           fifo'.buffer[Position] = history.sent + 1,
           \A q \in 0..bufsz - 1 : q # Position => fifo'.buffer[q] = fifo.buffer[q]
    PROVE  Contents'
  <1> USE BufszAssumption
  <1>1. CASE Position = bufsz - 1
    <2>1. Position' = 0 /\ Rounds' = Rounds + bufsz
      BY <1>1 DEF Wrap, Rounds
    <2>2. Rounds \in Int /\ Rounds' >= bufsz /\ history.sent + 1 = Rounds + bufsz
      BY <1>1, <2>1 DEF Contents, Rounds
    <2>3. ASSUME NEW q \in 0..bufsz - 1 PROVE fifo'.buffer[q] = Rounds + q + 1
      BY <1>1, <2>2 DEF Contents
    <2> QED
      BY <2>1, <2>2, <2>3 DEF Contents
  <1>2. CASE Position < bufsz - 1
    <2>1. Position' = Position + 1 /\ Rounds' = Rounds
      BY <1>2 DEF Wrap, Rounds
    <2>2. Rounds \in Int /\ history.sent + 1 = Rounds + Position + 1
      BY DEF Rounds
    <2> QED
      BY <2>1, <2>2 DEF Contents
  <1> QED
    BY <1>1, <1>2

\* A byte that is received by interrupt.
LEMMA RxIndIInv == ASSUME IInv, RxInd PROVE IInv'
  <1> USE BufszAssumption
  <1>1. /\ fifo \in Fifo /\ history \in History /\ open = "INT_RX"
        /\ fifo.put = fifo.get => ~fifo.is_full
    BY DEF IInv, TypeOK, Fifo, History, Full, RxInd
  <1>2. /\ fifo' \in Fifo
        /\ fifo'.put = Wrap(fifo.put + 1)
        /\ fifo'.buffer = [fifo.buffer EXCEPT ![fifo.put] = history.sent + 1]
        /\ fifo'.put = fifo'.get => ~fifo'.is_full
        /\ Count(fifo') = IF Count(fifo) < bufsz - 1 THEN Count(fifo) + 1 ELSE bufsz - 1
        /\ Count(fifo) \in 0..bufsz - 1
        /\ Count(fifo') > 0
    <2>1. history.sent + 1 \in Nat /\ fifo' = IntStore(fifo, history.sent + 1)
      BY <1>1 DEF RxInd, History
    <2> QED
      BY <1>1, <2>1, IntStoreCount
  <1>3. /\ history' \in History
        /\ history'.sent = history.sent + 1 /\ history'.announced = history.announced + 1
        /\ history'.raced = history.raced /\ history'.wiped = FALSE
    <2>1. history.sent + 1 \in Nat /\ history.announced + 1 \in Int
      BY <1>1 DEF History
    <2>2. history' = [history EXCEPT !.sent = history.sent + 1,
                                     !.announced = history.announced + 1, !.wiped = FALSE]
      BY DEF RxInd
    <2>3. history' \in History
      BY <1>1, <2>1, <2>2 DEF History
    <2> QED
      BY <1>1, <2>2, <2>3 DEF History
  <1>4. /\ parser' \in {"read", "reset", "take", "suspend"} /\ rx_notice' \in Nat
        /\ parser' # "suspend" /\ (parser' = "take" => rx_notice' > 0)
    BY WakesReader DEF IInv, TypeOK, RxInd
  <1>5. UNCHANGED <<open, dma, idle, isr, got>>
    BY DEF RxInd
  <1>6. TypeOK'
    BY <1>2, <1>3, <1>4, <1>5 DEF IInv, TypeOK, Fifo, History
  <1>7. Hardware' /\ Sync' /\ Ahead'
    BY <1>1, <1>3, <1>5 DEF IInv, TypeOK, Hardware, Sync, Ahead, History
  <1>8. Contents'
    <2>1. fifo.put \in 0..bufsz - 1 /\ history.sent \in Nat
      BY <1>1 DEF Fifo, History
    <2>2. Position = fifo.put /\ Position' = Wrap(fifo.put + 1)
      BY <1>1, <1>2, <1>5 DEF Position
    <2>3. /\ fifo'.buffer[fifo.put] = history.sent + 1
          /\ \A q \in 0..bufsz - 1 : q # fifo.put => fifo'.buffer[q] = fifo.buffer[q]
      BY <1>1, <1>2, <2>1 DEF Fifo
    <2> QED
      BY <2>1, <2>2, <2>3, <1>3, StoreContents DEF IInv
  <1>9. Full' /\ Counted'
    BY <1>1, <1>2, <1>3, <1>5 DEF IInv, Full, Counted, History
  <1>10. Noticed'
    BY <1>4 DEF Noticed
  <1> QED
    BY <1>6, <1>7, <1>8, <1>9, <1>10 DEF IInv

\* A byte that the DMA stores.
LEMMA DmaByteIInv == ASSUME IInv, DmaByte PROVE IInv'
  <1> USE BufszAssumption
  <1>1. /\ fifo \in Fifo /\ history \in History /\ dma \in Dma /\ open = "DMA_RX" /\ ~dma.tc
        /\ isr \in Isr
    BY DEF IInv, TypeOK, Fifo, History, Dma, Isr, DmaByte
  <1>2. /\ fifo' \in Fifo
        /\ fifo'.put = fifo.put /\ fifo'.get = fifo.get /\ fifo'.is_full = fifo.is_full
        /\ fifo'.buffer = [fifo.buffer EXCEPT ![dma.next] = history.sent + 1]
    <2>1. [fifo.buffer EXCEPT ![dma.next] = history.sent + 1] \in [0..bufsz - 1 -> Nat]
      BY <1>1 DEF Fifo, Dma, History
    <2>2. fifo' = [fifo EXCEPT !.buffer = [fifo.buffer EXCEPT ![dma.next] = history.sent + 1]]
      BY <1>1 DEF DmaByte, Fifo
    <2> QED
      BY <1>1, <2>1, <2>2 DEF Fifo
  <1>3. /\ history' \in History
        /\ history'.sent = history.sent + 1 /\ history'.announced = history.announced
        /\ history'.raced = (history.raced \/ (isr.pc = "count" /\ dma.next = bufsz - 1))
        /\ history'.wiped = history.wiped
    <2> DEFINE raced == history.raced \/ (isr.pc = "count" /\ dma.next = bufsz - 1)
    <2>1. history.sent + 1 \in Nat /\ raced \in BOOLEAN
      BY <1>1 DEF History
    <2>2. history' = [history EXCEPT !.sent = history.sent + 1, !.raced = raced]
      BY DEF DmaByte
    <2> HIDE DEF raced
    <2>3. history' \in History /\ history'.raced = raced
      BY <1>1, <2>1, <2>2 DEF History
    <2>4. /\ history'.sent = history.sent + 1 /\ history'.announced = history.announced
          /\ history'.wiped = history.wiped
      BY <1>1, <2>2 DEF History
    <2> QED
      BY <2>3, <2>4 DEF raced
  <1>4. /\ dma' \in Dma
        /\ dma'.next = Wrap(dma.next + 1) /\ dma'.last_index = dma.last_index
        /\ dma'.tc = (dma.next = bufsz - 1)
    <2>1. Wrap(dma.next + 1) \in 0..bufsz - 1 /\ (dma.next = bufsz - 1) \in BOOLEAN
      BY <1>1 DEF Dma, Wrap
    <2> QED
      BY <1>1, <2>1 DEF DmaByte, Dma
  <1>5. UNCHANGED <<open, idle, isr, parser, rx_notice, got>>
    BY DEF DmaByte, reader
  <1>6. TypeOK'
    BY <1>2, <1>3, <1>4, <1>5 DEF IInv, TypeOK, Fifo, History, Dma
  <1>7. Count(fifo') = Count(fifo)
    BY <1>2 DEF Count
  <1>8. Hardware'
    BY <1>1, <1>3, <1>4, <1>5 DEF IInv, Hardware, History, Dma, Isr, Wrap
  <1>9. Sync'
    BY <1>2, <1>4, <1>5 DEF IInv, Sync
  <1>10. Ahead'
    <2>1. CASE dma.next = bufsz - 1
      BY <2>1, <1>1, <1>3, <1>4, <1>5 DEF IInv, Ahead, History, Dma, Isr, Wrap
    <2>2. CASE dma.next < bufsz - 1
      BY <2>2, <1>1, <1>3, <1>4, <1>5 DEF IInv, Ahead, History, Dma, Isr, Wrap
    <2> QED
      BY <1>1, <2>1, <2>2 DEF Dma
  <1>11. Contents'
    <2>1. dma.next \in 0..bufsz - 1 /\ history.sent \in Nat
      BY <1>1 DEF Dma, History
    <2>2. Position = dma.next /\ Position' = Wrap(dma.next + 1)
      BY <1>1, <1>4, <1>5 DEF Position
    <2>3. /\ fifo'.buffer[dma.next] = history.sent + 1
          /\ \A q \in 0..bufsz - 1 : q # dma.next => fifo'.buffer[q] = fifo.buffer[q]
      BY <1>1, <1>2, <2>1 DEF Fifo
    <2> QED
      BY <2>1, <2>2, <2>3, <1>3, StoreContents DEF IInv
  <1>12. Full' /\ Counted'
    BY <1>2, <1>3, <1>5, <1>7 DEF IInv, Full, Counted
  <1>13. Noticed'
    BY <1>3, <1>5, <1>7 DEF IInv, Noticed
  <1> QED
    BY <1>6, <1>8, <1>9, <1>10, <1>11, <1>12, <1>13 DEF IInv

\* The line goes idle: only the flag changes.
LEMMA LineIdleIInv == ASSUME IInv, LineIdle PROVE IInv'
  <1> USE BufszAssumption
  <1>1. TypeOK'
    BY DEF IInv, TypeOK, LineIdle, reader
  <1>2. Hardware'
    BY DEF IInv, TypeOK, Hardware, LineIdle, reader
  <1>3. Sync'
    BY DEF IInv, TypeOK, Hardware, Sync, LineIdle, reader
  <1>4. Ahead'
    BY DEF IInv, TypeOK, Hardware, Ahead, LineIdle, reader
  <1>5. Contents'
    BY DEF IInv, TypeOK, Hardware, Contents, Rounds, Position, LineIdle, reader
  <1>6. Full' /\ Counted'
    BY DEF IInv, TypeOK, Hardware, Full, Counted, Count, LineIdle, reader
  <1>7. Noticed'
    BY DEF IInv, TypeOK, Noticed, Count, LineIdle, reader
  <1> QED
    BY <1>1, <1>2, <1>3, <1>4, <1>5, <1>6, <1>7 DEF IInv

\* The DMA has wrapped around: the rest of the round is announced.
LEMMA RxCpltIInv == ASSUME IInv, RxCplt PROVE IInv'
  <1> USE BufszAssumption
  <1> DEFINE len == bufsz - dma.last_index
  <1>1. /\ fifo \in Fifo /\ history \in History /\ dma \in Dma /\ isr \in Isr
        /\ open = "DMA_RX" /\ dma.tc /\ isr.pc # "count" /\ dma.next = 0
        /\ fifo.is_full => fifo.put = fifo.get
    <2>1. fifo \in Fifo /\ history \in History /\ dma \in Dma /\ isr \in Isr
      BY DEF IInv, TypeOK, Fifo, History, Dma, Isr
    <2>2. dma.tc /\ isr.pc # "count"
      BY DEF RxCplt
    <2>3. open = "DMA_RX" /\ dma.next = 0
      BY <2>2 DEF IInv, Hardware
    <2>4. fifo.is_full => fifo.put = fifo.get
      BY <2>3 DEF IInv, Full
    <2> QED
      BY <2>1, <2>2, <2>3, <2>4
  <1>2. len \in 1..bufsz /\ fifo.put \in 0..bufsz - 1 /\ fifo.put + len \in 0..2 * bufsz - 1
    BY <1>1 DEF Dma, Fifo
  <1>3. fifo' = update_put_index(fifo, len)
    BY DEF RxCplt, DmaDone
  <1>4. /\ fifo' \in Fifo
        /\ fifo'.put = Wrap(fifo.put + len)
        /\ fifo'.buffer = fifo.buffer
        /\ fifo'.is_full => fifo'.put = fifo'.get
    BY <1>1, <1>2, <1>3, UpdateTypes
  <1>5. /\ Count(fifo') = IF Count(fifo) + len < bufsz THEN Count(fifo) + len ELSE bufsz
        /\ Count(fifo') > 0
    BY <1>1, <1>2, <1>3, UpdateCount
  <1>6. /\ history' \in History
        /\ history'.sent = history.sent /\ history'.announced = history.announced + len
        /\ history'.raced = history.raced /\ history'.wiped = FALSE
    <2>1. history' = [history EXCEPT !.announced = history.announced + len, !.wiped = FALSE]
      BY DEF RxCplt
    <2>2. history.announced + len \in Int
      BY <1>1, <1>2 DEF History
    <2> HIDE DEF len
    <2>3. history' \in History
      BY <1>1, <2>1, <2>2 DEF History
    <2> QED
      BY <1>1, <2>1, <2>3 DEF History
  <1>7. dma' \in Dma /\ dma'.next = 0 /\ dma'.last_index = 0 /\ dma'.tc = FALSE
    BY <1>1 DEF RxCplt, Dma
  <1>8. /\ parser' \in {"read", "reset", "take", "suspend"} /\ rx_notice' \in Nat
        /\ parser' # "suspend" /\ (parser' = "take" => rx_notice' > 0)
    BY <1>5, WakesReader DEF IInv, TypeOK, RxCplt, DmaDone
  <1>9. UNCHANGED <<open, idle, isr, got>>
    BY DEF RxCplt
  <1>10. TypeOK'
    BY <1>4, <1>6, <1>7, <1>8, <1>9 DEF IInv, TypeOK, Fifo, History, Dma
  <1>11. Hardware'
    BY <1>1, <1>6, <1>7, <1>9 DEF IInv, Hardware, History, Isr
  <1>12. Sync'
    <2>1. fifo.put + isr.len \in {dma.last_index, dma.last_index + bufsz}
      BY <1>1 DEF IInv, Sync
    <2>2. isr.len \in 1 - bufsz..bufsz - 1 /\ dma.last_index \in 0..bufsz - 1
      BY <1>1 DEF IInv, Hardware, Dma
    <2>3. Wrap(fifo.put + len) + isr.len \in {0, bufsz}
      BY <1>2, <2>1, <2>2 DEF Wrap
    <2> QED
      BY <1>4, <1>7, <1>9, <2>3 DEF Sync
  <1>13. Ahead'
    <2>1. history.sent = history.announced + isr.len + dma.next - dma.last_index + bufsz
      BY <1>1 DEF IInv, Ahead
    <2>2. history'.sent = history'.announced + isr.len
      BY <1>1, <1>6, <2>1 DEF History, Dma, Isr
    <2> QED
      BY <1>1, <1>6, <1>7, <1>9, <2>2 DEF Ahead, History, Isr
  <1>14. Contents'
    <2>1. Position' = Position /\ Rounds' = Rounds
      BY <1>1, <1>6, <1>7, <1>9 DEF Position, Rounds
    <2> QED
      BY <1>4, <2>1 DEF IInv, Contents
  <1>15. Full' /\ Counted'
    <2>1. Count(fifo) \in 0..bufsz
      BY <1>1, CountRange
    <2>2. Counted'
      BY <1>1, <1>2, <1>5, <1>6, <2>1 DEF IInv, Counted, History
    <2> QED
      BY <1>1, <1>4, <1>9, <2>2 DEF Full
  <1>16. Noticed'
    BY <1>8 DEF Noticed
  <1> QED
    BY <1>10, <1>11, <1>12, <1>13, <1>14, <1>15, <1>16 DEF IInv

\* uart_isr is entered.
LEMMA IsrEnterIInv == ASSUME IInv, IsrEnter PROVE IInv'
  <1> USE BufszAssumption
  <1>1. TypeOK'
    BY DEF IInv, TypeOK, IsrEnter, reader
  <1>2. Hardware'
    BY DEF IInv, TypeOK, Hardware, IsrEnter, reader
  <1>3. Sync'
    BY DEF IInv, TypeOK, Hardware, Sync, IsrEnter, reader
  <1>4. Ahead'
    BY DEF IInv, TypeOK, Hardware, Ahead, IsrEnter, reader
  <1>5. Contents'
    BY DEF IInv, TypeOK, Hardware, Contents, Rounds, Position, IsrEnter, reader
  <1>6. Full' /\ Counted'
    BY DEF IInv, TypeOK, Hardware, Full, Counted, Count, IsrEnter, reader
  <1>7. Noticed'
    BY DEF IInv, TypeOK, Noticed, Count, IsrEnter, reader
  <1> QED
    BY <1>1, <1>2, <1>3, <1>4, <1>5, <1>6, <1>7 DEF IInv

\* uart_isr looks at the counter of the DMA.
LEMMA IsrCountIInv == ASSUME IInv, IsrCount PROVE IInv'
  <1> USE BufszAssumption
  <1>1. /\ fifo \in Fifo /\ history \in History /\ dma \in Dma /\ isr \in Isr
        /\ isr.pc = "count" /\ isr.len = 0 /\ open = "DMA_RX"
    BY DEF IInv, TypeOK, Fifo, History, Dma, Isr, Hardware, IsrCount
  <1>2. isr' \in Isr /\ isr'.pc = "done" /\ isr'.len = dma.next - dma.last_index
    BY <1>1 DEF IsrCount, Isr, Dma
  <1>3. dma' \in Dma /\ dma'.next = dma.next /\ dma'.last_index = dma.next /\ dma'.tc = dma.tc
    BY <1>1 DEF IsrCount, Dma
  <1>4. /\ history' \in History
        /\ history'.sent = history.sent /\ history'.announced = history.announced
        /\ history'.raced = history.raced /\ history'.wiped = history.wiped
    BY <1>1 DEF IsrCount, History
  <1>5. UNCHANGED <<open, fifo, idle, parser, rx_notice, got>>
    BY DEF IsrCount, reader
  <1>6. dma.next \in 0..bufsz - 1 /\ dma.last_index \in 0..bufsz - 1 /\ fifo.put \in 0..bufsz - 1
    BY <1>1 DEF Dma, Fifo
  <1>7. TypeOK'
    BY <1>2, <1>3, <1>4, <1>5 DEF IInv, TypeOK, Isr, Dma, History
  <1>8. Hardware'
    <2>1. isr'.len \in 1 - bufsz..bufsz - 1
      BY <1>2, <1>6
    <2>2. ~history.raced => isr'.len >= 0
      BY <1>1, <1>2, <1>6 DEF IInv, Hardware
    <2>3. IF dma'.tc THEN dma'.next = 0 ELSE dma'.last_index <= dma'.next
      BY <1>3, <1>6 DEF IInv, Hardware
    <2> QED
      BY <1>1, <1>2, <1>4, <1>5, <2>1, <2>2, <2>3 DEF Hardware
  <1>9. Sync'
    <2>1. fifo.put = dma.last_index
      BY <1>1, <1>6 DEF IInv, Sync
    <2>2. fifo.put + isr'.len = dma.next
      BY <1>2, <1>6, <2>1
    <2> QED
      BY <1>3, <1>5, <2>2 DEF Sync
  <1>10. Ahead'
    <2>1. dma.next - dma.next = 0
      BY <1>6
    <2> QED
      BY <1>1, <1>2, <1>3, <1>4, <1>5, <1>6, <2>1 DEF IInv, Ahead, History
  <1>11. Contents'
    <2>1. Position' = Position /\ Rounds' = Rounds
      BY <1>1, <1>3, <1>4, <1>5 DEF Position, Rounds
    <2> QED
      BY <1>5, <2>1 DEF IInv, Contents
  <1>12. Full' /\ Counted' /\ Noticed'
    BY <1>4, <1>5 DEF IInv, Full, Counted, Noticed, Count
  <1> QED
    BY <1>7, <1>8, <1>9, <1>10, <1>11, <1>12 DEF IInv

\* uart_isr announces what it has counted.
LEMMA IsrDoneIInv == ASSUME IInv, IsrDone PROVE IInv'
  <1> USE BufszAssumption
  <1>1. /\ fifo \in Fifo /\ history \in History /\ dma \in Dma /\ isr \in Isr
        /\ open = "DMA_RX" /\ ~dma.tc
        /\ fifo.is_full => fifo.put = fifo.get
    BY DEF IInv, TypeOK, Fifo, History, Dma, Isr, Hardware, Full, IsrDone
  <1>2. isr' \in Isr /\ isr'.pc = "none" /\ isr'.len = 0 /\ idle' = FALSE
    BY DEF IsrDone, Isr
  <1>3. UNCHANGED <<open, dma, got>>
    BY DEF IsrDone
  <1>4. /\ history' \in History
        /\ history'.sent = history.sent /\ history'.announced = history.announced + isr.len
        /\ history'.raced = history.raced /\ history'.wiped = (history.wiped /\ isr.len = 0)
    <2> DEFINE wiped == history.wiped /\ isr.len = 0
               skipped == history.quiet > history.counted
    <2>1. history' = [history EXCEPT !.announced = history.announced + isr.len,
                                     !.wiped = wiped, !.skipped = skipped]
      BY DEF IsrDone
    <2>2. history.announced + isr.len \in Int /\ wiped \in BOOLEAN /\ skipped \in BOOLEAN
      BY <1>1 DEF History, Isr
    <2> HIDE DEF wiped, skipped
    <2>3. history' \in History
      BY <1>1, <2>1, <2>2 DEF History
    <2>4. /\ history'.sent = history.sent /\ history'.announced = history.announced + isr.len
          /\ history'.raced = history.raced /\ history'.wiped = wiped
      BY <1>1, <2>1 DEF History
    <2> QED
      BY <2>3, <2>4 DEF wiped
  <1>5. /\ isr.len \in 1 - bufsz..bufsz - 1 /\ fifo.put \in 0..bufsz - 1
        /\ dma.last_index \in 0..bufsz - 1
        /\ fifo.put + isr.len \in {dma.last_index, dma.last_index + bufsz}
    BY <1>1 DEF IInv, Hardware, Sync, Fifo, Dma
  <1>6. /\ fifo' \in Fifo
        /\ fifo'.put = dma.last_index
        /\ fifo'.buffer = fifo.buffer
        /\ fifo'.is_full => fifo'.put = fifo'.get
        /\ ~history.raced => Count(fifo') <= history.announced + isr.len
    <2>1. CASE isr.len = 0
      <3>1. fifo' = fifo
        BY <2>1 DEF IsrDone
      <3>2. fifo.put = dma.last_index
        BY <1>5, <2>1
      <3>3. ~history.raced => Count(fifo') <= history.announced + isr.len
        BY <1>1, <2>1, <3>1 DEF IInv, Counted, History
      <3> QED
        BY <1>1, <3>1, <3>2, <3>3
    <2>2. CASE isr.len # 0
      <3>1. fifo' = update_put_index(fifo, isr.len)
        BY <2>2 DEF IsrDone, DmaDone
      <3>2. fifo.put + isr.len \in 0..2 * bufsz - 1 /\ Wrap(fifo.put + isr.len) = dma.last_index
        BY <1>5 DEF Wrap
      <3>3. ASSUME ~history.raced PROVE Count(fifo') <= history.announced + isr.len
        <4>1. isr.len \in 1..bufsz /\ Count(fifo) <= history.announced
          BY <3>3, <2>2, <1>5 DEF IInv, Hardware, Counted
        <4>2. Count(fifo') = IF Count(fifo) + isr.len < bufsz THEN Count(fifo) + isr.len ELSE bufsz
          BY <1>1, <3>1, <4>1, UpdateCount
        <4>3. Count(fifo) \in 0..bufsz
          BY <1>1, CountRange
        <4> QED
          BY <1>1, <4>1, <4>2, <4>3 DEF History
      <3> QED
        BY <1>1, <1>5, <3>1, <3>2, <3>3, UpdateTypes
    <2> QED
      BY <2>1, <2>2
  <1>7. /\ parser' \in {"read", "reset", "take", "suspend"} /\ rx_notice' \in Nat
        /\ Noticed'
    <2>1. CASE isr.len = 0
      <3>1. UNCHANGED <<fifo, parser, rx_notice>> /\ history'.wiped = history.wiped
        BY <2>1, <1>1, <1>4 DEF IsrDone, History
      <3> QED
        BY <3>1 DEF IInv, TypeOK, Noticed
    <2>2. CASE isr.len # 0 /\ Count(fifo') > 0
      BY <2>2, WakesReader DEF IInv, TypeOK, IsrDone, DmaDone, Noticed
    <2>3. CASE isr.len # 0 /\ ~(Count(fifo') > 0)
      BY <2>3 DEF IInv, TypeOK, IsrDone, DmaDone, Noticed
    <2> QED
      BY <2>1, <2>2, <2>3
  <1>8. TypeOK'
    BY <1>2, <1>3, <1>4, <1>6, <1>7 DEF IInv, TypeOK, Fifo, History, Isr
  <1>9. Hardware'
    BY <1>1, <1>2, <1>3, <1>4 DEF IInv, Hardware, History
  <1>10. Sync'
    BY <1>2, <1>3, <1>5, <1>6 DEF Sync
  <1>11. Ahead'
    BY <1>1, <1>2, <1>3, <1>4 DEF IInv, Ahead, History, Isr, Dma
  <1>12. Contents'
    <2>1. Position' = Position /\ Rounds' = Rounds
      BY <1>1, <1>3, <1>4 DEF Position, Rounds
    <2> QED
      BY <1>6, <2>1 DEF IInv, Contents
  <1>13. Full' /\ Counted'
    BY <1>1, <1>3, <1>4, <1>6 DEF Full, Counted
  <1> QED
    BY <1>7, <1>8, <1>9, <1>10, <1>11, <1>12, <1>13 DEF IInv

\* The parser thread takes a byte.
LEMMA ReadByteIInv == ASSUME IInv, ReadByte PROVE IInv'
  <1> USE BufszAssumption
  <1>1. /\ fifo \in Fifo /\ history \in History /\ parser = "read" /\ Count(fifo) > 0
        /\ fifo' = Take(fifo) /\ open # "closed"
    BY DEF IInv, TypeOK, Fifo, History, ReadByte, ThreadRuns
  <1>2. /\ fifo' \in Fifo
        /\ fifo'.put = fifo.put /\ fifo'.buffer = fifo.buffer /\ fifo'.is_full = FALSE
        /\ Count(fifo') = Count(fifo) - 1
    BY <1>1, TakeCount
  <1>3. got' \in Nat
    BY <1>1 DEF ReadByte, Fifo
  <1>4. /\ history' \in History
        /\ history'.sent = history.sent /\ history'.announced = history.announced
        /\ history'.raced = history.raced /\ history'.wiped = history.wiped
    <2> DEFINE torn == history.torn \/ Count(fifo) + history.sent - history.announced > bufsz
    <2>1. history' = [history EXCEPT !.torn = torn] /\ torn \in BOOLEAN
      BY <1>1 DEF ReadByte, History
    <2> HIDE DEF torn
    <2> QED
      BY <1>1, <2>1 DEF History
  <1>5. UNCHANGED <<open, dma, idle, isr, parser, rx_notice>>
    BY DEF ReadByte
  <1>6. TypeOK'
    BY <1>2, <1>3, <1>4, <1>5 DEF IInv, TypeOK, Fifo, History
  <1>7. Hardware' /\ Sync' /\ Ahead'
    BY <1>1, <1>2, <1>4, <1>5 DEF IInv, Hardware, Sync, Ahead
  <1>8. Contents'
    <2>1. Position' = Position /\ Rounds' = Rounds
      BY <1>2, <1>4, <1>5 DEF Position, Rounds
    <2> QED
      BY <1>2, <2>1 DEF IInv, Contents
  <1>9. Full'
    BY <1>2 DEF Full
  <1>10. Counted'
    <2>1. Count(fifo) \in 0..bufsz
      BY <1>1, CountRange
    <2> QED
      BY <1>1, <1>2, <1>4, <2>1 DEF IInv, Counted, History
  <1>11. Noticed'
    BY <1>1, <1>5 DEF Noticed
  <1> QED
    BY <1>6, <1>7, <1>8, <1>9, <1>10, <1>11 DEF IInv

\* The parser thread finds the fifo empty.
LEMMA ReadNothingIInv == ASSUME IInv, ReadNothing PROVE IInv'
  <1> USE BufszAssumption
  <1>1. TypeOK'
    BY DEF IInv, TypeOK, ReadNothing, reader, ThreadRuns
  <1>2. Hardware'
    BY DEF IInv, TypeOK, Hardware, ReadNothing, reader, ThreadRuns
  <1>3. Sync'
    BY DEF IInv, TypeOK, Hardware, Sync, ReadNothing, reader, ThreadRuns
  <1>4. Ahead'
    BY DEF IInv, TypeOK, Hardware, Ahead, ReadNothing, reader, ThreadRuns
  <1>5. Contents'
    BY DEF IInv, TypeOK, Hardware, Contents, Rounds, Position, ReadNothing, reader, ThreadRuns
  <1>6. Full' /\ Counted'
    BY DEF IInv, TypeOK, Hardware, Full, Counted, Count, ReadNothing, reader, ThreadRuns
  <1>7. Noticed'
    BY DEF IInv, TypeOK, Noticed, Count, ReadNothing, reader, ThreadRuns
  <1> QED
    BY <1>1, <1>2, <1>3, <1>4, <1>5, <1>6, <1>7 DEF IInv

\* The reset of rx_notice records what it drops.
LEMMA ResetNoticeIInv == ASSUME IInv, ResetNotice PROVE IInv'
  <1> USE BufszAssumption
  <1>1. TypeOK'
    <2>1. (Count(fifo) > 0) \in BOOLEAN /\ history \in History
      BY DEF IInv, TypeOK, History
    <2>2. history' \in History
      BY <2>1 DEF ResetNotice, History
    <2> QED
      BY <2>2 DEF IInv, TypeOK, ResetNotice, ThreadRuns, History
  <1>2. Hardware'
    BY DEF IInv, TypeOK, Hardware, ResetNotice, reader, ThreadRuns
  <1>3. Sync'
    BY DEF IInv, TypeOK, Hardware, Sync, ResetNotice, reader, ThreadRuns
  <1>4. Ahead'
    BY DEF IInv, TypeOK, Hardware, Ahead, ResetNotice, reader, ThreadRuns
  <1>5. Contents'
    BY DEF IInv, TypeOK, Hardware, Contents, Rounds, Position, ResetNotice, reader, ThreadRuns
  <1>6. Full' /\ Counted'
    BY DEF IInv, TypeOK, Hardware, Full, Counted, Count, ResetNotice, reader, ThreadRuns
  <1>7. Noticed'
    BY DEF IInv, TypeOK, Noticed, Count, ResetNotice, reader, ThreadRuns
  <1> QED
    BY <1>1, <1>2, <1>3, <1>4, <1>5, <1>6, <1>7 DEF IInv

\* The parser thread takes a token or waits.
LEMMA TakeNoticeIInv == ASSUME IInv, TakeNotice PROVE IInv'
  <1> USE BufszAssumption
  <1>1. TypeOK'
    <2>1. TypeOK
      BY DEF IInv
    <2>2. rx_notice' \in Nat
      BY <2>1 DEF TypeOK, TakeNotice
    <2>3. parser' \in {"read", "reset", "take", "suspend"}
      BY DEF TakeNotice
    <2>4. UNCHANGED <<open, fifo, dma, idle, isr, got, history>>
      BY DEF TakeNotice
    <2> QED
      BY <2>1, <2>2, <2>3, <2>4 DEF TypeOK
  <1>2. Hardware'
    BY DEF IInv, TypeOK, Hardware, TakeNotice, reader, ThreadRuns
  <1>3. Sync'
    BY DEF IInv, TypeOK, Hardware, Sync, TakeNotice, reader, ThreadRuns
  <1>4. Ahead'
    BY DEF IInv, TypeOK, Hardware, Ahead, TakeNotice, reader, ThreadRuns
  <1>5. Contents'
    BY DEF IInv, TypeOK, Hardware, Contents, Rounds, Position, TakeNotice, reader, ThreadRuns
  <1>6. Full' /\ Counted'
    BY DEF IInv, TypeOK, Hardware, Full, Counted, Count, TakeNotice, reader, ThreadRuns
  <1>7. Noticed'
    BY DEF IInv, TypeOK, Noticed, Count, TakeNotice, reader, ThreadRuns
  <1> QED
    BY <1>1, <1>2, <1>3, <1>4, <1>5, <1>6, <1>7 DEF IInv

\* The wait is given up.
LEMMA NoticeTimeoutIInv == ASSUME IInv, NoticeTimeout PROVE IInv'
  <1> USE BufszAssumption
  <1>1. TypeOK'
    BY DEF IInv, TypeOK, NoticeTimeout, reader, ThreadRuns
  <1>2. Hardware'
    BY DEF IInv, TypeOK, Hardware, NoticeTimeout, reader, ThreadRuns
  <1>3. Sync'
    BY DEF IInv, TypeOK, Hardware, Sync, NoticeTimeout, reader, ThreadRuns
  <1>4. Ahead'
    BY DEF IInv, TypeOK, Hardware, Ahead, NoticeTimeout, reader, ThreadRuns
  <1>5. Contents'
    BY DEF IInv, TypeOK, Hardware, Contents, Rounds, Position, NoticeTimeout, reader, ThreadRuns
  <1>6. Full' /\ Counted'
    BY DEF IInv, TypeOK, Hardware, Full, Counted, Count, NoticeTimeout, reader, ThreadRuns
  <1>7. Noticed'
    BY DEF IInv, TypeOK, Noticed, Count, NoticeTimeout, reader, ThreadRuns
  <1> QED
    BY <1>1, <1>2, <1>3, <1>4, <1>5, <1>6, <1>7 DEF IInv
\* Every step of Next keeps the invariant.
LEMMA NextIInv == IInv /\ [Next]_vars => IInv'
  <1> SUFFICES ASSUME IInv, [Next]_vars PROVE IInv'
    OBVIOUS
  <1>1. ASSUME NEW mode \in {"INT_RX", "DMA_RX"}, rt_serial_open(mode) PROVE IInv'
    BY <1>1, rt_serial_openIInv
  <1>2. CASE RxInd \/ DmaByte \/ LineIdle \/ NoticeTimeout
    BY <1>2, RxIndIInv, DmaByteIInv, LineIdleIInv, NoticeTimeoutIInv
  <1>3. CASE Interrupt
    BY <1>3, RxCpltIInv, IsrEnterIInv, IsrCountIInv, IsrDoneIInv DEF Interrupt
  <1>4. CASE Getchar
    BY <1>4, ReadByteIInv, ReadNothingIInv, ResetNoticeIInv, TakeNoticeIInv DEF Getchar
  <1>5. CASE UNCHANGED vars
    BY <1>5 DEF vars, IInv, TypeOK, Hardware, Sync, Ahead, Contents, Rounds, Position, Full,
                Counted, Noticed, Count
  <1> QED
    BY <1>1, <1>2, <1>3, <1>4, <1>5 DEF Next

\* The inductive invariant holds always.
THEOREM Invariance == Spec => []IInv
  BY InitIInv, NextIInv, PTL DEF Spec

\* The types: both indices stay inside the buffer, also when uart_isr has counted
\* less than nothing.
THEOREM TypeCorrect == Spec => []TypeOK
  <1>1. IInv => TypeOK
    BY DEF IInv
  <1> QED
    BY <1>1, Invariance, PTL

\* at_client_getchar: a thread that waits for rx_notice leaves a byte in the fifo
\* only when its own reset has dropped the token for it.
THEOREM ReaderWoken == Spec => []StrandedOnlyByReset
  <1>1. IInv => StrandedOnlyByReset
    BY DEF IInv, Noticed, StrandedOnlyByReset
  <1> QED
    BY <1>1, Invariance, PTL
-----------------------------------------------------------------------------
(* The driver implements the queue                                          *)

\* The last c of the first a bytes.
Run(a, c) == [i \in 1..c |-> a - c + i]

\* A run is a sequence.
LEMMA RunSeq ==
    ASSUME NEW a \in Int, NEW c \in Nat
    PROVE  /\ Run(a, c) \in Seq(Int) /\ Len(Run(a, c)) = c
           /\ \A i \in 1..c : Run(a, c)[i] = a - c + i
  <1>1. Run(a, c) \in [1..c -> Int]
    BY DEF Run
  <1> QED
    BY <1>1 DEF Run

\* The runs before and after a place make one run.
LEMMA RunConcat ==
    ASSUME NEW a \in Int, NEW c \in Nat, NEW n \in Nat
    PROVE  Run(a, c) \o [i \in 1..n |-> a + i] = Run(a + n, c + n)
  <1> DEFINE s == Run(a, c)
             t == [i \in 1..n |-> a + i]
             u == Run(a + n, c + n)
  <1>1. s \in Seq(Int) /\ Len(s) = c /\ \A i \in 1..c : s[i] = a - c + i
    BY RunSeq
  <1>2. t \in Seq(Int) /\ Len(t) = n /\ \A i \in 1..n : t[i] = a + i
    <2>1. t \in [1..n -> Int]
      OBVIOUS
    <2> QED
      BY <2>1
  <1>3. u \in Seq(Int) /\ Len(u) = c + n /\ \A i \in 1..c + n : u[i] = a - c + i
    <2>1. a + n \in Int /\ c + n \in Nat
      OBVIOUS
    <2>2. u \in Seq(Int) /\ Len(u) = c + n /\ \A i \in 1..c + n : u[i] = (a + n) - (c + n) + i
      BY <2>1, RunSeq
    <2> QED
      BY <2>2
  <1> HIDE DEF s, t, u
  <1> DEFINE w == s \o t
  <1>4. w \in Seq(Int) /\ Len(w) = Len(s) + Len(t)
    BY <1>1, <1>2, ConcatProperties
  <1>5. \A i \in 1..Len(s) + Len(t) : w[i] = IF i <= Len(s) THEN s[i] ELSE t[i - Len(s)]
    BY <1>1, <1>2, ConcatProperties
  <1> HIDE DEF w
  <1>6. ASSUME NEW i \in 1..c + n PROVE w[i] = u[i]
    BY <1>1, <1>2, <1>3, <1>5
  <1>7. w = u
    BY <1>1, <1>2, <1>3, <1>4, <1>6, SeqEqual
  <1> QED
    BY <1>7 DEF s, t, u, w

\* The newest bytes of a run.
LEMMA RunNewest ==
    ASSUME NEW a \in Int, NEW c \in Nat, NEW m \in Nat
    PROVE  Queue!Newest(Run(a, c), m) = Run(a, IF c < m THEN c ELSE m)
  <1>1. Run(a, c) \in Seq(Int) /\ Len(Run(a, c)) = c /\ \A i \in 1..c : Run(a, c)[i] = a - c + i
    BY RunSeq
  <1>2. CASE c <= m
    BY <1>1, <1>2 DEF Queue!Newest
  <1>3. CASE c > m
    <2> DEFINE s == SubSeq(Run(a, c), c - m + 1, c)
    <2>1. Queue!Newest(Run(a, c), m) = s
      BY <1>1, <1>3 DEF Queue!Newest
    <2>2. s \in Seq(Int) /\ Len(s) = m /\ \A i \in 1..m : s[i] = Run(a, c)[c - m + i]
      BY <1>1, <1>3
    <2>3. Run(a, m) \in Seq(Int) /\ Len(Run(a, m)) = m /\ \A i \in 1..m : Run(a, m)[i] = a - m + i
      BY RunSeq
    <2> HIDE DEF s
    <2>4. ASSUME NEW i \in 1..m PROVE s[i] = Run(a, m)[i]
      BY <1>1, <1>3, <2>2, <2>3
    <2>5. s = Run(a, m)
      BY <2>2, <2>3, <2>4
    <2> QED
      BY <1>3, <2>1, <2>5
  <1> QED
    BY <1>2, <1>3

\* The oldest byte of a run, and the run without it.
LEMMA RunTail ==
    ASSUME NEW a \in Int, NEW c \in Nat, c > 0
    PROVE  Run(a, c) # << >> /\ Head(Run(a, c)) = a - c + 1 /\ Tail(Run(a, c)) = Run(a, c - 1)
  <1>1. Run(a, c) \in Seq(Int) /\ Len(Run(a, c)) = c /\ \A i \in 1..c : Run(a, c)[i] = a - c + i
    BY RunSeq
  <1>2. /\ Run(a, c - 1) \in Seq(Int) /\ Len(Run(a, c - 1)) = c - 1
        /\ \A i \in 1..c - 1 : Run(a, c - 1)[i] = a - (c - 1) + i
    <2>1. c - 1 \in Nat
      OBVIOUS
    <2> QED
      BY <2>1, RunSeq
  <1>3. Run(a, c) # << >> /\ Head(Run(a, c)) = a - c + 1
    BY <1>1
  <1> DEFINE t == Tail(Run(a, c))
  <1>4. t \in Seq(Int) /\ Len(t) = c - 1 /\ \A i \in 1..c - 1 : t[i] = Run(a, c)[i + 1]
    BY <1>1
  <1> HIDE DEF t
  <1>5. ASSUME NEW i \in 1..c - 1 PROVE t[i] = Run(a, c - 1)[i]
    BY <1>1, <1>2, <1>4
  <1>6. t = Run(a, c - 1)
    BY <1>2, <1>4, <1>5
  <1> QED
    BY <1>3, <1>6 DEF t
\* What the fifo stands for.
Capacity == CASE open = "closed" -> 0 [] open = "INT_RX" -> bufsz - 1 [] OTHER -> bufsz
Held == Run(history.announced, Count(fifo))

\* A step of the driver that adds n bytes and keeps the newest.
LEMMA PutStep ==
    ASSUME open # "closed", open' = open, got' = got,
           history.announced \in Int, Count(fifo) \in Nat, Capacity \in Nat,
           NEW n \in Nat, n > 0, n <= Capacity + 1,
           history'.announced = history.announced + n,
           Count(fifo') = IF Count(fifo) + n < Capacity THEN Count(fifo) + n ELSE Capacity
    PROVE  Queue!Next
  <1> DEFINE a == history.announced
             c == Count(fifo)
  <1>1. Held \o [i \in 1..n |-> a + i] = Run(a + n, c + n)
    BY RunConcat DEF Held
  <1>2. Queue!Newest(Run(a + n, c + n), Capacity)
          = Run(a + n, IF c + n < Capacity THEN c + n ELSE Capacity)
    <2>1. a + n \in Int /\ c + n \in Nat
      OBVIOUS
    <2> QED
      BY <2>1, RunNewest
  <1>3. Held' = Run(a + n, IF c + n < Capacity THEN c + n ELSE Capacity)
    BY DEF Held
  <1>4. Held' = Queue!Newest(Held \o [i \in 1..n |-> a + i], Capacity)
    BY <1>1, <1>2, <1>3
  <1>5. Capacity' = Capacity /\ Capacity # 0
    BY BufszAssumption DEF Capacity
  <1>6. Queue!Put(n)
    BY <1>4, <1>5 DEF Queue!Put, Held, Run, Capacity
  <1>7. n \in 1..Capacity + 1
    OBVIOUS
  <1> QED
    BY <1>6, <1>7 DEF Queue!Next, Capacity

\* A step of the driver that leaves what the fifo stands for.
LEMMA Stutter ==
    ASSUME open' = open, got' = got, history'.announced = history.announced,
           Count(fifo') = Count(fifo)
    PROVE  UNCHANGED Queue!vars
  BY DEF Queue!vars

\* The initial state of the driver is that of the queue.
LEMMA QueueInit == Init => Queue!Init
  <1> SUFFICES ASSUME Init PROVE Queue!Init
    OBVIOUS
  <1>1. Count(fifo) = 0 /\ history.announced = 0 /\ open = "closed" /\ got = 0
    BY DEF Init, Count
  <1>2. [i \in 1..Count(fifo) |-> history.announced - Count(fifo) + i] = << >>
    BY <1>1
  <1> QED
    BY <1>1, <1>2 DEF Queue!Init

\* Opening the device gives the queue its capacity.
LEMMA OpenRefines ==
    ASSUME IInv, NEW mode \in {"INT_RX", "DMA_RX"}, rt_serial_open(mode)
    PROVE  Queue!Next
  <1>1. open = "closed" /\ open' = mode /\ UNCHANGED <<fifo, history, got>>
    BY DEF rt_serial_open, reader
  <1>2. Capacity = 0 /\ Capacity' \in Nat \ {0}
    BY <1>1, BufszAssumption DEF Capacity
  <1>3. Queue!Open
    BY <1>1, <1>2 DEF Queue!Open, Capacity
  <1> QED
    BY <1>3 DEF Queue!Next

\* The receive interrupt puts one byte.
LEMMA RxIndRefines == ASSUME IInv, RxInd PROVE Queue!Next
  <1>1. /\ fifo \in Fifo /\ history \in History /\ open = "INT_RX"
        /\ fifo.put = fifo.get => ~fifo.is_full
        /\ fifo' = IntStore(fifo, history.sent + 1) /\ history.sent + 1 \in Nat
    <2>1. fifo \in Fifo /\ history \in History
      BY DEF IInv, TypeOK, Fifo, History
    <2>2. open = "INT_RX" /\ fifo' = IntStore(fifo, history.sent + 1)
      BY DEF RxInd
    <2>3. fifo.put = fifo.get => ~fifo.is_full
      BY <2>2 DEF IInv, Full
    <2>4. history.sent + 1 \in Nat
      BY <2>1 DEF History
    <2> QED
      BY <2>1, <2>2, <2>3, <2>4
  <1>2. /\ Count(fifo) \in 0..bufsz - 1
        /\ Count(fifo') = IF Count(fifo) < bufsz - 1 THEN Count(fifo) + 1 ELSE bufsz - 1
    BY <1>1, IntStoreCount
  <1>3. history.announced \in Int /\ history'.announced = history.announced + 1
    BY <1>1 DEF RxInd, History
  <1>4. Capacity = bufsz - 1 /\ Capacity \in Nat /\ 1 <= Capacity + 1
    BY <1>1, BufszAssumption DEF Capacity
  <1>5. Count(fifo') = IF Count(fifo) + 1 < Capacity THEN Count(fifo) + 1 ELSE Capacity
    BY <1>2, <1>4, BufszAssumption
  <1>6. open' = open /\ got' = got
    BY DEF RxInd
  <1>7. Count(fifo) \in Nat /\ open # "closed"
    BY <1>1, <1>2, BufszAssumption
  <1> QED
    BY <1>3, <1>4, <1>5, <1>6, <1>7, PutStep

\* The DMA interrupts put what they announce.
LEMMA DmaDoneRefines ==
    ASSUME IInv, open = "DMA_RX", NEW len \in 1..bufsz, fifo' = update_put_index(fifo, len),
           history'.announced = history.announced + len, open' = open, got' = got
    PROVE  Queue!Next
  <1>1. fifo \in Fifo /\ (fifo.is_full => fifo.put = fifo.get) /\ history.announced \in Int
    BY DEF IInv, TypeOK, Fifo, Full
  <1>2. Count(fifo) \in Nat
    BY <1>1, CountRange, BufszAssumption
  <1>3. Capacity = bufsz /\ Capacity \in Nat /\ len \in Nat /\ len > 0 /\ len <= Capacity + 1
    BY BufszAssumption DEF Capacity
  <1>4. Count(fifo') = IF Count(fifo) + len < Capacity THEN Count(fifo) + len ELSE Capacity
    BY <1>1, <1>3, UpdateCount
  <1> QED
    BY <1>1, <1>2, <1>3, <1>4, PutStep

\* A whole round of the DMA.
LEMMA RxCpltRefines == ASSUME IInv, RxCplt PROVE Queue!Next
  <1> DEFINE len == bufsz - dma.last_index
  <1>1. len \in 1..bufsz /\ open = "DMA_RX" /\ history \in History
    <2>1. dma.last_index \in 0..bufsz - 1 /\ history \in History
      BY DEF IInv, TypeOK, History
    <2>2. open = "DMA_RX"
      BY DEF IInv, Hardware, RxCplt
    <2> QED
      BY <2>1, <2>2, BufszAssumption
  <1>2. fifo' = update_put_index(fifo, len)
    BY DEF RxCplt, DmaDone
  <1>3. history'.announced = history.announced + len
    BY <1>1 DEF RxCplt, History
  <1>4. open' = open /\ got' = got
    BY DEF RxCplt
  <1> HIDE DEF len
  <1> QED
    BY <1>1, <1>2, <1>3, <1>4, DmaDoneRefines

\* What uart_isr has counted; a negative number only after the race.
LEMMA IsrDoneRefines ==
    ASSUME IInv, IsrDone
    PROVE  Queue!Next \/ history'.raced \/ UNCHANGED Queue!vars
  <1>1. /\ open = "DMA_RX" /\ history \in History /\ isr.len \in 1 - bufsz..bufsz - 1
        /\ ~history.raced => isr.len >= 0
    BY DEF IInv, TypeOK, Hardware, IsrDone, History
  <1>2. open' = open /\ got' = got
    BY DEF IsrDone
  <1>3. history'.announced = history.announced + isr.len /\ history'.raced = history.raced
    BY <1>1 DEF IsrDone, History
  <1>4. CASE isr.len = 0
    <2>1. fifo' = fifo
      BY <1>4 DEF IsrDone
    <2>2. history'.announced = history.announced
      BY <1>1, <1>3, <1>4 DEF History
    <2> QED
      BY <1>2, <2>1, <2>2, Stutter
  <1>5. CASE isr.len # 0 /\ ~history.raced
    <2>1. isr.len \in 1..bufsz
      BY <1>1, <1>5, BufszAssumption
    <2>2. fifo' = update_put_index(fifo, isr.len)
      BY <1>5 DEF IsrDone, DmaDone
    <2> QED
      BY <1>1, <1>2, <1>3, <2>1, <2>2, DmaDoneRefines
  <1> QED
    BY <1>3, <1>4, <1>5

\* The byte that is read is the oldest one of the queue, unless the DMA has
\* overwritten it.
LEMMA ReadByteRefines ==
    ASSUME IInv, ReadByte
    PROVE  Queue!Next \/ history'.raced \/ history'.torn
  <1> SUFFICES ASSUME ~history'.raced, ~history'.torn PROVE Queue!Next
    OBVIOUS
  <1> USE BufszAssumption
  <1>1. /\ fifo \in Fifo /\ history \in History /\ dma \in Dma /\ Count(fifo) > 0
        /\ fifo' = Take(fifo) /\ isr.len = 0 /\ ~dma.tc
        /\ got' = fifo.buffer[fifo.get]
    BY DEF IInv, TypeOK, Fifo, History, Dma, Hardware, ReadByte, ThreadRuns
  <1>2. Count(fifo') = Count(fifo) - 1
    BY <1>1, TakeCount
  <1>3. /\ ~history.raced /\ history'.announced = history.announced
        /\ ~(Count(fifo) + history.sent - history.announced > bufsz)
    BY <1>1 DEF ReadByte, History
  <1>4. /\ fifo.put \in 0..bufsz - 1 /\ fifo.get \in 0..bufsz - 1
        /\ history.announced \in Int /\ history.sent \in Nat
        /\ Count(fifo) \in 0..bufsz /\ Count(fifo) <= history.announced
    BY <1>1, <1>3, CountRange DEF Fifo, History, IInv, Counted
  <1>5. /\ Position \in 0..bufsz - 1 /\ fifo.put <= Position
        /\ history.sent - history.announced = Position - fifo.put
    <2>1. CASE open = "INT_RX"
      BY <2>1, <1>4 DEF Position, IInv, Ahead
    <2>2. CASE open # "INT_RX"
      <3>1. fifo.put = dma.last_index /\ dma.last_index <= dma.next /\ dma.next \in 0..bufsz - 1
        BY <2>2, <1>1, <1>4 DEF IInv, Sync, Hardware, Dma
      <3>2. history.sent = history.announced + dma.next - dma.last_index
        BY <2>2, <1>1, <1>4, <3>1 DEF IInv, Ahead
      <3> QED
        BY <2>2, <1>4, <3>1, <3>2 DEF Position
    <2> QED
      BY <2>1, <2>2
  <1>6. Rounds = history.announced - fifo.put /\ Rounds \in Int
    BY <1>4, <1>5 DEF Rounds
  <1>7. got' = history.announced - Count(fifo) + 1
    <2>1. CASE fifo.get < fifo.put
      <3>1. Count(fifo) = fifo.put - fifo.get
        BY <2>1, <1>4 DEF Count
      <3>2. fifo.buffer[fifo.get] = Rounds + fifo.get + 1
        BY <2>1, <1>4, <1>5 DEF IInv, Contents
      <3> QED
        BY <1>1, <1>4, <1>6, <3>1, <3>2
    <2>2. CASE fifo.get >= fifo.put
      <3>1. Count(fifo) = bufsz - (fifo.get - fifo.put)
        BY <2>2, <1>1, <1>4 DEF Count
      <3>2. fifo.get >= Position
        BY <1>3, <1>4, <1>5, <3>1
      <3>3. Rounds > 0
        BY <1>4, <1>6, <3>1
      <3>4. Rounds >= bufsz
        BY <1>6, <3>3 DEF IInv, Contents
      <3>5. fifo.buffer[fifo.get] = Rounds + fifo.get + 1 - bufsz
        BY <1>4, <1>5, <3>2, <3>4 DEF IInv, Contents
      <3> QED
        BY <1>1, <1>4, <1>6, <3>1, <3>5
    <2> QED
      BY <1>4, <2>1, <2>2
  <1>8. /\ Held # << >> /\ Head(Held) = history.announced - Count(fifo) + 1
        /\ Tail(Held) = Run(history.announced, Count(fifo) - 1)
    <2>1. Count(fifo) \in Nat
      BY <1>4
    <2> QED
      BY <1>1, <1>4, <2>1, RunTail DEF Held
  <1>9. Held' = Tail(Held)
    BY <1>2, <1>3, <1>8 DEF Held
  <1>10. open' = open
    BY DEF ReadByte
  <1>11. Queue!Get
    BY <1>3, <1>7, <1>8, <1>9, <1>10 DEF Queue!Get, Held, Run
  <1> QED
    BY <1>11 DEF Queue!Next

\* Every step of the driver is one of the queue.
LEMMA NextRefines ==
    IInv /\ [Next]_vars => [Queue!Next \/ history'.raced \/ history'.torn]_(Queue!vars)
  <1> SUFFICES ASSUME IInv, [Next]_vars
               PROVE  Queue!Next \/ history'.raced \/ history'.torn \/ UNCHANGED Queue!vars
    OBVIOUS
  <1>1. ASSUME NEW mode \in {"INT_RX", "DMA_RX"}, rt_serial_open(mode) PROVE Queue!Next
    BY <1>1, OpenRefines
  <1>2. CASE RxInd \/ RxCplt
    BY <1>2, RxIndRefines, RxCpltRefines
  <1>3. CASE IsrDone
    BY <1>3, IsrDoneRefines
  <1>4. CASE ReadByte
    BY <1>4, ReadByteRefines
  <1>5. CASE DmaByte \/ IsrCount \/ LineIdle \/ ResetNotice
    <2>1. open' = open /\ got' = got
      BY <1>5 DEF DmaByte, IsrCount, LineIdle, ResetNotice, reader
    <2>2. history'.announced = history.announced
      BY <1>5 DEF IInv, TypeOK, DmaByte, IsrCount, LineIdle, ResetNotice
    <2>3. Count(fifo') = Count(fifo)
      BY <1>5 DEF IInv, TypeOK, DmaByte, IsrCount, LineIdle, ResetNotice, Count
    <2> QED
      BY <2>1, <2>2, <2>3, Stutter
  <1>6. CASE NoticeTimeout \/ IsrEnter \/ ReadNothing \/ TakeNotice \/ UNCHANGED vars
    <2>1. UNCHANGED <<open, got, history, fifo>>
      BY <1>6 DEF NoticeTimeout, IsrEnter, ReadNothing, TakeNotice, vars, reader
    <2> QED
      BY <2>1, Stutter
  <1> QED
    BY <1>1, <1>2, <1>3, <1>4, <1>5, <1>6 DEF Next, Interrupt, Getchar

\* serial.c implements the queue of RxQueue, with a buffer of any size and for both
\* ways of receiving: the bytes are read in the order they came, none twice and none
\* but the oldest left out, until the DMA overwrites a byte that is then read or
\* wraps around while uart_isr is about to read its counter.
THEOREM DriverImplementsQueue == Spec => ImplementsQueue
  <1>1. Spec => Queue!Init
    BY QueueInit, PTL DEF Spec
  <1>2. Spec => [][Queue!Next \/ history'.raced \/ history'.torn]_(Queue!vars)
    BY Invariance, NextRefines, PTL DEF Spec
  <1> QED
    BY <1>1, <1>2 DEF ImplementsQueue
=============================================================================
