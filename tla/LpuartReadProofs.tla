--------------------------- MODULE LpuartReadProofs ---------------------------
(***************************************************************************)
(* Theorems about the reading side of LpuartIrq: the types, for any files *)
(* that are open at once, and what holds as long as one file at a time is  *)
(* open, for any number of files that are opened in turn, of threads that  *)
(* share them, any kfifo and any number of bytes.  With a second open the  *)
(* mutex, the wait queue and the kfifo are set up again under those who    *)
(* use them, and nothing of the kind holds.                                *)
(***************************************************************************)
EXTENDS LpuartIrqProofs

Opened == \E f \in Files : opc[f] = "open"

\* The facts about sequences that are proved for the channel.
Cutting == INSTANCE ByteChannelProofs
             WITH Capacity <- FifoSize,
                  open <- \E f \in Files : opc[f] = "open", unread <- Unread

\* The device is not opened again before it is closed.
OneAtATime == \A f, g \in Files : opc[f] # "closed" /\ opc[g] # "closed" => f = g

Bytes == 1..MaxBytes

\* The threads that have locked the mutex and not yet unlocked it.
Holding == {"test", "unlock", "copy", "advance", "mutex_unlock"}

\* The types of the variables that PortInv leaves out.
BytesTyped ==
  /\ copied \in [Threads -> Seq(Bytes)]
  /\ \A t \in Threads : Len(copied[t]) <= FifoSize
  /\ ctrl \in BOOLEAN /\ present \in BOOLEAN /\ mutex \in BOOLEAN
  /\ fifo \in Seq(Bytes) /\ Len(fifo) <= FifoSize
  /\ waiters \subseteq Threads /\ asleep \subseteq Threads
  /\ ibyte \in 0..MaxBytes /\ data \in 0..MaxBytes /\ arrived \in 0..MaxBytes
  /\ rdrf \in BOOLEAN /\ tdre \in BOOLEAN /\ oops \in BOOLEAN
  /\ delivered \in Seq(Bytes)

\* The handler reads the data register of a full receiver.
HandlerHasByte ==
  /\ rdrf => data \in Bytes
  /\ ipc = "data" => rdrf
  /\ ipc = "put" => ibyte \in Bytes

TypeInv == PortInv /\ BytesTyped /\ HandlerHasByte

\* A file has its kfifo from the moment it is allocated to the moment it is freed.
Buffered ==
  \A f \in Files : opc[f] \notin {"closed", "mutex_init", "kfifo_alloc"} => present

\* Whoever holds the mutex has locked it, and is alone.
MutexHeld ==
  /\ \A t \in Threads : tpc[t] \in Holding => mutex
  /\ \A t, u \in Threads : tpc[t] \in Holding /\ tpc[u] \in Holding => t = u

\* What has been copied and not yet taken out is still at the front of the kfifo.
CopiedIsThere ==
  \A t \in Threads : tpc[t] = "advance" =>
    \E rest \in Seq(Bytes) : fifo = copied[t] \o rest

\* Who has given up the CPU is on the list that the handler wakes up, and has
\* nothing to read, unless the handler is just about to wake him.
Sleepers ==
  /\ asleep = waiters
  /\ \A t \in asleep : tpc[t] \in {"recheck", "sleep"}
  /\ \A t \in asleep : tpc[t] = "sleep" => fifo = <<>> \/ ipc = "wake"

ReadInv == /\ TypeInv /\ Buffered /\ MutexHeld /\ CopiedIsThere /\ Sleepers
           /\ ctrl => Opened
           /\ ~oops
LEMMA OneByte ==
  ASSUME NEW b \in Bytes
  PROVE  <<b>> \in Seq(Bytes) /\ Len(<<b>>) = 1
  BY SMT

\* The bytes are numbers.
LEMMA BytesAreNumbers == \A s \in Seq(Bytes) : s \in Seq(Nat)
<1>1. Bytes \subseteq Nat
  BY LpuartAssumption, SMT DEF Bytes
<1> QED BY <1>1, SeqMonotonic
-----------------------------------------------------------------------------
(* Types                                                                   *)

LEMMA TypeInvInit == Init => TypeInv
<1> SUFFICES ASSUME Init PROVE TypeInv
  OBVIOUS
<1>1. PortInv
  BY PortInvInit
<1>2. fifo \in Seq(Bytes) /\ Len(fifo) = 0 /\ delivered \in Seq(Bytes)
  BY EmptySeq DEF Init
<1>3. 0 <= FifoSize /\ 0 \in 0..MaxBytes /\ Len(fifo) <= FifoSize
  BY <1>2, LpuartAssumption, SMT
<1>4. BytesTyped
  BY <1>2, <1>3, EmptySeq DEF Init, BytesTyped
<1>5. HandlerHasByte
  BY DEF Init, HandlerHasByte
<1> QED BY <1>1, <1>4, <1>5 DEF TypeInv

\* The bytes a reader copies, and what is left of the kfifo when it has taken
\* them out, even if there were fewer.
LEMMA SplitTyped ==
  ASSUME NEW s \in Seq(Bytes), NEW n \in Nat
  PROVE  /\ n <= Len(s) => SubSeq(s, 1, n) \in Seq(Bytes) /\ Len(SubSeq(s, 1, n)) = n
         /\ SubSeq(s, n + 1, Len(s)) \in Seq(Bytes)
         /\ Len(SubSeq(s, n + 1, Len(s))) <= Len(s)
<1>1. Len(s) \in Nat /\ \A i \in 1..Len(s) : s[i] \in Bytes
  BY LenProperties, ElementOfSeq
<1>2. ASSUME n <= Len(s)
      PROVE  SubSeq(s, 1, n) \in Seq(Bytes) /\ Len(SubSeq(s, 1, n)) = n
  <2>1. \A i \in 1..n : s[i] \in Bytes
    BY <1>1, <1>2, SMT
  <2>2. /\ SubSeq(s, 1, n) \in Seq(Bytes)
        /\ Len(SubSeq(s, 1, n)) = IF 1 <= n THEN n - 1 + 1 ELSE 0
    BY <2>1, SubSeqProperties, SMT
  <2> QED BY <2>2, SMT
<1>3. /\ SubSeq(s, n + 1, Len(s)) \in Seq(Bytes)
      /\ Len(SubSeq(s, n + 1, Len(s))) <= Len(s)
  <2>1. (\A i \in (n + 1)..Len(s) : s[i] \in Bytes) /\ n + 1 \in Int /\ Len(s) \in Int
    BY <1>1, SMT
  <2>2. /\ SubSeq(s, n + 1, Len(s)) \in Seq(Bytes)
        /\ Len(SubSeq(s, n + 1, Len(s)))
             = IF n + 1 <= Len(s) THEN Len(s) - (n + 1) + 1 ELSE 0
    BY <2>1, SubSeqProperties
  <2> QED BY <1>1, <2>2, SMT
<1> QED BY <1>2, <1>3

LEMMA FileKeepsTypes ==
  ASSUME TypeInv, NEW f \in Files, InitWaitQueue(f) \/ OpenStep(f) \/ CloseCtrl(f)
  PROVE  BytesTyped' /\ HandlerHasByte'
<1> USE DEF OpenStep, InitWaitQueue, InitMutex, AllocFifo, EnableClock, RequestIrq,
            CtrlOff, CtrlOn, DisableClock, FreeFifo, CloseCtrl, FreeIrq
<1>1. UNCHANGED <<copied, asleep, ibyte, data, arrived, rdrf, tdre, oops, delivered, ipc>>
  BY DEF threadVars, lockVars, isrVars, rxVars
<1>2. fifo' = fifo \/ fifo' = <<>>
  BY DEF fifoVars
<1>3. fifo' \in Seq(Bytes) /\ Len(fifo') <= FifoSize
  <2>1. <<>> \in Seq(Bytes) /\ Len(<<>>) = 0
    BY EmptySeq
  <2>2. 0 <= FifoSize
    BY LpuartAssumption, SMT
  <2>3. fifo \in Seq(Bytes) /\ Len(fifo) <= FifoSize
    BY DEF TypeInv, BytesTyped
  <2> QED BY <1>2, <2>1, <2>2, <2>3, Zenon
<1>4. ctrl' \in BOOLEAN
  BY DEF TypeInv, BytesTyped
<1>5. present' \in BOOLEAN
  BY DEF TypeInv, BytesTyped, fifoVars
<1>6. mutex' \in BOOLEAN
  BY DEF TypeInv, BytesTyped, lockVars
<1>7. waiters' \subseteq Threads
  <2>1. waiters' = waiters \/ waiters' = {}
    BY DEF lockVars
  <2> QED BY <2>1 DEF TypeInv, BytesTyped
<1> HIDE DEF OpenStep, InitWaitQueue, CloseCtrl
<1> QED BY <1>1, <1>3, <1>4, <1>5, <1>6, <1>7 DEF TypeInv, BytesTyped, HandlerHasByte

\* What one thread's copy may become.
LEMMA CopyTyped ==
  ASSUME TypeInv, NEW t \in Threads,
         NEW bytes \in Seq(Bytes), Len(bytes) <= FifoSize,
         copied' = [copied EXCEPT ![t] = bytes]
  PROVE  /\ copied' \in [Threads -> Seq(Bytes)]
         /\ \A u \in Threads : Len(copied'[u]) <= FifoSize
<1>1. copied \in [Threads -> Seq(Bytes)] /\ \A u \in Threads : Len(copied[u]) <= FifoSize
  BY DEF TypeInv, BytesTyped
<1>2. \A u \in Threads : copied'[u] = IF u = t THEN bytes ELSE copied[u]
  BY <1>1
<1> QED BY <1>1, <1>2

LEMMA ThreadKeepsTypes ==
  ASSUME TypeInv, NEW t \in Threads, ThreadStep(t)
  PROVE  BytesTyped' /\ HandlerHasByte'
<1> USE DEF ThreadStep, StartCall, ReadStep, Interrupted, WriteStep, Lock, TestEmpty,
            UnlockToWait, WaitEvent, PrepareToWait, Recheck, WakeUp, CopyToUser,
            Advance, UnlockAndReturn, PollTransmitter, PutByte, Thread, Return, LeaveQueue
<1>1. UNCHANGED <<ctrl, present, ibyte, data, arrived, rdrf, ipc>>
  BY DEF fileVars, fifoVars, isrVars, rxVars
<1>2. /\ mutex' \in BOOLEAN /\ tdre' \in BOOLEAN /\ oops' \in BOOLEAN
      /\ waiters' \subseteq Threads /\ asleep' \subseteq Threads
  BY DEF TypeInv, BytesTyped, lockVars, isrVars
<1>3. /\ fifo \in Seq(Bytes) /\ Len(fifo) \in Nat /\ Len(fifo) <= FifoSize
      /\ FifoSize \in Nat
  BY LenProperties, LpuartAssumption, SMT DEF TypeInv, BytesTyped
<1>4. /\ copied' \in [Threads -> Seq(Bytes)]
      /\ \A u \in Threads : Len(copied'[u]) <= FifoSize
  <2>1. \/ copied' = copied \/ copied' = [copied EXCEPT ![t] = <<>>]
        \/ \E n \in 0..Len(fifo) : copied' = [copied EXCEPT ![t] = SubSeq(fifo, 1, n)]
    BY DEF threadVars
  <2> HIDE DEF ThreadStep
  <2>2. CASE copied' = copied
    BY <2>2 DEF TypeInv, BytesTyped
  <2>3. CASE copied' = [copied EXCEPT ![t] = <<>>]
    <3>1. <<>> \in Seq(Bytes) /\ Len(<<>>) <= FifoSize
      BY <1>3, EmptySeq, SMT
    <3> QED BY <2>3, <3>1, CopyTyped
  <2>4. ASSUME NEW n \in 0..Len(fifo), copied' = [copied EXCEPT ![t] = SubSeq(fifo, 1, n)]
        PROVE  /\ copied' \in [Threads -> Seq(Bytes)]
               /\ \A u \in Threads : Len(copied'[u]) <= FifoSize
    <3>1. n \in Nat /\ n <= Len(fifo) /\ n <= FifoSize
      BY <1>3, SMT
    <3>2. SubSeq(fifo, 1, n) \in Seq(Bytes) /\ Len(SubSeq(fifo, 1, n)) = n
      BY <1>3, <3>1, SplitTyped
    <3> QED BY <2>4, <3>1, <3>2, CopyTyped
  <2> QED BY <2>1, <2>2, <2>3, <2>4
<1> HIDE DEF Advance
<1>5. /\ fifo' \in Seq(Bytes) /\ Len(fifo') <= FifoSize
      /\ delivered' \in Seq(Bytes)
  <2>1. CASE Advance(t)
    <3>1. copied[t] \in Seq(Bytes) /\ delivered \in Seq(Bytes) /\ Len(copied[t]) \in Nat
      BY LenProperties DEF TypeInv, BytesTyped
    <3>2. delivered' = delivered \o copied[t]
          /\ fifo' = SubSeq(fifo, Len(copied[t]) + 1, Len(fifo))
      BY <2>1 DEF Advance
    <3>3. fifo' \in Seq(Bytes) /\ Len(fifo') <= Len(fifo) /\ Len(fifo') \in Nat
      BY <1>3, <3>1, <3>2, SplitTyped, LenProperties
    <3>4. Len(fifo') <= FifoSize
      BY <1>3, <3>3, SMT
    <3>5. delivered' \in Seq(Bytes)
      BY <3>1, <3>2, ConcatProperties
    <3> QED BY <3>3, <3>4, <3>5
  <2>2. CASE ~Advance(t)
    BY <2>2 DEF TypeInv, BytesTyped, fifoVars
  <2> QED BY <2>1, <2>2
<1> HIDE DEF ThreadStep
<1> QED BY <1>1, <1>2, <1>4, <1>5 DEF TypeInv, BytesTyped, HandlerHasByte

LEMMA HandlerKeepsTypes ==
  ASSUME TypeInv, IsrStep \/ ByteArrives \/ TransmitterEmpties
  PROVE  BytesTyped' /\ HandlerHasByte'
<1>1. CASE EnterIsr \/ IsrStatus \/ IsrData \/ TransmitterEmpties
  <2>1. /\ UNCHANGED <<copied, ctrl, present, mutex, fifo, waiters, asleep, data, arrived,
                       oops, delivered>>
    BY <1>1 DEF EnterIsr, IsrStatus, IsrData, TransmitterEmpties, fileVars, fifoVars,
                lockVars, threadVars, isrVars, rxVars
  <2>2. /\ tdre' \in BOOLEAN /\ rdrf' \in BOOLEAN
        /\ ibyte' \in 0..MaxBytes
    BY <1>1 DEF EnterIsr, IsrStatus, IsrData, TransmitterEmpties, TypeInv, BytesTyped,
                isrVars, rxVars
  <2>3. HandlerHasByte'
    BY <1>1 DEF EnterIsr, IsrStatus, IsrData, TransmitterEmpties, TypeInv, HandlerHasByte,
                isrVars, rxVars
  <2> QED BY <2>1, <2>2, <2>3 DEF TypeInv, BytesTyped
<1>2. CASE IsrPut
  <2>1. UNCHANGED <<copied, ctrl, present, mutex, waiters, asleep, data, arrived, rdrf,
                    tdre, delivered>>
    BY <1>2 DEF IsrPut, fileVars, lockVars, threadVars, rxVars
  <2>2. ipc' \in {"off", "wake"} /\ ibyte' = 0 /\ oops' \in BOOLEAN
    BY <1>2 DEF IsrPut, TypeInv, BytesTyped
  <2>3. fifo' \in Seq(Bytes) /\ Len(fifo') <= FifoSize
    <3>1. CASE fifo' = fifo
      BY <3>1 DEF TypeInv, BytesTyped
    <3>2. CASE Len(fifo) < FifoSize /\ fifo' = Append(fifo, ibyte)
      <4>1. ibyte \in Bytes /\ fifo \in Seq(Bytes)
        BY <1>2 DEF IsrPut, TypeInv, BytesTyped, HandlerHasByte
      <4>2. fifo' \in Seq(Bytes) /\ Len(fifo') = Len(fifo) + 1 /\ Len(fifo) \in Nat
        BY <3>2, <4>1, AppendProperties, LenProperties
      <4> QED BY <3>2, <4>2, LpuartAssumption, SMT
    <3> QED BY <1>2, <3>1, <3>2 DEF IsrPut
  <2>4. 0 \in 0..MaxBytes
    BY LpuartAssumption, SMT
  <2> QED BY <2>1, <2>2, <2>3, <2>4 DEF TypeInv, BytesTyped, HandlerHasByte
<1>3. CASE ByteArrives
  <2>1. UNCHANGED <<copied, ctrl, present, mutex, fifo, waiters, asleep, ibyte, tdre,
                    oops, delivered, ipc>>
    BY <1>3 DEF ByteArrives, fileVars, fifoVars, lockVars, threadVars, isrVars
  <2>2. arrived' \in Bytes /\ arrived' \in 0..MaxBytes
    <3>1. arrived \in 0..MaxBytes /\ arrived < MaxBytes /\ arrived' = arrived + 1
      BY <1>3 DEF ByteArrives, TypeInv, BytesTyped
    <3> QED BY <3>1, LpuartAssumption, SMT DEF Bytes
  <2>3. (rdrf' = rdrf /\ data' = data) \/ (rdrf' = TRUE /\ data' = arrived')
    BY <1>3 DEF ByteArrives
  <2>4. data' \in 0..MaxBytes /\ rdrf' \in BOOLEAN /\ (rdrf' => data' \in Bytes)
    <3>1. CASE rdrf' = rdrf /\ data' = data
      BY <3>1, Zenon DEF TypeInv, BytesTyped, HandlerHasByte
    <3>2. CASE rdrf' = TRUE /\ data' = arrived'
      BY <2>2, <3>2
    <3> QED BY <2>3, <3>1, <3>2
  <2>5. ipc' = "data" => rdrf'
    BY <2>1, <2>3 DEF TypeInv, HandlerHasByte
  <2>6. HandlerHasByte'
    BY <2>1, <2>4, <2>5 DEF TypeInv, HandlerHasByte
  <2>7. BytesTyped'
    BY <2>1, <2>2, <2>4 DEF TypeInv, BytesTyped
  <2> QED BY <2>6, <2>7
<1>4. CASE IsrWake
  <2>1. /\ UNCHANGED <<copied, ctrl, present, mutex, fifo, ibyte, data, arrived, rdrf,
                       tdre, oops, delivered>>
        /\ ipc' = "off"
    BY <1>4 DEF IsrWake, WakeAll, fileVars, fifoVars, threadVars, rxVars
  <2>2. waiters' \subseteq Threads /\ asleep' \subseteq Threads
    BY <1>4 DEF IsrWake, WakeAll, TypeInv, BytesTyped
  <2> QED BY <2>1, <2>2 DEF TypeInv, BytesTyped, HandlerHasByte
<1> QED BY <1>1, <1>2, <1>3, <1>4 DEF IsrStep

LEMMA StutterKeepsTypes ==
  ASSUME TypeInv, UNCHANGED vars
  PROVE  BytesTyped' /\ HandlerHasByte'
  BY DEF TypeInv, BytesTyped, HandlerHasByte, vars, fileVars, fifoVars, lockVars,
         threadVars, isrVars, rxVars

LEMMA TypeInvHolds == Spec => []TypeInv
<1>1. PortInv /\ PortInv' /\ TypeInv /\ [Next]_vars => TypeInv'
  BY FileKeepsTypes, ThreadKeepsTypes, HandlerKeepsTypes, StutterKeepsTypes
  DEF Next, ThreadStep, TypeInv
<1> QED BY <1>1, TypeInvInit, PortInvHolds, PTL DEF Spec

\* The variables keep to their types, and the kfifo to its size.
THEOREM LpuartTyped == Spec => []TypeOK
<1>1. TypeInv => TypeOK
  <2> SUFFICES ASSUME TypeInv PROVE TypeOK
    OBVIOUS
  <2>1. clk \in Nat
    BY PoweredFinite, FS_CardinalityType DEF TypeInv, PortInv, ClockBalanced
  <2> QED BY <2>1 DEF TypeInv, PortInv, Shape, BytesTyped, TypeOK, ThreadPCs, Bytes
<1> QED BY <1>1, TypeInvHolds, PTL
-----------------------------------------------------------------------------
(* One file at a time: mutual exclusion and wakeups                        *)

LEMMA ReadInvInit == Init => ReadInv
<1> SUFFICES ASSUME Init PROVE ReadInv
  OBVIOUS
<1>1. /\ Buffered /\ MutexHeld /\ CopiedIsThere /\ Sleepers
      /\ ~ctrl /\ ~oops
  BY DEF Init, Buffered, MutexHeld, CopiedIsThere, Sleepers, Holding
<1> QED BY <1>1, TypeInvInit DEF ReadInv

\* Where a step of open or close leads, and what it may change there.
LEMMA FileGoesOn ==
  ASSUME OneAtATime, OneAtATime', ReadInv, NEW f \in Files,
         InitWaitQueue(f) \/ OpenStep(f) \/ CloseCtrl(f)
  PROVE  /\ opc' = [opc EXCEPT ![f] = opc'[f]] /\ opc'[f] # opc[f]
         /\ \A g \in Files : g # f => opc[g] = "closed" /\ opc'[g] = "closed"
         /\ opc[f] # "open" => ~Opened /\ \A t \in Threads : tpc[t] = "idle"
<1>1. PICK from \in OpenPCs, to \in OpenPCs :
         /\ File(f, from, to) /\ from # to
         /\ from = "closed" => to = "mutex_init"
  BY DEF OpenStep, InitWaitQueue, InitMutex, AllocFifo, EnableClock, RequestIrq,
         CtrlOff, CtrlOn, DisableClock, FreeFifo, CloseCtrl, FreeIrq, OpenPCs
<1>2. /\ opc[f] = from /\ opc'[f] = to /\ opc' = [opc EXCEPT ![f] = to]
      /\ \A g \in Files : g # f => opc'[g] = opc[g]
  BY <1>1 DEF File, ReadInv, TypeInv, PortInv, Shape
<1>3. ASSUME NEW g \in Files, g # f PROVE opc[g] = "closed"
  <2>1. CASE from = "closed"
    BY <1>1, <1>2, <1>3, <2>1 DEF OneAtATime
  <2>2. CASE from # "closed"
    BY <1>2, <1>3, <2>2 DEF OneAtATime
  <2> QED BY <2>1, <2>2
<1>4. opc[f] # "open" => ~Opened /\ \A t \in Threads : tpc[t] = "idle"
  BY <1>3 DEF ReadInv, TypeInv, PortInv, CallsHaveFile, Opened
<1> QED BY <1>1, <1>2, <1>3, <1>4

LEMMA FileKeepsReading ==
  ASSUME OneAtATime, OneAtATime', ReadInv, NEW f \in Files,
         InitWaitQueue(f) \/ OpenStep(f) \/ CloseCtrl(f)
  PROVE  /\ Buffered' /\ MutexHeld' /\ CopiedIsThere' /\ Sleepers'
         /\ (ctrl => Opened)' /\ ~oops'
<1>1. /\ opc' = [opc EXCEPT ![f] = opc'[f]] /\ opc'[f] # opc[f]
      /\ \A g \in Files : g # f => opc[g] = "closed" /\ opc'[g] = "closed"
      /\ opc[f] # "open" => ~Opened /\ \A t \in Threads : tpc[t] = "idle"
  BY FileGoesOn
<1> USE DEF OpenStep, InitWaitQueue, InitMutex, AllocFifo, EnableClock, RequestIrq,
            CtrlOff, CtrlOn, DisableClock, FreeFifo, CloseCtrl, FreeIrq
<1>2. UNCHANGED <<tpc, copied, asleep, ipc, oops>>
  BY DEF threadVars, isrVars, lockVars
<1>3. \/ /\ opc[f] \notin {"closed", "mutex_init", "kfifo_alloc"}
         /\ present' = present
      \/ opc'[f] = "clk_enable" /\ present' = TRUE
      \/ opc'[f] \in {"closed", "mutex_init", "kfifo_alloc"}
  BY <1>1, SMT DEF fifoVars, File, ReadInv, TypeInv, PortInv, Shape
<1>4. opc[f] = "open" => UNCHANGED <<mutex, fifo, waiters>>
  BY <1>1 DEF fifoVars, lockVars, File
<1>5. waiters' = waiters \/ waiters' = {}
  BY DEF lockVars
<1>6. /\ opc[f] = "open" => ctrl' = FALSE
      /\ opc'[f] = "open" \/ ctrl' = FALSE \/ ctrl' = ctrl
  BY <1>1, SMT DEF File, ReadInv, TypeInv, PortInv, Shape
<1> HIDE DEF OpenStep, InitWaitQueue, CloseCtrl
<1>7. Buffered'
  BY <1>1, <1>3 DEF Buffered, ReadInv
<1>8. MutexHeld' /\ CopiedIsThere' /\ Sleepers'
  <2>1. CASE opc[f] = "open"
    <3>1. UNCHANGED <<mutex, fifo, waiters>>
      BY <1>4, <2>1
    <3> QED BY <1>2, <3>1 DEF ReadInv, MutexHeld, CopiedIsThere, Sleepers
  <2>2. CASE opc[f] # "open"
    <3>1. \A t \in Threads : tpc[t] = "idle" /\ tpc'[t] = "idle"
      BY <1>1, <1>2, <2>2
    <3>2. asleep = {} /\ waiters = {}
      BY <3>1 DEF ReadInv, Sleepers, TypeInv, BytesTyped
    <3>3. asleep' = {} /\ waiters' = {}
      BY <1>2, <1>5, <3>2
    <3> QED BY <3>1, <3>3 DEF MutexHeld, CopiedIsThere, Sleepers, Holding
  <2> QED BY <2>1, <2>2
<1>9. (ctrl => Opened)'
  <2>1. CASE opc[f] = "open"
    BY <1>6, <2>1
  <2>2. CASE opc[f] # "open"
    <3>1. ~ctrl
      BY <1>1, <2>2 DEF ReadInv
    <3> QED BY <1>6, <3>1 DEF Opened
  <2> QED BY <2>1, <2>2
<1> QED BY <1>2, <1>7, <1>8, <1>9 DEF ReadInv

\* A reader that takes out bytes takes those it has copied, which are the first.
LEMMA AdvanceTakes ==
  ASSUME ReadInv, NEW t \in Threads, Advance(t)
  PROVE  \E rest \in Seq(Bytes) :
            /\ copied[t] \in Seq(Bytes)
            /\ fifo = copied[t] \o rest /\ fifo' = rest
            /\ delivered' = delivered \o copied[t]
            /\ ~(Len(copied[t]) > Len(fifo))
<1>1. copied[t] \in Seq(Bytes)
  BY DEF ReadInv, TypeInv, BytesTyped
<1>2. PICK rest \in Seq(Bytes) : fifo = copied[t] \o rest
  BY DEF ReadInv, CopiedIsThere, Advance, Thread
<1>3. fifo' = SubSeq(fifo, Len(copied[t]) + 1, Len(fifo))
  BY DEF Advance
<1>4. copied[t] \in Seq(Nat) /\ rest \in Seq(Nat)
  BY <1>1, BytesAreNumbers
<1>5. fifo' = rest
  BY <1>2, <1>3, <1>4, Cutting!Halves
<1>6. ~(Len(copied[t]) > Len(fifo))
  <2>1. /\ Len(fifo) = Len(copied[t]) + Len(rest)
        /\ Len(copied[t]) \in Nat /\ Len(rest) \in Nat
    BY <1>1, <1>2, ConcatProperties, LenProperties
  <2> QED BY <2>1, SMT
<1>7. delivered' = delivered \o copied[t]
  BY DEF Advance
<1> QED BY <1>1, <1>2, <1>5, <1>6, <1>7

\* What a reader copies is the front of the kfifo.
LEMMA CopyIsFront ==
  ASSUME ReadInv, NEW t \in Threads, CopyToUser(t)
  PROVE  fifo' = fifo /\ \E rest \in Seq(Bytes) : fifo = copied'[t] \o rest
<1>1. PICK n \in 0..Len(fifo) : copied' = [copied EXCEPT ![t] = SubSeq(fifo, 1, n)]
  BY DEF CopyToUser
<1>2. copied'[t] = SubSeq(fifo, 1, n)
  BY <1>1 DEF ReadInv, TypeInv, BytesTyped
<1>3. fifo \in Seq(Bytes) /\ fifo \in Seq(Nat) /\ n \in Nat
  BY BytesAreNumbers, LenProperties, SMT DEF ReadInv, TypeInv, BytesTyped
<1>4. SubSeq(fifo, 1, n) \o SubSeq(fifo, n + 1, Len(fifo)) = fifo
  BY <1>3, Cutting!Cut
<1>5. SubSeq(fifo, n + 1, Len(fifo)) \in Seq(Bytes)
  BY <1>3, SplitTyped
<1> QED BY <1>2, <1>4, <1>5 DEF CopyToUser, fifoVars

LEMMA ThreadKeepsReading ==
  ASSUME ReadInv, NEW t \in Threads, ThreadStep(t)
  PROVE  /\ Buffered' /\ MutexHeld' /\ CopiedIsThere' /\ Sleepers'
         /\ (ctrl => Opened)' /\ ~oops'
<1> USE DEF ThreadStep, StartCall, ReadStep, Interrupted, WriteStep, Lock, TestEmpty,
            UnlockToWait, WaitEvent, PrepareToWait, Recheck, WakeUp, CopyToUser,
            Advance, UnlockAndReturn, PollTransmitter, PutByte, Thread, Return, LeaveQueue
<1>1. UNCHANGED <<opc, present, ctrl, ipc>>
  BY DEF fileVars, fifoVars, isrVars
<1>a. Advance(t) => /\ tpc[t] = "advance" /\ tpc' = [tpc EXCEPT ![t] = "mutex_unlock"]
                    /\ UNCHANGED <<copied, mutex, waiters, asleep>>
  BY DEF lockVars
<1>b. CopyToUser(t) => /\ tpc[t] = "copy" /\ tpc' = [tpc EXCEPT ![t] = "advance"]
                       /\ copied' = [copied EXCEPT ![t] = copied'[t]]
                       /\ UNCHANGED <<fifo, mutex, waiters, asleep, oops>>
  BY SMT DEF lockVars, fifoVars, isrVars, ReadInv, TypeInv, BytesTyped
<1> HIDE DEF Advance, CopyToUser
<1>2. \A u \in Threads : u # t => tpc'[u] = tpc[u] /\ copied'[u] = copied[u]
  BY <1>a, <1>b, SMT DEF ReadInv, TypeInv, PortInv, Shape, BytesTyped, threadVars
<1>3. \/ tpc[t] = "lock" /\ tpc'[t] = "test" /\ ~mutex /\ mutex' = TRUE
      \/ tpc[t] \in Holding /\ tpc'[t] \in Holding /\ mutex' = mutex
      \/ tpc[t] \in Holding /\ tpc'[t] \notin Holding
      \/ tpc[t] \notin Holding /\ tpc'[t] \notin Holding /\ mutex' = mutex
  BY <1>a, <1>b, SMT DEF Holding, ReadInv, TypeInv, PortInv, Shape, lockVars
<1>4. /\ Advance(t) => tpc[t] = "advance"
      /\ ~Advance(t) => fifo' = fifo /\ oops' = oops
      /\ tpc'[t] = "advance" => CopyToUser(t)
  BY <1>a, <1>b, SMT DEF fifoVars, isrVars, ReadInv, TypeInv, PortInv, Shape
<1>5. /\ \/ UNCHANGED <<waiters, asleep>> /\ (t \in asleep => tpc'[t] = "sleep" /\ (fifo = <<>> \/ ipc = "wake"))
         \/ /\ waiters' = waiters \cup {t} /\ asleep' = asleep \cup {t}
            /\ tpc'[t] = "recheck"
         \/ waiters' = waiters \ {t} /\ asleep' = asleep \ {t}
  <2>1. tpc[t] \notin {"recheck", "sleep"} => t \notin asleep
    BY DEF ReadInv, Sleepers
  <2> QED BY <1>a, <1>b, <2>1, SMT DEF ReadInv, TypeInv, PortInv, Shape, lockVars
<1> HIDE DEF ThreadStep, StartCall, ReadStep, Interrupted, WriteStep, Lock, TestEmpty,
             UnlockToWait, WaitEvent, PrepareToWait, Recheck, WakeUp, UnlockAndReturn,
             PollTransmitter, PutByte, Thread, Return, LeaveQueue
<1>6. ~oops'
  <2>1. CASE Advance(t)
    BY <2>1, AdvanceTakes DEF Advance, ReadInv
  <2>2. CASE ~Advance(t)
    BY <1>4, <2>2 DEF ReadInv
  <2> QED BY <2>1, <2>2
<1>7. Buffered' /\ (ctrl => Opened)'
  BY <1>1 DEF ReadInv, Buffered, Opened
<1>8. MutexHeld'
  BY <1>2, <1>3 DEF ReadInv, MutexHeld
<1>9. CopiedIsThere'
  <2> SUFFICES ASSUME NEW u \in Threads, tpc'[u] = "advance"
               PROVE  \E rest \in Seq(Bytes) : fifo' = copied'[u] \o rest
    BY DEF CopiedIsThere
  <2>1. CASE u = t
    BY <1>4, <2>1, CopyIsFront
  <2>2. CASE u # t
    <3>1. tpc[u] = "advance" /\ copied'[u] = copied[u]
      BY <1>2, <2>2
    <3>2. fifo' = fifo
      BY <1>4, <2>2, <3>1 DEF ReadInv, MutexHeld, Holding
    <3> QED BY <3>1, <3>2 DEF ReadInv, CopiedIsThere
  <2> QED BY <2>1, <2>2
<1>10. Sleepers'
  <2>1. asleep' = waiters'
    <3>1. asleep = waiters
      BY DEF ReadInv, Sleepers
    <3>2. \/ asleep' = asleep /\ waiters' = waiters
          \/ asleep' = asleep \cup {t} /\ waiters' = waiters \cup {t}
          \/ asleep' = asleep \ {t} /\ waiters' = waiters \ {t}
      BY <1>5
    <3>3. CASE asleep' = asleep \cup {t} /\ waiters' = waiters \cup {t}
      BY <3>1, <3>3, Zenon
    <3>4. CASE asleep' = asleep \ {t} /\ waiters' = waiters \ {t}
      BY <3>1, <3>4, Zenon
    <3> QED BY <3>1, <3>2, <3>3, <3>4, Zenon
  <2>2. ASSUME NEW u \in asleep', u # t
        PROVE  u \in asleep /\ u \in Threads /\ tpc'[u] = tpc[u]
    BY <1>2, <1>5, <2>2 DEF ReadInv, TypeInv, BytesTyped
  <2>3. ASSUME t \in asleep'
        PROVE  tpc'[t] = "recheck" \/ (tpc'[t] = "sleep" /\ (fifo = <<>> \/ ipc = "wake"))
    BY <1>5, <2>3
  <2>4. fifo = <<>> => fifo' = <<>>
    <3>1. CASE Advance(t)
      <4> SUFFICES ASSUME fifo = <<>> PROVE fifo' = <<>>
        OBVIOUS
      <4>1. PICK rest \in Seq(Bytes) : /\ copied[t] \in Seq(Bytes)
                                       /\ fifo = copied[t] \o rest /\ fifo' = rest
        BY <3>1, AdvanceTakes
      <4>2. /\ Len(copied[t] \o rest) = Len(copied[t]) + Len(rest)
            /\ Len(copied[t]) \in Nat /\ Len(rest) \in Nat
        BY <4>1, SMT
      <4>3. Len(copied[t] \o rest) = 0
        <5>1. Len(fifo) = 0
          BY EmptySeq
        <5> QED BY <4>1, <5>1, Zenon
      <4>4. Len(rest) = 0
        BY <4>2, <4>3, SMT
      <4> QED BY <4>1, <4>4, EmptySeq
    <3>2. CASE ~Advance(t)
      BY <1>4, <3>2
    <3> QED BY <3>1, <3>2
  <2>5. \A u \in asleep' : tpc'[u] \in {"recheck", "sleep"}
    BY <2>2, <2>3 DEF ReadInv, Sleepers
  <2>6. \A u \in asleep' : tpc'[u] = "sleep" => fifo' = <<>> \/ ipc' = "wake"
    BY <1>1, <2>2, <2>3, <2>4 DEF ReadInv, Sleepers
  <2> QED BY <2>1, <2>5, <2>6 DEF Sleepers
<1> QED BY <1>6, <1>7, <1>8, <1>9, <1>10

\* A handler that has a byte in hand finds the kfifo of the file it serves.
LEMMA HandlerFindsFifo ==
  ASSUME ReadInv, ipc # "off"
  PROVE  present
<1>1. PICK f \in Files : f \in Connected
  BY DEF ReadInv, TypeInv, PortInv, ReceiverStaysOn, Connected
<1> QED BY <1>1 DEF ReadInv, Buffered, Connected

LEMMA HandlerKeepsReading ==
  ASSUME ReadInv, IsrStep \/ ByteArrives \/ TransmitterEmpties
  PROVE  /\ Buffered' /\ MutexHeld' /\ CopiedIsThere' /\ Sleepers'
         /\ (ctrl => Opened)' /\ ~oops'
<1> USE DEF IsrStep, EnterIsr, IsrStatus, IsrData, IsrPut, IsrWake, WakeAll, ByteArrives,
            TransmitterEmpties
<1>1. UNCHANGED <<opc, present, mutex, ctrl, tpc, copied>>
  BY DEF fileVars, fifoVars, lockVars, threadVars
<1>2. \/ UNCHANGED <<fifo, waiters, asleep>> /\ (ipc = "wake" => ipc' = "wake")
      \/ /\ ipc = "put" /\ fifo' = Append(fifo, ibyte) /\ ipc' = "wake"
         /\ UNCHANGED <<waiters, asleep>>
      \/ fifo' = fifo /\ asleep' = asleep \ waiters /\ waiters' = {}
  BY DEF fifoVars, lockVars, isrVars
<1>3. ~oops'
  BY HandlerFindsFifo DEF ReadInv, isrVars
<1> HIDE DEF IsrStep, ByteArrives, TransmitterEmpties
<1>4. fifo' = fifo \/ \E b \in Bytes : fifo' = fifo \o <<b>>
  <2>1. fifo \in Seq(Bytes) /\ (ipc = "put" => ibyte \in Bytes)
    BY DEF ReadInv, TypeInv, BytesTyped, HandlerHasByte
  <2> QED BY <1>2, <2>1, AppendIsConcat
<1>5. CopiedIsThere'
  <2> SUFFICES ASSUME NEW t \in Threads, tpc[t] = "advance"
               PROVE  \E rest \in Seq(Bytes) : fifo' = copied[t] \o rest
    BY <1>1 DEF CopiedIsThere
  <2>1. PICK rest \in Seq(Bytes) : fifo = copied[t] \o rest
    BY DEF ReadInv, CopiedIsThere
  <2>2. ASSUME NEW b \in Bytes, fifo' = fifo \o <<b>>
        PROVE  \E more \in Seq(Bytes) : fifo' = copied[t] \o more
    <3>1. copied[t] \in Seq(Bytes) /\ <<b>> \in Seq(Bytes) /\ rest \o <<b>> \in Seq(Bytes)
      <4>1. <<b>> \in Seq(Bytes)
        BY SMT
      <4> QED BY <4>1, ConcatProperties DEF ReadInv, TypeInv, BytesTyped
    <3>2. Cutting!Join(Cutting!Join(copied[t], rest), <<b>>)
         = Cutting!Join(copied[t], Cutting!Join(rest, <<b>>))
      BY <3>1, BytesAreNumbers, Cutting!JoinAssociative
    <3>3. (copied[t] \o rest) \o <<b>> = copied[t] \o (rest \o <<b>>)
      BY <3>2 DEF Cutting!Join
    <3> QED BY <2>1, <2>2, <3>1, <3>3
  <2> QED BY <1>4, <2>1, <2>2
<1>6. Sleepers'
  <2>1. CASE UNCHANGED <<fifo, waiters, asleep>> /\ (ipc = "wake" => ipc' = "wake")
    BY <1>1, <2>1 DEF ReadInv, Sleepers
  <2>2. CASE UNCHANGED <<waiters, asleep>> /\ ipc' = "wake"
    BY <1>1, <2>2 DEF ReadInv, Sleepers
  <2>3. CASE asleep' = asleep \ waiters /\ waiters' = {}
    <3>1. asleep' = {}
      BY <2>3 DEF ReadInv, Sleepers
    <3> QED BY <2>3, <3>1 DEF Sleepers
  <2> QED BY <1>2, <2>1, <2>2, <2>3
<1> QED BY <1>1, <1>3, <1>5, <1>6 DEF ReadInv, Buffered, MutexHeld, Opened

LEMMA ReadInvHolds == Spec /\ []OneAtATime => []ReadInv
<1>1. TypeInv' /\ OneAtATime /\ OneAtATime' /\ ReadInv /\ [Next]_vars => ReadInv'
  <2> SUFFICES ASSUME TypeInv', OneAtATime, OneAtATime', ReadInv, [Next]_vars
               PROVE  ReadInv'
    OBVIOUS
  <2>1. CASE UNCHANGED vars
    BY <2>1 DEF ReadInv, Buffered, MutexHeld, CopiedIsThere, Sleepers, Opened, vars,
                fileVars, fifoVars, lockVars, threadVars, isrVars
  <2> QED BY <2>1, FileKeepsReading, ThreadKeepsReading, HandlerKeepsReading
          DEF Next, ThreadStep, ReadInv
<1> QED BY <1>1, ReadInvInit, TypeInvHolds, PTL DEF Spec

\* The mutex keeps the readers apart, from the test of the kfifo to the return of
\* the call, whatever is interrupted (uart_read).
THEOREM ReadersStayApart == Spec /\ []OneAtATime => []ReadersExclude
<1>1. ReadInv => ReadersExclude
  BY DEF ReadInv, MutexHeld, Holding, ReadersExclude
<1> QED BY <1>1, ReadInvHolds, PTL

\* The handler never writes to a kfifo without a buffer: free_irq comes before
\* kfifo_free and waits for the handler (uart_close).
THEOREM HandlerKeepsFifo == Spec /\ []OneAtATime => []HandlerHasFifo
<1>1. ReadInv => HandlerHasFifo
  BY DEF ReadInv, HandlerHasFifo
<1> QED BY <1>1, ReadInvHolds, PTL

\* A reader who sleeps beside a byte is about to be woken up: the handler stands
\* between kfifo_put and wake_up_interruptible (lpuart_isr) and finds him on the
\* list.  For who goes to sleep has looked after putting himself there
\* (wait_event_interruptible in uart_read).  Once the handler has returned nobody is
\* asleep while there is something to read.
WokenForBytes ==
  \A t \in asleep : tpc[t] = "sleep" /\ fifo # <<>> => ipc = "wake" /\ t \in waiters

THEOREM NoWakeupIsLost == Spec /\ []OneAtATime => []WokenForBytes
<1>1. ReadInv => WokenForBytes
  BY DEF ReadInv, Sleepers, WokenForBytes
<1> QED BY <1>1, ReadInvHolds, PTL
-----------------------------------------------------------------------------
(* One file at a time: a channel                                           *)

\* The bytes behind the kfifo.
Behind == InHand \o InRegister

LEMMA UnreadPieces ==
  ASSUME TypeInv
  PROVE  /\ fifo \in Seq(Nat) /\ delivered \in Seq(Nat)
         /\ InHand \in Seq(Nat) /\ InRegister \in Seq(Nat) /\ Behind \in Seq(Nat)
         /\ Unread = fifo \o Behind /\ Unread \in Seq(Nat)
<1>1. fifo \in Seq(Nat) /\ delivered \in Seq(Nat)
  BY BytesAreNumbers DEF TypeInv, BytesTyped
<1>2. \A b \in Bytes : <<b>> \in Seq(Nat)
  BY LpuartAssumption, SMT DEF Bytes
<1>3. InHand \in Seq(Nat) /\ InRegister \in Seq(Nat)
  BY <1>2, EmptySeq DEF TypeInv, HandlerHasByte, InHand, InRegister
<1>4. Behind \in Seq(Nat)
  BY <1>3, ConcatProperties DEF Behind
<1>5. Unread = fifo \o Behind
  BY <1>1, <1>3, Cutting!Associative DEF Unread, Behind
<1> QED BY <1>1, <1>3, <1>4, <1>5, ConcatProperties

\* Opening and closing: the file becomes readable with its last step, ceases to
\* be so with the first, and between the two nobody reads and the kfifo is empty.
LEMMA FileIsChannel ==
  ASSUME OneAtATime, OneAtATime', ReadInv, NEW f \in Files,
         InitWaitQueue(f) \/ OpenStep(f) \/ CloseCtrl(f)
  PROVE  [Channel!Next]_(Channel!vars)
<1>1. /\ opc' = [opc EXCEPT ![f] = opc'[f]] /\ opc'[f] # opc[f]
      /\ \A g \in Files : g # f => opc[g] = "closed" /\ opc'[g] = "closed"
      /\ opc[f] # "open" => ~Opened
  BY FileGoesOn
<1>2. Opened <=> opc[f] = "open"
  BY <1>1 DEF Opened
<1>3. Opened' <=> opc'[f] = "open"
  BY <1>1 DEF Opened
<1>4. UNCHANGED <<arrived, delivered, ipc, ibyte, rdrf, data>>
  BY DEF OpenStep, InitWaitQueue, InitMutex, AllocFifo, EnableClock, RequestIrq, CtrlOff,
         CtrlOn, DisableClock, FreeFifo, CloseCtrl, FreeIrq, isrVars, rxVars
<1>5. \/ fifo' = fifo
      \/ fifo' = <<>> /\ opc[f] # "open" /\ opc'[f] # "open"
  BY <1>1, SMT DEF OpenStep, InitWaitQueue, InitMutex, AllocFifo, EnableClock, RequestIrq,
         CtrlOff, CtrlOn, DisableClock, FreeFifo, CloseCtrl, FreeIrq, File, fifoVars,
         ReadInv, TypeInv, PortInv, Shape
<1>6. CASE fifo' = fifo
  <2>1. Unread' = Unread
    BY <1>4, <1>6 DEF Unread, InHand, InRegister
  <2>2. CASE Opened /\ ~Opened'
    BY <1>4, <2>1, <2>2 DEF Channel!Next, Channel!Close, Opened
  <2>3. CASE ~Opened /\ Opened'
    BY <1>4, <2>1, <2>3 DEF Channel!Next, Channel!Open, Opened
  <2>4. CASE Opened' = Opened
    BY <1>4, <2>1, <2>4 DEF Channel!vars, Opened
  <2> QED BY <2>2, <2>3, <2>4 DEF Opened
<1>7. CASE fifo' = <<>> /\ opc[f] # "open" /\ opc'[f] # "open"
  <2>1. ~Opened /\ ~Opened'
    BY <1>2, <1>3, <1>7
  <2>2. /\ fifo \in Seq(Nat) /\ Behind \in Seq(Nat) /\ Unread = fifo \o Behind
        /\ Unread \in Seq(Nat)
    BY UnreadPieces DEF ReadInv
  <2>3. Behind' = Behind /\ Unread' = <<>> \o Behind
    <3>1. InHand' = InHand /\ InRegister' = InRegister
      BY <1>4 DEF InHand, InRegister
    <3>2. InHand \in Seq(Nat) /\ InRegister \in Seq(Nat) /\ <<>> \in Seq(Nat)
      BY UnreadPieces, EmptySeq DEF ReadInv
    <3>3. Unread' = (<<>> \o InHand) \o InRegister
      BY <1>7, <3>1 DEF Unread
    <3> QED BY <3>1, <3>2, <3>3, Cutting!Associative DEF Behind
  <2>4. Unread' = Behind
    BY <2>2, <2>3, ConcatEmptySeq
  <2>5. Behind = SubSeq(Unread, Len(fifo) + 1, Len(Unread))
    BY <2>2, Cutting!Halves
  <2>6. Len(fifo) \in Nat /\ Len(Unread) = Len(fifo) + Len(Behind) /\ Len(Behind) \in Nat
    BY <2>2, ConcatProperties, LenProperties
  <2>7. CASE Len(fifo) = 0
    <3>1. fifo = <<>>
      BY <2>2, <2>7, EmptySeq
    <3>2. Unread' = Unread
      BY <2>2, <2>4, <3>1, ConcatEmptySeq
    <3> QED BY <1>4, <2>1, <3>2 DEF Channel!vars, Opened
  <2>8. CASE Len(fifo) # 0
    <3>1. Len(fifo) \in 1..Len(Unread) /\ Len(fifo) <= Len(Unread)
      BY <2>6, <2>8, SMT
    <3>2. Channel!Reset(Len(fifo))
      BY <1>4, <2>1, <2>4, <2>5, <3>1 DEF Channel!Reset, Opened
    <3> QED BY <3>1, <3>2 DEF Channel!Next
  <2> QED BY <2>7, <2>8
<1> QED BY <1>5, <1>6, <1>7

\* A reader that takes out what it has copied reads; nothing else is noticed.
LEMMA ThreadIsChannel ==
  ASSUME ReadInv, NEW t \in Threads, ThreadStep(t)
  PROVE  [Channel!Next]_(Channel!vars)
<1>1. UNCHANGED <<opc, arrived, ipc, ibyte, rdrf, data>>
  BY DEF ThreadStep, StartCall, ReadStep, Interrupted, WriteStep, Lock, TestEmpty,
         UnlockToWait, WaitEvent, PrepareToWait, Recheck, WakeUp, CopyToUser, Advance,
         UnlockAndReturn, PollTransmitter, PutByte, fileVars, isrVars, rxVars
<1>2. Opened' = Opened
  BY <1>1 DEF Opened
<1>3. InHand' = InHand /\ InRegister' = InRegister /\ Behind' = Behind
  BY <1>1 DEF InHand, InRegister, Behind
<1>4. CASE Advance(t)
  <2>1. PICK rest \in Seq(Nat) :
           /\ copied[t] \in Seq(Nat)
           /\ fifo = copied[t] \o rest /\ fifo' = rest
           /\ delivered' = delivered \o copied[t]
    BY <1>4, AdvanceTakes, BytesAreNumbers
  <2> DEFINE n == Len(copied[t])
             left == rest \o Behind
  <2>2. /\ copied[t] \in Seq(Nat) /\ Behind \in Seq(Nat)
        /\ delivered \in Seq(Nat) /\ InHand \in Seq(Nat) /\ InRegister \in Seq(Nat)
        /\ Unread = fifo \o Behind
    BY <2>1, UnreadPieces DEF ReadInv
  <2>3. left \in Seq(Nat) /\ Unread = copied[t] \o left
    <3>1. Cutting!Join(Cutting!Join(copied[t], rest), Behind)
         = Cutting!Join(copied[t], Cutting!Join(rest, Behind))
      BY <2>2, Cutting!JoinAssociative
    <3>2. (copied[t] \o rest) \o Behind = copied[t] \o (rest \o Behind)
      BY <3>1 DEF Cutting!Join
    <3> QED BY <2>1, <2>2, <3>2, ConcatProperties
  <2>4. Unread' = left
    <3>1. Cutting!Join(Cutting!Join(rest, InHand), InRegister)
         = Cutting!Join(rest, Cutting!Join(InHand, InRegister))
      BY <2>2, Cutting!JoinAssociative
    <3>2. Unread' = (rest \o InHand) \o InRegister
      BY <1>3, <2>1 DEF Unread
    <3> QED BY <3>1, <3>2 DEF Behind, Cutting!Join
  <2> HIDE DEF left
  <2>5. /\ SubSeq(Unread, 1, n) = copied[t]
        /\ SubSeq(Unread, n + 1, Len(Unread)) = left
    BY <2>2, <2>3, Cutting!Halves
  <2>6. n \in Nat /\ Len(left) \in Nat /\ Len(Unread) = n + Len(left)
    BY <2>2, <2>3, ConcatProperties, LenProperties
  <2>7. Opened
    BY <1>4 DEF Advance, Thread, ReadInv, TypeInv, PortInv, CallsHaveFile, Opened
  <2>8. CASE n = 0
    <3>1. copied[t] = <<>>
      BY <2>2, <2>8, EmptySeq
    <3>2. Unread' = Unread /\ delivered' = delivered
      BY <2>1, <2>2, <2>3, <2>4, <3>1, ConcatEmptySeq
    <3> QED BY <1>1, <1>2, <3>2 DEF Channel!vars, Opened
  <2>9. CASE n # 0
    <3>1. n \in 1..Len(Unread) /\ n <= Len(Unread)
      BY <2>6, <2>9, SMT
    <3>2. Channel!Read(n)
      BY <1>1, <1>2, <2>1, <2>4, <2>5, <2>7, <3>1 DEF Channel!Read, Opened
    <3> QED BY <3>1, <3>2 DEF Channel!Next
  <2> QED BY <2>8, <2>9
<1>5. CASE ~Advance(t)
  <2>1. UNCHANGED <<delivered, fifo>>
    BY <1>5 DEF ThreadStep, StartCall, ReadStep, Interrupted, WriteStep, Lock, TestEmpty,
         UnlockToWait, WaitEvent, PrepareToWait, Recheck, WakeUp, CopyToUser,
         UnlockAndReturn, PollTransmitter, PutByte, fifoVars
  <2>2. Unread' = Unread
    BY <1>3, <2>1 DEF Unread
  <2> QED BY <1>1, <1>2, <2>1, <2>2 DEF Channel!vars, Opened
<1> QED BY <1>4, <1>5

\* The handler takes a byte from the register to the kfifo, which is not noticed,
\* or drops it there, behind a full kfifo.
LEMMA HandlerIsChannel ==
  ASSUME ReadInv, IsrStep \/ TransmitterEmpties
  PROVE  [Channel!Next]_(Channel!vars)
<1>1. UNCHANGED <<opc, arrived, delivered>>
  BY DEF IsrStep, EnterIsr, IsrStatus, IsrData, IsrPut, IsrWake, TransmitterEmpties,
         fileVars, rxVars
<1>2. Opened' = Opened
  BY <1>1 DEF Opened
<1>3. /\ fifo \in Seq(Nat) /\ InHand \in Seq(Nat) /\ InRegister \in Seq(Nat)
      /\ Unread = (fifo \o InHand) \o InRegister
  BY UnreadPieces DEF ReadInv, Unread
<1>4. CASE EnterIsr \/ IsrStatus \/ IsrWake \/ TransmitterEmpties
  <2>1. /\ UNCHANGED <<fifo, ibyte, rdrf, data>>
        /\ \/ ipc # "put" /\ ipc' # "put"
           \/ ipc' = ipc
    BY <1>4 DEF EnterIsr, IsrStatus, IsrWake, TransmitterEmpties, fifoVars, isrVars, rxVars
  <2>2. Unread' = Unread
    BY <2>1 DEF Unread, InHand, InRegister
  <2> QED BY <1>1, <1>2, <2>2 DEF Channel!vars, Opened
<1>5. CASE IsrData
  <2>1. /\ fifo' = fifo /\ ipc = "data" /\ ipc' = "put"
        /\ ibyte' = data /\ rdrf' = FALSE /\ rdrf
    BY <1>5 DEF IsrData, fifoVars, ReadInv, TypeInv, HandlerHasByte
  <2>2. InHand = <<>> /\ InRegister = <<data>> /\ InHand' = <<data>> /\ InRegister' = <<>>
    BY <2>1 DEF InHand, InRegister
  <2>3. fifo \o <<data>> \in Seq(Nat)
    BY <1>3, <2>2, ConcatProperties
  <2>4. Unread = fifo \o <<data>>
    BY <1>3, <2>2, ConcatEmptySeq
  <2>5. Unread' = (fifo \o <<data>>) \o <<>>
    BY <2>1, <2>2 DEF Unread
  <2>6. Unread' = Unread
    BY <2>3, <2>4, <2>5, ConcatEmptySeq
  <2> QED BY <1>1, <1>2, <2>6 DEF Channel!vars, Opened
<1>6. CASE IsrPut
  <2>1. /\ ipc = "put" /\ ipc' # "put" /\ rdrf' = rdrf /\ data' = data
        /\ present
    BY <1>6, HandlerFindsFifo DEF IsrPut, rxVars
  <2>2. InHand = <<ibyte>> /\ InHand' = <<>> /\ InRegister' = InRegister /\ ibyte \in Nat
    <3>1. ibyte \in Bytes
      BY <2>1 DEF ReadInv, TypeInv, HandlerHasByte
    <3>2. ibyte \in Nat
      BY <3>1, LpuartAssumption, SMT DEF Bytes
    <3> QED BY <2>1, <3>2 DEF InHand, InRegister
  <2>3. Unread' = (fifo' \o <<>>) \o InRegister
    BY <2>2 DEF Unread
  <2>4. CASE Len(fifo) < FifoSize
    <3>1. fifo' = fifo \o InHand
      BY <1>3, <1>6, <2>1, <2>2, <2>4, AppendIsConcat DEF IsrPut
    <3>2. fifo' \o <<>> = fifo'
      BY <1>3, <3>1, ConcatProperties, ConcatEmptySeq
    <3>3. Unread' = Unread
      BY <1>3, <2>3, <3>1, <3>2
    <3> QED BY <1>1, <1>2, <3>3 DEF Channel!vars, Opened
  <2>5. CASE ~(Len(fifo) < FifoSize)
    <3> DEFINE front == fifo \o InHand
    <3>1. fifo' = fifo
      BY <1>6, <2>5 DEF IsrPut
    <3>2. Unread' = fifo \o InRegister
      BY <1>3, <2>3, <3>1, ConcatEmptySeq
    <3>3. Len(fifo) = FifoSize
      <4>1. Len(fifo) \in Nat /\ Len(fifo) <= FifoSize
        BY LenProperties DEF ReadInv, TypeInv, BytesTyped
      <4> QED BY <2>5, <4>1, LpuartAssumption, SMT
    <3>4. front \in Seq(Nat) /\ Len(front) = FifoSize + 1
      <4>1. Len(InHand) = 1
        BY <2>2, OneByte
      <4>2. fifo \o InHand \in Seq(Nat) /\ Len(fifo \o InHand) = Len(fifo) + Len(InHand)
        BY <1>3, ConcatProperties
      <4> QED BY <3>3, <4>1, <4>2
    <3>5. Unread = front \o InRegister /\ Unread = fifo \o Behind /\ Behind \in Seq(Nat)
      BY <1>3, UnreadPieces DEF ReadInv
    <3> HIDE DEF front
    <3>6. SubSeq(Unread, FifoSize + 2, Len(Unread)) = InRegister
      <4>1. SubSeq(front \o InRegister, Len(front) + 1, Len(front \o InRegister)) = InRegister
        BY <1>3, <3>4, Cutting!Halves
      <4>2. (FifoSize + 1) + 1 = FifoSize + 2
        BY LpuartAssumption, SMT
      <4> QED BY <3>4, <3>5, <4>1, <4>2
    <3>7. SubSeq(Unread, 1, FifoSize) = fifo
      BY <1>3, <3>3, <3>5, Cutting!Halves
    <3>8. Len(Unread) > FifoSize
      <4>1. /\ Len(front \o InRegister) = Len(front) + Len(InRegister)
            /\ Len(InRegister) \in Nat
        BY <1>3, <3>4, ConcatProperties, LenProperties
      <4> QED BY <3>4, <3>5, <4>1, LpuartAssumption, SMT
    <3>9. Channel!Overflow
      BY <1>1, <1>2, <3>2, <3>6, <3>7, <3>8 DEF Channel!Overflow, Opened
    <3> QED BY <3>9 DEF Channel!Next
  <2> QED BY <2>4, <2>5
<1> QED BY <1>4, <1>5, <1>6 DEF IsrStep

\* A byte from the line comes last, or finds another one in the register.
LEMMA LineIsChannel ==
  ASSUME ReadInv, ByteArrives
  PROVE  [Channel!Next]_(Channel!vars)
<1>1. /\ UNCHANGED <<opc, delivered, fifo, ipc, ibyte>> /\ arrived' = arrived + 1
      /\ \/ rdrf /\ rdrf' = rdrf /\ data' = data
         \/ ~rdrf /\ rdrf' = TRUE /\ data' = arrived'
  BY DEF ByteArrives, fileVars, fifoVars, isrVars
<1>2. Opened /\ Opened' = Opened
  BY <1>1 DEF ByteArrives, ReadInv, Opened
<1>3. /\ fifo \in Seq(Nat) /\ InHand \in Seq(Nat) /\ InRegister \in Seq(Nat)
      /\ Unread = (fifo \o InHand) \o InRegister /\ Unread \in Seq(Nat)
  BY UnreadPieces DEF ReadInv, Unread
<1>4. InHand' = InHand
  BY <1>1 DEF InHand
<1>5. CASE rdrf /\ rdrf' = rdrf /\ data' = data
  <2>1. Unread' = Unread
    BY <1>1, <1>4, <1>5 DEF Unread, InRegister
  <2>2. Unread # <<>>
    <3>1. Len(InRegister) = 1
      BY <1>5, OneByte DEF InRegister, ReadInv, TypeInv, HandlerHasByte
    <3>2. /\ Len(Unread) = Len(fifo \o InHand) + Len(InRegister)
          /\ Len(fifo \o InHand) \in Nat
      BY <1>3, ConcatProperties, LenProperties
    <3>3. Len(Unread) # 0
      BY <3>1, <3>2, SMT
    <3> QED BY <3>3, EmptySeq
  <2>3. Channel!Overrun
    BY <1>1, <1>2, <2>1, <2>2 DEF Channel!Overrun, Opened
  <2> QED BY <2>3 DEF Channel!Next
<1>6. CASE ~rdrf /\ rdrf' = TRUE /\ data' = arrived'
  <2>1. InRegister = <<>> /\ InRegister' = <<arrived'>>
    BY <1>6 DEF InRegister
  <2>2. fifo \o InHand \in Seq(Nat)
    BY <1>3, ConcatProperties
  <2>3. Unread = fifo \o InHand
    BY <1>3, <2>1, <2>2, ConcatEmptySeq
  <2>4. Unread' = Unread \o <<arrived'>>
    BY <1>1, <1>4, <2>1, <2>3 DEF Unread
  <2>5. arrived' \in Nat
    BY <1>1, SMT DEF ReadInv, TypeInv, BytesTyped
  <2>6. Unread' = Append(Unread, arrived')
    BY <1>3, <2>4, <2>5, AppendIsConcat
  <2>7. Channel!Receive
    BY <1>1, <1>2, <2>6 DEF Channel!Receive, Opened
  <2> QED BY <2>7 DEF Channel!Next
<1> QED BY <1>1, <1>5, <1>6

\* To the programs that share one open file the driver is a channel: the mutex,
\* the two steps in which a reader copies and takes out (kfifo_to_user in
\* uart_read), the handler that fills the kfifo without a lock (lpuart_isr) and
\* the buffer that uart_close frees cannot be noticed, and a byte is lost only
\* where the channel may lose it, for any size of the kfifo.
THEOREM DriverImplementsChannel == Spec /\ []OneAtATime => ImplementsChannel
<1>1. Init => Channel!Init
  <2> SUFFICES ASSUME Init PROVE Channel!Init
    OBVIOUS
  <2>1. Unread = (<<>> \o <<>>) \o <<>>
    BY DEF Init, Unread, InHand, InRegister
  <2>2. Unread = <<>>
    BY <2>1, EmptySeq, ConcatEmptySeq
  <2> QED BY <2>2 DEF Init, Channel!Init
<1>2. ReadInv /\ OneAtATime /\ OneAtATime' /\ [Next]_vars
        => [Channel!Next]_(Channel!vars)
  <2> SUFFICES ASSUME ReadInv, OneAtATime, OneAtATime', [Next]_vars
               PROVE  [Channel!Next]_(Channel!vars)
    OBVIOUS
  <2>1. CASE UNCHANGED vars
    <3>1. UNCHANGED <<opc, arrived, Unread, delivered>>
      BY <2>1 DEF vars, fileVars, fifoVars, isrVars, rxVars, Unread, InHand, InRegister
    <3> QED BY <3>1 DEF Channel!vars
  <2> QED BY <2>1, FileIsChannel, ThreadIsChannel, HandlerIsChannel, LineIsChannel
          DEF Next, ThreadStep
<1> QED BY <1>1, <1>2, ReadInvHolds, PTL DEF Spec, ImplementsChannel, Channel!Spec

\* So the bytes reach the readers in the order in which they arrived, none twice.
THEOREM BytesReachReadersInOrder == Spec /\ []OneAtATime => []BytesInOrder
<1>1. Cutting!Spec => []Cutting!InOrder
  BY LpuartAssumption, Cutting!ChannelKeepsOrder
<1>2. Channel!Init => Cutting!Init
  BY DEF Channel!Init, Cutting!Init
<1>3. [Channel!Next]_(Channel!vars) => [Cutting!Next]_(Cutting!vars)
  BY DEF Channel!Next, Cutting!Next, Channel!Open, Cutting!Open, Channel!Close, Cutting!Close,
         Channel!Receive, Cutting!Receive, Channel!Overrun, Cutting!Overrun,
         Channel!Overflow, Cutting!Overflow, Channel!Read, Cutting!Read,
         Channel!Reset, Cutting!Reset, Channel!vars, Cutting!vars
<1>4. Cutting!InOrder => BytesInOrder
  BY DEF Cutting!InOrder, BytesInOrder, Channel!InOrder
<1> QED BY <1>1, <1>2, <1>3, <1>4, DriverImplementsChannel, PTL
        DEF ImplementsChannel, Channel!Spec, Cutting!Spec
=============================================================================
