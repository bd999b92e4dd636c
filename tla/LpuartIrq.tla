------------------------------ MODULE LpuartIrq ------------------------------
(***************************************************************************)
(* The interrupt-driven UART driver (recipes-kernel/hsiao-kmod/files/      *)
(* lpuart_interrupt.c): open and close power the port up and down, read    *)
(* sleeps until the interrupt handler has put bytes into a kfifo, write    *)
(* polls the transmitter.                                                  *)
(*                                                                         *)
(* All open files share one struct lpuart_dev.  Files are opened and       *)
(* closed concurrently (opc); threads read and write through open files    *)
(* (tpc), and a file is released only when no thread is inside a call on   *)
(* it.  Received bytes are numbered, so that order and loss can be seen.   *)
(* Hardware, clock framework, interrupt core, mutex, wait queue and kfifo  *)
(* are external and modelled from how the driver uses them.                *)
(***************************************************************************)
EXTENDS Integers, Sequences, FiniteSets

CONSTANTS Files,     \* open file descriptions
          Threads,   \* threads that read and write
          FifoSize,  \* the size of the kfifo (512)
          MaxBytes,  \* bound: bytes that arrive on the line
          NoFile     \* no file

ASSUME LpuartAssumption ==
  /\ IsFiniteSet(Files) /\ NoFile \notin Files
  /\ FifoSize \in Nat \ {0} /\ MaxBytes \in Nat

VARIABLES opc,        \* where each file is in uart_open or uart_close
          tpc,        \* where each thread is in uart_read or uart_write
          tfile,      \* the file the thread's call is on
          copied,     \* the bytes the thread's kfifo_to_user has copied
          clk,        \* the enable count of the clock
          irq,        \* the handler is registered
          ctrl,       \* LPUART_CTRL has TE, RE and RIE set
          present,    \* rx_fifo has a buffer
          fifo,       \* the bytes in rx_fifo
          mutex,      \* lock is held
          waiters,    \* the threads on the list of rx_wait
          asleep,     \* the threads that do not run until they are woken
          ipc,        \* where the interrupt handler is
          ibyte,      \* the byte it has read
          rdrf, data, \* receiver: register full, byte in it
          tdre,       \* transmitter: register empty
          arrived,    \* bytes received by the hardware so far
          delivered,  \* history: bytes handed to readers, in order
          oops        \* history: the kfifo was written without a buffer, or
                      \* more was taken out than there was

fileVars   == <<opc, clk, irq, ctrl>>
fifoVars   == <<present, fifo>>
lockVars   == <<mutex, waiters, asleep>>
threadVars == <<tpc, tfile, copied>>
isrVars    == <<ipc, ibyte, oops>>
rxVars     == <<rdrf, data, arrived>>
vars == <<fileVars, fifoVars, lockVars, threadVars, isrVars, rxVars, tdre,
          delivered>>

Init == /\ opc = [f \in Files |-> "closed"]
        /\ tpc = [t \in Threads |-> "idle"]
        /\ tfile = [t \in Threads |-> NoFile]
        /\ copied = [t \in Threads |-> <<>>]
        /\ clk = 0 /\ irq = FALSE /\ ctrl = FALSE
        /\ present = FALSE /\ fifo = <<>>
        /\ mutex = FALSE /\ waiters = {} /\ asleep = {}
        /\ ipc = "off" /\ ibyte = 0 /\ oops = FALSE
        /\ rdrf = FALSE /\ data = 0 /\ arrived = 0
        /\ tdre = TRUE
        /\ delivered = <<>>
-----------------------------------------------------------------------------
(* uart_open and uart_close                                                *)

File(f, from, to) == /\ opc[f] = from
                     /\ opc' = [opc EXCEPT ![f] = to]

\* init_waitqueue_head: the list is emptied, whoever is on it.
InitWaitQueue(f) == /\ File(f, "closed", "mutex_init")
                    /\ waiters' = {}
                    /\ UNCHANGED <<clk, irq, ctrl, fifoVars, mutex, asleep,
                                   threadVars, isrVars, rxVars, tdre, delivered>>

\* mutex_init: the mutex is free, whoever holds it.
InitMutex(f) == /\ File(f, "mutex_init", "kfifo_alloc")
                /\ mutex' = FALSE
                /\ UNCHANGED <<clk, irq, ctrl, fifoVars, waiters, asleep,
                               threadVars, isrVars, rxVars, tdre, delivered>>

\* kfifo_alloc starts afresh, with no buffer if there is no memory.
AllocFifo(f) == /\ \/ File(f, "kfifo_alloc", "clk_enable") /\ present' = TRUE
                   \/ File(f, "kfifo_alloc", "closed")     /\ present' = FALSE
                /\ fifo' = <<>>
                /\ UNCHANGED <<clk, irq, ctrl, lockVars, threadVars, isrVars,
                               rxVars, tdre, delivered>>

EnableClock(f) == /\ \/ File(f, "clk_enable", "request_irq") /\ clk' = clk + 1
                     \/ File(f, "clk_enable", "free_fifo")   /\ clk' = clk
                  /\ UNCHANGED <<irq, ctrl, fifoVars, lockVars, threadVars,
                                 isrVars, rxVars, tdre, delivered>>

\* Mutants of RequestIrq: a shared line; a failure that jumps past disable_clk.
RequestIrqShared(f) == /\ File(f, "request_irq", "ctrl_off")
                       /\ irq' = TRUE
                       /\ UNCHANGED <<clk, ctrl, fifoVars, lockVars, threadVars,
                                      isrVars, rxVars, tdre, delivered>>

RequestIrqWrongLabel(f) ==
  /\ \/ ~irq /\ File(f, "request_irq", "ctrl_off") /\ irq' = TRUE
     \/ File(f, "request_irq", "free_fifo") /\ irq' = irq
  /\ UNCHANGED <<clk, ctrl, fifoVars, lockVars, threadVars, isrVars, rxVars,
                 tdre, delivered>>

\* The line is not shared: request_irq fails while a handler is registered; it
\* may also fail for want of memory.
RequestIrq(f) == /\ \/ ~irq /\ File(f, "request_irq", "ctrl_off") /\ irq' = TRUE
                    \/ File(f, "request_irq", "disable_clk") /\ irq' = irq
                 /\ UNCHANGED <<clk, ctrl, fifoVars, lockVars, threadVars,
                                isrVars, rxVars, tdre, delivered>>

CtrlOff(f) == /\ File(f, "ctrl_off", "ctrl_on")
              /\ ctrl' = FALSE
              /\ UNCHANGED <<clk, irq, fifoVars, lockVars, threadVars, isrVars,
                             rxVars, tdre, delivered>>

\* The baud rate, then TE | RE | RIE.
CtrlOn(f) == /\ File(f, "ctrl_on", "open")
             /\ ctrl' = TRUE
             /\ UNCHANGED <<clk, irq, fifoVars, lockVars, threadVars, isrVars,
                            rxVars, tdre, delivered>>

DisableClock(f) == /\ \/ File(f, "disable_clk", "free_fifo")
                      \/ File(f, "close_clk", "close_fifo")
                   /\ clk' = clk - 1
                   /\ UNCHANGED <<irq, ctrl, fifoVars, lockVars, threadVars,
                                  isrVars, rxVars, tdre, delivered>>

FreeFifo(f) == /\ \/ File(f, "free_fifo", "closed")
                  \/ File(f, "close_fifo", "closed")
               /\ present' = FALSE /\ fifo' = <<>>
               /\ UNCHANGED <<clk, irq, ctrl, lockVars, threadVars, isrVars,
                              rxVars, tdre, delivered>>

\* The last reference to the file is dropped: no call on it is going on.
CloseCtrl(f) == /\ File(f, "open", "close_irq")
                /\ \A t \in Threads : tfile[t] # f
                /\ ctrl' = FALSE
                /\ UNCHANGED <<clk, irq, fifoVars, lockVars, threadVars,
                               isrVars, rxVars, tdre, delivered>>

\* Mutant of FreeIrq: the handler may still be running.
FreeIrqNoSync(f) == /\ File(f, "close_irq", "close_clk")
                    /\ irq' = FALSE
                    /\ UNCHANGED <<clk, ctrl, fifoVars, lockVars, threadVars,
                                   isrVars, rxVars, tdre, delivered>>

\* free_irq returns when the handler is not running.
FreeIrq(f) == /\ File(f, "close_irq", "close_clk")
              /\ ipc = "off"
              /\ irq' = FALSE
              /\ UNCHANGED <<clk, ctrl, fifoVars, lockVars, threadVars,
                             isrVars, rxVars, tdre, delivered>>

OpenStep(f) == \/ InitMutex(f) \/ AllocFifo(f) \/ EnableClock(f)
               \/ RequestIrq(f) \/ CtrlOff(f) \/ CtrlOn(f) \/ DisableClock(f)
               \/ FreeFifo(f) \/ FreeIrq(f)
-----------------------------------------------------------------------------
(* lpuart_isr                                                              *)

EnterIsr == /\ ipc = "off" /\ irq /\ ctrl /\ rdrf
            /\ ipc' = "status"
            /\ UNCHANGED <<fileVars, fifoVars, lockVars, threadVars, ibyte,
                           oops, rxVars, tdre, delivered>>

IsrStatus == /\ ipc = "status"
             /\ ipc' = IF rdrf THEN "data" ELSE "off"
             /\ UNCHANGED <<fileVars, fifoVars, lockVars, threadVars, ibyte,
                            oops, rxVars, tdre, delivered>>

\* Reading DATA clears RDRF.
IsrData == /\ ipc = "data"
           /\ ibyte' = data
           /\ rdrf' = FALSE
           /\ ipc' = "put"
           /\ UNCHANGED <<fileVars, fifoVars, lockVars, threadVars, oops, data,
                          arrived, tdre, delivered>>

\* Mutant of IsrPut: the handler does not look whether there is room.
IsrPutUnbounded == /\ ipc = "put"
                   /\ fifo' = Append(fifo, ibyte)
                   /\ oops' = (oops \/ ~present)
                   /\ ipc' = "wake" /\ ibyte' = 0
                   /\ UNCHANGED <<fileVars, present, lockVars, threadVars, rxVars,
                                  tdre, delivered>>

\* kfifo_put, in one step to those who use the kfifo without a lock.  A byte that
\* finds no room is dropped, and the handler is done.
IsrPut == /\ ipc = "put"
          /\ IF present /\ Len(fifo) < FifoSize
             THEN fifo' = Append(fifo, ibyte) /\ ipc' = "wake"
             ELSE fifo' = fifo /\ ipc' = "off"
          /\ oops' = (oops \/ ~present)
          /\ ibyte' = 0
          /\ UNCHANGED <<fileVars, present, lockVars, threadVars, rxVars, tdre,
                         delivered>>

\* wake_up_interruptible: whoever is on the list may run and is taken off it.
\* Readers on other CPUs may have done anything since the byte was put there.
WakeAll == /\ asleep' = asleep \ waiters
           /\ waiters' = {}
           /\ UNCHANGED mutex

IsrWake == /\ ipc = "wake"
           /\ WakeAll
           /\ ipc' = "off"
           /\ UNCHANGED <<fileVars, fifoVars, threadVars, ibyte, oops, rxVars, tdre,
                          delivered>>

\* Mutant of IsrStep: the handler wakes the readers up before it puts the byte.
WakeFirst == \/ /\ ipc = "put" /\ ipc' = "wake"
                /\ WakeAll
                /\ UNCHANGED <<fifo, oops, ibyte>>
             \/ /\ ipc = "wake" /\ ipc' = "off"
                /\ fifo' = IF present /\ Len(fifo) < FifoSize
                           THEN Append(fifo, ibyte) ELSE fifo
                /\ oops' = (oops \/ ~present) /\ ibyte' = 0
                /\ UNCHANGED lockVars

IsrStepWakesFirst ==
  \/ EnterIsr \/ IsrStatus \/ IsrData
  \/ /\ WakeFirst
     /\ UNCHANGED <<fileVars, present, threadVars, rxVars, tdre, delivered>>

IsrStep == EnterIsr \/ IsrStatus \/ IsrData \/ IsrPut \/ IsrWake
-----------------------------------------------------------------------------
(* uart_read                                                               *)

Thread(t, from, to) == /\ tpc[t] = from
                       /\ tpc' = [tpc EXCEPT ![t] = to]

\* The call ends; what it returned is not kept.
Return(t, from) == /\ Thread(t, from, "idle")
                   /\ tfile' = [tfile EXCEPT ![t] = NoFile]
                   /\ copied' = [copied EXCEPT ![t] = <<>>]

StartCall(t, f) == /\ opc[f] = "open"
                   /\ \/ Thread(t, "idle", "lock")
                      \/ Thread(t, "idle", "poll")
                   /\ tfile' = [tfile EXCEPT ![t] = f]
                   /\ UNCHANGED <<fileVars, fifoVars, lockVars, copied, isrVars,
                                  rxVars, tdre, delivered>>

\* mutex_lock_interruptible, on entry and after every wait.
Lock(t) == /\ ~mutex /\ mutex' = TRUE
           /\ Thread(t, "lock", "test")
           /\ UNCHANGED <<fileVars, fifoVars, waiters, asleep, tfile, copied,
                          isrVars, rxVars, tdre, delivered>>

TestEmpty(t) == /\ Thread(t, "test", IF fifo = <<>> THEN "unlock" ELSE "copy")
                /\ UNCHANGED <<fileVars, fifoVars, lockVars, tfile, copied,
                               isrVars, rxVars, tdre, delivered>>

UnlockToWait(t) == /\ Thread(t, "unlock", "wait")
                   /\ mutex' = FALSE
                   /\ UNCHANGED <<fileVars, fifoVars, waiters, asleep, tfile,
                                  copied, isrVars, rxVars, tdre, delivered>>

\* Mutant of WaitEvent: a wait that need not sleep does not take the lock again.
WaitEventNoRelock(t) ==
  /\ Thread(t, "wait", IF fifo = <<>> THEN "enqueue" ELSE "test")
  /\ UNCHANGED <<fileVars, fifoVars, lockVars, tfile, copied, isrVars, rxVars,
                 tdre, delivered>>

\* wait_event_interruptible: no sleep if the condition holds already;
WaitEvent(t) == /\ Thread(t, "wait", IF fifo = <<>> THEN "enqueue" ELSE "lock")
                /\ UNCHANGED <<fileVars, fifoVars, lockVars, tfile, copied,
                               isrVars, rxVars, tdre, delivered>>

\* otherwise the thread goes on the list, looks again, and gives up the CPU.
PrepareToWait(t) == /\ Thread(t, "enqueue", "recheck")
                    /\ waiters' = waiters \cup {t}
                    /\ asleep' = asleep \cup {t}
                    /\ UNCHANGED <<fileVars, fifoVars, mutex, tfile, copied,
                                   isrVars, rxVars, tdre, delivered>>

LeaveQueue(t) == /\ waiters' = waiters \ {t}
                 /\ asleep' = asleep \ {t}
                 /\ UNCHANGED mutex

Recheck(t) == /\ \/ /\ fifo = <<>>
                    /\ Thread(t, "recheck", "sleep")
                    /\ UNCHANGED lockVars
                 \/ /\ fifo # <<>>
                    /\ Thread(t, "recheck", "lock")
                    /\ LeaveQueue(t)
              /\ UNCHANGED <<fileVars, fifoVars, tfile, copied, isrVars,
                             rxVars, tdre, delivered>>

\* Woken up: round the loop of wait_event once more.
WakeUp(t) == /\ t \notin asleep
             /\ Thread(t, "sleep", "enqueue")
             /\ UNCHANGED <<fileVars, fifoVars, lockVars, tfile, copied,
                            isrVars, rxVars, tdre, delivered>>

\* A signal ends the wait for the mutex or for a byte with -ERESTARTSYS.
Interrupted(t) == /\ \/ Return(t, "lock") /\ UNCHANGED lockVars
                     \/ Return(t, "sleep") /\ LeaveQueue(t)
                  /\ UNCHANGED <<fileVars, fifoVars, isrVars, rxVars, tdre,
                                 delivered>>

\* kfifo_to_user copies what there is, up to the count asked for (it may fault
\* half-way), and then takes what it has copied out of the kfifo.
CopyToUser(t) == /\ Thread(t, "copy", "advance")
                 /\ \E n \in 0..Len(fifo) :
                       copied' = [copied EXCEPT ![t] = SubSeq(fifo, 1, n)]
                 /\ UNCHANGED <<fileVars, fifoVars, lockVars, tfile, isrVars,
                                rxVars, tdre, delivered>>

Advance(t) == /\ Thread(t, "advance", "mutex_unlock")
              /\ delivered' = delivered \o copied[t]
              /\ fifo' = SubSeq(fifo, Len(copied[t]) + 1, Len(fifo))
              /\ oops' = (oops \/ Len(copied[t]) > Len(fifo))
              /\ UNCHANGED <<fileVars, present, lockVars, tfile, copied, ipc,
                             ibyte, rxVars, tdre>>

UnlockAndReturn(t) == /\ Return(t, "mutex_unlock")
                      /\ mutex' = FALSE
                      /\ UNCHANGED <<fileVars, fifoVars, waiters, asleep,
                                     isrVars, rxVars, tdre, delivered>>

ReadStep(t) == \/ Lock(t) \/ TestEmpty(t) \/ UnlockToWait(t) \/ WaitEvent(t)
               \/ PrepareToWait(t) \/ Recheck(t) \/ WakeUp(t) \/ CopyToUser(t)
               \/ Advance(t) \/ UnlockAndReturn(t)
-----------------------------------------------------------------------------
(* uart_write                                                              *)

\* lpuart_putc spins until the transmitter is empty,
PollTransmitter(t) == /\ tdre
                      /\ Thread(t, "poll", "put")
                      /\ UNCHANGED <<fileVars, fifoVars, lockVars, tfile,
                                     copied, isrVars, rxVars, tdre, delivered>>

\* then writes the byte; the loop goes on with the next one or ends.
PutByte(t) == /\ \/ Thread(t, "put", "poll") /\ UNCHANGED <<tfile, copied>>
                 \/ Return(t, "put")
              /\ tdre' = FALSE
              /\ UNCHANGED <<fileVars, fifoVars, lockVars, isrVars, rxVars,
                             delivered>>

WriteStep(t) == PollTransmitter(t) \/ PutByte(t)
-----------------------------------------------------------------------------
(* The hardware                                                            *)

\* A byte comes in while the receiver is on; one that finds the register full
\* is lost.
ByteArrives == /\ ctrl /\ clk > 0 /\ arrived < MaxBytes
               /\ arrived' = arrived + 1
               /\ IF rdrf THEN UNCHANGED <<rdrf, data>>
                          ELSE rdrf' = TRUE /\ data' = arrived'
               /\ UNCHANGED <<fileVars, fifoVars, lockVars, threadVars,
                              isrVars, tdre, delivered>>

TransmitterEmpties == /\ ~tdre /\ tdre' = TRUE
                      /\ UNCHANGED <<fileVars, fifoVars, lockVars, threadVars,
                                     isrVars, rxVars, delivered>>

Next == \/ \E f \in Files : \/ InitWaitQueue(f) \/ OpenStep(f) \/ CloseCtrl(f)
        \/ IsrStep
        \/ \E t \in Threads : \/ \E f \in Files : StartCall(t, f)
                              \/ ReadStep(t) \/ Interrupted(t) \/ WriteStep(t)
        \/ ByteArrives \/ TransmitterEmpties

\* Calls that have begun go on unless they must wait, and so does the handler;
\* a transmitter empties; nobody need open, close, read, write or send.
Spec == /\ Init /\ [][Next]_vars
        /\ \A f \in Files : WF_vars(OpenStep(f))
        /\ \A t \in Threads : WF_vars(ReadStep(t)) /\ WF_vars(WriteStep(t))
        /\ WF_vars(IsrStep) /\ WF_vars(TransmitterEmpties)
-----------------------------------------------------------------------------
(* Properties                                                              *)

OpenPCs == {"closed", "mutex_init", "kfifo_alloc", "clk_enable", "request_irq",
            "ctrl_off", "ctrl_on", "open", "disable_clk", "free_fifo",
            "close_irq", "close_clk", "close_fifo"}

\* The type invariant.
TypeOK == /\ opc \in [Files -> OpenPCs]
          /\ tpc \in [Threads -> {"idle", "lock", "test", "unlock", "wait",
                                  "enqueue", "recheck", "sleep", "copy",
                                  "advance", "mutex_unlock", "poll", "put"}]
          /\ tfile \in [Threads -> Files \cup {NoFile}]
          /\ copied \in [Threads -> Seq(1..MaxBytes)]
          /\ \A t \in Threads : Len(copied[t]) <= FifoSize
          /\ clk \in Nat /\ irq \in BOOLEAN /\ ctrl \in BOOLEAN
          /\ present \in BOOLEAN
          /\ fifo \in Seq(1..MaxBytes) /\ Len(fifo) <= FifoSize
          /\ mutex \in BOOLEAN
          /\ waiters \subseteq Threads /\ asleep \subseteq Threads
          /\ ipc \in {"off", "status", "data", "put", "wake"}
          /\ ibyte \in 0..MaxBytes
          /\ rdrf \in BOOLEAN /\ data \in 0..MaxBytes /\ tdre \in BOOLEAN
          /\ arrived \in 0..MaxBytes /\ delivered \in Seq(1..MaxBytes)
          /\ oops \in BOOLEAN

\* The files that have enabled the clock and not yet disabled it.
Powered == {f \in Files : opc[f] \in {"request_irq", "ctrl_off", "ctrl_on",
                                      "open", "disable_clk", "close_irq",
                                      "close_clk"}}

\* Every clk_prepare_enable is matched by one clk_disable_unprepare, on every
\* path: the port is powered exactly while somebody has it open.
ClockBalanced == clk = Cardinality(Powered)

\* No register is touched while its clock is off, which would be an SError:
\* not by open or close, not by a write, not by the interrupt handler, however
\* many files are being opened and closed at once.
ClockedAccess ==
  \/ \E f \in Files : opc[f] \in {"ctrl_off", "ctrl_on", "open"}
  \/ \E t \in Threads : tpc[t] \in {"poll", "put"}
  \/ ipc \in {"status", "data"}
  => clk > 0

\* The files that hold the interrupt line.
Connected == {f \in Files : opc[f] \in {"ctrl_off", "ctrl_on", "open", "close_irq"}}

\* One file at most holds the interrupt, whatever opens fail meanwhile, and as
\* long as it is open its handler stays registered and its receiver on.
ReceiverStaysOn ==
  /\ \A f, g \in Connected : f = g
  /\ irq <=> Connected # {}
  /\ \A f \in Files : opc[f] = "open" => ctrl

\* What the comment in uart_read says of the mutex: it keeps several programs
\* from reading at once and upsetting the FIFO.
ReadersExclude ==
  \A t, u \in Threads :
    /\ tpc[t] \in {"test", "unlock", "copy", "advance", "mutex_unlock"}
    /\ tpc[u] \in {"test", "unlock", "copy", "advance", "mutex_unlock"}
    => t = u

\* What the comment in lpuart_isr says: the handler needs no lock, the kfifo is
\* safe by itself.  It never puts a byte into a kfifo that has no buffer, though
\* close frees the buffer while bytes arrive, and no reader takes out more than
\* there is.
HandlerHasFifo == ~oops

\* The bytes on their way to the readers, oldest first: those in the kfifo, the
\* one the handler has in hand, and the one in the data register.
InHand == IF ipc = "put" THEN <<ibyte>> ELSE <<>>
InRegister == IF rdrf THEN <<data>> ELSE <<>>
Unread == fifo \o InHand \o InRegister

Channel == INSTANCE ByteChannel
             WITH Capacity <- FifoSize,
                  open <- \E f \in Files : opc[f] = "open", unread <- Unread

\* To the programs that share one open file the driver is a channel: the mutex,
\* the two steps in which a reader copies and takes out, the handler that fills
\* the kfifo without a lock and the buffer that close frees cannot be noticed,
\* and a byte is lost only where the channel may lose it.
ImplementsChannel == Channel!Spec

\* Bytes reach the readers in the order in which they arrived and none twice.
BytesInOrder == Channel!InOrder

\* No wakeup is lost, although the byte comes first and the wakeup after it and
\* readers test, go to sleep and read in between: a reader does not sleep on while
\* there is a byte to read.
ReaderNotStranded ==
  \A t \in Threads :
    (tpc[t] = "sleep" /\ fifo # <<>>) ~> (tpc[t] # "sleep" \/ fifo = <<>>)
=============================================================================
