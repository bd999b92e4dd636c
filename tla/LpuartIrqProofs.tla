--------------------------- MODULE LpuartIrqProofs ---------------------------
(***************************************************************************)
(* Theorems about LpuartIrq for any number of files that are opened and    *)
(* closed at once: the interrupt has one owner and the receiver stays on,  *)
(* the clock is balanced, and no register is touched without it.           *)
(***************************************************************************)
EXTENDS LpuartIrq, FiniteSetTheorems, SequenceTheorems, TLAPS

ThreadPCs == {"idle", "lock", "test", "unlock", "wait", "enqueue", "recheck",
              "sleep", "copy", "advance", "mutex_unlock", "poll", "put"}

Shape == /\ opc \in [Files -> OpenPCs]
         /\ tpc \in [Threads -> ThreadPCs]
         /\ tfile \in [Threads -> Files \cup {NoFile}]
         /\ ipc \in {"off", "status", "data", "put", "wake"}
         /\ irq \in BOOLEAN

\* A call goes on through a file that is open until it is over.
CallsHaveFile ==
  \A t \in Threads : tpc[t] # "idle" => tfile[t] \in Files /\ opc[tfile[t]] = "open"

PortInv == /\ Shape /\ CallsHaveFile
           /\ ReceiverStaysOn /\ ClockBalanced
           /\ ipc # "off" => irq

ThreadStep(t) == \/ \E f \in Files : StartCall(t, f)
                 \/ ReadStep(t) \/ Interrupted(t) \/ WriteStep(t)

\* The steps of open and close that touch neither interrupt, clock nor control.
PrepareStep(f) == \/ InitWaitQueue(f) \/ InitMutex(f) \/ AllocFifo(f) \/ FreeFifo(f)
-----------------------------------------------------------------------------
(* The clock                                                               *)

LEMMA PoweredFinite == IsFiniteSet(Powered)
  BY LpuartAssumption, FS_Subset DEF Powered

\* One file enables the clock, one disables it, the others keep theirs.
LEMMA ClockFollows ==
  ASSUME ClockBalanced,
         \/ Powered' = Powered /\ clk' = clk
         \/ \E f \in Files : f \notin Powered /\ Powered' = Powered \cup {f} /\ clk' = clk + 1
         \/ \E f \in Files : f \in Powered /\ Powered' = Powered \ {f} /\ clk' = clk - 1
  PROVE  ClockBalanced'
<1>1. CASE Powered' = Powered /\ clk' = clk
  BY <1>1 DEF ClockBalanced
<1>2. ASSUME NEW f \in Files, f \notin Powered, Powered' = Powered \cup {f}, clk' = clk + 1
      PROVE  ClockBalanced'
  BY <1>2, PoweredFinite, FS_AddElement DEF ClockBalanced
<1>3. ASSUME NEW f \in Files, f \in Powered, Powered' = Powered \ {f}, clk' = clk - 1
      PROVE  ClockBalanced'
  BY <1>3, PoweredFinite, FS_RemoveElement DEF ClockBalanced
<1> QED BY <1>1, <1>2, <1>3
-----------------------------------------------------------------------------
(* The steps                                                               *)

LEMMA PortInvInit == Init => PortInv
<1> SUFFICES ASSUME Init PROVE PortInv
  OBVIOUS
<1>1. Shape /\ CallsHaveFile
  BY DEF Init, Shape, CallsHaveFile, OpenPCs, ThreadPCs
<1>2. ReceiverStaysOn
  BY DEF Init, ReceiverStaysOn, Connected
<1>3. Powered = {}
  BY DEF Init, Powered
<1> QED BY <1>1, <1>2, <1>3, FS_EmptySet DEF Init, PortInv, ClockBalanced

\* A step of open or close that starts where no call can be.
LEMMA CallsGoOn ==
  ASSUME PortInv, NEW f \in Files, NEW from, NEW to, File(f, from, to),
         from # "open" \/ \A t \in Threads : tfile[t] # f, UNCHANGED <<tpc, tfile>>
  PROVE  CallsHaveFile'
  BY SMT DEF PortInv, Shape, CallsHaveFile, File

LEMMA PrepareKeepsPort ==
  ASSUME PortInv, NEW f \in Files, PrepareStep(f)
  PROVE  PortInv'
<1>1. PICK from \in {"closed", "mutex_init", "kfifo_alloc", "free_fifo", "close_fifo"},
           to \in {"mutex_init", "kfifo_alloc", "clk_enable", "closed"} : File(f, from, to)
  BY DEF PrepareStep, InitWaitQueue, InitMutex, AllocFifo, FreeFifo
<1>2. UNCHANGED <<clk, irq, ctrl, ipc, tpc, tfile>>
  BY DEF PrepareStep, InitWaitQueue, InitMutex, AllocFifo, FreeFifo, threadVars, isrVars
<1>3. Shape'
  BY <1>1, <1>2, SMT DEF PortInv, Shape, File, OpenPCs
<1>4. CallsHaveFile'
  BY <1>1, <1>2, CallsGoOn
<1>5. Connected' = Connected /\ Powered' = Powered
  BY <1>1, SMT DEF PortInv, Shape, Connected, Powered, File
<1>6. ReceiverStaysOn'
  BY <1>1, <1>2, <1>5, SMT DEF PortInv, Shape, ReceiverStaysOn, File
<1>7. ClockBalanced'
  BY <1>2, <1>5, ClockFollows DEF PortInv
<1> QED BY <1>2, <1>3, <1>4, <1>6, <1>7 DEF PortInv

LEMMA EnableKeepsPort ==
  ASSUME PortInv, NEW f \in Files, EnableClock(f)
  PROVE  PortInv'
<1>1. UNCHANGED <<irq, ctrl, ipc, tpc, tfile>>
  BY DEF EnableClock, threadVars, isrVars
<1>2. Shape'
  BY <1>1, SMT DEF PortInv, Shape, EnableClock, File, OpenPCs
<1>3. CallsHaveFile'
  BY <1>1, CallsGoOn DEF EnableClock
<1>4. Connected' = Connected
  BY SMT DEF PortInv, Shape, Connected, EnableClock, File
<1>5. ReceiverStaysOn'
  BY <1>1, <1>4, SMT DEF PortInv, Shape, ReceiverStaysOn, EnableClock, File
<1>6. \/ Powered' = Powered /\ clk' = clk
      \/ f \notin Powered /\ Powered' = Powered \cup {f} /\ clk' = clk + 1
  <2>1. CASE File(f, "clk_enable", "free_fifo") /\ clk' = clk
    <3>1. Powered' = Powered
      BY <2>1, SMT DEF PortInv, Shape, Powered, File
    <3> QED BY <2>1, <3>1
  <2>2. CASE File(f, "clk_enable", "request_irq") /\ clk' = clk + 1
    <3>1. f \notin Powered /\ Powered' = Powered \cup {f}
      BY <2>2, SMT DEF PortInv, Shape, Powered, File
    <3> QED BY <2>2, <3>1
  <2> QED BY <2>1, <2>2 DEF EnableClock
<1>7. ClockBalanced'
  BY <1>6, ClockFollows DEF PortInv
<1> QED BY <1>1, <1>2, <1>3, <1>5, <1>7 DEF PortInv

LEMMA DisableKeepsPort ==
  ASSUME PortInv, NEW f \in Files, DisableClock(f)
  PROVE  PortInv'
<1>1. UNCHANGED <<irq, ctrl, ipc, tpc, tfile>> /\ clk' = clk - 1
  BY DEF DisableClock, threadVars, isrVars
<1>2. Shape'
  BY <1>1, SMT DEF PortInv, Shape, DisableClock, File, OpenPCs
<1>3. CallsHaveFile'
  BY <1>1, CallsGoOn DEF DisableClock
<1>4. Connected' = Connected
  BY SMT DEF PortInv, Shape, Connected, DisableClock, File
<1>5. ReceiverStaysOn'
  BY <1>1, <1>4, SMT DEF PortInv, Shape, ReceiverStaysOn, DisableClock, File
<1>6. f \in Powered /\ Powered' = Powered \ {f}
  BY SMT DEF PortInv, Shape, Powered, DisableClock, File
<1>7. ClockBalanced'
  BY <1>1, <1>6, ClockFollows DEF PortInv
<1> QED BY <1>1, <1>2, <1>3, <1>5, <1>7 DEF PortInv

\* request_irq succeeds for one file at a time, and free_irq waits for the handler.
LEMMA InterruptKeepsPort ==
  ASSUME PortInv, NEW f \in Files, RequestIrq(f) \/ FreeIrq(f)
  PROVE  PortInv'
<1>1. UNCHANGED <<clk, ctrl, ipc, tpc, tfile>>
  BY DEF RequestIrq, FreeIrq, threadVars, isrVars
<1>2. Shape'
  <2>1. opc' \in [Files -> OpenPCs]
    BY SMT DEF PortInv, Shape, RequestIrq, FreeIrq, File, OpenPCs
  <2>2. irq' \in BOOLEAN
    BY DEF PortInv, Shape, RequestIrq, FreeIrq
  <2> QED BY <1>1, <2>1, <2>2 DEF PortInv, Shape
<1>3. CallsHaveFile'
  BY <1>1, CallsGoOn DEF RequestIrq, FreeIrq
<1>4. Powered' = Powered
  BY SMT DEF PortInv, Shape, Powered, RequestIrq, FreeIrq, File
<1>5. ClockBalanced'
  BY <1>1, <1>4, ClockFollows DEF PortInv
<1>6. ReceiverStaysOn' /\ (ipc' # "off" => irq')
  <2>1. CASE File(f, "request_irq", "disable_clk") /\ irq' = irq
    <3>1. Connected' = Connected
      BY <2>1, SMT DEF PortInv, Shape, Connected, File
    <3>2. \A g \in Files : opc'[g] = "open" => opc[g] = "open"
      BY <2>1, SMT DEF PortInv, Shape, File
    <3> QED BY <1>1, <2>1, <3>1, <3>2 DEF PortInv, ReceiverStaysOn
  <2>2. CASE ~irq /\ File(f, "request_irq", "ctrl_off") /\ irq' = TRUE
    <3>1. Connected = {}
      BY <2>2 DEF PortInv, ReceiverStaysOn
    <3>2. Connected' = {f}
      BY <2>2, <3>1, SMT DEF PortInv, Shape, Connected, File
    <3>3. \A g \in Files : opc'[g] # "open"
      BY <2>2, <3>1, SMT DEF PortInv, Shape, Connected, File
    <3> QED BY <2>2, <3>2, <3>3 DEF ReceiverStaysOn
  <2>3. CASE FreeIrq(f)
    <3>1. f \in Connected /\ opc[f] = "close_irq"
      BY <2>3 DEF FreeIrq, File, Connected
    <3>2. Connected' = Connected \ {f}
      BY <2>3, SMT DEF PortInv, Shape, Connected, FreeIrq, File
    <3>3. Connected' = {}
      BY <3>1, <3>2 DEF PortInv, ReceiverStaysOn
    <3>4. \A g \in Files : opc'[g] # "open"
      BY <3>3, SMT DEF Connected
    <3> QED BY <1>1, <2>3, <3>3, <3>4 DEF FreeIrq, ReceiverStaysOn
  <2> QED BY <2>1, <2>2, <2>3 DEF RequestIrq
<1> QED BY <1>2, <1>3, <1>5, <1>6 DEF PortInv

\* The control register belongs to the file that holds the interrupt.
LEMMA ControlKeepsPort ==
  ASSUME PortInv, NEW f \in Files, CtrlOff(f) \/ CtrlOn(f) \/ CloseCtrl(f)
  PROVE  PortInv'
<1>1. UNCHANGED <<clk, irq, ipc, tpc, tfile>>
  BY DEF CtrlOff, CtrlOn, CloseCtrl, threadVars, isrVars
<1>2. Shape'
  BY <1>1, SMT DEF PortInv, Shape, CtrlOff, CtrlOn, CloseCtrl, File, OpenPCs
<1>3. CallsHaveFile'
  BY <1>1, CallsGoOn DEF CtrlOff, CtrlOn, CloseCtrl
<1>4. Powered' = Powered /\ Connected' = Connected
  BY SMT DEF PortInv, Shape, Powered, Connected, CtrlOff, CtrlOn, CloseCtrl, File
<1>5. ClockBalanced'
  BY <1>1, <1>4, ClockFollows DEF PortInv
<1>6. f \in Connected'
  BY SMT DEF PortInv, Shape, Connected, CtrlOff, CtrlOn, CloseCtrl, File
<1>7. \A g \in Files : opc'[g] = "open" => g = f
  BY <1>4, <1>6, SMT DEF PortInv, ReceiverStaysOn, Connected
<1>8. opc'[f] = "open" => ctrl'
  BY SMT DEF PortInv, Shape, CtrlOff, CtrlOn, CloseCtrl, File
<1>9. ReceiverStaysOn'
  BY <1>1, <1>4, <1>7, <1>8 DEF PortInv, ReceiverStaysOn
<1> QED BY <1>1, <1>2, <1>3, <1>5, <1>9 DEF PortInv

\* Calls on open files change nothing about the port.
LEMMA ThreadKeepsPort ==
  ASSUME PortInv, NEW t \in Threads, ThreadStep(t)
  PROVE  PortInv'
<1> USE DEF ThreadStep, StartCall, ReadStep, Interrupted, WriteStep, Lock, TestEmpty,
            UnlockToWait, WaitEvent, PrepareToWait, Recheck, WakeUp, CopyToUser,
            Advance, UnlockAndReturn, PollTransmitter, PutByte, Thread, Return
<1>1. UNCHANGED <<opc, clk, irq, ctrl, ipc>>
  BY DEF fileVars, isrVars
<1>a. Advance(t) => /\ tpc[t] = "advance" /\ tpc' = [tpc EXCEPT ![t] = "mutex_unlock"]
                    /\ tfile' = tfile
  OBVIOUS
<1> HIDE DEF Advance
<1>2. /\ tpc' = [tpc EXCEPT ![t] = tpc'[t]] /\ tpc'[t] \in ThreadPCs
      /\ \/ tfile' = tfile /\ tpc[t] # "idle"
         \/ tfile' = [tfile EXCEPT ![t] = NoFile] /\ tpc'[t] = "idle"
         \/ \E f \in Files : tfile' = [tfile EXCEPT ![t] = f] /\ opc[f] = "open"
  BY <1>a, SMT DEF PortInv, Shape, ThreadPCs
<1> HIDE DEF ThreadStep
<1>3. Shape' /\ CallsHaveFile'
  BY <1>1, <1>2, SMT DEF PortInv, Shape, CallsHaveFile
<1>4. Powered' = Powered /\ Connected' = Connected
  BY <1>1 DEF Powered, Connected
<1>5. ReceiverStaysOn' /\ ClockBalanced'
  BY <1>1, <1>4 DEF PortInv, ReceiverStaysOn, ClockBalanced
<1> QED BY <1>1, <1>3, <1>5 DEF PortInv

\* The handler and the hardware do not either.
LEMMA HandlerKeepsPort ==
  ASSUME PortInv, IsrStep \/ ByteArrives \/ TransmitterEmpties
  PROVE  PortInv'
<1>1. UNCHANGED <<opc, clk, irq, ctrl, tpc, tfile>>
  BY DEF IsrStep, EnterIsr, IsrStatus, IsrData, IsrPut, IsrWake, ByteArrives,
         TransmitterEmpties, fileVars, threadVars
<1>2. ipc' \in {"off", "status", "data", "put", "wake"} /\ (ipc' # "off" => irq)
  BY SMT
  DEF IsrStep, EnterIsr, IsrStatus, IsrData, IsrPut, IsrWake, ByteArrives,
      TransmitterEmpties, isrVars, PortInv, Shape
<1>3. Powered' = Powered /\ Connected' = Connected
  BY <1>1 DEF Powered, Connected
<1>4. ReceiverStaysOn' /\ ClockBalanced'
  BY <1>1, <1>3 DEF PortInv, ReceiverStaysOn, ClockBalanced
<1> QED BY <1>1, <1>2, <1>4 DEF PortInv, Shape, CallsHaveFile

LEMMA PortInvHolds == Spec => []PortInv
<1>1. PortInv /\ [Next]_vars => PortInv'
  <2> SUFFICES ASSUME PortInv, [Next]_vars PROVE PortInv'
    OBVIOUS
  <2>1. ASSUME NEW f \in Files, InitWaitQueue(f) \/ OpenStep(f) \/ CloseCtrl(f)
        PROVE  PortInv'
    BY <2>1, PrepareKeepsPort, EnableKeepsPort, DisableKeepsPort, InterruptKeepsPort,
       ControlKeepsPort DEF OpenStep, PrepareStep
  <2>2. ASSUME NEW t \in Threads, ThreadStep(t)
        PROVE  PortInv'
    BY <2>2, ThreadKeepsPort
  <2>3. CASE UNCHANGED vars
    BY <2>3
    DEF vars, fileVars, threadVars, isrVars, PortInv, Shape, CallsHaveFile,
        ReceiverStaysOn, ClockBalanced, Powered, Connected
  <2> QED BY <2>1, <2>2, <2>3, HandlerKeepsPort DEF Next, ThreadStep
<1> QED BY <1>1, PortInvInit, PTL DEF Spec
-----------------------------------------------------------------------------
(* Theorems for any number of files                                        *)

\* One file at most holds the interrupt, and while it is open its handler stays
\* registered and its receiver on, whatever opens fail (uart_open).
THEOREM ReceiverIsNotDisturbed == Spec => []ReceiverStaysOn
<1>1. PortInv => ReceiverStaysOn
  BY DEF PortInv
<1> QED BY <1>1, PortInvHolds, PTL

\* Every clk_prepare_enable is matched on every path of open and close.
THEOREM ClockStaysBalanced == Spec => []ClockBalanced
<1>1. PortInv => ClockBalanced
  BY DEF PortInv
<1> QED BY <1>1, PortInvHolds, PTL

\* open, close, write and the handler touch registers while the clock runs.
THEOREM RegistersAreClocked == Spec => []ClockedAccess
<1>1. ASSUME PortInv
      PROVE  ClockedAccess
  <2>1. Connected \subseteq Powered
    BY DEF Connected, Powered
  <2>2. Powered # {} => clk > 0
    BY <1>1, PoweredFinite, FS_EmptySet, FS_CardinalityType, SMT DEF PortInv, ClockBalanced
  <2>3. (\E f \in Files : opc[f] \in {"ctrl_off", "ctrl_on", "open"}) => Powered # {}
    BY DEF Powered
  <2>4. (\E t \in Threads : tpc[t] \in {"poll", "put"}) => Powered # {}
    BY <1>1 DEF PortInv, CallsHaveFile, Powered
  <2>5. ipc \in {"status", "data"} => Powered # {}
    BY <1>1, <2>1 DEF PortInv, ReceiverStaysOn
  <2> QED BY <2>2, <2>3, <2>4, <2>5 DEF ClockedAccess
<1> QED BY <1>1, PortInvHolds, PTL
=============================================================================
