---------------------------- MODULE ExampleDrivers ----------------------------
(* The character device drivers as a whole: the life of CharDevModule, the    *)
(* files of ExclusiveOpen, the timer of TimerLed and the port of              *)
(* LpuartPolling.                                                             *)
EXTENDS ExclusiveOpen, TimerLed, LpuartPolling

vars == <<charDevVars, exclusiveVars, timerVars, pollingVars>>

Init == CharDevInit /\ ExclusiveInit /\ TimerInitial /\ PollingInit

(* The parts of the module's life that touch the lock or the timer.           *)
(* The clock and the port do not notice.                                      *)
Insmod == Load /\ ResetLock /\ ResetTimer /\ UNCHANGED pollingVars

InitCalls(name) ==
  /\ InitStep(name)
  /\ IF name = "lock" THEN InitLock ELSE UNCHANGED exclusiveVars
  /\ SetupTimer(name)
  /\ UNCHANGED pollingVars

InitFails ==
  /\ IgnoreFailure \/ ReturnError \/ ReturnPositive \/ JumpToLabel \/ Unwind
  /\ UNCHANGED <<exclusiveVars, timerVars, pollingVars>>

Rmmod == (Unload \/ Unbind) /\ UNCHANGED <<exclusiveVars, timerVars, pollingVars>>

ExitCalls(name) ==
  /\ ExitStep(name)
  /\ IF name = "timer" THEN DeleteAtExit ELSE UNCHANGED timerVars
  /\ UNCHANGED <<exclusiveVars, pollingVars>>

Names == {"region", "cdev", "class", "device", "tree", "gpio", "direction",
          "descriptor", "lock", "timer", "period", "memory", "registers", "clk",
          "irq", "drvdata"}

LifeStep ==
  \/ InitFails
  \/ \E name \in Names : InitCalls(name) \/ ExitCalls(name)

(* What a program does: each of its calls, and the signals it gets.           *)
Begin(p) == StartOpen(p) /\ UNCHANGED <<exclusiveVars, timerVars, pollingVars>>

OpenStep(p) == \/ Led_Open(p) /\ UNCHANGED <<timerVars, pollingVars>>
               \/ uart_open(p) /\ UNCHANGED <<exclusiveVars, timerVars>>

WriteStep(p) ==
  /\ SetLed(p) \/ \E status \in Status : CopyFromUser(p, status)
  /\ UNCHANGED <<timerVars, pollingVars>>

UartStep(p) ==
  /\ StartCall(p) \/ uart_call(p)
  /\ UNCHANGED <<exclusiveVars, timerVars>>

Ioctl(p) ==
  /\ OpenCmd(p) \/ StartCloseCmd(p) \/ IoctlStep(p)
       \/ \E new_period \in Periods : StorePeriod(p, new_period)
  /\ UNCHANGED <<exclusiveVars, pollingVars>>

Close(p) == Led_Release(p) /\ UNCHANGED <<timerVars, pollingVars>>

Signal(p) == Interrupted(p) /\ UNCHANGED <<timerVars, pollingVars>>

CallbackStep == Timer_Callback /\ UNCHANGED <<exclusiveVars, pollingVars>>

PortStep == Port /\ UNCHANGED <<exclusiveVars, timerVars>>

Next ==
  \/ Insmod \/ LifeStep \/ Rmmod \/ CallbackStep \/ PortStep
  \/ \E p \in Procs : \/ Begin(p) \/ OpenStep(p) \/ WriteStep(p) \/ UartStep(p)
                      \/ Ioctl(p) \/ Close(p) \/ Signal(p)

(* init and exit go on; an open that can go on does, for semaphore and mutex  *)
(* are handed on in turn; the program of 9_thread closes its file after some  *)
(* seconds.  Nobody has to load, open, command or signal anything.            *)
Fairness ==
  /\ WF_vars(LifeStep) /\ WF_vars(CallbackStep)
  /\ \A p \in Procs :
       /\ SF_vars(OpenStep(p))
       /\ WF_vars(SetLed(p) /\ UNCHANGED <<timerVars, pollingVars>>)
       /\ WF_vars(IoctlStep(p) /\ UNCHANGED <<exclusiveVars, pollingVars>>)
       /\ WF_vars(driver = "thread" /\ Close(p))

Spec == Init /\ [][Next]_vars /\ Fairness

Stages == {"out", "init", "live", "unwind", "exit", "spoiled"}
Places == {"idle", "opening", "open", "copied", "wrote", "refused", "lost",
           "deleting", "stored", "rearming", "clocked", "off", "sending", "put",
           "receiving", "get"}

TypeOK ==
  /\ driver \in Drivers /\ stage \in Stages /\ at \in Nat
  /\ stage = "init" => at \in DOMAIN InitSteps
  /\ stage = "exit" => at \in DOMAIN ExitSteps
  /\ done \subseteq Names /\ kernel \subseteq Objects
  /\ unbound \in BOOLEAN /\ early \in BOOLEAN
  /\ pc \in [Procs -> Places] /\ led \in {LED_ON, LED_OFF}
  /\ default_thread_type \in Kinds /\ locked \in BOOLEAN
  /\ write_buf \in Status /\ asked \in [Procs -> Status]
  /\ timer_period \in {0, MinPeriod, DefaultPeriod} \union Periods
  /\ pending \in BOOLEAN /\ closed \in BOOLEAN
  /\ callback \in {"none", "entered", "toggled", "rearmed"}
  /\ clock \in 0..MaxEnables /\ disturbed \subseteq Procs
  /\ enabled \in BOOLEAN /\ tdre \in BOOLEAN /\ rdrf \in BOOLEAN
==============================================================================
