----------------------- MODULE NetWatchdogModuleProofs -----------------------
(***************************************************************************)
(* Theorems about NetWatchdogModule: what holds of the driver's operations *)
(* (the invariant of NetWatchdogProofs) survives loading and unloading,    *)
(* and nothing outlives the module or the resource it relies on.           *)
(***************************************************************************)
EXTENDS NetWatchdogModule, NetWatchdogProofs

\* The first n resources in the order net_watchdog_init takes them.
Taken(n) == {r \in {"workqueue", "chrdev_region", "cdev", "class", "device"} :
               \E k \in 1..n : Resources[k] = r}

\* What is held and where init, its labels or exit stand go together; exit gives
\* back in the opposite order: before its step n it holds the first 6 - n.
HeldByPhase ==
  /\ phase = "unloaded" => step = 0 /\ held = {}
  /\ phase = "init" => step \in 1..5 /\ held = Taken(step - 1)
  /\ phase = "unwind" => step \in 0..4 /\ held = Taken(step)
  /\ phase \in {"live", "flush"} => step = 5 /\ held = Taken(5)
  /\ phase = "exit" => step \in 1..5 /\ held = Taken(6 - step)

\* Files are open in a live module only, calls are made through open files,
\* and work is queued or running from the first call to the flush.
LifeOK ==
  /\ phase \in Phases /\ files \subseteq Writers
  /\ files # {} => phase = "live"
  /\ \A w \in Writers : wpc[w] # "idle" => w \in files
  /\ phase \notin {"live", "flush"} => ~pending /\ kpc = "idle"

ModuleInv == IndInv /\ HeldByPhase /\ LifeOK
-----------------------------------------------------------------------------
(* The resources                                                           *)

LEMMA ResourceNames ==
  /\ Len(Resources) = 5 /\ Len(ExitOrder) = 5
  /\ Resources[1] = "workqueue" /\ Resources[2] = "chrdev_region"
  /\ Resources[3] = "cdev" /\ Resources[4] = "class" /\ Resources[5] = "device"
  /\ ExitOrder[1] = "device" /\ ExitOrder[2] = "class" /\ ExitOrder[3] = "cdev"
  /\ ExitOrder[4] = "chrdev_region" /\ ExitOrder[5] = "workqueue"
  BY SMT DEF Resources, ExitOrder

LEMMA TakenSets ==
  /\ Taken(0) = {}
  /\ Taken(1) = {"workqueue"}
  /\ Taken(2) = {"workqueue", "chrdev_region"}
  /\ Taken(3) = {"workqueue", "chrdev_region", "cdev"}
  /\ Taken(4) = {"workqueue", "chrdev_region", "cdev", "class"}
  /\ Taken(5) = {"workqueue", "chrdev_region", "cdev", "class", "device"}
  BY ResourceNames, SMT DEF Taken

\* Exit is init backwards.
LEMMA ExitReverses == \A n \in 1..5 : ExitOrder[n] = Resources[6 - n]
  BY ResourceNames, SMT

\* Taking the next resource, and giving the last one back.
LEMMA TakenGrows ==
  ASSUME NEW n \in 1..5
  PROVE  /\ Taken(n) = Taken(n - 1) \cup {Resources[n]}
         /\ Taken(n - 1) = Taken(n) \ {Resources[n]}
  BY ResourceNames, TakenSets, SMT

\* The workqueue is in every beginning of the list but the empty one, and a
\* beginning has each resource's base before the resource.
LEMMA WorkqueueFirst ==
  ASSUME NEW n \in 0..5
  PROVE  /\ "workqueue" \notin Taken(n) => n = 0
         /\ "device" \in Taken(n) => "class" \in Taken(n)
         /\ "cdev" \in Taken(n) => "chrdev_region" \in Taken(n)
         /\ Taken(n) \subseteq {Resources[k] : k \in 1..Len(Resources)}
  BY ResourceNames, TakenSets, SMT

LEMMA TakenAll == Taken(5) = {Resources[k] : k \in 1..Len(Resources)}
  BY ResourceNames, TakenSets, SMT
-----------------------------------------------------------------------------
(* The steps                                                               *)

LEMMA ModuleInvInit ==
  ASSUME ModuleInit
  PROVE  ModuleInv
<1>1. IndInv
  BY InitIndInv DEF ModuleInit
<1>2. HeldByPhase
  BY TakenSets, SMT DEF ModuleInit, HeldByPhase
<1>3. \A w \in Writers : wpc[w] = "idle"
  BY DEF ModuleInit, Init
<1>4. LifeOK
  BY <1>3 DEF ModuleInit, Init, LifeOK, Phases
<1> QED BY <1>1, <1>2, <1>4 DEF ModuleInv

\* Every step of NetWatchdog keeps the driver's invariant.
LEMMA DriverStep == IndInv /\ [Next]_vars => IndInv'
  BY TypeOKStep, SingleFlightStep, NoUseAfterFreeStep, WorkerHoldsStep,
     RequestNamesDeviceStep, CooldownCheckedStep DEF IndInv

\* insmod resets restart_ctx, which nobody is using.
LEMMA StartLoadKeepsInv ==
  ASSUME ModuleInv, StartLoad
  PROVE  ModuleInv'
<1> USE DEF StartLoad, writerVars, workerVars, netVars
<1>1. /\ IndInv /\ ~pending /\ kpc = "idle"
      /\ \A w \in Writers : wpc[w] = "idle"
      /\ files = {} /\ held = {}
  BY SMT DEF ModuleInv, LifeOK, HeldByPhase
<1>2. TypeOK'
  <2>1. TypeOK
    BY <1>1 DEF IndInv
  <2>2. busy' \in {0, 1} /\ ifindex' \in Devices \cup {0} /\ lastRequest' \in Nat
        /\ pending' \in BOOLEAN
    OBVIOUS
  <2> QED BY <2>1, <2>2 DEF TypeOK
<1>3. SingleFlight' /\ NoUseAfterFree' /\ WorkerHolds'
  BY <1>1, SMT DEF IndInv, SingleFlight, Owners, NoUseAfterFree, WorkerHolds
<1>4. RequestNamesDevice' /\ CooldownChecked'
  BY <1>1, SMT DEF IndInv, RequestNamesDevice, CooldownChecked
<1>5. HeldByPhase'
  BY <1>1, TakenSets, SMT DEF HeldByPhase
<1>6. LifeOK'
  BY <1>1, SMT DEF LifeOK, Phases
<1> QED BY <1>2, <1>3, <1>4, <1>5, <1>6 DEF ModuleInv, IndInv

\* A step of init or exit leaves the driver's own variables alone.
LEMMA LifeStepKeepsInv ==
  ASSUME ModuleInv, LifeStep
  PROVE  ModuleInv'
<1>1. UNCHANGED <<vars, files>>
  BY DEF LifeStep, AcquireResource, UnwindStep, FlushWorkqueue, ExitStep
<1>2. IndInv'
  BY <1>1, DriverStep DEF ModuleInv
<1>3. phase \notin {"live"} /\ phase \in Phases
  BY DEF LifeStep, AcquireResource, UnwindStep, FlushWorkqueue, ExitStep,
         ModuleInv, LifeOK
<1>4. CASE AcquireResource
  <2>1. step \in 1..5 /\ held = Taken(step - 1)
    BY <1>4 DEF AcquireResource, ModuleInv, HeldByPhase
  <2>2. Taken(step) = Taken(step - 1) \cup {Resources[step]}
    BY <2>1, TakenGrows
  <2>3. HeldByPhase'
    BY <1>4, <2>1, <2>2, ResourceNames, SMT DEF AcquireResource, HeldByPhase
  <2>4. LifeOK'
    BY <1>1, <1>4, SMT DEF AcquireResource, ModuleInv, LifeOK, Phases, vars, writerVars, workerVars
  <2> QED BY <1>2, <2>3, <2>4 DEF ModuleInv
<1>5. CASE UnwindStep
  <2>1. step \in 0..4 /\ held = Taken(step)
    BY <1>5 DEF UnwindStep, ModuleInv, HeldByPhase
  <2>2. step # 0 => Taken(step - 1) = Taken(step) \ {Resources[step]}
    BY <2>1, TakenGrows, SMT
  <2>3. HeldByPhase'
    BY <1>5, <2>1, <2>2, TakenSets, SMT DEF UnwindStep, HeldByPhase
  <2>4. LifeOK'
    BY <1>1, <1>5, SMT DEF UnwindStep, ModuleInv, LifeOK, Phases, vars, writerVars, workerVars
  <2> QED BY <1>2, <2>3, <2>4 DEF ModuleInv
<1>6. CASE FlushWorkqueue
  <2>1. HeldByPhase'
    BY <1>6, SMT DEF FlushWorkqueue, ModuleInv, HeldByPhase
  <2>2. LifeOK'
    BY <1>1, <1>6, SMT DEF FlushWorkqueue, ModuleInv, LifeOK, Phases, vars, writerVars, workerVars
  <2> QED BY <1>2, <2>1, <2>2 DEF ModuleInv
<1>7. CASE ExitStep
  <2>1. step \in 1..5 /\ held = Taken(6 - step)
    BY <1>7 DEF ExitStep, ModuleInv, HeldByPhase
  <2>2. 6 - step \in 1..5 /\ (6 - step) - 1 = 6 - (step + 1) /\ 6 - (step + 1) \in 0..4
    BY <2>1, SMT
  <2>3. Taken(6 - (step + 1)) = Taken(6 - step) \ {ExitOrder[step]}
    BY <2>1, <2>2, TakenGrows, ExitReverses
  <2>4. HeldByPhase'
    BY <1>7, <2>1, <2>2, <2>3, ResourceNames, TakenSets, SMT DEF ExitStep, HeldByPhase
  <2>5. LifeOK'
    BY <1>1, <1>7, SMT DEF ExitStep, ModuleInv, LifeOK, Phases, vars, writerVars, workerVars
  <2> QED BY <1>2, <2>4, <2>5 DEF ModuleInv
<1> QED BY <1>4, <1>5, <1>6, <1>7 DEF LifeStep

\* open, close and rmmod: the module is live until the last file is closed.
LEMMA UsersKeepInv ==
  ASSUME ModuleInv,
         StartUnload \/ \E w \in Writers : OpenFile(w) \/ ReleaseFile(w)
  PROVE  ModuleInv'
<1>1. UNCHANGED <<vars, step, held>>
  BY DEF StartUnload, OpenFile, ReleaseFile
<1>2. IndInv'
  BY <1>1, DriverStep DEF ModuleInv
<1>3. phase' = phase \/ (phase = "live" /\ phase' = "flush")
  BY DEF StartUnload, OpenFile, ReleaseFile
<1>4. HeldByPhase'
  BY <1>1, <1>3, SMT DEF ModuleInv, HeldByPhase
<1>5. CASE StartUnload
  BY <1>1, <1>2, <1>4, <1>5, SMT
  DEF StartUnload, ModuleInv, LifeOK, Phases, vars, writerVars, workerVars
<1>6. ASSUME NEW w \in Writers, OpenFile(w) \/ ReleaseFile(w)
      PROVE  LifeOK'
  BY <1>1, <1>6, SMT
  DEF OpenFile, ReleaseFile, ModuleInv, LifeOK, vars, writerVars, workerVars
<1> QED BY <1>2, <1>4, <1>5, <1>6 DEF ModuleInv

\* What is done through the device, by whoever has it open.
LEMMA OperateKeepsInv ==
  ASSUME ModuleInv, Operate
  PROVE  ModuleInv'
<1>1. Next /\ UNCHANGED moduleVars
  BY DEF Operate, Next, ModuleInv, LifeOK
<1>2. IndInv'
  BY <1>1, DriverStep DEF ModuleInv
<1>3. HeldByPhase'
  BY <1>1 DEF moduleVars, ModuleInv, HeldByPhase
<1>4. \A w \in Writers : wpc'[w] # "idle" => w \in files
  <2>1. ASSUME NEW v \in files,
               (\E req \in Requests : EnterWrite(v, req)) \/ WriteStep(v)
        PROVE  \A w \in Writers : w # v => wpc'[w] = wpc[w]
    BY <2>1, SMT
    DEF ModuleInv, IndInv, TypeOK, EnterWrite, WriteStep, ReadJiffies, CheckCooldown,
        ClaimBusy, FillIndex, StampRequest, QueueWork, Goto, Return
  <2>2. ASSUME WorkerStep \/ Tick \/ (\E c \in Cooldowns : SetCooldown(c))
               \/ \E i \in Devices : NetworkStep(i)
        PROVE  wpc' = wpc
    BY <2>2
    DEF WorkerStep, StartWork, ReadIndex, LookupDevice, LockRtnl, CloseDevice,
        OpenDevice, UnlockRtnl, PutDevice, ClearBusy, Tick, SetCooldown, NetworkStep,
        writerVars
  <2> QED BY <2>1, <2>2 DEF Operate, ModuleInv, LifeOK
<1>5. phase \notin {"live", "flush"} => ~pending' /\ kpc' = "idle"
  <2> SUFFICES ASSUME phase \notin {"live", "flush"}
               PROVE  ~pending' /\ kpc' = "idle"
    OBVIOUS
  <2>1. files = {} /\ ~pending /\ kpc = "idle"
    BY DEF ModuleInv, LifeOK
  <2>2. ~WorkerStep
    BY <2>1, SMT
    DEF WorkerStep, StartWork, ReadIndex, LookupDevice, LockRtnl, CloseDevice,
        OpenDevice, UnlockRtnl, PutDevice, ClearBusy
  <2> QED
    BY <2>1, <2>2 DEF Operate, Tick, SetCooldown, NetworkStep, workerVars
<1>6. LifeOK'
  BY <1>1, <1>4, <1>5 DEF moduleVars, ModuleInv, LifeOK
<1> QED BY <1>2, <1>3, <1>6 DEF ModuleInv

LEMMA ModuleInvHolds == ModuleSpec => []ModuleInv
<1>1. ModuleInv /\ [ModuleNext]_allVars => ModuleInv'
  <2> SUFFICES ASSUME ModuleInv, [ModuleNext]_allVars PROVE ModuleInv'
    OBVIOUS
  <2>1. CASE UNCHANGED allVars
    <3>1. IndInv'
      BY <2>1, DriverStep DEF ModuleInv, allVars
    <3>2. HeldByPhase'
      BY <2>1 DEF ModuleInv, HeldByPhase, allVars, moduleVars
    <3>3. LifeOK'
      BY <2>1 DEF ModuleInv, LifeOK, allVars, moduleVars, vars, writerVars, workerVars
    <3> QED BY <3>1, <3>2, <3>3 DEF ModuleInv
  <2> QED BY <2>1, StartLoadKeepsInv, LifeStepKeepsInv, UsersKeepInv, OperateKeepsInv
          DEF ModuleNext
<1> QED BY <1>1, ModuleInvInit, PTL DEF ModuleSpec
-----------------------------------------------------------------------------
(* The theorems                                                            *)

\* Whatever the module holds is the beginning of the list.
LEMMA HeldIsTaken ==
  ASSUME ModuleInv
  PROVE  \E n \in 0..5 : held = Taken(n)
<1>1. phase \in Phases
  BY DEF ModuleInv, LifeOK
<1>2. CASE phase = "exit"
  BY <1>2, SMT DEF ModuleInv, HeldByPhase
<1>3. CASE phase = "init"
  BY <1>3, SMT DEF ModuleInv, HeldByPhase
<1>4. CASE phase \in {"unloaded", "unwind", "live", "flush"}
  BY <1>4, TakenSets, SMT DEF ModuleInv, HeldByPhase
<1> QED BY <1>1, <1>2, <1>3, <1>4 DEF Phases

\* The variables of net_watchdog_init and net_watchdog_exit keep to their types.
THEOREM ModuleTyped == ModuleSpec => []ModuleTypeOK
<1>1. ModuleInv => ModuleTypeOK
  <2> SUFFICES ASSUME ModuleInv PROVE ModuleTypeOK
    OBVIOUS
  <2>1. held \subseteq {Resources[n] : n \in 1..Len(Resources)}
    BY HeldIsTaken, WorkqueueFirst
  <2>2. step \in 0..5
    <3> HIDE DEF Taken
    <3>1. phase \in Phases
      BY DEF ModuleInv, LifeOK
    <3> QED BY <3>1, SMT DEF ModuleInv, HeldByPhase, Phases
  <2> QED BY <2>1, <2>2, ResourceNames DEF ModuleInv, LifeOK, ModuleTypeOK
<1> QED BY <1>1, ModuleInvHolds, PTL

\* No call, no work and no worker is left when what they rely on is gone, on
\* every path through net_watchdog_init and net_watchdog_exit.
THEOREM ModuleOutlivesItsWork == ModuleSpec => []NothingOutlivesModule
<1>1. ModuleInv => NothingOutlivesModule
  <2> SUFFICES ASSUME ModuleInv PROVE NothingOutlivesModule
    OBVIOUS
  <2>1. (\E w \in Writers : wpc[w] # "idle") => phase = "live" /\ held = Taken(5)
    BY SMT DEF ModuleInv, HeldByPhase, LifeOK
  <2>2. "workqueue" \notin held => phase \notin {"live", "flush"}
    BY TakenSets DEF ModuleInv, HeldByPhase
  <2>3. phase \notin {"live", "flush"} =>
          ~pending /\ kpc = "idle" /\ \A w \in Writers : wpc[w] = "idle"
    BY DEF ModuleInv, LifeOK
  <2>4. busy \in {0, 1} /\ ((busy = 1) <=> (Owners # {} \/ pending \/ kpc # "idle"))
    BY DEF ModuleInv, IndInv, TypeOK, SingleFlight
  <2>5. (\A w \in Writers : wpc[w] = "idle") => Owners = {}
    BY DEF Owners
  <2> QED BY <2>1, <2>2, <2>3, <2>4, <2>5, TakenAll DEF NothingOutlivesModule
<1> QED BY <1>1, ModuleInvHolds, PTL

\* Resources are given back in an order that leaves none without its base.
THEOREM ResourcesStayNested == ModuleSpec => []ResourcesNested
<1>1. ModuleInv => ResourcesNested
  <2> SUFFICES ASSUME ModuleInv PROVE ResourcesNested
    OBVIOUS
  <2>1. PICK n \in 0..5 : held = Taken(n)
    BY HeldIsTaken
  <2> QED BY <2>1, WorkqueueFirst DEF ResourcesNested, ModuleInv, HeldByPhase
<1> QED BY <1>1, ModuleInvHolds, PTL

\* The driver's guarantees hold across every reload of the module: a request
\* in flight is never lost track of, and no freed device is used.
THEOREM GuaranteesSurviveReload == ModuleSpec => [](SingleFlight /\ NoUseAfterFree)
<1>1. ModuleInv => SingleFlight /\ NoUseAfterFree
  BY DEF ModuleInv, IndInv
<1> QED BY <1>1, ModuleInvHolds, PTL

\* insmod resets a restart_ctx that serves nobody: the service does not notice.
LEMMA StartLoadUnnoticed ==
  ASSUME ModuleInv, StartLoad
  PROVE  UNCHANGED Service!vars
<1>1. /\ \A w \in Writers : wpc[w] = "idle"
      /\ ~pending /\ kpc = "idle" /\ SingleFlight /\ TypeOK
  BY SMT DEF StartLoad, ModuleInv, LifeOK, IndInv
<1>2. Owners = {}
  BY <1>1 DEF Owners
<1>3. busy = 0
  BY <1>1, <1>2 DEF SingleFlight, TypeOK
<1>4. busy' = 0 /\ up' = up /\ device' = device
  BY DEF StartLoad, netVars
<1>5. Job' = Job /\ Phase' = Phase
  BY <1>3, <1>4 DEF Job, Phase
<1>6. Running' = Running
  BY <1>4 DEF Running
<1> QED BY <1>5, <1>6 DEF Service!vars

\* The service goes on through every reload of the module: what it promises of
\* a restart holds across insmod, its failures, rmmod, open and close.
THEOREM ModuleImplementsService == ModuleSpec => ImplementsService
<1>1. ASSUME ModuleInit
      PROVE  Service!Init
  BY <1>1, ConstantsAssumption
  DEF ModuleInit, Init, Service!Init, Service!NoJob, Job, Phase, Running, Devices
<1>2. ASSUME ModuleInv, ModuleInv', [ModuleNext]_allVars
      PROVE  [Service!Next]_(Service!vars)
  <2>1. CASE StartLoad
    BY <1>2, <2>1, StartLoadUnnoticed
  <2>2. CASE ~StartLoad
    <3>1. [Next]_vars
      BY <1>2, <2>2
      DEF ModuleNext, allVars, LifeStep, AcquireResource, UnwindStep, FlushWorkqueue,
          ExitStep, StartUnload, OpenFile, ReleaseFile, Operate, Next, ModuleInv, LifeOK
    <3> QED BY <1>2, <3>1, ServiceStep DEF ModuleInv
  <2> QED BY <2>1, <2>2
<1> QED
  BY <1>1, <1>2, ModuleInvHolds, PTL DEF ModuleSpec, ImplementsService, Service!Spec
=============================================================================
