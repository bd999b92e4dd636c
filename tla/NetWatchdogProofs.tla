-------------------------- MODULE NetWatchdogProofs --------------------------
(***************************************************************************)
(* Theorems about NetWatchdog, for any number of writers, any interfaces,  *)
(* any cooldowns and any clock.  All of them rest on one inductive         *)
(* invariant: where the single request in flight is, what its ifindex is   *)
(* by then, and what the writers' cooldown checks have established.        *)
(***************************************************************************)
EXTENDS NetWatchdog, TLAPS

\* What the worker holds is told by where it is.
WorkerHolds ==
  /\ refHeld <=> kpc \in {"lock", "close", "open", "unlock", "put"}
  /\ rtnl <=> kpc \in {"close", "open", "unlock"}

\* The request in flight names a device wherever it is kept.
RequestNamesDevice ==
  /\ \A w \in Writers : wpc[w] # "idle" => wIndex[w] \in Devices
  /\ \A w \in Writers : wpc[w] \in {"stamp", "queue"} => ifindex = wIndex[w]
  /\ pending \/ kpc = "read" => ifindex \in Devices
  /\ kpc \notin {"idle", "read"} => kIndex \in Devices

\* A writer past its cooldown check has seen a last request the cooldown of
\* which was over when it sampled the clock.
CooldownChecked ==
  \A w \in Writers :
    /\ wpc[w] \in {"last", "claim", "fill", "stamp"} => sampled[w] <= jiffies
    /\ wpc[w] \in {"claim", "fill", "stamp"} =>
         \E c \in Cooldowns : seen[w] + c <= sampled[w]

IndInv == /\ TypeOK /\ SingleFlight /\ NoUseAfterFree
          /\ WorkerHolds /\ RequestNamesDevice /\ CooldownChecked
-----------------------------------------------------------------------------
(* The inductive step: one lemma per conjunct, one step per action that can  *)
(* disturb it and one for the actions that leave its variables alone.        *)

\* Every variable keeps to its range.
LEMMA TypeOKStep ==
  ASSUME IndInv, [Next]_vars
  PROVE  TypeOK'
<1> USE ConstantsAssumption DEF IndInv, TypeOK, Devices, Requests,
                               WriterPCs, WorkerPCs, Errors,
                               RequestNamesDevice, WorkerHolds
<1>1. ASSUME NEW w \in Writers, NEW req \in Requests, EnterWrite(w, req)
      PROVE  TypeOK'
  BY <1>1 DEF EnterWrite, Return, Goto, Validate, ParseRestartCommand,
     context, writerVars, workerVars, netVars
<1>2. ASSUME NEW w \in Writers, ReadJiffies(w)
      PROVE  TypeOK'
  BY <1>2 DEF ReadJiffies, Goto, context, writerVars, workerVars, netVars
<1>3. ASSUME NEW w \in Writers, CheckCooldown(w)
      PROVE  TypeOK'
  BY <1>3 DEF CheckCooldown, Return, Goto, context, writerVars, workerVars,
     netVars
<1>4. ASSUME NEW w \in Writers, ClaimBusy(w)
      PROVE  TypeOK'
  BY <1>4 DEF ClaimBusy, Return, Goto, context, writerVars, workerVars,
     netVars
<1>5. ASSUME NEW w \in Writers, FillIndex(w)
      PROVE  TypeOK'
  BY <1>5 DEF FillIndex, Goto, context, writerVars, workerVars, netVars
<1>6. ASSUME NEW w \in Writers, StampRequest(w)
      PROVE  TypeOK'
  BY <1>6 DEF StampRequest, Goto, context, writerVars, workerVars, netVars
<1>7. ASSUME NEW w \in Writers, QueueWork(w)
      PROVE  TypeOK'
  BY <1>7 DEF QueueWork, Return, Goto, context, writerVars, workerVars,
     netVars
<1>8. ASSUME StartWork
      PROVE  TypeOK'
  BY <1>8 DEF StartWork, context, writerVars, workerVars, netVars
<1>9. ASSUME ReadIndex
      PROVE  TypeOK'
  BY <1>9 DEF ReadIndex, context, writerVars, workerVars, netVars
<1>10. ASSUME LookupDevice
      PROVE  TypeOK'
  BY <1>10 DEF LookupDevice, context, writerVars, workerVars, netVars
<1>11. ASSUME LockRtnl
      PROVE  TypeOK'
  BY <1>11 DEF LockRtnl, context, writerVars, workerVars, netVars
<1>12. ASSUME CloseDevice
      PROVE  TypeOK'
  BY <1>12 DEF CloseDevice, context, writerVars, workerVars, netVars
<1>13. ASSUME OpenDevice
      PROVE  TypeOK'
  BY <1>13 DEF OpenDevice, context, writerVars, workerVars, netVars
<1>14. ASSUME UnlockRtnl
      PROVE  TypeOK'
  BY <1>14 DEF UnlockRtnl, context, writerVars, workerVars, netVars
<1>15. ASSUME PutDevice
      PROVE  TypeOK'
  BY <1>15 DEF PutDevice, context, writerVars, workerVars, netVars
<1>16. ASSUME ClearBusy
      PROVE  TypeOK'
  BY <1>16 DEF ClearBusy, context, writerVars, workerVars, netVars
<1>17. ASSUME NEW i \in Devices, NetworkStep(i)
      PROVE  TypeOK'
  <2> USE DEF NetworkStep, context, writerVars, workerVars
  <2>1. CASE Unregister(i)
    BY <1>17, <2>1 DEF Unregister
  <2>2. CASE IfUpDown(i)
    BY <1>17, <2>2 DEF IfUpDown
  <2>3. CASE FreeDevice(i)
    BY <1>17, <2>3 DEF FreeDevice
  <2> QED BY <1>17, <2>1, <2>2, <2>3
<1>18. ASSUME NEW c \in Cooldowns, SetCooldown(c)
      PROVE  TypeOK'
  BY <1>18 DEF SetCooldown, context, writerVars, workerVars, netVars
<1>19. ASSUME Tick
      PROVE  TypeOK'
  BY <1>19 DEF Tick, vars, context, writerVars, workerVars, netVars
<1>20. ASSUME UNCHANGED vars
      PROVE  TypeOK'
  BY <1>20 DEF vars, context, writerVars, workerVars, netVars
<1> QED
  BY <1>1, <1>2, <1>3, <1>4, <1>5, <1>6, <1>7, <1>8, <1>9, <1>10, <1>11,
     <1>12, <1>13, <1>14, <1>15, <1>16, <1>17, <1>18, <1>19, <1>20 DEF Next, WriteStep, WorkerStep

\* The request in flight passes from hand to hand.
LEMMA SingleFlightStep ==
  ASSUME IndInv, [Next]_vars
  PROVE  SingleFlight'
<1> USE ConstantsAssumption DEF IndInv, TypeOK, SingleFlight, Owners,
                               WriterPCs, WorkerPCs
<1>1. ASSUME NEW w \in Writers, ClaimBusy(w)
      PROVE  SingleFlight'
  BY <1>1 DEF ClaimBusy, Return, Goto, context, writerVars, workerVars,
     netVars
<1>2. ASSUME NEW w \in Writers, QueueWork(w)
      PROVE  SingleFlight'
  BY <1>2 DEF QueueWork, Return, Goto, context, writerVars, workerVars,
     netVars
<1>3. ASSUME StartWork
      PROVE  SingleFlight'
  BY <1>3 DEF StartWork, context, writerVars, workerVars, netVars
<1>4. ASSUME ClearBusy
      PROVE  SingleFlight'
  BY <1>4 DEF ClearBusy, context, writerVars, workerVars, netVars
<1>5. ASSUME NEW w \in Writers, NEW req \in Requests, EnterWrite(w, req)
      PROVE  SingleFlight'
  BY <1>5 DEF EnterWrite, Return, Goto, Validate, ParseRestartCommand,
     context, writerVars, workerVars, netVars
<1>6. ASSUME NEW w \in Writers,
             ReadJiffies(w) \/ CheckCooldown(w) \/ FillIndex(w) \/
             StampRequest(w)
      PROVE  SingleFlight'
  BY <1>6 DEF ReadJiffies, Goto, CheckCooldown, Return, FillIndex,
     StampRequest, context, writerVars, workerVars, netVars
<1>7. ASSUME NEW c \in Cooldowns, SetCooldown(c)
      PROVE  SingleFlight'
  BY <1>7 DEF SetCooldown, context, writerVars, workerVars, netVars
<1>8. ASSUME NEW i \in Devices, NetworkStep(i)
      PROVE  SingleFlight'
  BY <1>8 DEF NetworkStep, Unregister, IfUpDown, FreeDevice, context,
     writerVars, workerVars, netVars
<1>9. ASSUME ReadIndex \/ LookupDevice \/ LockRtnl \/ CloseDevice \/ OpenDevice \/
             UnlockRtnl \/ PutDevice \/ Tick \/ UNCHANGED vars
      PROVE  SingleFlight'
  BY <1>9 DEF ReadIndex, LookupDevice, LockRtnl, CloseDevice, OpenDevice,
     UnlockRtnl, PutDevice, Tick, vars, context, writerVars, workerVars,
     netVars
<1> QED
  BY <1>1, <1>2, <1>3, <1>4, <1>5, <1>6, <1>7, <1>8, <1>9 DEF Next, WriteStep, WorkerStep

\* A device the worker refers to is not freed.
LEMMA NoUseAfterFreeStep ==
  ASSUME IndInv, [Next]_vars
  PROVE  NoUseAfterFree'
<1> USE ConstantsAssumption DEF IndInv, TypeOK, NoUseAfterFree,
                               RequestNamesDevice, WorkerHolds, WorkerPCs
<1>1. ASSUME LookupDevice
      PROVE  NoUseAfterFree'
  BY <1>1 DEF LookupDevice, context, writerVars, workerVars, netVars
<1>2. ASSUME NEW i \in Devices, NetworkStep(i)
      PROVE  NoUseAfterFree'
  BY <1>2 DEF NetworkStep, Unregister, IfUpDown, FreeDevice, context,
     writerVars, workerVars, netVars
<1>3. ASSUME NEW w \in Writers, NEW req \in Requests, EnterWrite(w, req)
      PROVE  NoUseAfterFree'
  BY <1>3 DEF EnterWrite, Return, Goto, Validate, ParseRestartCommand,
     context, writerVars, workerVars, netVars
<1>4. ASSUME NEW w \in Writers,
             ReadJiffies(w) \/ CheckCooldown(w) \/ ClaimBusy(w) \/
             FillIndex(w) \/ StampRequest(w) \/ QueueWork(w)
      PROVE  NoUseAfterFree'
  BY <1>4 DEF ReadJiffies, Goto, CheckCooldown, Return, ClaimBusy,
     FillIndex, StampRequest, QueueWork, context, writerVars, workerVars,
     netVars
<1>5. ASSUME NEW c \in Cooldowns, SetCooldown(c)
      PROVE  NoUseAfterFree'
  BY <1>5 DEF SetCooldown, context, writerVars, workerVars, netVars
<1>6. ASSUME StartWork \/ ReadIndex \/ LockRtnl \/ CloseDevice \/ OpenDevice \/
             UnlockRtnl \/ PutDevice \/ ClearBusy \/ Tick \/ UNCHANGED vars
      PROVE  NoUseAfterFree'
  BY <1>6 DEF StartWork, ReadIndex, LockRtnl, CloseDevice, OpenDevice,
     UnlockRtnl, PutDevice, ClearBusy, Tick, vars, context, writerVars,
     workerVars, netVars
<1> QED
  BY <1>1, <1>2, <1>3, <1>4, <1>5, <1>6 DEF Next, WriteStep, WorkerStep

\* The reference and the lock are held where the code holds them.
LEMMA WorkerHoldsStep ==
  ASSUME IndInv, [Next]_vars
  PROVE  WorkerHolds'
<1> USE ConstantsAssumption DEF IndInv, TypeOK, WorkerHolds, WorkerPCs
<1>1. ASSUME LookupDevice
      PROVE  WorkerHolds'
  BY <1>1 DEF LookupDevice, context, writerVars, workerVars, netVars
<1>2. ASSUME LockRtnl
      PROVE  WorkerHolds'
  BY <1>2 DEF LockRtnl, context, writerVars, workerVars, netVars
<1>3. ASSUME UnlockRtnl
      PROVE  WorkerHolds'
  BY <1>3 DEF UnlockRtnl, context, writerVars, workerVars, netVars
<1>4. ASSUME PutDevice
      PROVE  WorkerHolds'
  BY <1>4 DEF PutDevice, context, writerVars, workerVars, netVars
<1>5. ASSUME NEW w \in Writers, NEW req \in Requests, EnterWrite(w, req)
      PROVE  WorkerHolds'
  BY <1>5 DEF EnterWrite, Return, Goto, Validate, ParseRestartCommand,
     context, writerVars, workerVars, netVars
<1>6. ASSUME NEW w \in Writers,
             ReadJiffies(w) \/ CheckCooldown(w) \/ ClaimBusy(w) \/
             FillIndex(w) \/ StampRequest(w) \/ QueueWork(w)
      PROVE  WorkerHolds'
  BY <1>6 DEF ReadJiffies, Goto, CheckCooldown, Return, ClaimBusy,
     FillIndex, StampRequest, QueueWork, context, writerVars, workerVars,
     netVars
<1>7. ASSUME NEW c \in Cooldowns, SetCooldown(c)
      PROVE  WorkerHolds'
  BY <1>7 DEF SetCooldown, context, writerVars, workerVars, netVars
<1>8. ASSUME NEW i \in Devices, NetworkStep(i)
      PROVE  WorkerHolds'
  BY <1>8 DEF NetworkStep, Unregister, IfUpDown, FreeDevice, context,
     writerVars, workerVars, netVars
<1>9. ASSUME StartWork \/ ReadIndex \/ CloseDevice \/ OpenDevice \/ ClearBusy \/ Tick \/
             UNCHANGED vars
      PROVE  WorkerHolds'
  BY <1>9 DEF StartWork, ReadIndex, CloseDevice, OpenDevice, ClearBusy,
     Tick, vars, context, writerVars, workerVars, netVars
<1> QED
  BY <1>1, <1>2, <1>3, <1>4, <1>5, <1>6, <1>7, <1>8, <1>9 DEF Next, WriteStep, WorkerStep

\* Nobody but the owner of the request writes its ifindex.
LEMMA RequestNamesDeviceStep ==
  ASSUME IndInv, [Next]_vars
  PROVE  RequestNamesDevice'
<1> USE ConstantsAssumption DEF IndInv, TypeOK, SingleFlight, Owners,
                               RequestNamesDevice, Devices, Requests,
                               WriterPCs, WorkerPCs
<1>1. ASSUME NEW w \in Writers, NEW req \in Requests, EnterWrite(w, req)
      PROVE  RequestNamesDevice'
  BY <1>1 DEF EnterWrite, Return, Goto, Validate, ParseRestartCommand,
     context, writerVars, workerVars, netVars
<1>2. ASSUME NEW w \in Writers, ClaimBusy(w)
      PROVE  RequestNamesDevice'
  BY <1>2 DEF ClaimBusy, Return, Goto, context, writerVars, workerVars,
     netVars
<1>3. ASSUME NEW w \in Writers, FillIndex(w)
      PROVE  RequestNamesDevice'
  BY <1>3 DEF FillIndex, Goto, context, writerVars, workerVars, netVars
<1>4. ASSUME NEW w \in Writers, QueueWork(w)
      PROVE  RequestNamesDevice'
  BY <1>4 DEF QueueWork, Return, Goto, context, writerVars, workerVars,
     netVars
<1>5. ASSUME StartWork
      PROVE  RequestNamesDevice'
  BY <1>5 DEF StartWork, context, writerVars, workerVars, netVars
<1>6. ASSUME ReadIndex
      PROVE  RequestNamesDevice'
  BY <1>6 DEF ReadIndex, context, writerVars, workerVars, netVars
<1>7. ASSUME ClearBusy
      PROVE  RequestNamesDevice'
  BY <1>7 DEF ClearBusy, context, writerVars, workerVars, netVars
<1>8. ASSUME NEW w \in Writers,
             ReadJiffies(w) \/ CheckCooldown(w) \/ StampRequest(w)
      PROVE  RequestNamesDevice'
  BY <1>8 DEF ReadJiffies, Goto, CheckCooldown, Return, StampRequest,
     context, writerVars, workerVars, netVars
<1>9. ASSUME NEW c \in Cooldowns, SetCooldown(c)
      PROVE  RequestNamesDevice'
  BY <1>9 DEF SetCooldown, context, writerVars, workerVars, netVars
<1>10. ASSUME NEW i \in Devices, NetworkStep(i)
      PROVE  RequestNamesDevice'
  BY <1>10 DEF NetworkStep, Unregister, IfUpDown, FreeDevice, context,
     writerVars, workerVars, netVars
<1>11. ASSUME LookupDevice \/ LockRtnl \/ CloseDevice \/ OpenDevice \/ UnlockRtnl \/
             PutDevice \/ Tick \/ UNCHANGED vars
      PROVE  RequestNamesDevice'
  BY <1>11 DEF LookupDevice, LockRtnl, CloseDevice, OpenDevice, UnlockRtnl,
     PutDevice, Tick, vars, context, writerVars, workerVars, netVars
<1> QED
  BY <1>1, <1>2, <1>3, <1>4, <1>5, <1>6, <1>7, <1>8, <1>9, <1>10, <1>11 DEF Next, WriteStep, WorkerStep

\* What a cooldown check has established stays true: its inputs are locals,
\* and time does not go back.
LEMMA CooldownCheckedStep ==
  ASSUME IndInv, [Next]_vars
  PROVE  CooldownChecked'
<1> USE ConstantsAssumption DEF IndInv, TypeOK, CooldownChecked, WriterPCs
<1>1. ASSUME NEW w \in Writers, NEW req \in Requests, EnterWrite(w, req)
      PROVE  CooldownChecked'
  BY <1>1 DEF EnterWrite, Return, Goto, Validate, ParseRestartCommand,
     context, writerVars, workerVars, netVars
<1>2. ASSUME NEW w \in Writers, ReadJiffies(w)
      PROVE  CooldownChecked'
  BY <1>2 DEF ReadJiffies, Goto, context, writerVars, workerVars, netVars
<1>3. ASSUME NEW w \in Writers, CheckCooldown(w)
      PROVE  CooldownChecked'
  BY <1>3 DEF CheckCooldown, Return, Goto, context, writerVars, workerVars,
     netVars
<1>4. ASSUME NEW w \in Writers, ClaimBusy(w)
      PROVE  CooldownChecked'
  BY <1>4 DEF ClaimBusy, Return, Goto, context, writerVars, workerVars,
     netVars
<1>5. ASSUME NEW w \in Writers, QueueWork(w)
      PROVE  CooldownChecked'
  BY <1>5 DEF QueueWork, Return, Goto, context, writerVars, workerVars,
     netVars
<1>6. ASSUME Tick
      PROVE  CooldownChecked'
  BY <1>6 DEF Tick, context, writerVars, workerVars, netVars
<1>7. ASSUME NEW w \in Writers,
             FillIndex(w) \/ StampRequest(w)
      PROVE  CooldownChecked'
  BY <1>7 DEF FillIndex, Goto, StampRequest, context, writerVars,
     workerVars, netVars
<1>8. ASSUME NEW c \in Cooldowns, SetCooldown(c)
      PROVE  CooldownChecked'
  BY <1>8 DEF SetCooldown, context, writerVars, workerVars, netVars
<1>9. ASSUME NEW i \in Devices, NetworkStep(i)
      PROVE  CooldownChecked'
  BY <1>9 DEF NetworkStep, Unregister, IfUpDown, FreeDevice, context,
     writerVars, workerVars, netVars
<1>10. ASSUME StartWork \/ ReadIndex \/ LookupDevice \/ LockRtnl \/ CloseDevice \/
             OpenDevice \/ UnlockRtnl \/ PutDevice \/ ClearBusy \/
             UNCHANGED vars
      PROVE  CooldownChecked'
  BY <1>10 DEF StartWork, ReadIndex, LookupDevice, LockRtnl, CloseDevice,
     OpenDevice, UnlockRtnl, PutDevice, ClearBusy, vars, context,
     writerVars, workerVars, netVars
<1> QED
  BY <1>1, <1>2, <1>3, <1>4, <1>5, <1>6, <1>7, <1>8, <1>9, <1>10 DEF Next, WriteStep, WorkerStep

\* The invariant holds when the module has been loaded.
LEMMA InitIndInv ==
  ASSUME Init
  PROVE  IndInv
<1> USE ConstantsAssumption DEF Init, Devices
<1>1. TypeOK
  BY DEF TypeOK, WriterPCs, WorkerPCs
<1>2. SingleFlight /\ NoUseAfterFree
  BY DEF SingleFlight, Owners, NoUseAfterFree
<1>3. WorkerHolds /\ RequestNamesDevice /\ CooldownChecked
  BY DEF WorkerHolds, RequestNamesDevice, CooldownChecked
<1> QED
  BY <1>1, <1>2, <1>3 DEF IndInv

\* The inductive invariant is one.
LEMMA Inductive == Spec => []IndInv
<1>1. IndInv /\ [Next]_vars => IndInv'
  <2> SUFFICES ASSUME IndInv, [Next]_vars PROVE IndInv'
    OBVIOUS
  <2> QED
    BY TypeOKStep, SingleFlightStep, NoUseAfterFreeStep, WorkerHoldsStep,
       RequestNamesDeviceStep, CooldownCheckedStep DEF IndInv
<1> QED
  BY <1>1, InitIndInv, PTL DEF Spec

-----------------------------------------------------------------------------
(* The theorems                                                            *)

\* The variables of the driver keep to their types, for every instance.
THEOREM TypeCorrect == Spec => []TypeOK
  BY Inductive, PTL DEF IndInv

\* At most one restart request is in flight, in one place, and busy says so.
THEOREM OneRequestInFlight == Spec => []SingleFlight
  BY Inductive, PTL DEF IndInv

\* The worker never uses a net_device that has been freed.
THEOREM DeviceOutlivesRestart == Spec => []NoUseAfterFree
  BY Inductive, PTL DEF IndInv

\* Requests whose writes do not overlap are separated by the cooldown.
THEOREM SequentialWritesAreSpaced == Spec => CooldownBetweenSequentialWrites
<1>1. ASSUME IndInv, NEW w \in Writers, StampRequest(w), seen[w] = lastRequest
      PROVE  \E c \in Cooldowns : jiffies >= lastRequest + c
  BY <1>1, ConstantsAssumption
     DEF IndInv, CooldownChecked, TypeOK, StampRequest
<1>2. IndInv =>
        \A w \in Writers :
          StampRequest(w) /\ seen[w] = lastRequest =>
            \E c \in Cooldowns : jiffies >= lastRequest + c
  BY <1>1
<1> QED
  BY <1>2, Inductive, PTL DEF CooldownBetweenSequentialWrites

\* queue_work never finds the work pending, so that the -EBUSY behind it is never
\* returned: whoever wins the flag is told that the request was taken.
THEOREM WinnerIsServed ==
  Spec => [][\A w \in Writers : QueueWork(w) => result'[w] = "len"]_vars
<1>1. ASSUME IndInv, NEW w \in Writers, QueueWork(w)
      PROVE  result'[w] = "len"
  <2>1. w \in Owners /\ ~pending /\ result \in [Writers -> Errors \cup {"none", "len"}]
    BY <1>1 DEF IndInv, SingleFlight, Owners, QueueWork, TypeOK
  <2> QED BY <1>1, <2>1 DEF QueueWork, Return
<1>2. IndInv => [\A w \in Writers : QueueWork(w) => result'[w] = "len"]_vars
  BY <1>1
<1> QED BY <1>2, Inductive, PTL

\* Calls of write() that follow one another.
Alone == \A v, w \in Writers : wpc[v] # "idle" /\ wpc[w] # "idle" => v = w

SeenIsLast ==
  \A w \in Writers : wpc[w] \in {"claim", "fill", "stamp"} => seen[w] = lastRequest

\* Nobody stamps a request between another's cooldown check and stamp.
LEMMA SeenIsLastStep ==
  ASSUME IndInv, Alone, SeenIsLast, [Next]_vars
  PROVE  SeenIsLast'
<1> USE DEF IndInv, TypeOK, SeenIsLast, WriterPCs
<1>1. ASSUME NEW w \in Writers, NEW req \in Requests, EnterWrite(w, req)
      PROVE  SeenIsLast'
  BY <1>1 DEF EnterWrite, Return, Goto, context
<1>2. ASSUME NEW w \in Writers, ReadJiffies(w) \/ FillIndex(w)
      PROVE  SeenIsLast'
  BY <1>2 DEF ReadJiffies, FillIndex, Goto, context
<1>3. ASSUME NEW w \in Writers, CheckCooldown(w)
      PROVE  SeenIsLast'
  BY <1>3 DEF CheckCooldown, Return, Goto, context
<1>4. ASSUME NEW w \in Writers, ClaimBusy(w) \/ QueueWork(w)
      PROVE  SeenIsLast'
  BY <1>4 DEF ClaimBusy, QueueWork, Return, Goto
<1>5. ASSUME NEW w \in Writers, StampRequest(w)
      PROVE  SeenIsLast'
  <2>1. \A v \in Writers : wpc'[v] \notin {"claim", "fill", "stamp"}
    BY <1>5 DEF StampRequest, Goto, Alone
  <2> QED BY <2>1
<1>6. ASSUME WorkerStep
      PROVE  SeenIsLast'
  BY <1>6 DEF WorkerStep, StartWork, ReadIndex, LookupDevice, LockRtnl, CloseDevice,
              OpenDevice, UnlockRtnl, PutDevice, ClearBusy, context, writerVars
<1>7. ASSUME Tick \/ UNCHANGED vars
      PROVE  SeenIsLast'
  BY <1>7 DEF Tick, vars, context, writerVars
<1>8. ASSUME NEW c \in Cooldowns, SetCooldown(c)
      PROVE  SeenIsLast'
  BY <1>8 DEF SetCooldown, context, writerVars
<1>9. ASSUME NEW i \in Devices, NetworkStep(i)
      PROVE  SeenIsLast'
  BY <1>9 DEF NetworkStep, context, writerVars
<1> QED
  BY <1>1, <1>2, <1>3, <1>4, <1>5, <1>6, <1>7, <1>8, <1>9 DEF Next, WriteStep

\* The minimum interval that cooldown_ms is described by is kept as long as no
\* two writes overlap: overlapping is all it takes to break it.
THEOREM SerialWritesKeepInterval == Spec /\ []Alone => MinimumInterval
<1>1. ASSUME IndInv, SeenIsLast, NEW w \in Writers, StampRequest(w)
      PROVE  \E c \in Cooldowns : jiffies >= lastRequest + c
  BY <1>1, ConstantsAssumption
  DEF IndInv, SeenIsLast, CooldownChecked, TypeOK, StampRequest
<1>2. IndInv /\ SeenIsLast =>
        [\A w \in Writers :
           StampRequest(w) => \E c \in Cooldowns : jiffies >= lastRequest + c]_vars
  BY <1>1
<1>3. Init => SeenIsLast
  BY DEF Init, SeenIsLast
<1>4. IndInv /\ Alone /\ SeenIsLast /\ [Next]_vars => SeenIsLast'
  BY SeenIsLastStep
<1> QED
  BY <1>2, <1>3, <1>4, Inductive, PTL DEF Spec, MinimumInterval

-----------------------------------------------------------------------------
(* The driver implements RestartService                                    *)

LEMMA ChooseOnly ==
  ASSUME NEW S, NEW w \in S, \A u, v \in S : u = v
  PROVE  (CHOOSE v \in S : TRUE) = w
OBVIOUS

\* Every step of the driver is a step of the service or changes nothing in it.
\* A request is accepted when busy is won; it then changes its place, never
\* its value, until it is dropped at the lookup or carried out by the worker.
LEMMA ServiceStep ==
  ASSUME IndInv, IndInv', [Next]_vars
  PROVE  [Service!Next]_(Service!vars)
<1> USE ConstantsAssumption
        DEF IndInv, TypeOK, WriterPCs, WorkerPCs, SingleFlight, Service!vars
<1>1. \A w \in Owners : Owner = w
  BY ChooseOnly DEF Owner
<1>2. \A w \in Owners' : Owner' = w
  BY ChooseOnly DEF Owner
<1>3. ASSUME NEW w \in Writers, NEW req \in Requests, EnterWrite(w, req)
      PROVE  UNCHANGED Service!vars
  BY <1>1, <1>2, <1>3
     DEF EnterWrite, Return, Goto, context, workerVars, netVars, Owners, Job,
         Phase, Running
<1>4. ASSUME NEW w \in Writers, ReadJiffies(w) \/ CheckCooldown(w)
      PROVE  UNCHANGED Service!vars
  BY <1>1, <1>2, <1>4
     DEF ReadJiffies, CheckCooldown, Return, Goto, context, workerVars,
         netVars, Owners, Job, Phase, Running
<1>5. ASSUME NEW w \in Writers, ClaimBusy(w)
      PROVE  [Service!Next]_(Service!vars)
  <2>1. CASE busy = 0
    <3>1. w \in Owners' /\ wIndex' = wIndex /\ wIndex[w] \in Devices
      BY <1>5, <2>1 DEF ClaimBusy, Goto, Owners, RequestNamesDevice
    <3>2. Service!Accept(wIndex[w])
      BY <1>2, <1>5, <2>1, <3>1
         DEF ClaimBusy, Goto, workerVars, netVars, Job, Phase, Running,
             Service!Accept
    <3> QED
      BY <3>1, <3>2 DEF Service!Next
  <2>2. CASE busy # 0
    BY <1>1, <1>2, <1>5, <2>2
       DEF ClaimBusy, Return, Goto, workerVars, netVars, Owners, Job, Phase,
           Running
  <2> QED
    BY <2>1, <2>2
<1>6. ASSUME NEW w \in Writers, FillIndex(w) \/ StampRequest(w)
      PROVE  UNCHANGED Service!vars
  BY <1>1, <1>2, <1>6
     DEF FillIndex, StampRequest, Goto, workerVars, netVars, Owners, Job,
         Phase, Running
<1>7. ASSUME NEW w \in Writers, QueueWork(w)
      PROVE  UNCHANGED Service!vars
  BY <1>1, <1>2, <1>7
     DEF QueueWork, Return, Goto, workerVars, netVars, Owners, Job, Phase,
         Running, RequestNamesDevice
<1>8. ASSUME StartWork \/ ReadIndex \/ LockRtnl \/ UnlockRtnl \/ PutDevice
      PROVE  UNCHANGED Service!vars
  BY <1>1, <1>2, <1>8
     DEF StartWork, ReadIndex, LockRtnl, UnlockRtnl, PutDevice, context,
         writerVars, netVars, Owners, Job, Phase, Running
<1>9. ASSUME LookupDevice
      PROVE  [Service!Next]_(Service!vars)
  <2>1. CASE refHeld'
    BY <1>9, <2>1
       DEF LookupDevice, context, writerVars, netVars, Owners, Job, Phase,
           Running
  <2>2. CASE ~refHeld'
    <3>1. Service!Drop
      BY <1>9, <2>2
         DEF LookupDevice, context, writerVars, netVars, Owners, Job, Phase,
             Running, Service!Drop
    <3> QED
      BY <3>1 DEF Service!Next
  <2> QED
    BY <2>1, <2>2
<1>10. ASSUME CloseDevice
       PROVE  Service!TakeDown
  BY <1>10
     DEF CloseDevice, context, writerVars, Owners, Job, Phase, Running,
         Service!TakeDown
<1>11. ASSUME OpenDevice
       PROVE  Service!BringUp
  <2>1. Job = kIndex /\ Job' = kIndex /\ Phase = "down" /\ Phase' = "served"
    BY <1>11 DEF OpenDevice, context, writerVars, Owners, Job, Phase
  <2>2. Running' \in {Running, Running \cup {kIndex}}
    BY <1>11 DEF OpenDevice, Running
  <2> QED
    BY <2>1, <2>2 DEF Service!BringUp
<1>12. ASSUME ClearBusy
       PROVE  Service!Finish
  BY <1>12
     DEF ClearBusy, writerVars, netVars, Owners, Job, Phase, Running,
         Service!Finish, Service!NoJob
<1>13. ASSUME Tick \/ UNCHANGED vars
       PROVE  UNCHANGED Service!vars
  BY <1>1, <1>2, <1>13
     DEF Tick, vars, context, writerVars, workerVars, netVars,
         Owners, Job, Phase, Running
<1>14. ASSUME NEW c \in Cooldowns, SetCooldown(c)
       PROVE  UNCHANGED Service!vars
  BY <1>1, <1>2, <1>14
     DEF SetCooldown, context, writerVars, workerVars, netVars, Owners, Job,
         Phase, Running
<1>15. ASSUME NEW i \in Devices, NetworkStep(i)
       PROVE  [Service!Next]_(Service!vars)
  <2>1. UNCHANGED <<Job, Phase>>
    BY <1>1, <1>2, <1>15
       DEF NetworkStep, context, writerVars, workerVars, Owners, Job, Phase
  <2>2. CASE FreeDevice(i)
    BY <2>1, <2>2 DEF FreeDevice, Running
  <2>3. CASE Unregister(i) \/ IfUpDown(i)
    <3>1. Phase # "down" /\ Running' \in SUBSET Devices
      BY <2>3 DEF Unregister, IfUpDown, Running, Phase, WorkerHolds
    <3> QED
      BY <2>1, <3>1 DEF Service!Next, Service!Others
  <2> QED
    BY <1>15, <2>2, <2>3 DEF NetworkStep
<1> QED
  BY <1>3, <1>4, <1>5, <1>6, <1>7, <1>8, <1>9, <1>10, <1>11, <1>12, <1>13,
     <1>15, <1>14 DEF Next, WriteStep, WorkerStep, Service!Next

\* A restart concerns the interface the accepted command named, one at a time,
\* and nobody else touches an interface in the middle of it.
THEOREM DriverImplementsService == Spec => ImplementsService
<1>1. ASSUME Init
      PROVE  Service!Init
  BY <1>1 DEF Init, Service!Init, Service!NoJob, Job, Phase, Running, Devices
<1> QED
  BY <1>1, ServiceStep, Inductive, PTL
     DEF Spec, ImplementsService, Service!Spec

=============================================================================
