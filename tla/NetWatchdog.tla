----------------------------- MODULE NetWatchdog -----------------------------
(***************************************************************************)
(* The net_watchdog character device (recipes-kernel/ethernet/files/       *)
(* 3_net_watchdog.c).  Threads write "RESTART <ifindex>" to                *)
(* /dev/net_watchdog; a request that passes the cooldown and wins the busy *)
(* flag is handed to an ordered workqueue, whose worker closes and reopens *)
(* the interface under the rtnl lock.                                      *)
(*                                                                         *)
(* A write() call is one step per access to the shared restart_ctx, so     *)
(* that calls of several threads interleave where the driver lets them.    *)
(* The network stack (rtnl lock, device list, reference counts), the       *)
(* workqueue and the clock are external: they are modelled from what the   *)
(* driver asks of them.                                                    *)
(***************************************************************************)
EXTENDS Integers, FiniteSets

CONSTANTS Writers,        \* threads that call write() on the device
          IfIndexes,      \* the numbers a command may carry
          Cooldowns,      \* what msecs_to_jiffies makes of cooldown_ms's values
          InitialJiffies, \* jiffies when the module is loaded
          MaxJiffies      \* bound: the clock stops here

\* On a 64-bit kernel jiffies starts near 2^32, above any cooldown_ms, so the
\* zero in last_request never delays the first request.  A cooldown_ms so large
\* that msecs_to_jiffies saturates is left out by the same assumption.
ASSUME ConstantsAssumption ==
  /\ IfIndexes \subseteq Int
  /\ Cooldowns \subseteq Nat /\ Cooldowns # {}
  /\ InitialJiffies \in Nat /\ MaxJiffies \in Nat
  /\ \A c \in Cooldowns : c <= InitialJiffies

VARIABLES jiffies,      \* the clock
          cooldown,     \* cooldown_ms, writable by the administrator (0644)
          busy,         \* restart_ctx.busy
          ifindex,      \* restart_ctx.ifindex
          lastRequest,  \* restart_ctx.last_request
          pending,      \* WORK_STRUCT_PENDING of restart_ctx.work
          wpc,          \* where each writer is in net_watchdog_write
          wIndex,       \* each writer's local ifindex
          sampled,      \* jiffies as read by the writer's cooldown check
          seen,         \* last_request as read by the writer's cooldown check
          result,       \* what the writer's last call returned
          kpc,          \* where the worker is in net_watchdog_restart_work
          kIndex,       \* the worker's local ifindex
          refHeld,      \* the worker holds a reference on device kIndex
          rtnl,         \* the worker holds the rtnl lock
          device,       \* registration state of each net_device
          up            \* the devices that are running

context    == <<busy, ifindex, lastRequest>>
writerVars == <<wpc, wIndex, sampled, seen, result>>
workerVars == <<kpc, kIndex, refHeld, rtnl>>
netVars    == <<device, up>>
vars == <<jiffies, cooldown, context, pending, writerVars, workerVars, netVars>>

Devices == {i \in IfIndexes : i > 0}

Errors == {"EPERM", "EINVAL", "EFAULT", "EAGAIN", "EBUSY"}

WriterPCs == {"idle", "jiffies", "last", "claim", "fill", "stamp", "queue"}
WorkerPCs == {"idle", "read", "lookup", "lock", "close", "open", "unlock",
              "put", "out"}

\* A call of write(), by what its first checks tell apart: the one that fails,
\* if any (privilege, length, readable buffer), and the fields sscanf finds.
Requests == [fault : {"none", "EPERM", "EINVAL", "EFAULT"},
             action : {"RESTART", "RESET", "other"},
             index : IfIndexes]

ParseRestartCommand(req) ==
  req.action \in {"RESTART", "RESET"} /\ req.index > 0

\* The checks made before any shared state is looked at.
Validate(req) == IF req.fault # "none" THEN req.fault
                 ELSE IF ParseRestartCommand(req) THEN "ok" ELSE "EINVAL"

Init == /\ jiffies = InitialJiffies
        /\ cooldown \in Cooldowns
        /\ busy = 0 /\ ifindex = 0 /\ lastRequest = 0
        /\ pending = FALSE
        /\ wpc = [w \in Writers |-> "idle"]
        /\ wIndex = [w \in Writers |-> 0]
        /\ sampled = [w \in Writers |-> 0]
        /\ seen = [w \in Writers |-> 0]
        /\ result = [w \in Writers |-> "none"]
        /\ kpc = "idle" /\ kIndex = 0 /\ refHeld = FALSE /\ rtnl = FALSE
        /\ device \in [Devices -> {"registered", "freed"}]
        /\ up \in SUBSET {i \in Devices : device[i] = "registered"}
-----------------------------------------------------------------------------
(* net_watchdog_write                                                      *)

Goto(w, to) == wpc' = [wpc EXCEPT ![w] = to]

\* The call ends with the given return value; the locals die with the frame.
Return(w, value) == /\ Goto(w, "idle")
                    /\ result' = [result EXCEPT ![w] = value]
                    /\ wIndex' = [wIndex EXCEPT ![w] = 0]
                    /\ sampled' = [sampled EXCEPT ![w] = 0]
                    /\ seen' = [seen EXCEPT ![w] = 0]

EnterWrite(w, req) ==
  /\ wpc[w] = "idle"
  /\ IF Validate(req) = "ok"
     THEN /\ Goto(w, "jiffies")
          /\ wIndex' = [wIndex EXCEPT ![w] = req.index]
          /\ result' = [result EXCEPT ![w] = "none"]
          /\ UNCHANGED <<sampled, seen>>
     ELSE Return(w, Validate(req))
  /\ UNCHANGED <<jiffies, cooldown, context, pending, workerVars, netVars>>

\* The cooldown check reads the clock, then last_request and cooldown_ms: no
\* lock is held, so anything may happen between the two reads.
ReadJiffies(w) ==
  /\ wpc[w] = "jiffies"
  /\ sampled' = [sampled EXCEPT ![w] = jiffies]
  /\ Goto(w, "last")
  /\ UNCHANGED <<jiffies, cooldown, context, pending, wIndex, seen, result,
                 workerVars, netVars>>

\* Mutant of CheckCooldown: the operands of time_before swapped.
CheckCooldownSwapped(w) ==
  /\ wpc[w] = "last"
  /\ IF lastRequest + cooldown < sampled[w]
     THEN Return(w, "EAGAIN")
     ELSE /\ seen' = [seen EXCEPT ![w] = lastRequest]
          /\ Goto(w, "claim")
          /\ UNCHANGED <<wIndex, sampled, result>>
  /\ UNCHANGED <<jiffies, cooldown, context, pending, workerVars, netVars>>

CheckCooldown(w) ==
  /\ wpc[w] = "last"
  /\ IF sampled[w] < lastRequest + cooldown
     THEN Return(w, "EAGAIN")
     ELSE /\ seen' = [seen EXCEPT ![w] = lastRequest]
          /\ Goto(w, "claim")
          /\ UNCHANGED <<wIndex, sampled, result>>
  /\ UNCHANGED <<jiffies, cooldown, context, pending, workerVars, netVars>>

\* Mutants of ClaimBusy: atomic_inc for atomic_cmpxchg; the flag set without a
\* look at it; ifindex filled in before the flag is won.
ClaimBusyIncrement(w) ==
  /\ wpc[w] = "claim"
  /\ busy' = busy + 1
  /\ Goto(w, "fill")
  /\ UNCHANGED <<jiffies, cooldown, ifindex, lastRequest, pending, wIndex,
                 sampled, seen, result, workerVars, netVars>>

ClaimBusyUnchecked(w) ==
  /\ wpc[w] = "claim"
  /\ busy' = 1
  /\ Goto(w, "fill")
  /\ UNCHANGED <<jiffies, cooldown, ifindex, lastRequest, pending, wIndex,
                 sampled, seen, result, workerVars, netVars>>

ClaimBusyAfterFill(w) ==
  /\ wpc[w] = "claim"
  /\ ifindex' = wIndex[w]
  /\ IF busy = 0
     THEN /\ busy' = 1
          /\ Goto(w, "fill")
          /\ UNCHANGED <<wIndex, sampled, seen, result>>
     ELSE /\ Return(w, "EBUSY")
          /\ UNCHANGED busy
  /\ UNCHANGED <<jiffies, cooldown, lastRequest, pending, workerVars, netVars>>

\* atomic_cmpxchg(&restart_ctx.busy, 0, 1)
ClaimBusy(w) ==
  /\ wpc[w] = "claim"
  /\ IF busy = 0
     THEN /\ busy' = 1
          /\ Goto(w, "fill")
          /\ UNCHANGED <<wIndex, sampled, seen, result>>
     ELSE /\ Return(w, "EBUSY")
          /\ UNCHANGED busy
  /\ UNCHANGED <<jiffies, cooldown, ifindex, lastRequest, pending, workerVars,
                 netVars>>

FillIndex(w) ==
  /\ wpc[w] = "fill"
  /\ ifindex' = wIndex[w]
  /\ Goto(w, "stamp")
  /\ UNCHANGED <<jiffies, cooldown, busy, lastRequest, pending, wIndex,
                 sampled, seen, result, workerVars, netVars>>

StampRequest(w) ==
  /\ wpc[w] = "stamp"
  /\ lastRequest' = jiffies
  /\ Goto(w, "queue")
  /\ UNCHANGED <<jiffies, cooldown, busy, ifindex, pending, wIndex, sampled,
                 seen, result, workerVars, netVars>>

\* Mutant of QueueWork: the call returns without queueing anything.
QueueWorkForgotten(w) ==
  /\ wpc[w] = "queue"
  /\ Return(w, "len")
  /\ UNCHANGED <<jiffies, cooldown, context, pending, workerVars, netVars>>

\* queue_work returns false, and changes nothing, when the work is pending.
QueueWork(w) ==
  /\ wpc[w] = "queue"
  /\ pending' = TRUE
  /\ busy' = IF pending THEN 0 ELSE busy
  /\ Return(w, IF pending THEN "EBUSY" ELSE "len")
  /\ UNCHANGED <<jiffies, cooldown, ifindex, lastRequest, workerVars, netVars>>

WriteStep(w) == \/ ReadJiffies(w) \/ CheckCooldown(w) \/ ClaimBusy(w)
                \/ FillIndex(w) \/ StampRequest(w) \/ QueueWork(w)
-----------------------------------------------------------------------------
(* net_watchdog_restart_work, run by the ordered workqueue                 *)

\* The workqueue clears the pending bit before it calls the function.
StartWork == /\ kpc = "idle" /\ pending
             /\ pending' = FALSE
             /\ kpc' = "read"
             /\ UNCHANGED <<jiffies, cooldown, context, writerVars, kIndex,
                            refHeld, rtnl, netVars>>

ReadIndex == /\ kpc = "read"
             /\ kIndex' = ifindex
             /\ kpc' = "lookup"
             /\ UNCHANGED <<jiffies, cooldown, context, pending, writerVars,
                            refHeld, rtnl, netVars>>

\* Mutants of LookupDevice: the lookup that takes no reference; a plain return
\* where the code jumps to out.
LookupDeviceUnreferenced ==
  /\ kpc = "lookup"
  /\ kpc' = IF kIndex \in Devices /\ device[kIndex] = "registered" THEN "lock"
                                                                  ELSE "out"
  /\ UNCHANGED <<jiffies, cooldown, context, pending, writerVars, kIndex,
                 refHeld, rtnl, netVars>>

LookupDeviceReturns ==
  /\ kpc = "lookup"
  /\ refHeld' = (kIndex \in Devices /\ device[kIndex] = "registered")
  /\ kpc' = IF refHeld' THEN "lock" ELSE "idle"
  /\ UNCHANGED <<jiffies, cooldown, context, pending, writerVars, kIndex, rtnl,
                 netVars>>

\* dev_get_by_index finds listed devices only and takes a reference.
LookupDevice ==
  /\ kpc = "lookup"
  /\ refHeld' = (kIndex \in Devices /\ device[kIndex] = "registered")
  /\ kpc' = IF refHeld' THEN "lock" ELSE "out"
  /\ UNCHANGED <<jiffies, cooldown, context, pending, writerVars, kIndex, rtnl,
                 netVars>>

LockRtnl == /\ kpc = "lock"
            /\ rtnl' = TRUE
            /\ kpc' = "close"
            /\ UNCHANGED <<jiffies, cooldown, context, pending, writerVars,
                           kIndex, refHeld, netVars>>

\* dev_close, skipped when the interface is not running.
CloseDevice == /\ kpc = "close"
               /\ up' = up \ {kIndex}
               /\ kpc' = "open"
               /\ UNCHANGED <<jiffies, cooldown, context, pending, writerVars,
                              kIndex, refHeld, rtnl, device>>

\* dev_open may fail; the failure is only logged.  Nothing checks that the
\* device found before rtnl_lock is still registered.
OpenDevice == /\ kpc = "open"
              /\ up' \in {up, up \cup {kIndex}}
              /\ kpc' = "unlock"
              /\ UNCHANGED <<jiffies, cooldown, context, pending, writerVars,
                             kIndex, refHeld, rtnl, device>>

UnlockRtnl == /\ kpc = "unlock"
              /\ rtnl' = FALSE
              /\ kpc' = "put"
              /\ UNCHANGED <<jiffies, cooldown, context, pending, writerVars,
                             kIndex, refHeld, netVars>>

PutDevice == /\ kpc = "put"
             /\ refHeld' = FALSE
             /\ kpc' = "out"
             /\ UNCHANGED <<jiffies, cooldown, context, pending, writerVars,
                            kIndex, rtnl, netVars>>

\* out: the flag goes back to zero and the function returns.
ClearBusy == /\ kpc = "out"
             /\ busy' = 0
             /\ kpc' = "idle"
             /\ kIndex' = 0
             /\ UNCHANGED <<jiffies, cooldown, ifindex, lastRequest, pending,
                            writerVars, refHeld, rtnl, netVars>>

WorkerStep == \/ StartWork \/ ReadIndex \/ LookupDevice \/ LockRtnl
              \/ CloseDevice \/ OpenDevice \/ UnlockRtnl \/ PutDevice
              \/ ClearBusy
-----------------------------------------------------------------------------
(* The environment: clock, administrator, network stack                    *)

Tick == /\ jiffies < MaxJiffies
        /\ jiffies' = jiffies + 1
        /\ UNCHANGED <<cooldown, context, pending, writerVars, workerVars,
                       netVars>>

SetCooldown(c) == /\ cooldown' = c
                  /\ UNCHANGED <<jiffies, context, pending, writerVars,
                                 workerVars, netVars>>

\* Whoever changes a device holds the rtnl lock, for one step here.
Unregister(i) == /\ ~rtnl /\ device[i] = "registered"
                 /\ device' = [device EXCEPT ![i] = "unregistered"]
                 /\ up' = up \ {i}

IfUpDown(i) == /\ ~rtnl /\ device[i] = "registered"
               /\ up' = IF i \in up THEN up \ {i} ELSE up \cup {i}
               /\ UNCHANGED device

\* unregister_netdev frees the device once the last reference is gone.
FreeDevice(i) == /\ device[i] = "unregistered"
                 /\ ~(refHeld /\ kIndex = i)
                 /\ device' = [device EXCEPT ![i] = "freed"]
                 /\ up' = up \ {i}

NetworkStep(i) == /\ Unregister(i) \/ IfUpDown(i) \/ FreeDevice(i)
                  /\ UNCHANGED <<jiffies, cooldown, context, pending,
                                 writerVars, workerVars>>

Next == \/ \E w \in Writers : \/ \E req \in Requests : EnterWrite(w, req)
                              \/ WriteStep(w)
        \/ WorkerStep
        \/ Tick
        \/ \E c \in Cooldowns : SetCooldown(c)
        \/ \E i \in Devices : NetworkStep(i)

\* A thread inside write() and a queued work item are scheduled by the kernel
\* in the end; nobody is obliged to call write() or to touch a device.
Fairness == /\ \A w \in Writers : WF_vars(WriteStep(w))
            /\ WF_vars(WorkerStep)

Spec == Init /\ [][Next]_vars /\ Fairness
-----------------------------------------------------------------------------
(* Properties                                                              *)

\* The type invariant: every variable, and every field of restart_ctx, keeps
\* to its range; a request that passed parse_restart_command names a positive
\* index.
TypeOK == /\ jiffies \in Nat /\ cooldown \in Cooldowns
          /\ busy \in {0, 1} /\ ifindex \in Devices \cup {0}
          /\ lastRequest \in Nat /\ pending \in BOOLEAN
          /\ wpc \in [Writers -> WriterPCs]
          /\ wIndex \in [Writers -> Devices \cup {0}]
          /\ sampled \in [Writers -> Nat] /\ seen \in [Writers -> Nat]
          /\ result \in [Writers -> Errors \cup {"none", "len"}]
          /\ kpc \in WorkerPCs /\ kIndex \in Devices \cup {0}
          /\ refHeld \in BOOLEAN /\ rtnl \in BOOLEAN
          /\ device \in [Devices -> {"registered", "unregistered", "freed"}]
          /\ up \in SUBSET Devices

\* The writers between winning the busy flag and handing over the work.
Owners == {w \in Writers : wpc[w] \in {"fill", "stamp", "queue"}}

\* busy is 1 exactly while one request is in flight, and that request is in
\* one place: with the writer that won atomic_cmpxchg, in the queue, or with
\* the worker.  Hence ifindex has one writer at a time, it does not change
\* between queue_work and the worker's read, and queue_work never finds the
\* work pending: the -EBUSY branch behind it is dead.
SingleFlight ==
  /\ \A v, w \in Owners : v = w
  /\ ~(Owners # {} /\ pending)
  /\ ~(Owners # {} /\ kpc # "idle")
  /\ ~(pending /\ kpc # "idle")
  /\ (busy = 1) <=> (Owners # {} \/ pending \/ kpc # "idle")

\* Between dev_get_by_index and dev_put the worker's net_device has not been
\* freed, whatever unregisters it meanwhile.
NoUseAfterFree ==
  kpc \in {"lock", "close", "open", "unlock", "put"} =>
    kIndex \in Devices /\ device[kIndex] \in {"registered", "unregistered"}

\* Two accepted requests are at least the (smallest) cooldown apart unless the
\* writes overlap: a writer that saw the last accepted request in its cooldown
\* check stamps its own no earlier than the cooldown after it.
CooldownBetweenSequentialWrites ==
  [][\A w \in Writers :
       StampRequest(w) /\ seen[w] = lastRequest =>
         \E c \in Cooldowns : jiffies >= lastRequest + c]_vars

\* What the description of cooldown_ms says: "Minimum interval between restart
\* requests in milliseconds".
MinimumInterval ==
  [][\A w \in Writers :
       StampRequest(w) => \E c \in Cooldowns : jiffies >= lastRequest + c]_vars

\* The request being served, for the service the driver implements: its owner
\* has it in a local, then it is in restart_ctx, then in the worker's local.
Owner == CHOOSE w \in Owners : TRUE

Job == IF busy = 0 THEN 0
       ELSE IF Owners # {} THEN wIndex[Owner]
       ELSE IF pending \/ kpc = "read" THEN ifindex
       ELSE kIndex

Phase == IF busy = 0 THEN "free"
         ELSE IF kpc = "open" THEN "down"
         ELSE IF kpc \in {"unlock", "put", "out"} THEN "served"
         ELSE "accepted"

\* The interfaces that are running; a device opened after it was unregistered
\* is no interface any more.
Running == {i \in up : device[i] = "registered"}

Service == INSTANCE RestartService
             WITH Interfaces <- Devices, job <- Job, phase <- Phase,
                  up <- Running

\* The driver implements the restart service: the interface restarted is the
\* one the accepted command named, one at a time, and its close and open are
\* one step to everybody else.
ImplementsService == Service!Spec

\* A request write() took (it returns len) is carried out: the worker comes to
\* its end with that very ifindex.
AcceptedIsCarriedOut ==
  \A w \in Writers : \A i \in Devices :
    (wpc[w] = "queue" /\ wIndex[w] = i) ~> (kpc = "out" /\ kIndex = i)

\* The flag never sticks, whichever way the worker leaves: the device takes
\* requests again.
FlagIsReleased == (busy = 1) ~> (busy = 0)
=============================================================================
