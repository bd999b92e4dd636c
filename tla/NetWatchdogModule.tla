-------------------------- MODULE NetWatchdogModule --------------------------
(***************************************************************************)
(* Loading and unloading of the net_watchdog module around the operations  *)
(* of NetWatchdog: net_watchdog_init takes five resources one by one and   *)
(* unwinds through its goto labels when one fails; net_watchdog_exit       *)
(* flushes the workqueue and gives the resources back; open files keep the *)
(* module loaded (fops.owner).                                             *)
(***************************************************************************)
EXTENDS NetWatchdog, Sequences

VARIABLES phase,  \* where the module is in its life
          step,   \* the position in the list of resources
          held,   \* the resources the module holds
          files   \* the writers that have the device open

moduleVars == <<phase, step, held, files>>
allVars == <<vars, moduleVars>>

\* In the order net_watchdog_init takes them.
Resources == <<"workqueue", "chrdev_region", "cdev", "class", "device">>

Phases == {"unloaded", "init", "unwind", "live", "flush", "exit"}

ModuleInit == /\ Init
              /\ phase = "unloaded" /\ step = 0 /\ held = {} /\ files = {}

\* insmod: the first statements of net_watchdog_init.
StartLoad == /\ phase = "unloaded"
             /\ busy' = 0 /\ ifindex' = 0 /\ lastRequest' = 0
             /\ pending' = FALSE
             /\ phase' = "init" /\ step' = 1
             /\ UNCHANGED <<jiffies, cooldown, writerVars, workerVars,
                            netVars, held, files>>

\* Mutant of AcquireResource: one resource too many.
AcquireResourceOffByOne ==
  /\ phase = "init"
  /\ \/ /\ held' = held \cup {Resources[step]}
        /\ IF step > Len(Resources)
           THEN phase' = "live" /\ step' = step
           ELSE phase' = phase  /\ step' = step + 1
     \/ /\ phase' = "unwind" /\ step' = step - 1
        /\ held' = held
  /\ UNCHANGED <<vars, files>>

\* The next resource, or the jump to the label that undoes those before it.
AcquireResource ==
  /\ phase = "init"
  /\ \/ /\ held' = held \cup {Resources[step]}
        /\ IF step = Len(Resources)
           THEN phase' = "live" /\ step' = step
           ELSE phase' = phase  /\ step' = step + 1
     \/ /\ phase' = "unwind" /\ step' = step - 1
        /\ held' = held
  /\ UNCHANGED <<vars, files>>

\* Mutant of UnwindStep: a label that jumps back to itself.
UnwindStepLoops ==
  /\ phase = "unwind"
  /\ IF step = 0
     THEN phase' = "unloaded" /\ UNCHANGED <<step, held>>
     ELSE /\ Resources[step] = "workqueue" => ~pending /\ kpc = "idle"
          /\ held' = held \ {Resources[step]}
          /\ UNCHANGED <<phase, step>>
  /\ UNCHANGED <<vars, files>>

\* err_class, err_cdev, err_chrdev, err_wq: each label falls into the next.
\* destroy_workqueue waits for the work it finds.
UnwindStep ==
  /\ phase = "unwind"
  /\ IF step = 0
     THEN phase' = "unloaded" /\ UNCHANGED <<step, held>>
     ELSE /\ Resources[step] = "workqueue" => ~pending /\ kpc = "idle"
          /\ held' = held \ {Resources[step]}
          /\ step' = step - 1
          /\ UNCHANGED phase
  /\ UNCHANGED <<vars, files>>

\* open() takes a reference on the module, which a module on its way out
\* refuses; the node is there to be opened once device_create has made it.
OpenFile(w) == /\ phase = "live"
               /\ files' = files \cup {w}
               /\ UNCHANGED <<vars, phase, step, held>>

ReleaseFile(w) == /\ w \in files /\ wpc[w] = "idle"
                  /\ files' = files \ {w}
                  /\ UNCHANGED <<vars, phase, step, held>>

\* Mutant of StartUnload: file_operations without .owner.
StartUnloadUnowned == /\ phase = "live"
                      /\ phase' = "flush"
                      /\ UNCHANGED <<vars, step, held, files>>

\* rmmod, refused while the module is referenced.
StartUnload == /\ phase = "live" /\ files = {}
               /\ phase' = "flush"
               /\ UNCHANGED <<vars, step, held, files>>

FlushWorkqueue == /\ phase = "flush" /\ ~pending /\ kpc = "idle"
                  /\ phase' = "exit" /\ step' = 1
                  /\ UNCHANGED <<vars, held, files>>

\* Mutant of ExitOrder: the class destroyed before the device that is in it.
ExitOrderSwapped == <<"class", "device", "cdev", "chrdev_region", "workqueue">>

\* In the order net_watchdog_exit gives the resources back.
ExitOrder == <<"device", "class", "cdev", "chrdev_region", "workqueue">>

ExitStep ==
  /\ phase = "exit"
  /\ ExitOrder[step] = "workqueue" => ~pending /\ kpc = "idle"
  /\ held' = held \ {ExitOrder[step]}
  /\ IF step = Len(ExitOrder) THEN phase' = "unloaded" /\ step' = 0
                              ELSE phase' = phase /\ step' = step + 1
  /\ UNCHANGED <<vars, files>>

LifeStep == AcquireResource \/ UnwindStep \/ FlushWorkqueue \/ ExitStep

\* The operations of the device, for those who have it open.
Operate == /\ \/ \E w \in files : \/ \E req \in Requests : EnterWrite(w, req)
                                  \/ WriteStep(w)
              \/ WorkerStep
              \/ Tick
              \/ \E c \in Cooldowns : SetCooldown(c)
              \/ \E i \in Devices : NetworkStep(i)
           /\ UNCHANGED moduleVars

ModuleNext == \/ StartLoad \/ LifeStep \/ StartUnload
              \/ \E w \in Writers : OpenFile(w) \/ ReleaseFile(w)
              \/ Operate

\* init and exit run in kernel threads that are scheduled in the end, as are
\* the writers and the worker; insmod, rmmod, open and close are up to users.
ModuleSpec ==
  /\ ModuleInit /\ [][ModuleNext]_allVars
  /\ WF_allVars(LifeStep)
  /\ \A w \in Writers : WF_allVars(WriteStep(w) /\ UNCHANGED moduleVars)
  /\ WF_allVars(WorkerStep /\ UNCHANGED moduleVars)
-----------------------------------------------------------------------------
\* The type invariant of the module's life.
ModuleTypeOK == /\ phase \in Phases
                /\ step \in 0..Len(Resources)
                /\ held \subseteq {Resources[n] : n \in 1..Len(Resources)}
                /\ files \subseteq Writers

\* Nothing outlives what it relies on.  A thread is inside net_watchdog_write
\* only while the module is neither half loaded nor on its way out; and neither
\* the last request before close() nor a failed load leaves work on, or a worker
\* of, a workqueue that is gone.
NothingOutlivesModule ==
  /\ (\E w \in Writers : wpc[w] # "idle") =>
       phase = "live" /\ held = {Resources[n] : n \in 1..Len(Resources)}
  /\ "workqueue" \notin held => ~pending /\ kpc = "idle" /\ busy = 0

\* A resource is never given back before one that was made from it: the device
\* node needs its class, the cdev its number; an unloaded module holds none.
ResourcesNested ==
  /\ "device" \in held => "class" \in held
  /\ "cdev" \in held => "chrdev_region" \in held
  /\ phase = "unloaded" => held = {}

\* rmmod and a failed insmod come to their end: flush_workqueue and
\* destroy_workqueue do not wait for ever.
UnloadCompletes == (phase \in {"unwind", "flush", "exit"}) ~> (phase = "unloaded")
=============================================================================
