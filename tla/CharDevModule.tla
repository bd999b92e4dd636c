---------------------------- MODULE CharDevModule ----------------------------
(* The life of the character device drivers of hsiao-kmod.  The examples       *)
(* 3_chardevtest, 5_new_chardevtest, 8_gpioled, 9_thread and 12_timer register *)
(* their device when the module is loaded; 22_i2c_at24, lpuart_interrupt and   *)
(* lpuart_polling do so when the kernel binds them to their hardware (probe),  *)
(* and undo it when it takes the hardware away (remove).  All walk along       *)
(* similar steps and differ in what a failing step leads to.  Programs may     *)
(* open the device as soon as there is a node and a cdev behind it, which is   *)
(* before the walk is over.                                                    *)
(*                                                                            *)
(* 12_timer.c does not compile as it stands (no semicolon after line 31, two  *)
(* members called dev); the model is of what is meant, with the device number *)
(* and the device pointer kept apart.                                         *)
EXTENDS Naturals, Sequences

CONSTANTS Procs,     \* programs, each with at most one file
          Drivers    \* the drivers considered

VARIABLES driver,    \* the driver this behaviour is about
          stage,     \* where the module is in its life
          at,        \* the next step of init (or probe), unwinding or exit
          done,      \* the steps of init that succeeded in this load
          kernel,    \* the kernel objects there are
          unbound,   \* the hardware was taken from the driver
          early,     \* a file was opened before init returned
          pc,        \* where each program is
          led        \* level of the LED's pin

lifeVars == <<driver, stage, at, done, kernel, unbound>>
charDevVars == <<lifeVars, early, pc, led>>

Examples == {"chardevtest", "new_chardevtest", "gpioled", "thread", "timer"}
PlatformDrivers == {"at24", "lpuart_interrupt", "lpuart_polling"}
AllDrivers == Examples \union PlatformDrivers
ASSUME DriversAssumption == Drivers \subseteq AllDrivers

LED_ON == 0
LED_OFF == 1

------------------------------------------------------------------------------
(* The steps of init.  A step that fails makes init return an error, or is    *)
(* ignored, or makes init return a positive number, which the kernel warns of *)
(* and takes for success, or jumps to the label that undoes the steps before; *)
(* some steps cannot fail.                                                    *)
Failures == {"returns", "ignored", "loads", "unwinds", "never"}
Step(name, failure) == [name |-> name, failure |-> failure]

Registration == <<Step("region", "returns"), Step("cdev", "returns"),
                  Step("class", "ignored"), Step("device", "ignored")>>

LedSetup == <<Step("tree", "returns"), Step("gpio", "returns"),
              Step("direction", "loads")>>

ChardevInit == <<Step("cdev", "loads")>>
NewChardevInit == Registration
GpioledInit == Registration \o LedSetup
ThreadInit == Registration \o LedSetup \o <<Step("lock", "never")>>
TimerLedInit == <<Step("tree", "returns"), Step("gpio", "returns"),
                  Step("direction", "returns"), Step("descriptor", "returns")>>
TimerInit == Registration \o TimerLedInit
               \o <<Step("timer", "never"), Step("period", "never")>>

(* The structure and what else is managed by the device (devm) comes first in *)
(* a probe function.  mutex_init and i2c_set_clientdata of at24_probe belong  *)
(* to the structure.                                                          *)
Node == <<Step("region", "unwinds"), Step("cdev", "unwinds"),
          Step("class", "unwinds"), Step("device", "unwinds")>>

At24Probe == <<Step("memory", "unwinds")>> \o Node
PollingProbe ==
  <<Step("memory", "unwinds"), Step("registers", "unwinds"), Step("clk", "unwinds")>>
    \o Node \o <<Step("drvdata", "never")>>
InterruptProbe ==
  <<Step("memory", "unwinds"), Step("registers", "unwinds"), Step("clk", "unwinds"),
    Step("irq", "unwinds")>>
    \o Node \o <<Step("drvdata", "never")>>

InitOf == [chardevtest |-> ChardevInit, new_chardevtest |-> NewChardevInit,
           gpioled |-> GpioledInit, thread |-> ThreadInit, timer |-> TimerInit,
           at24 |-> At24Probe, lpuart_interrupt |-> InterruptProbe,
           lpuart_polling |-> PollingProbe]
InitSteps == InitOf[driver]

(* The steps of exit.  gpio_free of a pin that was never requested changes    *)
(* nothing and is left out.                                                   *)
ChardevExit == <<"cdev">>
NewChardevExit == <<"class", "device", "cdev", "region">>
GpioledExit == <<"class", "device", "cdev", "region">>
ThreadExit == <<"class", "device", "cdev", "region">>
TimerExit == <<"timer", "class", "device", "cdev", "region">>

(* remove, after which the kernel frees what the device manages.              *)
Remove == <<"device", "class", "cdev", "region", "memory">>

ExitOf == [chardevtest |-> ChardevExit, new_chardevtest |-> NewChardevExit,
           gpioled |-> GpioledExit, thread |-> ThreadExit, timer |-> TimerExit,
           at24 |-> Remove, lpuart_interrupt |-> Remove, lpuart_polling |-> Remove]
ExitSteps == ExitOf[driver]

Objects == {"memory", "region", "cdev", "class", "device"}

(* class_destroy unregisters the class, and device_destroy looks a device up  *)
(* in its class.                                                              *)
Destroyed(object) ==
  IF object = "device" /\ "class" \notin kernel THEN {} ELSE {object}

(* A device needs its class, and a name nobody has.                           *)
Possible(name) ==
  name = "device" => "class" \in kernel /\ "device" \notin kernel

------------------------------------------------------------------------------
(* The driver's functions can be called.  Taking the hardware away does not   *)
(* stop those who have a file, as long as there is the structure.             *)
Loaded == \/ stage \in {"init", "live"}
          \/ stage = "exit" /\ unbound /\ "memory" \in kernel

Opening == {"opening", "clocked", "off"}
FileOpen(p) == pc[p] \notin Opening \union {"idle", "lost"}

(* A program counts as a user of the module from the moment at which the      *)
(* kernel's open takes the reference (.owner = THIS_MODULE of the             *)
(* file_operations), which is where open starts here, to the end of release.  *)
InUse == \E p \in Procs : pc[p] # "idle"

CharDevInit ==
  /\ driver \in Drivers
  /\ stage = "out" /\ at = 1
  /\ done = {} /\ kernel = {}
  /\ unbound = FALSE /\ early = FALSE
  /\ pc = [p \in Procs |-> "idle"]
  /\ led = LED_OFF

(* insmod: the module's variables are as the file has them; for the others    *)
(* also the binding of the driver to its hardware, by insmod or by hand.      *)
Load ==
  /\ stage = "out"
  /\ stage' = "init" /\ at' = 1 /\ done' = {} /\ early' = FALSE /\ unbound' = FALSE
  /\ UNCHANGED <<driver, kernel, pc, led>>

(* Mutant: one step too many.                                                 *)
AdvanceTooFar ==
  /\ at' = at + 1
  /\ stage' = IF at > Len(InitSteps) THEN "live" ELSE "init"

Advance ==
  /\ at' = at + 1
  /\ stage' = IF at = Len(InitSteps) THEN "live" ELSE "init"

(* A step of init succeeds.  Setting the direction drives the pin high.       *)
InitStep(name) ==
  /\ stage = "init" /\ name = InitSteps[at].name
  /\ Possible(name)
  /\ done' = done \union {name}
  /\ kernel' = kernel \union ({name} \intersect Objects)
  /\ led' = IF name = "direction" THEN LED_OFF ELSE led
  /\ Advance
  /\ UNCHANGED <<driver, unbound, early, pc>>

(* A failure that init only mentions.                                         *)
IgnoreFailure ==
  /\ stage = "init" /\ InitSteps[at].failure = "ignored"
  /\ Advance
  /\ UNCHANGED <<driver, done, kernel, unbound, early, pc, led>>

(* A failure that init returns: no example undoes what it has done, and the   *)
(* kernel frees the module all the same.  A module that has left something    *)
(* behind is "spoiled", and its further life is not modelled.                 *)
ReturnError ==
  /\ stage = "init" /\ InitSteps[at].failure = "returns"
  /\ stage' = IF done \intersect Objects = {} THEN "out" ELSE "spoiled"
  /\ UNCHANGED <<driver, at, done, kernel, unbound, early, pc, led>>

(* A failure returned as a positive number: the module stays, and the rest of *)
(* init is never done.                                                        *)
ReturnPositive ==
  /\ stage = "init" /\ InitSteps[at].failure = "loads"
  /\ stage' = "live"
  /\ UNCHANGED <<driver, at, done, kernel, unbound, early, pc, led>>

(* Mutant: the label for the last step that succeeded is jumped over.         *)
JumpTooFar ==
  /\ stage = "init" /\ InitSteps[at].failure = "unwinds"
  /\ stage' = "unwind" /\ at' = IF at = 1 THEN 0 ELSE at - 2
  /\ UNCHANGED <<driver, done, kernel, unbound, early, pc, led>>

(* probe jumps to the label for the step that failed, and each label falls    *)
(* into the next; whatever the device manages is freed when probe is over.    *)
JumpToLabel ==
  /\ stage = "init" /\ InitSteps[at].failure = "unwinds"
  /\ stage' = "unwind" /\ at' = at - 1
  /\ UNCHANGED <<driver, done, kernel, unbound, early, pc, led>>

Unwind ==
  /\ stage = "unwind"
  /\ IF at > 1 THEN /\ kernel' = kernel \ Destroyed(InitSteps[at].name)
                    /\ at' = at - 1 /\ stage' = stage
               ELSE /\ kernel' = kernel \ {"memory"}
                    /\ at' = 0 /\ stage' = "out"
  /\ UNCHANGED <<driver, done, unbound, early, pc, led>>

(* Mutant: file_operations without .owner.                                    *)
UnloadUnowned ==
  /\ stage = "live"
  /\ stage' = "exit" /\ at' = 1
  /\ UNCHANGED <<driver, done, kernel, unbound, early, pc, led>>

(* rmmod, refused while the module is in use.                                 *)
Unload ==
  /\ stage = "live" /\ ~InUse
  /\ stage' = "exit" /\ at' = 1
  /\ UNCHANGED <<driver, done, kernel, unbound, early, pc, led>>

(* The hardware goes away, or its driver is unbound by hand: nobody asks      *)
(* whether the device is in use.                                              *)
Unbind ==
  /\ driver \in PlatformDrivers /\ stage = "live"
  /\ stage' = "exit" /\ at' = 1 /\ unbound' = TRUE
  /\ UNCHANGED <<driver, done, kernel, early, pc, led>>

(* A file that is still open when the structure is freed is more than can be  *)
(* modelled: the module is "spoiled".                                         *)
ExitStep(name) ==
  /\ stage = "exit" /\ name = ExitSteps[at]
  /\ kernel' = kernel \ Destroyed(name)
  /\ at' = at + 1
  /\ stage' = IF at < Len(ExitSteps) THEN "exit" ELSE IF InUse THEN "spoiled" ELSE "out"
  /\ UNCHANGED <<driver, done, unbound, early, pc, led>>

------------------------------------------------------------------------------
(* open() finds a node and the cdev of its number.  The node of 3_chardevtest *)
(* is made by hand.  A node left over from an earlier load has the number the *)
(* kernel gives out again, the first free one.                                *)
StartOpen(p) ==
  /\ pc[p] = "idle" /\ Loaded
  /\ "cdev" \in kernel
  /\ driver = "chardevtest" \/ "device" \in kernel
  /\ pc' = [pc EXCEPT ![p] = "opening"]
  /\ UNCHANGED <<lifeVars, early, led>>

(* The driver's open function returns success.                                *)
OpenedFrom(p, from) ==
  /\ pc[p] = from /\ Loaded
  /\ pc' = [pc EXCEPT ![p] = "open"]
  /\ early' = (early \/ stage = "init")
  /\ UNCHANGED <<lifeVars, led>>

Opened(p) == OpenedFrom(p, "opening")

(* The last close: the release function and the end of the module reference.  *)
Closed(p) ==
  /\ pc[p] \in {"open", "wrote", "refused"} /\ Loaded
  /\ pc' = [pc EXCEPT ![p] = "idle"]
  /\ UNCHANGED <<lifeVars, early, led>>

------------------------------------------------------------------------------
(* Unloading leaves nothing but the node: the class is destroyed before the   *)
(* device and takes with it the way to find the device, yet number and cdev   *)
(* are given back, so that the node leads nowhere.  A driver that was bound   *)
(* leaves nothing, wherever its probe failed and however it was removed.      *)
ExitLeavesOnlyNode ==
  stage = "out" => kernel \subseteq IF driver \in Examples THEN {"device"} ELSE {}

(* A file's private_data points into the structure that the device manages,   *)
(* and the cdev is a part of it.  Neither is used after it was freed, unless  *)
(* the hardware was taken away: what .owner holds back is rmmod only.         *)
StructureOutlivesFiles ==
  driver \in PlatformDrivers =>
    /\ "cdev" \in kernel => "memory" \in kernel
    /\ (\E p \in Procs : FileOpen(p)) => "memory" \in kernel \/ unbound

(* What the comment "Destroy device node" of the exit functions says.         *)
NodeDestroyed == stage = "out" => "device" \notin kernel

==============================================================================
