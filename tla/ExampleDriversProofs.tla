------------------------- MODULE ExampleDriversProofs -------------------------
(* Theorems about ExampleDrivers, for any number of programs, any periods and *)
(* each of the eight drivers: what loading, probing, unloading and removing   *)
(* leave behind, who has a file, the lock, the LED, the timer and the polled  *)
(* port.                                                                      *)
EXTENDS ExampleDrivers, FiniteSetTheorems, TLAPS

------------------------------------------------------------------------------
(* The inductive invariant                                                    *)

(* The types of the variables, by the part that owns them.                    *)
LifeTyped ==
  /\ driver \in AllDrivers /\ driver \in Drivers /\ stage \in Stages /\ at \in Nat
  /\ done \subseteq Names /\ kernel \subseteq Objects
  /\ unbound \in BOOLEAN /\ early \in BOOLEAN
  /\ pc \in [Procs -> Places]

LedTyped ==
  /\ led \in {LED_ON, LED_OFF}
  /\ default_thread_type \in Kinds /\ locked \in BOOLEAN
  /\ write_buf \in Status /\ asked \in [Procs -> Status]

TimerTyped ==
  /\ timer_period \in {0, MinPeriod, DefaultPeriod} \union Periods
  /\ pending \in BOOLEAN /\ closed \in BOOLEAN
  /\ callback \in {"none", "entered", "toggled", "rearmed"}

PortTyped ==
  /\ clock \in 0..MaxEnables /\ disturbed \subseteq Procs
  /\ enabled \in BOOLEAN /\ tdre \in BOOLEAN /\ rdrf \in BOOLEAN

(* The names of the first n steps of init or probe.                           *)
Named(n) == {InitSteps[k].name : k \in 1..n}

(* Init has done some of the steps before the one it stands at; only a probe  *)
(* function has labels.                                                       *)
Walk ==
  /\ stage = "init" => at \in 1..Len(InitSteps) /\ done \subseteq Named(at - 1)
  /\ stage = "exit" => at \in 1..Len(ExitSteps)
  /\ stage = "unwind" => at \in 0..Len(InitSteps) /\ driver \in PlatformDrivers
  /\ unbound => driver \in PlatformDrivers

(* The step of probe that makes an object.                                    *)
FirstRegistration == [at24 |-> 2, lpuart_polling |-> 4, lpuart_interrupt |-> 5][driver]

Place(object) ==
  [memory |-> 1, region |-> FirstRegistration, cdev |-> FirstRegistration + 1,
   class |-> FirstRegistration + 2, device |-> FirstRegistration + 3][object]

(* What a driver of the second kind holds follows from where it stands.       *)
Held ==
  driver \in PlatformDrivers =>
    /\ stage \in {"out", "spoiled"} => kernel = {}
    /\ stage = "init" => kernel = {object \in Objects : Place(object) < at}
    /\ stage = "live" => kernel = Objects
    /\ stage = "unwind" => kernel = {object \in Objects : Place(object) <= at}
    /\ stage = "exit" => kernel = {Remove[k] : k \in at..5}

(* What an example leaves is the node at most.                                *)
Left ==
  driver \in Examples =>
    /\ kernel \subseteq Objects \ {"memory"}
    /\ stage = "out" => kernel \subseteq {"device"}
    /\ stage = "init" => kernel \subseteq done \union {"device"}
    /\ stage = "exit" => \A k \in 1..at - 1 : ExitSteps[k] \in kernel => ExitSteps[k] = "device"
    /\ driver = "chardevtest" => kernel \subseteq {"cdev", "device"}

(* Programs open what is there, and only unbinding takes it from them.        *)
UsersOK ==
  /\ stage \in {"out", "unwind"} => ~InUse
  /\ stage = "exit" /\ ~unbound => ~InUse
  /\ stage = "spoiled" /\ driver \in PlatformDrivers => unbound
  /\ stage = "init" /\ InUse =>
       IF driver \in PlatformDrivers THEN "device" \in kernel ELSE "cdev" \in done

LifeInv == LifeTyped /\ Walk /\ Held /\ Left /\ UsersOK

(* The one file of 9_thread has the lock, and the buffer and the LED hold what *)
(* its program wrote.  The pin is known to a module that stayed.              *)
PinKnown ==
  driver = "thread" =>
    /\ stage = "init" /\ at > 6 => "gpio" \in done
    /\ stage = "live" => "gpio" \in done

LockHeld ==
  driver = "thread" /\ ~early =>
    /\ stage = "init" => \A p \in Procs : ~FileOpen(p)
    /\ \A p \in Procs : FileOpen(p) => locked
    /\ \A p, q \in Procs : FileOpen(p) /\ FileOpen(q) => p = q
    /\ \A p \in Procs : pc[p] = "copied" => write_buf = asked[p]
    /\ \A p \in Procs : pc[p] = "wrote" => led = asked[p]

(* A timer is armed between timer_setup and del_timer_sync, and a callback    *)
(* that is about to return has armed it.                                      *)
TimerOK ==
  /\ callback = "rearmed" => pending
  /\ Blinking => driver = "timer" /\ "timer" \in done
  /\ stage \in {"out", "spoiled"} \/ (stage = "exit" /\ at > 1) => ~Blinking

(* Whoever has the polled port open finds it clocked and on.                  *)
PortOK ==
  driver = "lpuart_polling" =>
    /\ \A p \in Procs : pc[p] \in {"clocked", "off"} \/ FileOpen(p) => clock > 0
    /\ (\E p \in Procs : FileOpen(p)) => enabled \/ \E p \in Procs : pc[p] = "off"
    /\ \A p \in Procs \ disturbed : /\ pc[p] = "put" => tdre
                                    /\ pc[p] = "get" => rdrf

IndInv == /\ LifeInv /\ LedTyped /\ TimerTyped /\ PortTyped
          /\ PinKnown /\ LockHeld /\ TimerOK /\ PortOK
------------------------------------------------------------------------------
(* The steps of init, probe, exit and remove                                  *)

(* A driver is one of the eight.                                              *)
LEMMA Kind == LifeTyped => (driver \in Examples <=> driver \notin PlatformDrivers)
  BY DEF LifeTyped, AllDrivers, Examples, PlatformDrivers

LEMMA At24Steps ==
  ASSUME driver = "at24"
  PROVE  /\ Len(InitSteps) = 5 /\ DOMAIN InitSteps = 1..5
         /\ InitSteps[1] = Step("memory", "unwinds")
         /\ InitSteps[2] = Step("region", "unwinds")
         /\ InitSteps[3] = Step("cdev", "unwinds")
         /\ InitSteps[4] = Step("class", "unwinds")
         /\ InitSteps[5] = Step("device", "unwinds")
  BY DEF InitSteps, InitOf, At24Probe, Node

LEMMA PollingSteps ==
  ASSUME driver = "lpuart_polling"
  PROVE  /\ Len(InitSteps) = 8 /\ DOMAIN InitSteps = 1..8
         /\ InitSteps[1] = Step("memory", "unwinds")
         /\ InitSteps[2] = Step("registers", "unwinds")
         /\ InitSteps[3] = Step("clk", "unwinds")
         /\ InitSteps[4] = Step("region", "unwinds")
         /\ InitSteps[5] = Step("cdev", "unwinds")
         /\ InitSteps[6] = Step("class", "unwinds")
         /\ InitSteps[7] = Step("device", "unwinds")
         /\ InitSteps[8] = Step("drvdata", "never")
  BY DEF InitSteps, InitOf, PollingProbe, Node

LEMMA InterruptSteps ==
  ASSUME driver = "lpuart_interrupt"
  PROVE  /\ Len(InitSteps) = 9 /\ DOMAIN InitSteps = 1..9
         /\ InitSteps[1] = Step("memory", "unwinds")
         /\ InitSteps[2] = Step("registers", "unwinds")
         /\ InitSteps[3] = Step("clk", "unwinds")
         /\ InitSteps[4] = Step("irq", "unwinds")
         /\ InitSteps[5] = Step("region", "unwinds")
         /\ InitSteps[6] = Step("cdev", "unwinds")
         /\ InitSteps[7] = Step("class", "unwinds")
         /\ InitSteps[8] = Step("device", "unwinds")
         /\ InitSteps[9] = Step("drvdata", "never")
  BY DEF InitSteps, InitOf, InterruptProbe, Node

(* Each object is made by one step of probe, the node after its class, and no *)
(* step fails once there is a node.                                           *)
ProbeShapeTo(last) ==
  /\ last \in Nat \ {0} /\ DOMAIN InitSteps = 1..last
  /\ Place("memory") = 1 /\ Place("class") < Place("device")
  /\ \A object \in Objects : Place(object) \in 1..last
  /\ \A k \in 1..last : InitSteps[k].name \in Names
  /\ \A k \in 1..last, object \in Objects :
       InitSteps[k].name = object <=> k = Place(object)
  /\ \A k \in 1..last : InitSteps[k].failure \in {"unwinds", "never"}
  /\ \A k \in 1..last : InitSteps[k].failure = "unwinds" => k <= Place("device")

ProbeShape == ProbeShapeTo(Len(InitSteps))

LEMMA ProbeSteps ==
  ASSUME driver \in PlatformDrivers
  PROVE  ProbeShape
<1>1. CASE driver = "at24"
  <2>1. /\ Place("memory") = 1 /\ Place("region") = 2 /\ Place("cdev") = 3
        /\ Place("class") = 4 /\ Place("device") = 5
    BY <1>1 DEF Place, FirstRegistration
  <2>2. \A k \in 1..5 : k = 1 \/ k = 2 \/ k = 3 \/ k = 4 \/ k = 5
    BY SMT
  <2>3. /\ \A k \in 1..5 : InitSteps[k].name \in Names
        /\ \A k \in 1..5 : InitSteps[k].failure \in {"unwinds", "never"}
        /\ \A k \in 1..5 : InitSteps[k].failure = "unwinds" => k <= 5
    BY <1>1, <2>2, At24Steps DEF Step, Names
  <2>4. \A k \in 1..5, object \in Objects :
          InitSteps[k].name = object <=> k = Place(object)
    BY <1>1, <2>1, <2>2, At24Steps, SMTT(30) DEF Step, Objects
  <2>5. \A object \in Objects : Place(object) \in 1..5
    BY <2>1 DEF Objects
  <2>6. /\ Len(InitSteps) = 5 /\ DOMAIN InitSteps = 1..5
    BY <1>1, At24Steps
  <2>7. ProbeShapeTo(5)
    BY <2>1, <2>3, <2>4, <2>5, <2>6 DEF ProbeShapeTo
  <2> QED BY <2>6, <2>7 DEF ProbeShape
<1>2. CASE driver = "lpuart_polling"
  <2>1. /\ Place("memory") = 1 /\ Place("region") = 4 /\ Place("cdev") = 5
        /\ Place("class") = 6 /\ Place("device") = 7
    BY <1>2 DEF Place, FirstRegistration
  <2>2. \A k \in 1..8 : k = 1 \/ k = 2 \/ k = 3 \/ k = 4 \/ k = 5 \/ k = 6 \/ k = 7 \/ k = 8
    BY SMT
  <2>3. /\ \A k \in 1..8 : InitSteps[k].name \in Names
        /\ \A k \in 1..8 : InitSteps[k].failure \in {"unwinds", "never"}
        /\ \A k \in 1..8 : InitSteps[k].failure = "unwinds" => k <= 7
    BY <1>2, <2>2, PollingSteps DEF Step, Names
  <2>4. \A k \in 1..8, object \in Objects :
          InitSteps[k].name = object <=> k = Place(object)
    BY <1>2, <2>1, <2>2, PollingSteps, SMTT(30) DEF Step, Objects
  <2>5. \A object \in Objects : Place(object) \in 1..8
    BY <2>1 DEF Objects
  <2>6. /\ Len(InitSteps) = 8 /\ DOMAIN InitSteps = 1..8
    BY <1>2, PollingSteps
  <2>7. ProbeShapeTo(8)
    BY <2>1, <2>3, <2>4, <2>5, <2>6 DEF ProbeShapeTo
  <2> QED BY <2>6, <2>7 DEF ProbeShape
<1>3. CASE driver = "lpuart_interrupt"
  <2>1. /\ Place("memory") = 1 /\ Place("region") = 5 /\ Place("cdev") = 6
        /\ Place("class") = 7 /\ Place("device") = 8
    BY <1>3 DEF Place, FirstRegistration
  <2>2. \A k \in 1..9 : k = 1 \/ k = 2 \/ k = 3 \/ k = 4 \/ k = 5 \/ k = 6 \/ k = 7 \/ k = 8 \/ k = 9
    BY SMT
  <2>3. /\ \A k \in 1..9 : InitSteps[k].name \in Names
        /\ \A k \in 1..9 : InitSteps[k].failure \in {"unwinds", "never"}
        /\ \A k \in 1..9 : InitSteps[k].failure = "unwinds" => k <= 8
    BY <1>3, <2>2, InterruptSteps DEF Step, Names
  <2>4. \A k \in 1..9, object \in Objects :
          InitSteps[k].name = object <=> k = Place(object)
    BY <1>3, <2>1, <2>2, InterruptSteps, SMTT(30) DEF Step, Objects
  <2>5. \A object \in Objects : Place(object) \in 1..9
    BY <2>1 DEF Objects
  <2>6. /\ Len(InitSteps) = 9 /\ DOMAIN InitSteps = 1..9
    BY <1>3, InterruptSteps
  <2>7. ProbeShapeTo(9)
    BY <2>1, <2>3, <2>4, <2>5, <2>6 DEF ProbeShapeTo
  <2> QED BY <2>6, <2>7 DEF ProbeShape
<1> QED BY <1>1, <1>2, <1>3 DEF PlatformDrivers

(* No example has labels or a structure of its own.                           *)
ExampleShape(last) ==
  /\ last \in Nat \ {0} /\ DOMAIN InitSteps = 1..last
  /\ \A k \in 1..last : InitSteps[k].name \in Names \ {"memory"}
  /\ \A k \in 1..last : InitSteps[k].failure # "unwinds"

LEMMA ChardevSteps ==
  ASSUME driver = "chardevtest"
  PROVE  /\ Len(InitSteps) = 1 /\ ExampleShape(1) /\ InitSteps[1].name = "cdev"
  BY SMTT(30) DEF InitSteps, InitOf, ChardevInit, Step, ExampleShape, Names

LEMMA NewChardevSteps ==
  ASSUME driver = "new_chardevtest"
  PROVE  Len(InitSteps) = 4 /\ ExampleShape(4)
  BY SMTT(30) DEF InitSteps, InitOf, NewChardevInit, Registration, Step, ExampleShape, Names

LEMMA GpioledSteps ==
  ASSUME driver = "gpioled"
  PROVE  Len(InitSteps) = 7 /\ ExampleShape(7)
  BY SMTT(30) DEF InitSteps, InitOf, GpioledInit, Registration, LedSetup, Step,
                  ExampleShape, Names

(* The pin of 9_thread is known after the sixth step, and only the seventh is *)
(* returned as a positive number.                                             *)
LEMMA ThreadSteps ==
  ASSUME driver = "thread"
  PROVE  /\ Len(InitSteps) = 8 /\ ExampleShape(8)
         /\ InitSteps[6].name = "gpio" /\ InitSteps[6].failure = "returns"
         /\ \A k \in 1..8 : InitSteps[k].failure = "loads" => k = 7
  BY SMTT(30) DEF InitSteps, InitOf, ThreadInit, Registration, LedSetup, Step,
                  ExampleShape, Names

(* No step of 12_timer fails once the timer is set up.                        *)
LEMMA TimerSteps ==
  ASSUME driver = "timer"
  PROVE  /\ Len(InitSteps) = 10 /\ ExampleShape(10)
         /\ \A k \in 1..10 : InitSteps[k].name = "timer" => k = 9
         /\ \A k \in 1..10 : InitSteps[k].failure = "returns" => k <= 8
  BY SMTT(30) DEF InitSteps, InitOf, TimerInit, Registration, TimerLedInit, Step,
                  ExampleShape, Names

LEMMA ExampleSteps ==
  ASSUME driver \in Examples
  PROVE  ExampleShape(Len(InitSteps))
  BY ChardevSteps, NewChardevSteps, GpioledSteps, ThreadSteps, TimerSteps DEF Examples

LEMMA StepNames ==
  ASSUME LifeTyped
  PROVE  /\ Len(InitSteps) \in Nat \ {0} /\ DOMAIN InitSteps = 1..Len(InitSteps)
         /\ \A k \in 1..Len(InitSteps) : InitSteps[k].name \in Names
  BY Kind, ProbeSteps, ExampleSteps DEF ProbeShape, ProbeShapeTo, ExampleShape

(* Exit gives back all that an example may have; remove gives everything back *)
(* in the opposite order.                                                     *)
LEMMA ExampleExits ==
  ASSUME driver \in Examples
  PROVE  /\ Len(ExitSteps) \in Nat \ {0} /\ DOMAIN ExitSteps = 1..Len(ExitSteps)
         /\ driver = "chardevtest" => Len(ExitSteps) = 1 /\ ExitSteps[1] = "cdev"
         /\ driver # "chardevtest" =>
              \A object \in Objects \ {"memory"} :
                \E k \in 1..Len(ExitSteps) : ExitSteps[k] = object
         /\ driver = "timer" => ExitSteps[1] = "timer"
<1>1. CASE driver = "chardevtest"
  BY <1>1 DEF ExitSteps, ExitOf, ChardevExit
<1>2. CASE driver = "timer"
  <2>1. /\ Len(ExitSteps) = 5 /\ DOMAIN ExitSteps = 1..5
        /\ ExitSteps[1] = "timer" /\ ExitSteps[2] = "class" /\ ExitSteps[3] = "device"
        /\ ExitSteps[4] = "cdev" /\ ExitSteps[5] = "region"
    BY <1>2 DEF ExitSteps, ExitOf, TimerExit
  <2> QED BY <1>2, <2>1 DEF Objects
<1>3. CASE driver \in {"new_chardevtest", "gpioled", "thread"}
  <2>1. /\ Len(ExitSteps) = 4 /\ DOMAIN ExitSteps = 1..4
        /\ ExitSteps[1] = "class" /\ ExitSteps[2] = "device"
        /\ ExitSteps[3] = "cdev" /\ ExitSteps[4] = "region"
    BY <1>3 DEF ExitSteps, ExitOf, NewChardevExit, GpioledExit, ThreadExit
  <2> QED BY <1>3, <2>1 DEF Objects
<1> QED BY <1>1, <1>2, <1>3 DEF Examples

LEMMA RemoveSteps ==
  /\ Remove[1] = "device" /\ Remove[2] = "class" /\ Remove[3] = "cdev"
  /\ Remove[4] = "region" /\ Remove[5] = "memory"
  /\ Len(Remove) = 5 /\ DOMAIN Remove = 1..5
  /\ driver \in PlatformDrivers => ExitSteps = Remove
<1>1. driver \in PlatformDrivers => ExitSteps = Remove
  BY DEF ExitSteps, ExitOf, PlatformDrivers
<1> QED BY <1>1 DEF Remove

(* The driver stays the same, and so do its steps.                            *)
LEMMA StepsStay ==
  ASSUME driver' = driver
  PROVE  /\ InitSteps' = InitSteps /\ ExitSteps' = ExitSteps
         /\ \A n \in Nat : Named(n)' = Named(n)
         /\ \A object \in Objects : Place(object)' = Place(object)
  BY DEF InitSteps, ExitSteps, Named, Place, FirstRegistration

(* One more step.                                                             *)
LEMMA NamedGrows ==
  ASSUME NEW n \in Nat
  PROVE  /\ Named(0) = {}
         /\ Named(n) \subseteq Named(n + 1)
         /\ InitSteps[n + 1].name \in Named(n + 1)
<1>1. \A k \in 1..n : k \in 1..(n + 1)
  BY SMT
<1>2. n + 1 \in 1..(n + 1) /\ 1..0 = {}
  BY SMT
<1> QED BY <1>1, <1>2 DEF Named
------------------------------------------------------------------------------
(* The life of a driver                                                       *)

LEMMA LifeInvInit == Init => LifeInv
<1> SUFFICES ASSUME Init PROVE LifeInv
  OBVIOUS
<1>1. /\ driver \in Drivers /\ stage = "out" /\ at = 1 /\ done = {} /\ kernel = {}
      /\ unbound = FALSE /\ early = FALSE /\ pc = [p \in Procs |-> "idle"]
  BY DEF Init, CharDevInit
<1>2. LifeTyped
  BY <1>1, DriversAssumption DEF LifeTyped, Stages, Places, AllDrivers
<1>3. Walk /\ Held /\ Left
  BY <1>1 DEF Walk, Held, Left
<1>4. UsersOK
  BY <1>1 DEF UsersOK, InUse
<1> QED BY <1>2, <1>3, <1>4 DEF LifeInv

LEMMA LoadKeepsLife == LifeInv /\ Load => LifeInv'
<1> SUFFICES ASSUME LifeInv, Load PROVE LifeInv'
  OBVIOUS
<1>1. /\ stage = "out" /\ stage' = "init" /\ at' = 1 /\ done' = {} /\ unbound' = FALSE
      /\ early' = FALSE /\ driver' = driver /\ kernel' = kernel /\ pc' = pc
  BY DEF Load
<1>2. LifeTyped'
  BY <1>1 DEF LifeInv, LifeTyped, Stages
<1>3. Len(InitSteps) \in Nat /\ 1 \in 1..Len(InitSteps)
  BY StepNames, SMT DEF LifeInv
<1>4. Walk'
  BY <1>1, <1>3, StepsStay DEF Walk
<1>5. Held'
  <2> SUFFICES ASSUME driver \in PlatformDrivers
               PROVE  kernel' = {object \in Objects : Place(object)' < at'}
    BY <1>1 DEF Held
  <2>1. \A object \in Objects : Place(object) \in Nat /\ ~(Place(object) < 1)
    BY ProbeSteps, SMT DEF ProbeShape, ProbeShapeTo
  <2> QED BY <1>1, <2>1, StepsStay DEF LifeInv, Held
<1>6. Left'
  BY <1>1 DEF LifeInv, Left
<1>7. UsersOK'
  BY <1>1 DEF LifeInv, UsersOK, InUse
<1> QED BY <1>2, <1>4, <1>5, <1>6, <1>7 DEF LifeInv

(* Where init stands, and where it goes on.                                   *)
LEMMA NextStep ==
  ASSUME LifeInv, stage = "init"
  PROVE  /\ at \in 1..Len(InitSteps) /\ done \subseteq Named(at - 1)
         /\ Len(InitSteps) \in Nat \ {0} /\ at \in Nat /\ at - 1 \in Nat
         /\ (at - 1) + 1 = at /\ (at + 1) - 1 = at
         /\ at # Len(InitSteps) => at + 1 \in 1..Len(InitSteps)
         /\ Named(at - 1) \subseteq Named(at) /\ InitSteps[at].name \in Named(at)
<1>1. at \in 1..Len(InitSteps) /\ done \subseteq Named(at - 1)
  BY DEF LifeInv, Walk
<1>2. Len(InitSteps) \in Nat \ {0}
  BY StepNames DEF LifeInv
<1>3. /\ at \in Nat /\ at - 1 \in Nat /\ (at - 1) + 1 = at /\ (at + 1) - 1 = at
      /\ at # Len(InitSteps) => at + 1 \in 1..Len(InitSteps)
  BY <1>1, <1>2, SMT
<1>4. Named(at - 1) \subseteq Named(at) /\ InitSteps[at].name \in Named(at)
  BY <1>3, NamedGrows
<1> QED BY <1>1, <1>2, <1>3, <1>4

LEMMA InitStepKeepsLife ==
  ASSUME LifeInv, NEW name \in Names, InitStep(name)
  PROVE  LifeInv'
<1>1. /\ stage = "init" /\ name = InitSteps[at].name
      /\ done' = done \union {name} /\ kernel' = kernel \union ({name} \intersect Objects)
      /\ at' = at + 1 /\ stage' = IF at = Len(InitSteps) THEN "live" ELSE "init"
      /\ UNCHANGED <<driver, unbound, early, pc>>
  BY DEF InitStep, Advance
<1>2. at \in 1..Len(InitSteps) /\ done \subseteq Named(at - 1)
  BY <1>1, NextStep
<1>3. /\ Len(InitSteps) \in Nat \ {0} /\ at \in Nat /\ at' - 1 = at
      /\ stage' = "init" => at' \in 1..Len(InitSteps)
  BY <1>1, NextStep
<1>4. LifeTyped'
  BY <1>1, <1>3 DEF LifeInv, LifeTyped, Stages
<1>5. Walk'
  <2>1. done' \subseteq Named(at)
    BY <1>1, NextStep
  <2>2. Named(at - 1)' = Named(at)
    BY <1>1, <1>3, StepsStay DEF Named
  <2> QED BY <1>1, <1>3, <2>1, <2>2, StepsStay DEF LifeInv, Walk
<1>6. Held'
  <2> SUFFICES ASSUME driver \in PlatformDrivers PROVE Held'
    BY <1>1 DEF Held
  <2>1. kernel = {object \in Objects : Place(object) < at}
    BY <1>1 DEF LifeInv, Held
  <2>2. /\ \A object \in Objects : Place(object) \in 1..Len(InitSteps)
        /\ \A object \in Objects : name = object <=> at = Place(object)
    BY <1>1, <1>2, ProbeSteps DEF ProbeShape, ProbeShapeTo
  <2>3. \A object \in Objects : object \in kernel' <=> Place(object) < at + 1
    BY <1>1, <1>3, <2>1, <2>2, SMT
  <2>4. kernel' \subseteq Objects
    BY <1>1, <2>1
  <2>5. stage' = "live" => kernel' = Objects
    <3> SUFFICES ASSUME stage' = "live" PROVE \A object \in Objects : object \in kernel'
      BY <2>4
    <3>1. at = Len(InitSteps)
      BY <1>1
    <3> QED BY <1>3, <2>2, <2>3, <3>1, SMT
  <2>6. stage' = "init" => kernel' = {object \in Objects : Place(object)' < at'}
    <3>1. \A object \in Objects : Place(object)' = Place(object)
      BY <1>1, StepsStay
    <3> QED BY <1>1, <2>3, <2>4, <3>1
  <2> QED BY <1>1, <2>5, <2>6 DEF Held
<1>7. Left'
  <2> SUFFICES ASSUME driver \in Examples PROVE Left'
    BY <1>1 DEF Left
  <2>1. name # "memory"
    BY <1>1, <1>2, ExampleSteps DEF ExampleShape
  <2>2. driver = "chardevtest" => name = "cdev"
    <3> SUFFICES ASSUME driver = "chardevtest" PROVE name = "cdev"
      OBVIOUS
    <3>1. Len(InitSteps) = 1 /\ InitSteps[1].name = "cdev"
      BY ChardevSteps
    <3>2. at = 1
      BY <1>2, <3>1, SMT
    <3> QED BY <1>1, <3>1, <3>2, Zenon
  <2> QED BY <1>1, <2>1, <2>2 DEF LifeInv, Left
<1>8. UsersOK'
  <2>1. InUse' = InUse
    BY <1>1 DEF InUse
  <2> QED BY <1>1, <2>1 DEF LifeInv, UsersOK
<1> QED BY <1>4, <1>5, <1>6, <1>7, <1>8 DEF LifeInv

(* A failure that is not undone.                                              *)
LEMMA FailureKeepsLife ==
  ASSUME LifeInv, IgnoreFailure \/ ReturnError \/ ReturnPositive
  PROVE  LifeInv'
<1>1. /\ stage = "init" /\ InitSteps[at].failure \in {"ignored", "returns", "loads"}
      /\ UNCHANGED <<driver, done, kernel, unbound, early, pc>>
  BY DEF IgnoreFailure, ReturnError, ReturnPositive
<1>2. at \in 1..Len(InitSteps) /\ done \subseteq Named(at - 1)
  BY <1>1, NextStep
<1>3. driver \in Examples
  <2>1. driver \notin PlatformDrivers
    BY <1>1, <1>2, ProbeSteps DEF ProbeShape, ProbeShapeTo
  <2> QED BY <2>1, Kind DEF LifeInv
<1>4. InUse' = InUse
  BY <1>1 DEF InUse
<1>5. CASE IgnoreFailure
  <2>1. at' = at + 1 /\ stage' = IF at = Len(InitSteps) THEN "live" ELSE "init"
    BY <1>5 DEF IgnoreFailure, Advance
  <2>2. /\ at \in Nat /\ at' - 1 = at
        /\ stage' = "init" => at' \in 1..Len(InitSteps)
    BY <1>1, <2>1, NextStep
  <2>3. done \subseteq Named(at) /\ Named(at - 1)' = Named(at)
    BY <1>1, <2>2, NextStep, StepsStay DEF Named
  <2>4. LifeTyped'
    BY <1>1, <2>1, <2>2 DEF LifeInv, LifeTyped, Stages
  <2>5. Walk'
    BY <1>1, <2>1, <2>2, <2>3, StepsStay DEF LifeInv, Walk
  <2>6. Held' /\ Left'
    BY <1>1, <1>3, <2>1, Kind DEF LifeInv, Held, Left, Examples, PlatformDrivers
  <2>7. UsersOK'
    BY <1>1, <1>4, <2>1 DEF LifeInv, UsersOK
  <2> QED BY <2>4, <2>5, <2>6, <2>7 DEF LifeInv
<1>6. CASE ReturnError
  <2>1. at' = at /\ stage' = IF done \intersect Objects = {} THEN "out" ELSE "spoiled"
    BY <1>6 DEF ReturnError
  <2>2. driver \notin PlatformDrivers
    BY <1>3, Kind DEF LifeInv
  <2>3. LifeTyped' /\ Walk' /\ Held'
    BY <1>1, <2>1, <2>2 DEF LifeInv, LifeTyped, Stages, Walk, Held
  <2>4. Left'
    BY <1>1, <2>1 DEF LifeInv, LifeTyped, Left
  <2>5. UsersOK'
    BY <1>1, <1>4, <2>1, <2>2 DEF LifeInv, UsersOK, Objects
  <2> QED BY <2>3, <2>4, <2>5 DEF LifeInv
<1>7. CASE ReturnPositive
  <2>1. at' = at /\ stage' = "live"
    BY <1>7 DEF ReturnPositive
  <2>2. driver \notin PlatformDrivers
    BY <1>3, Kind DEF LifeInv
  <2>3. LifeTyped' /\ Walk' /\ Held' /\ Left'
    BY <1>1, <2>1, <2>2 DEF LifeInv, LifeTyped, Stages, Walk, Held, Left
  <2>4. UsersOK'
    BY <1>1, <1>4, <2>1 DEF LifeInv, UsersOK
  <2> QED BY <2>3, <2>4 DEF LifeInv
<1> QED BY <1>5, <1>6, <1>7

(* No program has come when a step of probe fails: there is no node yet.      *)
LEMMA JumpKeepsLife == LifeInv /\ JumpToLabel => LifeInv'
<1> SUFFICES ASSUME LifeInv, JumpToLabel PROVE LifeInv'
  OBVIOUS
<1>1. /\ stage = "init" /\ InitSteps[at].failure = "unwinds"
      /\ stage' = "unwind" /\ at' = at - 1
      /\ UNCHANGED <<driver, done, kernel, unbound, early, pc>>
  BY DEF JumpToLabel
<1>2. at \in 1..Len(InitSteps) /\ Len(InitSteps) \in Nat /\ at \in Nat /\ at - 1 \in Nat
  BY <1>1, NextStep
<1>3. driver \in PlatformDrivers
  <2>1. driver \notin Examples
    BY <1>1, <1>2, ExampleSteps DEF ExampleShape
  <2> QED BY <2>1, Kind DEF LifeInv
<1>4. /\ kernel = {object \in Objects : Place(object) < at}
      /\ \A object \in Objects : Place(object) \in Nat
      /\ at <= Place("device")
  <2>1. \A object \in Objects : Place(object) \in Nat
    BY <1>2, <1>3, ProbeSteps, SMT DEF ProbeShape, ProbeShapeTo
  <2> QED BY <1>1, <1>2, <1>3, <2>1, ProbeSteps DEF LifeInv, Held, ProbeShape, ProbeShapeTo
<1>5. ~InUse'
  <2>1. "device" \in Objects
    BY DEF Objects
  <2>2. "device" \notin kernel
    BY <1>2, <1>4, <2>1, SMT
  <2> QED BY <1>1, <1>3, <2>2 DEF LifeInv, UsersOK, InUse
<1>6. LifeTyped'
  BY <1>1, <1>2 DEF LifeInv, LifeTyped, Stages
<1>7. Walk'
  <2>1. at - 1 \in 0..Len(InitSteps)
    BY <1>2, SMT
  <2> QED BY <1>1, <1>3, <2>1, StepsStay DEF LifeInv, Walk
<1>8. Held'
  <2>1. \A object \in Objects : Place(object) < at <=> Place(object) <= at - 1
    BY <1>2, <1>4, SMT
  <2>2. \A object \in Objects : Place(object)' = Place(object)
    BY <1>1, StepsStay
  <2> QED BY <1>1, <1>4, <2>1, <2>2 DEF Held
<1>9. Left' /\ UsersOK'
  BY <1>1, <1>3, <1>5, Kind DEF LifeInv, Left, UsersOK
<1> QED BY <1>6, <1>7, <1>8, <1>9 DEF LifeInv

(* Each label gives back what the step before it made.                        *)
LEMMA UnwindKeepsLife == LifeInv /\ Unwind => LifeInv'
<1> SUFFICES ASSUME LifeInv, Unwind PROVE LifeInv'
  OBVIOUS
<1>1. /\ stage = "unwind" /\ UNCHANGED <<driver, done, unbound, early, pc>>
      /\ at \in 0..Len(InitSteps) /\ driver \in PlatformDrivers
      /\ Len(InitSteps) \in Nat
  BY StepNames DEF Unwind, LifeInv, Walk
<1>2. /\ kernel = {object \in Objects : Place(object) <= at}
      /\ \A object \in Objects : Place(object) \in 1..Len(InitSteps)
      /\ \A object \in Objects : Place(object)' = Place(object)
      /\ {"memory", "class", "device"} \subseteq Objects
  BY <1>1, StepsStay, ProbeSteps DEF LifeInv, Held, ProbeShape, ProbeShapeTo, Objects
<1>3. InUse' = InUse /\ ~InUse
  BY <1>1 DEF LifeInv, UsersOK, InUse
<1>4. CASE at > 1
  <2>1. /\ kernel' = kernel \ Destroyed(InitSteps[at].name)
        /\ at' = at - 1 /\ stage' = "unwind"
    BY <1>1, <1>4 DEF Unwind
  <2>2. at \in 1..Len(InitSteps) /\ at - 1 \in 0..Len(InitSteps) /\ at - 1 \in Nat
    BY <1>1, <1>4, SMT
  <2>3. \A object \in Objects : InitSteps[at].name = object <=> at = Place(object)
    BY <1>1, <2>2, ProbeSteps DEF ProbeShape, ProbeShapeTo
  <2>4. Destroyed(InitSteps[at].name) = {InitSteps[at].name}
    <3>1. InitSteps[at].name = "device" => Place("class") < at
      BY <1>1, <1>2, <2>3, ProbeSteps DEF ProbeShape, ProbeShapeTo
    <3>2. Place("class") < at => "class" \in kernel
      BY <1>1, <1>2, SMT
    <3> QED BY <3>1, <3>2 DEF Destroyed
  <2>5. \A object \in Objects : object \in kernel' <=> Place(object) <= at - 1
    BY <1>1, <1>2, <2>1, <2>3, <2>4, SMT
  <2>6. kernel' \subseteq Objects
    BY <1>2, <2>1
  <2>7. Held'
    BY <1>1, <1>2, <2>1, <2>5, <2>6 DEF Held
  <2>8. LifeTyped' /\ Walk'
    BY <1>1, <2>1, <2>2, <2>6, StepsStay DEF LifeInv, LifeTyped, Walk
  <2>9. Left' /\ UsersOK'
    BY <1>1, <1>3, <2>1, Kind DEF LifeInv, Left, UsersOK
  <2> QED BY <2>7, <2>8, <2>9 DEF LifeInv
<1>5. CASE ~(at > 1)
  <2>1. kernel' = kernel \ {"memory"} /\ at' = 0 /\ stage' = "out"
    BY <1>1, <1>5 DEF Unwind
  <2>2. \A object \in Objects : Place(object) <= at => object = "memory"
    <3>1. \A object \in Objects : Place(object) <= at => Place(object) = 1
      BY <1>1, <1>2, <1>5, SMT
    <3>2. Place("memory") = 1 /\ 1 \in 1..Len(InitSteps)
      BY <1>1, <1>2, ProbeSteps DEF ProbeShape, ProbeShapeTo
    <3>3. \A object \in Objects : Place(object) = 1 => InitSteps[1].name = object
      BY <1>1, <3>2, ProbeSteps DEF ProbeShape, ProbeShapeTo
    <3> QED BY <1>2, <3>1, <3>2, <3>3
  <2>3. kernel' = {}
    BY <1>2, <2>1, <2>2
  <2>4. LifeTyped' /\ Walk' /\ Held'
    BY <1>1, <2>1, <2>3 DEF LifeInv, LifeTyped, Stages, Walk, Held
  <2>5. Left' /\ UsersOK'
    BY <1>1, <1>3, <2>1, Kind DEF LifeInv, Left, UsersOK
  <2> QED BY <2>4, <2>5 DEF LifeInv
<1> QED BY <1>4, <1>5

LEMMA UnloadKeepsLife == LifeInv /\ (Unload \/ Unbind) => LifeInv'
<1> SUFFICES ASSUME LifeInv, Unload \/ Unbind PROVE LifeInv'
  OBVIOUS
<1>1. /\ stage = "live" /\ stage' = "exit" /\ at' = 1
      /\ UNCHANGED <<driver, done, kernel, early, pc>>
      /\ \/ unbound' = unbound /\ ~InUse
         \/ unbound' = TRUE /\ driver \in PlatformDrivers
  BY DEF Unload, Unbind
<1>2. InUse' = InUse
  BY <1>1 DEF InUse
<1>3. LifeTyped'
  BY <1>1 DEF LifeInv, LifeTyped, Stages
<1>4. Walk'
  <2>1. 1 \in 1..Len(ExitSteps)
    <3>1. driver \in PlatformDrivers => Len(ExitSteps) = 5
      BY RemoveSteps
    <3>2. driver \in Examples => Len(ExitSteps) \in Nat \ {0}
      BY ExampleExits
    <3> QED BY <3>1, <3>2, Kind, SMT DEF LifeInv
  <2> QED BY <1>1, <2>1, StepsStay DEF LifeInv, Walk
<1>5. Held'
  <2> SUFFICES ASSUME driver \in PlatformDrivers PROVE Objects = {Remove[k] : k \in 1..5}
    BY <1>1 DEF LifeInv, Held
  <2>1. \A k \in 1..5 : k = 1 \/ k = 2 \/ k = 3 \/ k = 4 \/ k = 5
    BY SMT
  <2> QED BY <2>1, RemoveSteps DEF Objects
<1>6. Left'
  <2>1. 1..at' - 1 = {}
    BY <1>1, SMT
  <2> QED BY <1>1, <2>1 DEF LifeInv, Left
<1>7. UsersOK'
  BY <1>1, <1>2 DEF LifeInv, UsersOK
<1> QED BY <1>3, <1>4, <1>5, <1>6, <1>7 DEF LifeInv

LEMMA ExitKeepsLife ==
  ASSUME LifeInv, NEW name \in Names, ExitStep(name)
  PROVE  LifeInv'
<1>1. /\ stage = "exit" /\ name = ExitSteps[at] /\ kernel' = kernel \ Destroyed(name)
      /\ at' = at + 1
      /\ stage' = IF at < Len(ExitSteps) THEN "exit" ELSE IF InUse THEN "spoiled" ELSE "out"
      /\ UNCHANGED <<driver, done, unbound, early, pc>>
  BY DEF ExitStep
<1>2. InUse' = InUse
  BY <1>1 DEF InUse
<1>3. at \in 1..Len(ExitSteps) /\ at \in Nat /\ Len(ExitSteps) \in Nat
  BY <1>1, RemoveSteps, ExampleExits, Kind DEF LifeInv, Walk, LifeTyped
<1>4. /\ at < Len(ExitSteps) => at + 1 \in 1..Len(ExitSteps)
      /\ ~(at < Len(ExitSteps)) => at = Len(ExitSteps)
      /\ at + 1 \in Nat /\ (at + 1) - 1 = at
  BY <1>3, SMT
<1>5. LifeTyped'
  BY <1>1, <1>4 DEF LifeInv, LifeTyped, Stages
<1>6. Walk'
  BY <1>1, <1>4, StepsStay DEF LifeInv, Walk
<1>7. UsersOK'
  BY <1>1, <1>2 DEF LifeInv, UsersOK
<1>8. Held'
  <2> SUFFICES ASSUME driver \in PlatformDrivers PROVE Held'
    BY <1>1 DEF Held
  <2>1. kernel = {Remove[k] : k \in at..5} /\ name = Remove[at] /\ Len(ExitSteps) = 5
    BY <1>1, RemoveSteps DEF LifeInv, Held
  <2>2. \A k \in at..5 : k = at \/ k \in (at + 1)..5
    BY <1>3, SMT
  <2>3. \A k \in (at + 1)..5 : k \in at..5 /\ Remove[k] # Remove[at]
    <3>1. \A k \in 1..5 : k = 1 \/ k = 2 \/ k = 3 \/ k = 4 \/ k = 5
      BY SMT
    <3>2. \A k \in (at + 1)..5 : k \in 1..5 /\ k # at /\ k \in at..5 /\ at \in 1..5
      BY <1>3, <2>1, SMT
    <3>3. \A j, k \in 1..5 : j # k => Remove[j] # Remove[k]
      BY <3>1, RemoveSteps
    <3> QED BY <3>2, <3>3
  <2>4. Destroyed(name) = {name}
    <3>1. name = "device" => at = 1
      <4>1. at \in 1..5 /\ (at = 1 \/ at = 2 \/ at = 3 \/ at = 4 \/ at = 5)
        BY <1>3, <2>1, SMT
      <4> QED BY <2>1, <4>1, RemoveSteps
    <3>2. at = 1 => "class" \in kernel
      <4>1. at = 1 => 2 \in at..5
        BY SMT
      <4> QED BY <2>1, <4>1, RemoveSteps
    <3> QED BY <3>1, <3>2 DEF Destroyed
  <2>5. kernel' = {Remove[k] : k \in (at + 1)..5}
    BY <1>1, <2>1, <2>2, <2>3, <2>4
  <2>6. at = 5 => (at + 1)..5 = {}
    BY SMT
  <2>7. at < 5 \/ at = 5
    BY <1>4, <2>1
  <2> QED BY <1>1, <2>1, <2>5, <2>6, <2>7 DEF Held
<1>9. Left'
  <2> SUFFICES ASSUME driver \in Examples PROVE Left'
    BY <1>1 DEF Left
  <2>1. /\ kernel' \subseteq kernel /\ kernel \subseteq Objects \ {"memory"}
        /\ name = "device" \/ name \notin kernel'
    BY <1>1 DEF Destroyed, LifeInv, Left
  <2>2. \A k \in 1..at : ExitSteps[k] \in kernel' => ExitSteps[k] = "device"
    <3>1. \A k \in 1..at : k = at \/ k \in 1..at - 1
      BY <1>3, SMT
    <3>2. \A k \in 1..at - 1 : ExitSteps[k] \in kernel => ExitSteps[k] = "device"
      BY <1>1 DEF LifeInv, Left
    <3> QED BY <1>1, <2>1, <3>1, <3>2
  <2>3. at = Len(ExitSteps) => kernel' \subseteq {"device"}
    <3>1. CASE driver = "chardevtest"
      BY <1>1, <2>1, <3>1, ExampleExits DEF LifeInv, Left
    <3>2. CASE driver # "chardevtest"
      BY <2>1, <2>2, <3>2, ExampleExits
    <3> QED BY <3>1, <3>2
  <2>4. ~InUse
    <3>1. driver \notin PlatformDrivers
      BY Kind DEF LifeInv
    <3> QED BY <1>1, <3>1 DEF LifeInv, Walk, UsersOK
  <2> QED BY <1>1, <1>4, <2>1, <2>2, <2>3, <2>4, StepsStay DEF LifeInv, Left
<1> QED BY <1>5, <1>6, <1>7, <1>8, <1>9 DEF LifeInv

(* What programs, callbacks and the port do leaves the driver's life alone;   *)
(* programs come only while it is there.                                      *)
Comes(p) == /\ pc[p] = "idle" /\ Loaded /\ "cdev" \in kernel
            /\ driver = "chardevtest" \/ "device" \in kernel

LEMMA VisitorsKeepLife ==
  ASSUME LifeInv, UNCHANGED lifeVars, early' \in BOOLEAN, pc' \in [Procs -> Places],
         \A p \in Procs : pc'[p] # "idle" => pc[p] # "idle" \/ Comes(p)
  PROVE  LifeInv'
<1>1. UNCHANGED <<driver, stage, at, done, kernel, unbound>>
  BY DEF lifeVars
<1>2. LifeTyped' /\ Walk' /\ Held' /\ Left'
  BY <1>1, StepsStay DEF LifeInv, LifeTyped, Walk, Held, Left, Named
<1>3. UsersOK'
  <2>1. CASE InUse
    BY <1>1, <2>1 DEF LifeInv, UsersOK, InUse
  <2>2. CASE ~InUse
    <3> SUFFICES ASSUME NEW p \in Procs, Comes(p) PROVE UsersOK'
      BY <1>1, <2>2 DEF LifeInv, UsersOK, InUse
    <3>1. /\ Loaded /\ "cdev" \in kernel
          /\ driver \in PlatformDrivers => "device" \in kernel
      BY DEF Comes, PlatformDrivers
    <3>2. stage = "init" => IF driver \in PlatformDrivers THEN "device" \in kernel
                                                         ELSE "cdev" \in done
      BY <3>1, Kind DEF LifeInv, Left
    <3> QED BY <1>1, <3>1, <3>2 DEF LifeInv, UsersOK, Loaded
  <2> QED BY <2>1, <2>2
<1> QED BY <1>2, <1>3 DEF LifeInv

(* One step of a program moves that program.                                  *)
Visit(p) == \/ Begin(p) \/ OpenStep(p) \/ WriteStep(p) \/ UartStep(p)
            \/ Ioctl(p) \/ Close(p) \/ Signal(p)

Moves(p, to) == /\ pc' = [pc EXCEPT ![p] = to] /\ to \in Places
                /\ pc[p] = "idle" => Comes(p)
                /\ UNCHANGED lifeVars
                /\ (early' = early \/ early' = (early \/ stage = "init"))

LEMMA VisitMoves ==
  ASSUME NEW p \in Procs, Visit(p)
  PROVE  \E to \in Places : Moves(p, to)
<1> USE DEF Moves, Places
<1>1. CASE Begin(p)
  BY <1>1 DEF Begin, StartOpen, Comes
<1>2. CASE Led_Open(p) \/ Signal(p)
  BY <1>2 DEF Signal, Led_Open, Acquire, Busy, Interrupted, Oops, NotOpened, OpenFreely,
              Opened, OpenedFrom
<1>3. CASE uart_open(p)
  BY <1>3 DEF uart_open, EnableClock, CtrlOff, CtrlOn, Polling, Go, OpenedFrom
<1>4. CASE WriteStep(p)
  <2>1. CASE SetLed(p)
    BY <2>1 DEF SetLed
  <2>2. CASE \E status \in Status : CopyFromUser(p, status)
    BY <2>2 DEF CopyFromUser
  <2> QED BY <1>4, <2>1, <2>2 DEF WriteStep
<1>5. CASE UartStep(p)
  BY <1>5 DEF UartStep, StartCall, uart_call, PollTransmitter, PutByte, PollReceiver,
              GetByte, Go, Polling
<1>6. CASE Ioctl(p)
  BY <1>6 DEF Ioctl, OpenCmd, StartCloseCmd, IoctlStep, CloseCmd, TestPending, Rearm,
              StorePeriod, Command
<1>7. CASE Close(p)
  BY <1>7 DEF Close, Led_Release, Closed
<1> QED BY <1>1, <1>2, <1>3, <1>4, <1>5, <1>6, <1>7 DEF Visit, OpenStep

LEMMA LifeInvStep == LifeInv /\ [Next]_vars => LifeInv'
<1> SUFFICES ASSUME LifeInv, [Next]_vars PROVE LifeInv'
  OBVIOUS
<1>1. CASE Insmod
  BY <1>1, LoadKeepsLife DEF Insmod
<1>2. ASSUME NEW name \in Names, InitCalls(name) \/ ExitCalls(name)
      PROVE  LifeInv'
  BY <1>2, InitStepKeepsLife, ExitKeepsLife DEF InitCalls, ExitCalls
<1>3. CASE InitFails
  BY <1>3, FailureKeepsLife, JumpKeepsLife, UnwindKeepsLife DEF InitFails
<1>4. CASE Rmmod
  BY <1>4, UnloadKeepsLife DEF Rmmod
<1>5. ASSUME NEW p \in Procs, Visit(p)
      PROVE  LifeInv'
  <2>1. PICK to \in Places : Moves(p, to)
    BY <1>5, VisitMoves
  <2>2. /\ UNCHANGED lifeVars /\ early' \in BOOLEAN /\ pc' \in [Procs -> Places]
        /\ \A q \in Procs : pc'[q] # "idle" => pc[q] # "idle" \/ Comes(q)
    BY <2>1 DEF Moves, LifeInv, LifeTyped
  <2> QED BY <2>2, VisitorsKeepLife
<1>6. CASE CallbackStep \/ PortStep \/ UNCHANGED vars
  <2>1. /\ UNCHANGED lifeVars /\ early' = early /\ pc' = pc
    BY <1>6 DEF CallbackStep, Timer_Callback, Expire, Toggle, RearmItself,
                ReturnFromCallback, PortStep, Port, vars, charDevVars
  <2>2. early' \in BOOLEAN /\ pc' \in [Procs -> Places]
    BY <2>1 DEF LifeInv, LifeTyped
  <2> QED BY <2>1, <2>2, VisitorsKeepLife
<1> QED BY <1>1, <1>2, <1>3, <1>4, <1>5, <1>6 DEF Next, LifeStep, Visit
------------------------------------------------------------------------------
(* The types of the rest                                                      *)

LEMMA LedTypedStep == LifeInv /\ LedTyped /\ [Next]_vars => LedTyped'
<1> SUFFICES ASSUME LifeInv, LedTyped, [Next]_vars PROVE LedTyped'
  OBVIOUS
<1> USE DEF LedTyped, exclusiveVars, lockVars, ledVars
<1>1. CASE Insmod
  BY <1>1 DEF Insmod, Load, ResetLock, Blank, Status, LED_ON
<1>2. ASSUME NEW name \in Names, InitCalls(name)
      PROVE  LedTyped'
  BY <1>2 DEF InitCalls, InitStep, InitLock, LED_OFF
<1>3. ASSUME NEW name \in Names, ExitCalls(name)
      PROVE  LedTyped'
  BY <1>3 DEF ExitCalls, ExitStep
<1>4. CASE InitFails \/ Rmmod
  BY <1>4 DEF InitFails, IgnoreFailure, ReturnError, ReturnPositive, JumpToLabel, Unwind,
              Rmmod, Unload, Unbind
<1>5. CASE CallbackStep \/ PortStep \/ UNCHANGED vars
  <2>1. 1 - led \in {LED_ON, LED_OFF}
    <3>1. led = 0 \/ led = 1
      BY DEF LED_ON, LED_OFF
    <3>2. CASE led = 0
      BY <3>2, SMT DEF LED_ON, LED_OFF
    <3>3. CASE led = 1
      BY <3>3, SMT DEF LED_ON, LED_OFF
    <3> QED BY <3>1, <3>2, <3>3
  <2> QED BY <1>5, <2>1
      DEF CallbackStep, Timer_Callback, Expire, Toggle, RearmItself, ReturnFromCallback,
          PortStep, Port, vars, charDevVars
<1>6. ASSUME NEW p \in Procs, Visit(p)
      PROVE  LedTyped'
  <2>1. CASE Begin(p) \/ Close(p) \/ Signal(p)
    BY <2>1 DEF Begin, StartOpen, Close, Closed, Led_Release, Signal, Interrupted, NotOpened
  <2>2. CASE OpenStep(p)
    BY <2>2 DEF OpenStep, Led_Open, Acquire, Busy, Oops, NotOpened, OpenFreely, Opened,
                OpenedFrom, uart_open, EnableClock, CtrlOff, CtrlOn, Go
  <2>3. CASE UartStep(p)
    BY <2>3 DEF UartStep, StartCall, uart_call, PollTransmitter, PutByte, PollReceiver,
                GetByte, Go
  <2>4. CASE Ioctl(p)
    BY <2>4 DEF Ioctl, OpenCmd, StartCloseCmd, IoctlStep, CloseCmd, TestPending, Rearm,
                StorePeriod, Command
  <2>5. CASE SetLed(p)
    BY <2>5 DEF SetLed
  <2>6. ASSUME NEW status \in Status, CopyFromUser(p, status)
        PROVE  LedTyped'
    BY <2>6 DEF CopyFromUser
  <2> QED BY <1>6, <2>1, <2>2, <2>3, <2>4, <2>5, <2>6 DEF Visit, WriteStep
<1> QED BY <1>1, <1>2, <1>3, <1>4, <1>5, <1>6 DEF Next, LifeStep, Visit

LEMMA TimerTypedStep == TimerTyped /\ [Next]_vars => TimerTyped'
<1> SUFFICES ASSUME TimerTyped, [Next]_vars PROVE TimerTyped'
  OBVIOUS
<1> USE DEF TimerTyped, timerVars, del_timer_sync
<1>0. (pending \/ "timer" \in done) \in BOOLEAN
  OBVIOUS
<1>1. CASE Insmod
  BY <1>1 DEF Insmod, ResetTimer
<1>2. ASSUME NEW name \in Names, InitCalls(name)
      PROVE  TimerTyped'
  BY <1>2 DEF InitCalls, SetupTimer
<1>3. ASSUME NEW name \in Names, ExitCalls(name)
      PROVE  TimerTyped'
  BY <1>3 DEF ExitCalls, DeleteAtExit
<1>4. CASE InitFails \/ Rmmod \/ PortStep \/ UNCHANGED vars
  BY <1>4 DEF InitFails, Rmmod, PortStep, vars
<1>5. CASE CallbackStep
  BY <1>0, <1>5 DEF CallbackStep, Timer_Callback, Expire, Toggle, RearmItself,
                    ReturnFromCallback, mod_timer
<1>6. ASSUME NEW p \in Procs, Visit(p)
      PROVE  TimerTyped'
  <2>1. CASE ~Ioctl(p)
    BY <1>6, <2>1 DEF Visit, Begin, OpenStep, WriteStep, UartStep, Close, Signal
  <2>2. CASE OpenCmd(p) \/ StartCloseCmd(p) \/ IoctlStep(p)
    BY <1>0, <2>2 DEF OpenCmd, StartCloseCmd, IoctlStep, CloseCmd, TestPending, Rearm,
                      mod_timer
  <2>3. ASSUME NEW new_period \in Periods, StorePeriod(p, new_period)
        PROVE  TimerTyped'
    BY <2>3 DEF StorePeriod
  <2> QED BY <2>1, <2>2, <2>3 DEF Ioctl
<1> QED BY <1>1, <1>2, <1>3, <1>4, <1>5, <1>6 DEF Next, LifeStep, Visit

LEMMA PortTypedStep == PortTyped /\ [Next]_vars => PortTyped'
<1> SUFFICES ASSUME PortTyped, [Next]_vars PROVE PortTyped'
  OBVIOUS
<1> USE DEF PortTyped, pollingVars, portVars
<1>1. CASE Insmod \/ InitFails \/ Rmmod \/ CallbackStep \/ UNCHANGED vars
  BY <1>1 DEF Insmod, InitFails, Rmmod, CallbackStep, vars
<1>2. ASSUME NEW name \in Names, InitCalls(name) \/ ExitCalls(name)
      PROVE  PortTyped'
  BY <1>2 DEF InitCalls, ExitCalls
<1>3. CASE PortStep
  BY <1>3 DEF PortStep, Port
<1>4. ASSUME NEW p \in Procs, Visit(p)
      PROVE  PortTyped'
  <2>1. CASE ~UartStep(p) /\ ~uart_open(p)
    BY <1>4, <2>1 DEF Visit, Begin, OpenStep, WriteStep, Ioctl, Close, Signal
  <2>2. CASE uart_open(p)
    <3>1. clock < MaxEnables => clock + 1 \in 0..MaxEnables
      BY MaxEnablesAssumption, SMT
    <3> QED BY <2>2, <3>1 DEF uart_open, EnableClock, CtrlOff, CtrlOn
  <2>3. CASE UartStep(p)
    BY <2>3 DEF UartStep, StartCall, uart_call, PollTransmitter, PutByte, PollReceiver,
                GetByte, Disturb
  <2> QED BY <2>1, <2>2, <2>3
<1> QED BY <1>1, <1>2, <1>3, <1>4 DEF Next, LifeStep, Visit
------------------------------------------------------------------------------
(* The timer                                                                  *)

(* A step of init that fails comes before timer_setup.                        *)
LEMMA FailsBeforeTimer ==
  ASSUME LifeInv, driver = "timer", stage = "init", InitSteps[at].failure = "returns"
  PROVE  "timer" \notin done
<1>1. /\ at \in 1..Len(InitSteps) /\ done \subseteq Named(at - 1) /\ Len(InitSteps) = 10
  BY NextStep, TimerSteps
<1>2. at \in 1..10 /\ at <= 8
  BY <1>1, TimerSteps
<1>3. \A k \in 1..at - 1 : k \in 1..10 /\ k # 9
  BY <1>2, SMT
<1>4. "timer" \notin Named(at - 1)
  BY <1>3, TimerSteps DEF Named
<1> QED BY <1>1, <1>4

LEMMA TimerOKStep ==
  ASSUME LifeInv, TimerTyped, TimerOK, [Next]_vars
  PROVE  TimerOK'
<1> USE DEF TimerOK, Blinking, timerVars, TimerTyped
<1>1. CASE Insmod
  BY <1>1 DEF Insmod, Load, ResetTimer
<1>2. ASSUME NEW name \in Names, InitCalls(name)
      PROVE  TimerOK'
  BY <1>2 DEF InitCalls, InitStep, SetupTimer, Advance
<1>3. ASSUME NEW name \in Names, ExitCalls(name)
      PROVE  TimerOK'
  <2>1. CASE driver = "timer" /\ at = 1
    <3>1. name = "timer"
      BY <1>3, <2>1, ExampleExits DEF ExitCalls, ExitStep, Examples
    <3> QED BY <1>3, <3>1 DEF ExitCalls, ExitStep, DeleteAtExit, del_timer_sync
  <2>2. CASE ~(driver = "timer" /\ at = 1)
    <3>1. ~Blinking
      <4>1. stage = "exit" /\ at \in Nat /\ at \in 1..Len(ExitSteps)
        BY <1>3 DEF ExitCalls, ExitStep, LifeInv, LifeTyped, Walk
      <4>2. at = 1 \/ at > 1
        BY <4>1, SMT
      <4> QED BY <2>2, <4>1, <4>2
    <3> QED BY <1>3, <3>1 DEF ExitCalls, ExitStep, DeleteAtExit, del_timer_sync
  <2> QED BY <2>1, <2>2
<1>4. CASE InitFails
  <2>1. CASE IgnoreFailure \/ ReturnPositive
    BY <1>4, <2>1 DEF InitFails, IgnoreFailure, ReturnPositive, Advance
  <2>2. CASE ReturnError
    BY <1>4, <2>2, FailsBeforeTimer DEF InitFails, ReturnError
  <2>3. CASE JumpToLabel
    BY <1>4, <2>3 DEF InitFails, JumpToLabel
  <2>4. CASE Unwind
    <3>1. ~Blinking
      BY <2>4 DEF Unwind, LifeInv, Walk, PlatformDrivers
    <3> QED BY <1>4, <2>4, <3>1 DEF InitFails, Unwind
  <2> QED BY <1>4, <2>1, <2>2, <2>3, <2>4 DEF InitFails
<1>5. CASE Rmmod
  <2>1. at' = 1 /\ stage' = "exit" /\ UNCHANGED <<driver, done, timerVars>>
    BY <1>5 DEF Rmmod, Unload, Unbind
  <2>2. ~(at' > 1)
    BY <2>1, SMT
  <2> QED BY <2>1, <2>2
<1>6. CASE PortStep \/ UNCHANGED vars
  BY <1>6 DEF PortStep, Port, vars, charDevVars, lifeVars
<1>7. CASE CallbackStep
  <2>1. Blinking /\ UNCHANGED lifeVars
    BY <1>7 DEF CallbackStep, Timer_Callback, Expire, Toggle, RearmItself,
                ReturnFromCallback, charDevVars
  <2>2. callback' = "rearmed" => pending'
    BY <1>7, <2>1 DEF CallbackStep, Timer_Callback, Expire, Toggle, RearmItself,
                      ReturnFromCallback, mod_timer
  <2> QED BY <2>1, <2>2 DEF lifeVars
<1>8. ASSUME NEW p \in Procs, Visit(p)
      PROVE  TimerOK'
  <2>1. UNCHANGED lifeVars
    <3>1. PICK to \in Places : Moves(p, to)
      BY <1>8, VisitMoves
    <3> QED BY <3>1 DEF Moves
  <2>2. CASE ~Ioctl(p)
    BY <1>8, <2>1, <2>2 DEF Visit, Begin, OpenStep, WriteStep, UartStep, Close, Signal,
                            lifeVars
  <2>3. CASE Ioctl(p)
    <3>1. driver = "timer" /\ Loaded
      BY <2>3 DEF Ioctl, OpenCmd, StartCloseCmd, IoctlStep, CloseCmd, TestPending, Rearm,
                  StorePeriod, Command
    <3>2. stage \in {"init", "live"}
      BY <3>1 DEF Loaded, LifeInv, Walk, PlatformDrivers
    <3>3. Blinking' => Blinking \/ "timer" \in done
      BY <2>3 DEF Ioctl, OpenCmd, StartCloseCmd, IoctlStep, CloseCmd, TestPending, Rearm,
                  StorePeriod, mod_timer, del_timer_sync
    <3>4. callback' = "rearmed" => pending'
      BY <2>3 DEF Ioctl, OpenCmd, StartCloseCmd, IoctlStep, CloseCmd, TestPending, Rearm,
                  StorePeriod, mod_timer, del_timer_sync
    <3> QED BY <2>1, <3>1, <3>2, <3>3, <3>4 DEF lifeVars
  <2> QED BY <2>2, <2>3
<1> QED BY <1>1, <1>2, <1>3, <1>4, <1>5, <1>6, <1>7, <1>8 DEF Next, LifeStep, Visit
------------------------------------------------------------------------------
(* The lock, the buffer and the LED of 9_thread                               *)

LEMMA PinKnownStep ==
  ASSUME LifeInv, PinKnown, [Next]_vars
  PROVE  PinKnown'
<1> SUFFICES ASSUME driver = "thread", driver' = driver PROVE PinKnown'
  <2>1. driver' = driver
    <3>1. CASE \E p \in Procs : Visit(p)
      <4> SUFFICES ASSUME NEW p \in Procs, Visit(p) PROVE driver' = driver
        BY <3>1
      <4>1. PICK to \in Places : Moves(p, to)
        BY VisitMoves
      <4> QED BY <4>1 DEF Moves, lifeVars
    <3>2. CASE ~\E p \in Procs : Visit(p)
      BY <3>2 DEF Next, Visit, Insmod, Load, LifeStep, InitFails, IgnoreFailure, ReturnError,
          ReturnPositive, JumpToLabel, Unwind, InitCalls, InitStep, ExitCalls, ExitStep,
          Rmmod, Unload, Unbind, CallbackStep, Timer_Callback, Expire, Toggle, RearmItself,
          ReturnFromCallback, PortStep, Port, vars, charDevVars, lifeVars
    <3> QED BY <3>1, <3>2
  <2> QED BY <2>1 DEF PinKnown
<1>1. stage = "init" => at \in 1..8 /\ Len(InitSteps) = 8
  BY ThreadSteps DEF LifeInv, Walk
<1>2. stage = "init" => at \in Nat /\ (at + 1 > 6 => at = 6 \/ at > 6)
  BY <1>1, SMT
<1>3. CASE Insmod
  <2>1. at' = 1 /\ stage' = "init"
    BY <1>3 DEF Insmod, Load
  <2>2. ~(at' > 6)
    BY <2>1, SMT
  <2> QED BY <2>1, <2>2 DEF PinKnown
<1>4. ASSUME NEW name \in Names, InitCalls(name)
      PROVE  PinKnown'
  <2>1. /\ stage = "init" /\ at' = at + 1 /\ done' = done \union {name}
        /\ name = InitSteps[at].name
        /\ stage' = "live" => at = 8
    BY <1>1, <1>4 DEF InitCalls, InitStep, Advance
  <2>2. at' > 6 => "gpio" \in done'
    BY <1>2, <2>1, ThreadSteps DEF PinKnown
  <2>3. stage' = "live" => at' > 6
    BY <2>1, SMT
  <2> QED BY <2>2, <2>3 DEF PinKnown
<1>5. ASSUME NEW name \in Names, ExitCalls(name)
      PROVE  PinKnown'
  BY <1>5 DEF ExitCalls, ExitStep, PinKnown
<1>6. CASE InitFails
  <2>1. CASE IgnoreFailure
    <3>1. stage = "init" /\ at' = at + 1 /\ done' = done /\ (stage' = "live" => at = 8)
      BY <1>1, <2>1 DEF IgnoreFailure, Advance
    <3>2. at # 6
      BY <2>1, ThreadSteps DEF IgnoreFailure
    <3>3. at' > 6 => at > 6
      BY <1>2, <3>1, <3>2
    <3>4. stage' = "live" => at > 6
      BY <3>1, SMT
    <3> QED BY <3>1, <3>3, <3>4 DEF PinKnown
  <2>2. CASE ReturnPositive
    <3>1. stage = "init" /\ at = 7 /\ done' = done /\ at' = at /\ stage' = "live"
      BY <1>1, <2>2, ThreadSteps DEF ReturnPositive
    <3>2. at > 6
      BY <3>1, SMT
    <3> QED BY <3>1, <3>2 DEF PinKnown
  <2>3. CASE ReturnError \/ JumpToLabel \/ Unwind
    BY <2>3 DEF ReturnError, JumpToLabel, Unwind, PinKnown
  <2> QED BY <1>6, <2>1, <2>2, <2>3 DEF InitFails
<1>7. CASE Rmmod
  BY <1>7 DEF Rmmod, Unload, Unbind, PinKnown
<1>8. CASE CallbackStep \/ PortStep \/ UNCHANGED vars
  BY <1>8 DEF CallbackStep, Timer_Callback, Expire, Toggle, RearmItself, ReturnFromCallback,
              PortStep, Port, vars, charDevVars, lifeVars, PinKnown
<1>9. ASSUME NEW p \in Procs, Visit(p)
      PROVE  PinKnown'
  <2>1. PICK to \in Places : Moves(p, to)
    BY <1>9, VisitMoves
  <2> QED BY <2>1 DEF Moves, lifeVars, PinKnown
<1> QED BY <1>3, <1>4, <1>5, <1>6, <1>7, <1>8, <1>9 DEF Next, LifeStep, Visit

(* The flag or lock is kept, handed over or free with nobody inside.          *)
LEMMA LockHeldStep ==
  ASSUME LifeInv, LedTyped, PinKnown, TimerOK, LockHeld, [Next]_vars
  PROVE  LockHeld'
<1> USE DEF exclusiveVars, lockVars, ledVars, lifeVars
<1>1. CASE Insmod
  <2>1. \A p \in Procs : pc'[p] = "idle"
    BY <1>1 DEF Insmod, Load, LifeInv, UsersOK, InUse
  <2> QED BY <2>1 DEF LockHeld, FileOpen
<1>2. ASSUME NEW name \in Names, InitCalls(name)
      PROVE  LockHeld'
  <2>1. stage = "init" /\ UNCHANGED <<driver, early, pc>>
    BY <1>2 DEF InitCalls, InitStep
  <2>2. driver = "thread" /\ ~early => \A p \in Procs : ~FileOpen(p)
    BY <2>1 DEF LockHeld
  <2> QED BY <2>1, <2>2 DEF LockHeld, FileOpen, Opening
<1>3. ASSUME NEW name \in Names, ExitCalls(name)
      PROVE  LockHeld'
  <2>1. stage' # "init" /\ UNCHANGED <<driver, early, pc, led, exclusiveVars>>
    BY <1>3 DEF ExitCalls, ExitStep
  <2> QED BY <2>1 DEF LockHeld, FileOpen
<1>4. CASE InitFails \/ Rmmod
  <2>1. (stage' = "init" => stage = "init") /\ UNCHANGED <<driver, early, pc, led, exclusiveVars>>
    BY <1>4 DEF InitFails, IgnoreFailure, ReturnError, ReturnPositive, JumpToLabel, Unwind,
                Rmmod, Unload, Unbind
  <2> QED BY <2>1 DEF LockHeld, FileOpen
<1>5. CASE PortStep \/ UNCHANGED vars
  <2>1. UNCHANGED <<driver, stage, early, pc, led, exclusiveVars>>
    BY <1>5 DEF PortStep, Port, vars, charDevVars
  <2> QED BY <2>1 DEF LockHeld, FileOpen
<1>6. CASE CallbackStep
  <2>1. driver = "timer" /\ driver' = driver
    BY <1>6 DEF CallbackStep, Timer_Callback, Expire, Toggle, RearmItself, ReturnFromCallback,
                TimerOK, Blinking, charDevVars
  <2> QED BY <2>1 DEF LockHeld
<1>7. ASSUME NEW p \in Procs, Visit(p)
      PROVE  LockHeld'
  <2>1. PICK to \in Places : Moves(p, to)
    BY <1>7, VisitMoves
  <2>2. /\ pc' = [pc EXCEPT ![p] = to] /\ pc \in [Procs -> Places]
        /\ UNCHANGED <<driver, stage, done>>
        /\ (early' = early \/ early' = (early \/ stage = "init"))
    BY <2>1 DEF Moves, LifeInv, LifeTyped
  <2>a. early => early'
    BY <2>2
  <2> SUFFICES ASSUME driver = "thread", ~early, ~early' PROVE LockHeld'
    BY <2>2, <2>a DEF LockHeld
  <2>3. /\ stage = "init" => \A q \in Procs : ~FileOpen(q)
        /\ \A q \in Procs : FileOpen(q) => locked
        /\ \A q, r \in Procs : FileOpen(q) /\ FileOpen(r) => q = r
        /\ \A q \in Procs : pc[q] = "copied" => write_buf = asked[q]
        /\ \A q \in Procs : pc[q] = "wrote" => led = asked[q]
    BY DEF LockHeld
  <2>4. \A q \in Procs : q # p => pc'[q] = pc[q]
    BY <2>2
  <2>5. CASE Begin(p) \/ Signal(p) \/ Busy(p) \/ Oops(p)
    <3>1. /\ pc[p] \in {"idle", "opening"} /\ pc'[p] \in {"opening", "idle", "lost"}
          /\ UNCHANGED <<led, exclusiveVars>>
      BY <2>2, <2>5 DEF Begin, StartOpen, Signal, Interrupted, Busy, Oops, NotOpened
    <3> QED BY <2>2, <2>3, <2>4, <3>1 DEF LockHeld, FileOpen, Opening
  <2>6. CASE Acquire(p)
    <3>1. /\ ~locked /\ locked' /\ pc'[p] = "open" /\ stage # "init"
          /\ UNCHANGED <<led, write_buf, asked>>
      BY <2>2, <2>6 DEF Acquire, Opened, OpenedFrom
    <3>2. \A q \in Procs : ~FileOpen(q)
      BY <2>3, <3>1
    <3>3. \A q \in Procs : FileOpen(q)' => q = p
      BY <2>4, <3>2 DEF FileOpen
    <3>4. \A q \in Procs : pc'[q] \notin {"copied", "wrote"}
      BY <2>4, <3>1, <3>2 DEF FileOpen, Opening
    <3> QED BY <2>2, <3>1, <3>3, <3>4 DEF LockHeld
  <2>7. CASE Close(p)
    <3>1. /\ FileOpen(p) /\ pc'[p] = "idle" /\ UNCHANGED <<led, write_buf, asked>>
      BY <2>2, <2>7 DEF Close, Led_Release, Closed, FileOpen, Opening
    <3>2. \A q \in Procs : ~FileOpen(q)'
      BY <2>3, <2>4, <3>1 DEF FileOpen
    <3>3. \A q \in Procs : pc'[q] \notin {"copied", "wrote"}
      BY <3>2 DEF FileOpen, Opening
    <3> QED BY <3>2, <3>3 DEF LockHeld
  <2>8. ASSUME NEW status \in Status, CopyFromUser(p, status)
        PROVE  LockHeld'
    <3>1. /\ FileOpen(p) /\ pc'[p] \in {"copied", "refused"} /\ UNCHANGED <<led, locked>>
          /\ write_buf' = status /\ asked' = [asked EXCEPT ![p] = status]
      BY <2>2, <2>8 DEF CopyFromUser, FileOpen, Opening
    <3>2. asked'[p] = status
      BY <3>1 DEF LedTyped
    <3>3. \A q \in Procs : FileOpen(q)' => FileOpen(q) /\ q = p
      BY <2>3, <2>4, <3>1 DEF FileOpen
    <3>4. \A q \in Procs : pc'[q] \in {"copied", "wrote"} => q = p
      BY <3>3 DEF FileOpen, Opening
    <3> QED BY <2>2, <2>3, <3>1, <3>2, <3>3, <3>4 DEF LockHeld
  <2>9. CASE SetLed(p)
    <3>1. /\ FileOpen(p) /\ pc[p] = "copied" /\ Loaded /\ UNCHANGED <<locked, write_buf, asked>>
          /\ pc'[p] = "wrote" => write_buf \in {LED_ON, LED_OFF}
          /\ pc'[p] \in {"wrote", "refused"}
          /\ led' = IF write_buf \in {LED_ON, LED_OFF} /\ "gpio" \in done THEN write_buf ELSE led
      BY <2>2, <2>9 DEF SetLed, FileOpen, Opening
    <3>2. "gpio" \in done
      BY <2>3, <3>1 DEF Loaded, LifeInv, Walk, PlatformDrivers, PinKnown
    <3>3. \A q \in Procs : FileOpen(q)' => FileOpen(q) /\ q = p
      BY <2>3, <2>4, <3>1 DEF FileOpen
    <3>4. \A q \in Procs : pc'[q] \in {"copied", "wrote"} => q = p
      BY <3>3 DEF FileOpen, Opening
    <3>5. pc'[p] = "wrote" => led' = asked'[p]
      BY <2>3, <3>1, <3>2
    <3> QED BY <2>2, <2>3, <3>1, <3>3, <3>4, <3>5 DEF LockHeld
  <2>10. ~OpenFreely(p) /\ ~uart_open(p) /\ ~UartStep(p) /\ ~Ioctl(p)
    BY DEF OpenFreely, uart_open, EnableClock, CtrlOff, CtrlOn, UartStep, StartCall, uart_call,
           PollTransmitter, PutByte, PollReceiver, GetByte, Go, Polling, Ioctl, OpenCmd,
           StartCloseCmd, IoctlStep, CloseCmd, TestPending, Rearm, StorePeriod, Command
  <2> QED BY <1>7, <2>5, <2>6, <2>7, <2>8, <2>9, <2>10 DEF Visit, OpenStep, Led_Open, WriteStep
<1> QED BY <1>1, <1>2, <1>3, <1>4, <1>5, <1>6, <1>7 DEF Next, LifeStep, Visit
------------------------------------------------------------------------------
(* The polled port                                                            *)

LEMMA PortOKStep ==
  ASSUME LifeInv, PortTyped, PortOK, [Next]_vars
  PROVE  PortOK'
<1> USE DEF pollingVars, portVars, lifeVars
<1>1. CASE UNCHANGED <<driver, pc, pollingVars>>
  BY <1>1 DEF PortOK, FileOpen
<1>2. CASE Insmod \/ InitFails \/ Rmmod \/ CallbackStep \/ UNCHANGED vars
  BY <1>1, <1>2 DEF Insmod, Load, InitFails, IgnoreFailure, ReturnError, ReturnPositive,
       JumpToLabel, Unwind, Rmmod, Unload, Unbind, CallbackStep, Timer_Callback, Expire,
       Toggle, RearmItself, ReturnFromCallback, vars, charDevVars
<1>3. ASSUME NEW name \in Names, InitCalls(name) \/ ExitCalls(name)
      PROVE  PortOK'
  BY <1>1, <1>3 DEF InitCalls, InitStep, ExitCalls, ExitStep
<1>4. CASE PortStep
  BY <1>4 DEF PortStep, Port, charDevVars, PortOK, FileOpen
<1>5. ASSUME NEW p \in Procs, Visit(p)
      PROVE  PortOK'
  <2>1. PICK to \in Places : Moves(p, to)
    BY <1>5, VisitMoves
  <2>2. /\ pc' = [pc EXCEPT ![p] = to] /\ pc \in [Procs -> Places] /\ driver' = driver
        /\ \A q \in Procs : q # p => pc'[q] = pc[q]
        /\ pc'[p] = to
    BY <2>1 DEF Moves, LifeInv, LifeTyped
  <2> SUFFICES ASSUME driver = "lpuart_polling" PROVE PortOK'
    BY <2>2 DEF PortOK
  <2>3. /\ \A q \in Procs : pc[q] \in {"clocked", "off"} \/ FileOpen(q) => clock > 0
        /\ (\E q \in Procs : FileOpen(q)) => enabled \/ \E q \in Procs : pc[q] = "off"
        /\ \A q \in Procs \ disturbed : pc[q] = "put" => tdre
        /\ \A q \in Procs \ disturbed : pc[q] = "get" => rdrf
    BY DEF PortOK
  <2>4. clock \in Nat
    BY MaxEnablesAssumption DEF PortTyped
  <2>5. CASE ~UartStep(p) /\ ~uart_open(p)
    <3>1. /\ UNCHANGED pollingVars
          /\ \/ pc[p] = "idle" /\ to = "opening"
             \/ pc[p] \in {"open", "copied", "wrote", "refused"}
                  /\ to \in {"idle", "wrote", "refused"}
      BY <1>5, <2>2, <2>5
         DEF Visit, Begin, StartOpen, OpenStep, Led_Open, Acquire, Busy, Oops, OpenFreely,
             NotOpened, WriteStep, SetLed, CopyFromUser, Led, Ioctl, OpenCmd, StartCloseCmd,
             IoctlStep, CloseCmd, TestPending, Rearm, StorePeriod, Command, Close, Led_Release,
             Closed, Signal, Interrupted
    <3> QED BY <2>2, <2>3, <3>1 DEF PortOK, FileOpen, Opening
  <2>6. CASE EnableClock(p)
    <3>1. /\ UNCHANGED <<enabled, tdre, rdrf, disturbed>> /\ pc[p] = "opening"
          /\ \/ to = "idle" /\ clock' = clock
             \/ to = "clocked" /\ clock' = clock + 1
      BY <2>2, <2>6 DEF EnableClock, Go, Polling
    <3>2. clock' > 0 \/ (clock' = clock /\ to = "idle")
      BY <2>4, <3>1, SMT
    <3>3. /\ \A q \in Procs : FileOpen(q)' => FileOpen(q)
          /\ \A q \in Procs : pc[q] = "off" => pc'[q] = "off"
          /\ \A q \in Procs : pc'[q] \in {"put", "get"} => pc[q] = pc'[q]
          /\ to = "idle" => \A q \in Procs : pc'[q] \in {"clocked", "off"} => pc[q] = pc'[q]
      BY <2>2, <3>1 DEF FileOpen, Opening
    <3> QED BY <2>3, <3>1, <3>2, <3>3 DEF PortOK
  <2>7. CASE CtrlOff(p)
    <3>1. UNCHANGED <<clock, tdre, rdrf, disturbed>> /\ pc[p] = "clocked" /\ to = "off"
      BY <2>2, <2>7 DEF CtrlOff, Go, Polling
    <3> QED BY <2>2, <2>3, <3>1 DEF PortOK, FileOpen, Opening
  <2>8. CASE CtrlOn(p)
    <3>1. /\ UNCHANGED <<clock, tdre, rdrf, disturbed>> /\ pc[p] = "off" /\ to = "open"
          /\ enabled'
      BY <2>2, <2>8 DEF CtrlOn, OpenedFrom
    <3> QED BY <2>2, <2>3, <3>1 DEF PortOK, FileOpen, Opening
  <2>9. CASE UartStep(p)
    <3>1. /\ UNCHANGED <<clock, enabled>> /\ pc[p] # "off" /\ FileOpen(p)
      BY <2>9 DEF UartStep, StartCall, uart_call, PollTransmitter, PutByte, PollReceiver,
                  GetByte, Go, Polling, FileOpen, Opening
    <3>2. /\ \A q \in Procs : (pc[q] \in {"clocked", "off"} \/ FileOpen(q))' => clock' > 0
          /\ (\E q \in Procs : FileOpen(q)') => enabled' \/ \E q \in Procs : pc'[q] = "off"
      BY <2>2, <2>3, <3>1 DEF FileOpen
    <3>3. CASE StartCall(p)
      <4>1. UNCHANGED pollingVars /\ to \in {"sending", "receiving"}
        BY <2>2, <3>3 DEF StartCall, Go
      <4> QED BY <2>2, <2>3, <3>2, <4>1 DEF PortOK
    <3>4. CASE PollTransmitter(p)
      <4>1. /\ tdre /\ UNCHANGED portVars /\ to = "put" /\ disturbed' = disturbed \ {p}
        BY <2>2, <3>4 DEF PollTransmitter, Go
      <4> QED BY <2>2, <2>3, <3>2, <4>1 DEF PortOK
    <3>5. CASE PutByte(p)
      <4>1. /\ rdrf' = rdrf /\ to \in {"sending", "open"}
            /\ disturbed' = disturbed \union {q \in Procs \ {p} : pc[q] = "put"}
        BY <2>2, <3>5 DEF PutByte, Go, Disturb
      <4>2. \A q \in Procs \ disturbed' : pc'[q] # "put" /\ q \notin disturbed
        BY <2>2, <4>1
      <4> QED BY <2>2, <2>3, <3>2, <4>1, <4>2 DEF PortOK
    <3>6. CASE PollReceiver(p)
      <4>1. /\ rdrf /\ UNCHANGED portVars /\ to = "get" /\ disturbed' = disturbed \ {p}
        BY <2>2, <3>6 DEF PollReceiver, Go
      <4> QED BY <2>2, <2>3, <3>2, <4>1 DEF PortOK
    <3>7. CASE GetByte(p)
      <4>1. /\ tdre' = tdre /\ to = "open"
            /\ disturbed' = disturbed \union {q \in Procs \ {p} : pc[q] = "get"}
        BY <2>2, <3>7 DEF GetByte, Go, Disturb
      <4>2. \A q \in Procs \ disturbed' : pc'[q] # "get" /\ q \notin disturbed
        BY <2>2, <4>1
      <4> QED BY <2>2, <2>3, <3>2, <4>1, <4>2 DEF PortOK
    <3> QED BY <2>9, <3>3, <3>4, <3>5, <3>6, <3>7 DEF UartStep, uart_call
  <2> QED BY <2>5, <2>6, <2>7, <2>8, <2>9 DEF uart_open
<1> QED BY <1>2, <1>3, <1>4, <1>5 DEF Next, LifeStep, Visit
------------------------------------------------------------------------------
(* The invariant holds at first and is kept by every step.                    *)

LEMMA InitIndInv == Init => IndInv
<1> SUFFICES ASSUME Init PROVE IndInv
  OBVIOUS
<1> USE DEF Init, CharDevInit, ExclusiveInit, TimerInitial, PollingInit
<1>1. LifeInv
  BY LifeInvInit
<1>2. LedTyped /\ TimerTyped /\ TimerOK
  BY DEF LedTyped, TimerTyped, TimerOK, Blinking, Kinds, Blank, Status, LED_ON, LED_OFF
<1>3. PortTyped
  <2>1. 0 \in 0..MaxEnables
    BY MaxEnablesAssumption, SMT
  <2> QED BY <2>1 DEF PortTyped
<1>4. PinKnown /\ LockHeld /\ PortOK
  BY DEF PinKnown, LockHeld, PortOK, FileOpen, Opening
<1> QED BY <1>1, <1>2, <1>3, <1>4 DEF IndInv

LEMMA NextIndInv == IndInv /\ [Next]_vars => IndInv'
  BY LifeInvStep, LedTypedStep, TimerTypedStep, PortTypedStep, PinKnownStep, LockHeldStep,
     TimerOKStep, PortOKStep
     DEF IndInv

(* For every driver, any programs and periods the invariant always holds.     *)
THEOREM DriversKeepInvariant == Spec => []IndInv
  BY InitIndInv, NextIndInv, PTL DEF Spec
------------------------------------------------------------------------------
(* What follows from it                                                       *)

(* The variables have their types, and init and exit stand at one of their    *)
(* steps.                                                                     *)
THEOREM DriversTyped == Spec => []TypeOK
<1>1. IndInv => TypeOK
  <2> SUFFICES ASSUME IndInv PROVE TypeOK
    OBVIOUS
  <2>1. /\ stage = "init" => at \in DOMAIN InitSteps
        /\ stage = "exit" => at \in DOMAIN ExitSteps
    BY Kind, StepNames, ExampleExits, RemoveSteps DEF IndInv, LifeInv, Walk
  <2> QED BY <2>1 DEF IndInv, LifeInv, LifeTyped, LedTyped, TimerTyped, PortTyped, TypeOK
<1> QED BY <1>1, DriversKeepInvariant, PTL

(* Wherever probe fails, its labels give back what it has made; remove gives  *)
(* back everything, and exit all but the node.                                *)
THEOREM LittleIsLeft == Spec => []ExitLeavesOnlyNode
<1>1. IndInv => ExitLeavesOnlyNode
  BY Kind DEF IndInv, LifeInv, Held, Left, ExitLeavesOnlyNode
<1> QED BY <1>1, DriversKeepInvariant, PTL

(* The structure a file and the cdev point to is there as long as they are,   *)
(* unless the hardware was taken away.                                        *)
THEOREM StructureIsKept == Spec => []StructureOutlivesFiles
<1>1. IndInv => StructureOutlivesFiles
  <2> SUFFICES ASSUME IndInv, driver \in PlatformDrivers PROVE StructureOutlivesFiles
    BY DEF StructureOutlivesFiles
  <2>1. /\ Place("memory") = 1
        /\ \A object \in Objects : Place(object) \in Nat /\ Place(object) >= 1
    BY ProbeSteps DEF ProbeShape, ProbeShapeTo
  <2>2. /\ stage \in Stages /\ at \in Nat
        /\ kernel \subseteq Objects
    BY DEF IndInv, LifeInv, LifeTyped
  <2>3. stage \in {"init", "unwind"} /\ kernel # {} => "memory" \in kernel
    <3>1. \A object \in Objects : /\ Place(object) < at => 1 < at
                                  /\ Place(object) <= at => 1 <= at
      BY <2>1, <2>2, SMT
    <3> QED BY <2>1, <2>2, <3>1 DEF IndInv, LifeInv, Held, Objects
  <2>4. stage = "exit" => "memory" \in kernel
    <3>1. stage = "exit" => at \in 1..5
      BY RemoveSteps DEF IndInv, LifeInv, Walk
    <3>2. at \in 1..5 => 5 \in at..5
      BY SMT
    <3> QED BY <3>1, <3>2, RemoveSteps DEF IndInv, LifeInv, Held
  <2>5. stage = "live" => "memory" \in kernel
    BY DEF IndInv, LifeInv, Held, Objects
  <2>6. "cdev" \in kernel => "memory" \in kernel
    BY <2>2, <2>3, <2>4, <2>5 DEF IndInv, LifeInv, Held, Stages
  <2>7. (\E p \in Procs : FileOpen(p)) => "memory" \in kernel \/ unbound
    <3>1. (\E p \in Procs : FileOpen(p)) => InUse
      BY DEF FileOpen, InUse
    <3> QED BY <2>2, <2>3, <2>4, <2>5, <3>1 DEF IndInv, LifeInv, UsersOK, Stages
  <2> QED BY <2>6, <2>7 DEF StructureOutlivesFiles
<1> QED BY <1>1, DriversKeepInvariant, PTL

(* 9_thread has one file open at a time, unless one was opened before init    *)
(* was over.                                                                  *)
THEOREM OneFileAtATime == Spec => []OneFileUnlessEarly
<1>1. IndInv => OneFileUnlessEarly
  <2> DEFINE Holders == {p \in Procs : FileOpen(p)}
  <2> SUFFICES ASSUME IndInv, driver = "thread", ~early PROVE Cardinality(Holders) <= 1
    BY DEF OneFileUnlessEarly
  <2>1. \A p, q \in Holders : p = q
    BY DEF IndInv, LockHeld
  <2> HIDE DEF Holders
  <2>2. CASE Holders = {}
    BY <2>2, FS_EmptySet, SMT
  <2>3. CASE Holders # {}
    <3>1. PICK p \in Holders : Holders = {p}
      BY <2>1, <2>3
    <3> QED BY <3>1, FS_Singleton, SMT
  <2> QED BY <2>2, <2>3
<1> QED BY <1>1, DriversKeepInvariant, PTL

(* Whoever wrote sees the own value on the LED until the file is closed.      *)
THEOREM LedBelongsToWriter == Spec => []LedIsMine
<1>1. IndInv => LedIsMine
  BY DEF IndInv, LockHeld, LedIsMine
<1> QED BY <1>1, DriversKeepInvariant, PTL

(* No callback is armed or runs once exit has deleted the timer.              *)
THEOREM NoCallbackWithoutCode == Spec => []TimerGoneBeforeCode
<1>1. IndInv => TimerGoneBeforeCode
  <2> SUFFICES ASSUME IndInv, driver = "timer", ~Loaded, ~(stage = "exit" /\ at = 1)
               PROVE  ~Blinking
    BY DEF TimerGoneBeforeCode
  <2>1. stage \in {"out", "exit", "spoiled"}
    BY DEF Loaded, IndInv, LifeInv, LifeTyped, Walk, Stages, PlatformDrivers
  <2>2. stage = "exit" => at > 1
    <3>1. stage = "exit" => at \in Nat /\ at >= 1 /\ at # 1
      BY DEF IndInv, LifeInv, LifeTyped, Walk
    <3> QED BY <3>1, SMT
  <2> QED BY <2>1, <2>2 DEF IndInv, TimerOK
<1> QED BY <1>1, DriversKeepInvariant, PTL

(* A blinking LED stops only when a CLOSE returns or exit deletes the timer.  *)
THEOREM BlinkingGoesOn == Spec => BlinksUntilClosed
<1> DEFINE Closing == \E p \in Procs : pc[p] = "deleting" /\ pc'[p] = "open"
<1>1. IndInv /\ [Next]_vars =>
        [Blinking /\ ~Blinking' => Closing \/ stage = "exit"]_<<charDevVars, timerVars>>
  <2> SUFFICES ASSUME LifeInv, TimerTyped, TimerOK, [Next]_vars, Blinking, ~Blinking'
               PROVE  Closing \/ stage = "exit"
    BY DEF IndInv
  <2> USE DEF Blinking, TimerOK, TimerTyped, timerVars
  <2>1. CASE Insmod
    BY <2>1 DEF Insmod, Load
  <2>2. ASSUME NEW name \in Names, InitCalls(name) \/ ExitCalls(name)
        PROVE  Closing \/ stage = "exit"
    BY <2>2 DEF InitCalls, SetupTimer, ExitCalls, ExitStep
  <2>3. CASE InitFails \/ Rmmod \/ PortStep \/ UNCHANGED vars
    BY <2>3 DEF InitFails, Rmmod, PortStep, vars
  <2>4. CASE CallbackStep
    BY <2>4 DEF CallbackStep, Timer_Callback, Expire, Toggle, RearmItself,
                ReturnFromCallback, mod_timer
  <2>5. ASSUME NEW p \in Procs, Visit(p)
        PROVE  Closing
    <3>1. CloseCmd(p)
      BY <2>5 DEF Visit, Begin, OpenStep, WriteStep, UartStep, Close, Signal, Ioctl, OpenCmd,
                  StartCloseCmd, StorePeriod, IoctlStep, TestPending, Rearm, mod_timer
    <3> QED BY <3>1 DEF CloseCmd, Command, LifeInv, LifeTyped
  <2> QED BY <2>1, <2>2, <2>3, <2>4, <2>5 DEF Next, LifeStep, Visit
<1> QED BY <1>1, DriversKeepInvariant, PTL DEF Spec, BlinksUntilClosed

(* The polled port is clocked and on for those who use it, and what a poll    *)
(* found holds unless another came in between.                                *)
THEOREM PortIsReady == Spec => []PortReady
<1>1. IndInv => PortReady
  <2>1. \A p \in Users : FileOpen(p)
    BY DEF Users, FileOpen, Opening
  <2>2. Users \subseteq Procs
    BY DEF Users
  <2> QED BY <2>1, <2>2 DEF IndInv, PortOK, PortReady
<1> QED BY <1>1, DriversKeepInvariant, PTL
------------------------------------------------------------------------------
(* A closed timer                                                             *)

OneFileOpen == \A p, q \in Procs : FileOpen(p) /\ FileOpen(q) => p = q

(* After CLOSE no SETPERIOD that found the timer armed is still to arm it.    *)
CloseHolds == closed => ~Blinking /\ \A p \in Procs : pc[p] # "rearming"

LEMMA CloseHoldsStep ==
  ASSUME LifeInv, OneFileOpen, CloseHolds, [Next]_vars
  PROVE  CloseHolds'
<1> USE DEF CloseHolds, Blinking, timerVars
<1>1. CASE Insmod
  BY <1>1 DEF Insmod, ResetTimer
<1>2. ASSUME NEW name \in Names, InitCalls(name) \/ ExitCalls(name)
      PROVE  CloseHolds'
  BY <1>2 DEF InitCalls, InitStep, SetupTimer, ExitCalls, ExitStep, DeleteAtExit,
              del_timer_sync
<1>3. CASE InitFails \/ Rmmod \/ PortStep \/ UNCHANGED vars
  BY <1>3 DEF InitFails, IgnoreFailure, ReturnError, ReturnPositive, JumpToLabel, Unwind,
              Rmmod, Unload, Unbind, PortStep, Port, vars, charDevVars
<1>4. CASE CallbackStep
  BY <1>4 DEF CallbackStep, Timer_Callback, Expire, Toggle, RearmItself, ReturnFromCallback,
              charDevVars
<1>5. ASSUME NEW p \in Procs, Visit(p)
      PROVE  CloseHolds'
  <2>1. pc \in [Procs -> Places]
    BY DEF LifeInv, LifeTyped
  <2>2. CASE ~Ioctl(p)
    <3>1. UNCHANGED timerVars
      BY <1>5, <2>2 DEF Visit, Begin, OpenStep, WriteStep, UartStep, Close, Signal
    <3>2. \A q \in Procs : pc'[q] = "rearming" => pc[q] = "rearming"
      BY <1>5, <2>1, <2>2
      DEF Visit, Begin, StartOpen, OpenStep, Led_Open, Acquire, Busy, Interrupted, Oops,
          NotOpened, OpenFreely, Opened, OpenedFrom, uart_open, EnableClock, CtrlOff, CtrlOn,
          Polling, Go, WriteStep, SetLed, CopyFromUser, UartStep, StartCall, uart_call,
          PollTransmitter, PutByte, PollReceiver, GetByte, Close, Led_Release, Closed, Signal
    <3> QED BY <3>1, <3>2
  <2>3. CASE OpenCmd(p) \/ StartCloseCmd(p) \/ TestPending(p) \/ Rearm(p)
             \/ \E new_period \in Periods : StorePeriod(p, new_period)
    BY <2>1, <2>3 DEF OpenCmd, StartCloseCmd, TestPending, Rearm, StorePeriod, Command
  <2>4. CASE CloseCmd(p)
    <3>1. /\ pc[p] = "deleting" /\ pc' = [pc EXCEPT ![p] = "open"]
          /\ pending' = FALSE /\ callback' = "none"
      BY <2>4 DEF CloseCmd, Command, del_timer_sync
    <3>2. \A q \in Procs : pc[q] = "rearming" => q = p
      BY <3>1 DEF OneFileOpen, FileOpen, Opening
    <3> QED BY <2>1, <3>1, <3>2
  <2> QED BY <2>2, <2>3, <2>4 DEF Ioctl, IoctlStep
<1> QED BY <1>1, <1>2, <1>3, <1>4, <1>5 DEF Next, LifeStep, Visit

(* "Timer stopped" is true when one program at a time has the device open: it *)
(* takes the SETPERIOD of another, between its look at the timer and its      *)
(* mod_timer, to start again what CLOSE has stopped.                          *)
THEOREM OneProgramStopsTimer == Spec /\ []OneFileOpen => []ClosedStaysClosed
<1>1. Init => CloseHolds
  BY DEF Init, TimerInitial, CloseHolds
<1>2. IndInv /\ OneFileOpen /\ CloseHolds /\ [Next]_vars => CloseHolds'
  BY CloseHoldsStep DEF IndInv
<1>3. CloseHolds => ClosedStaysClosed
  BY DEF CloseHolds, ClosedStaysClosed
<1> QED BY <1>1, <1>2, <1>3, DriversKeepInvariant, PTL DEF Spec
------------------------------------------------------------------------------
(* The polled port and one program at a time                                  *)

(* Nobody comes between the poll and the use of another's file.               *)
NobodyDisturbed == disturbed = {}

LEMMA NobodyDisturbedStep ==
  ASSUME OneFileOpen, NobodyDisturbed, [Next]_vars
  PROVE  NobodyDisturbed'
<1> USE DEF NobodyDisturbed, pollingVars
<1>1. CASE UNCHANGED pollingVars
  BY <1>1
<1>2. ASSUME NEW p \in Procs, PutByte(p) \/ GetByte(p)
      PROVE  NobodyDisturbed'
  <2>1. PICK place \in {"put", "get"} : pc[p] = place /\ Disturb(p, place)
    BY <1>2 DEF PutByte, GetByte, Go, Polling
  <2>2. \A q \in Procs : pc[q] = place => q = p
    BY <2>1 DEF OneFileOpen, FileOpen, Opening
  <2> QED BY <2>1, <2>2 DEF Disturb
<1>3. ASSUME NEW p \in Procs, uart_open(p) \/ PollTransmitter(p) \/ PollReceiver(p)
      PROVE  NobodyDisturbed'
  BY <1>3 DEF uart_open, EnableClock, CtrlOff, CtrlOn, PollTransmitter, PollReceiver
<1>4. CASE Port
  BY <1>4 DEF Port
<1> QED
  BY <1>1, <1>2, <1>3, <1>4
  DEF Next, vars, Insmod, LifeStep, InitFails, InitCalls, ExitCalls, Rmmod, CallbackStep,
      PortStep, Begin, OpenStep, WriteStep, UartStep, StartCall, uart_call, Ioctl, Close,
      Signal

(* DATA is written when it is empty as long as one program at a time has the  *)
(* polling UART open: it takes another that writes, between the look at TDRE  *)
(* and the write, to break what the comment in lpuart_putc says.              *)
THEOREM OneProgramFindsDataEmpty == Spec /\ []OneFileOpen => []DataIsWrittenWhenEmpty
<1>1. Init => NobodyDisturbed
  BY DEF Init, PollingInit, NobodyDisturbed
<1>2. OneFileOpen /\ NobodyDisturbed /\ [Next]_vars => NobodyDisturbed'
  BY NobodyDisturbedStep
<1>3. NobodyDisturbed /\ PortReady => DataIsWrittenWhenEmpty
  BY DEF NobodyDisturbed, PortReady, DataIsWrittenWhenEmpty
<1> QED BY <1>1, <1>2, <1>3, PortIsReady, PTL DEF Spec

(* No two programs are inside uart_open at the same time.                     *)
OneOpens == \A p, q \in Procs : pc[p] \in Opening /\ pc[q] \in Opening => p = q

LEMMA BaudIsSetWhileOffStep ==
  ASSUME LifeInv, OneOpens, BaudIsSetWhileOff, [Next]_vars
  PROVE  BaudIsSetWhileOff'
<1> USE DEF BaudIsSetWhileOff
<1>1. pc \in [Procs -> Places]
  BY DEF LifeInv, LifeTyped
<1>2. ASSUME UNCHANGED enabled, driver' = driver,
             \A q \in Procs : pc'[q] = "off" => pc[q] = "off"
      PROVE  BaudIsSetWhileOff'
  BY <1>2
<1>3. CASE Insmod \/ LifeStep \/ Rmmod \/ CallbackStep \/ PortStep \/ UNCHANGED vars
  <2>1. UNCHANGED <<enabled, pc>>
    BY <1>3
    DEF Insmod, Load, LifeStep, InitFails, IgnoreFailure, ReturnError, ReturnPositive,
        JumpToLabel, Unwind, InitCalls, InitStep, ExitCalls, ExitStep, Rmmod, Unload, Unbind,
        CallbackStep, Timer_Callback, Expire, Toggle, RearmItself, ReturnFromCallback,
        PortStep, Port, vars, charDevVars, pollingVars, portVars
  <2>2. driver' = driver
    BY <1>3
    DEF Insmod, Load, LifeStep, InitFails, IgnoreFailure, ReturnError, ReturnPositive,
        JumpToLabel, Unwind, InitCalls, InitStep, ExitCalls, ExitStep, Rmmod, Unload, Unbind,
        CallbackStep, Timer_Callback, Expire, Toggle, RearmItself, ReturnFromCallback,
        PortStep, Port, vars, charDevVars, lifeVars
  <2> QED BY <1>2, <2>1, <2>2
<1>4. ASSUME NEW p \in Procs, uart_open(p)
      PROVE  BaudIsSetWhileOff'
  <2>1. CASE EnableClock(p)
    BY <1>1, <1>2, <2>1 DEF EnableClock, Go, lifeVars
  <2>2. CASE CtrlOff(p)
    BY <2>2 DEF CtrlOff
  <2>3. CASE CtrlOn(p)
    BY <1>1, <2>3 DEF CtrlOn, OpenedFrom, OneOpens, Opening
  <2> QED BY <1>4, <2>1, <2>2, <2>3 DEF uart_open
<1>5. ASSUME NEW p \in Procs, Visit(p), ~uart_open(p)
      PROVE  BaudIsSetWhileOff'
  <2>1. UNCHANGED enabled
    BY <1>5
    DEF Visit, Begin, OpenStep, WriteStep, UartStep, StartCall, uart_call, PollTransmitter,
        PutByte, PollReceiver, GetByte, Ioctl, Close, Signal, pollingVars, portVars
  <2>2. driver' = driver /\ \A q \in Procs : pc'[q] = "off" => pc[q] = "off"
    BY <1>1, <1>5
    DEF Visit, Begin, StartOpen, OpenStep, Led_Open, Acquire, Busy, Interrupted, Oops,
        NotOpened, OpenFreely, Opened, OpenedFrom, Go, WriteStep, SetLed, CopyFromUser,
        UartStep, StartCall, uart_call, PollTransmitter, PutByte, PollReceiver, GetByte,
        Ioctl, OpenCmd, StartCloseCmd, IoctlStep, CloseCmd, TestPending, Rearm, StorePeriod,
        Command, Close, Led_Release, Closed, Signal, lifeVars
  <2> QED BY <1>2, <2>1, <2>2
<1> QED BY <1>3, <1>4, <1>5 DEF Next, Visit

(* The baud rate is set with transmitter and receiver off as long as no two   *)
(* opens overlap: it takes a second one, which turns them on in between, to   *)
(* break what the comment in uart_open says.                                  *)
THEOREM OneOpenSetsBaudWhileOff == Spec /\ []OneOpens => []BaudIsSetWhileOff
<1>1. Init => BaudIsSetWhileOff
  BY DEF Init, CharDevInit, PollingInit, BaudIsSetWhileOff
<1>2. IndInv /\ OneOpens /\ BaudIsSetWhileOff /\ [Next]_vars => BaudIsSetWhileOff'
  BY BaudIsSetWhileOffStep DEF IndInv
<1> QED BY <1>1, <1>2, DriversKeepInvariant, PTL DEF Spec
------------------------------------------------------------------------------
(* Waiting for the lock of 9_thread                                           *)

ThreadPlaces == {"idle", "opening", "open", "copied", "wrote", "refused", "lost"}

(* The lock is free, or not made yet, or there is a file whose release will   *)
(* free it.                                                                   *)
LockHasHolder ==
  driver = "thread" =>
    /\ \A p \in Procs : pc[p] \in ThreadPlaces
    /\ locked => (Blank /\ "lock" \notin done) \/ \E p \in Procs : FileOpen(p)

LEMMA LockHasHolderStep ==
  ASSUME LifeInv, LedTyped, TimerOK, LockHasHolder, [Next]_vars
  PROVE  LockHasHolder'
<1> USE DEF exclusiveVars, lockVars, ledVars, lifeVars, LockHasHolder, Blank, FileOpen
<1>1. CASE Insmod
  BY <1>1 DEF Insmod, Load, ResetLock
<1>2. ASSUME NEW name \in Names, InitCalls(name)
      PROVE  LockHasHolder'
  <2>1. CASE name = "lock"
    BY <1>2, <2>1 DEF InitCalls, InitStep, InitLock, Waits, LedTyped, Kinds
  <2>2. CASE name # "lock"
    BY <1>2, <2>2 DEF InitCalls, InitStep
  <2> QED BY <2>1, <2>2
<1>3. ASSUME NEW name \in Names, ExitCalls(name)
      PROVE  LockHasHolder'
  BY <1>3 DEF ExitCalls, ExitStep
<1>4. CASE InitFails \/ Rmmod \/ PortStep \/ UNCHANGED vars
  BY <1>4 DEF InitFails, IgnoreFailure, ReturnError, ReturnPositive, JumpToLabel, Unwind,
              Rmmod, Unload, Unbind, PortStep, Port, vars, charDevVars
<1>5. CASE CallbackStep
  BY <1>5 DEF CallbackStep, Timer_Callback, Expire, Toggle, RearmItself, ReturnFromCallback,
              charDevVars
<1>6. ASSUME NEW p \in Procs, Visit(p)
      PROVE  LockHasHolder'
  <2>1. PICK to \in Places : Moves(p, to)
    BY <1>6, VisitMoves
  <2>2. /\ pc' = [pc EXCEPT ![p] = to] /\ pc \in [Procs -> Places]
        /\ UNCHANGED <<driver, done>>
    BY <2>1 DEF Moves, LifeInv, LifeTyped
  <2> SUFFICES ASSUME driver = "thread" PROVE LockHasHolder'
    BY <2>2
  <2>3. CASE Begin(p) \/ Signal(p) \/ Busy(p) \/ Oops(p)
    <3>1. /\ pc[p] \in {"idle", "opening"} /\ pc'[p] \in {"opening", "idle", "lost"}
          /\ UNCHANGED exclusiveVars
      BY <2>2, <2>3 DEF Begin, StartOpen, Signal, Interrupted, Busy, Oops, NotOpened
    <3> QED BY <2>2, <3>1 DEF Opening, ThreadPlaces
  <2>4. CASE Acquire(p)
    <3>1. pc'[p] = "open"
      BY <2>2, <2>4 DEF Acquire, Opened, OpenedFrom
    <3> QED BY <2>2, <3>1 DEF Opening, ThreadPlaces
  <2>5. CASE Close(p)
    <3>1. pc'[p] = "idle" /\ ~locked'
      BY <2>2, <2>5 DEF Close, Led_Release, Closed
    <3> QED BY <2>2, <3>1 DEF ThreadPlaces
  <2>6. CASE WriteStep(p)
    <3>1. pc'[p] \in {"copied", "wrote", "refused"} /\ UNCHANGED lockVars
      BY <2>2, <2>6 DEF WriteStep, SetLed, CopyFromUser
    <3> QED BY <2>2, <3>1 DEF Opening, ThreadPlaces
  <2>7. ~OpenFreely(p) /\ ~uart_open(p) /\ ~UartStep(p) /\ ~Ioctl(p)
    BY DEF OpenFreely, uart_open, EnableClock, CtrlOff, CtrlOn, UartStep, StartCall, uart_call,
           PollTransmitter, PutByte, PollReceiver, GetByte, Go, Polling, Ioctl, OpenCmd,
           StartCloseCmd, IoctlStep, CloseCmd, TestPending, Rearm, StorePeriod, Command
  <2> QED BY <1>6, <2>3, <2>4, <2>5, <2>6, <2>7 DEF Visit, OpenStep, Led_Open
<1> QED BY <1>1, <1>2, <1>3, <1>4, <1>5, <1>6 DEF Next, LifeStep, Visit

(* A lock that was made and is taken has a holder in a state from which its   *)
(* close is reached, in a module that is loaded: whoever waits in open waits  *)
(* for somebody.  An interrupted open, mutex_init under a holder and a        *)
(* release that frees the lock of another leave no lock without a holder.     *)
SomebodyToWaitFor ==
  driver = "thread" /\ locked /\ (Blank => "lock" \in done) =>
    /\ \E p \in Procs : pc[p] \in {"open", "copied", "wrote", "refused"}
    /\ Loaded \/ stage = "spoiled"

THEOREM NobodyWaitsForNobody == Spec => []SomebodyToWaitFor
<1>1. Init => LockHasHolder
  BY DEF Init, CharDevInit, ExclusiveInit, Blank, LockHasHolder, ThreadPlaces
<1>2. IndInv /\ LockHasHolder /\ [Next]_vars => LockHasHolder'
  BY LockHasHolderStep DEF IndInv
<1>3. IndInv /\ LockHasHolder => SomebodyToWaitFor
  <2> SUFFICES ASSUME IndInv, LockHasHolder, driver = "thread", locked,
                      Blank => "lock" \in done
               PROVE  /\ \E p \in Procs : pc[p] \in {"open", "copied", "wrote", "refused"}
                      /\ Loaded \/ stage = "spoiled"
    BY DEF SomebodyToWaitFor
  <2>1. PICK p \in Procs : FileOpen(p) /\ pc[p] \in ThreadPlaces
    BY DEF LockHasHolder
  <2>2. pc[p] \in {"open", "copied", "wrote", "refused"}
    BY <2>1 DEF FileOpen, Opening, ThreadPlaces
  <2>3. InUse /\ ~unbound
    BY <2>2 DEF InUse, IndInv, LifeInv, Walk, PlatformDrivers
  <2>4. stage \in {"init", "live", "spoiled"}
    BY <2>3 DEF IndInv, LifeInv, LifeTyped, UsersOK, Stages
  <2> QED BY <2>2, <2>4 DEF Loaded
<1> QED BY <1>1, <1>2, <1>3, DriversKeepInvariant, PTL DEF Spec
==============================================================================
