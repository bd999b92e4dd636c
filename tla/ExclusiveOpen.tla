---------------------------- MODULE ExclusiveOpen ----------------------------
(* The LED drivers 8_gpioled and 9_thread.  9_thread lets one file at a time  *)
(* be open: a flag under a spin lock that refuses a second open, or a         *)
(* semaphore or a mutex held from open to release that makes it wait.         *)
EXTENDS CharDevModule, FiniteSets

VARIABLES default_thread_type,  \* which of the three it is compiled for
          locked,               \* dev_status, the semaphore or the mutex is taken
          write_buf,            \* the first word of the one global buffer
          asked                 \* what each program has last written

lockVars == <<default_thread_type, locked>>
ledVars == <<write_buf, asked>>
exclusiveVars == <<lockVars, ledVars>>

Kinds == {"SPIN_LOCK", "SEMAPHORE", "MUTEX"}
Status == {LED_ON, LED_OFF, 2}     \* 2: neither on nor off

Waits == default_thread_type \in {"SEMAPHORE", "MUTEX"}

(* A program that has the LED driver's file open.                             *)
Led == driver \in {"gpioled", "thread"}

(* In memory filled with zeros a semaphore counts zero, and a mutex is free.  *)
Blank == default_thread_type = "SEMAPHORE"

ExclusiveInit ==
  /\ default_thread_type \in IF driver = "thread" THEN Kinds ELSE {"MUTEX"}
  /\ locked = Blank
  /\ write_buf = 0
  /\ asked = [p \in Procs |-> LED_OFF]

ResetLock ==
  /\ locked' = Blank /\ write_buf' = 0
  /\ UNCHANGED <<default_thread_type, asked>>

(* sema_init and mutex_init make the object free whoever holds it;            *)
(* spin_lock_init leaves dev_status alone.                                    *)
InitLock ==
  /\ locked' = IF Waits THEN FALSE ELSE locked
  /\ UNCHANGED <<default_thread_type, ledVars>>

------------------------------------------------------------------------------
(* Led_Open of 9_thread.                                                      *)
Acquire(p) ==
  /\ driver = "thread" /\ ~locked
  /\ Opened(p)
  /\ locked' = TRUE
  /\ UNCHANGED <<default_thread_type, ledVars>>

NotOpened(p, where) ==
  /\ driver = "thread" /\ locked /\ pc[p] = "opening" /\ Loaded
  /\ pc' = [pc EXCEPT ![p] = where]
  /\ UNCHANGED <<lifeVars, early, led, exclusiveVars>>

(* Mutant: open goes on after it has said that the device is busy.            *)
BusyOpens(p) == ~Waits /\ NotOpened(p, "open")

(* The flag is set: busy at once.                                             *)
Busy(p) == ~Waits /\ NotOpened(p, "idle")

(* Mutant: the result of mutex_lock_interruptible is not looked at.           *)
InterruptedOpens(p) == Waits /\ "lock" \in done /\ NotOpened(p, "open")

(* A signal ends the wait.                                                    *)
Interrupted(p) == Waits /\ "lock" \in done /\ NotOpened(p, "idle")

(* To have to wait for an object that init has not made yet, or never will    *)
(* after a positive return, is to join a list that is none: the kernel kills  *)
(* the program inside the object's spin lock, where the next one hangs.       *)
Oops(p) == Waits /\ "lock" \notin done /\ NotOpened(p, "lost")

(* The open functions of the others return 0; at24 stores a pointer, and what *)
(* lpuart_interrupt does is a matter of its own (LpuartIrq).                  *)
OpenFreely(p) ==
  /\ driver \notin {"thread", "lpuart_polling"}
  /\ Opened(p)
  /\ UNCHANGED exclusiveVars

Led_Open(p) == Acquire(p) \/ Busy(p) \/ Oops(p) \/ OpenFreely(p)

(* Mutant: release of the waiting variants forgets the lock.                  *)
Led_ReleaseKeepsLock(p) ==
  /\ Closed(p)
  /\ locked' = IF driver = "thread" /\ ~Waits THEN FALSE ELSE locked
  /\ UNCHANGED <<default_thread_type, ledVars>>

Led_Release(p) ==
  /\ Closed(p)
  /\ locked' = IF driver = "thread" THEN FALSE ELSE locked
  /\ UNCHANGED <<default_thread_type, ledVars>>

(* Led_Write: into the buffer that all writers share, and from there to the   *)
(* pin.  The programs write one word, once.  A copy that faults ends the call *)
(* and may have changed the buffer.  Before init knows the pin, it is pin 0.  *)
CopyFromUser(p, status) ==
  /\ Led /\ pc[p] = "open" /\ Loaded
  /\ write_buf' = status
  /\ asked' = [asked EXCEPT ![p] = status]
  /\ \E to \in {"copied", "refused"} : pc' = [pc EXCEPT ![p] = to]
  /\ UNCHANGED <<lifeVars, early, led, lockVars>>

SetLed(p) ==
  /\ pc[p] = "copied" /\ Loaded
  /\ pc' = [pc EXCEPT ![p] = IF write_buf \in {LED_ON, LED_OFF} THEN "wrote" ELSE "refused"]
  /\ led' = IF write_buf \in {LED_ON, LED_OFF} /\ "gpio" \in done THEN write_buf ELSE led
  /\ UNCHANGED <<lifeVars, early, exclusiveVars>>

------------------------------------------------------------------------------
(* 9_thread has one file open at a time, whatever it is compiled for, if no   *)
(* file was opened before init was over: mutex_init under a holder lets the   *)
(* next one in, and the holder's release then frees the lock of another.      *)
OneFileUnlessEarly ==
  driver = "thread" /\ ~early => Cardinality({p \in Procs : FileOpen(p)}) <= 1

(* A program whose write succeeded sees its own value on the LED until it     *)
(* closes the file, although buffer and pin are shared: what the lock that    *)
(* is held across system calls is good for.                                   *)
LedIsMine ==
  \A p \in Procs :
    driver = "thread" /\ ~early /\ pc[p] = "wrote" => led = asked[p]

(* Every open returns, or is lost to a lock that was never made, as programs  *)
(* close their files in the end: nobody waits for a lock that no open file    *)
(* has, although mutex_init and release free it for others as well.           *)
OpenersServed ==
  \A p \in Procs : pc[p] = "opening" ~> (pc[p] # "opening" \/ stage = "spoiled")
==============================================================================
