------------------------------ MODULE TimerLed ------------------------------
(* The timer driver 12_timer: three ioctl commands and a callback that toggles *)
(* the LED and arms its timer again.  Every file works on the one timer.       *)
EXTENDS CharDevModule

CONSTANTS Periods,          \* what programs ask for, in units of the minimum
          DefaultPeriod

MinPeriod == 1              \* 100 ms

ASSUME PeriodsAssumption == Periods \subseteq Nat /\ DefaultPeriod \in Nat

VARIABLES timer_period,
          pending,          \* the timer is armed
          callback,         \* where the callback is, if it runs
          closed            \* of CLOSE and OPEN, CLOSE was the last to end

timerVars == <<timer_period, pending, callback, closed>>

TimerInitial ==
  /\ timer_period = 0
  /\ pending = FALSE /\ callback = "none" /\ closed = FALSE

(* timer_setup makes the timer usable; the default period comes after it.     *)
SetupTimer(name) ==
  /\ timer_period' = IF name = "period" THEN DefaultPeriod ELSE timer_period
  /\ UNCHANGED <<pending, callback, closed>>

ResetTimer ==
  /\ timer_period' = 0 /\ closed' = FALSE
  /\ UNCHANGED <<pending, callback>>

(* mod_timer leaves a timer alone that has no function yet.                   *)
mod_timer == pending' = (pending \/ "timer" \in done)

(* del_timer_sync waits for a callback that runs, and for the timer the       *)
(* callback armed.                                                            *)
del_timer_sync == callback = "none" /\ pending' = FALSE

Command(p, from, to) ==
  /\ driver = "timer" /\ pc[p] = from /\ Loaded
  /\ pc' = [pc EXCEPT ![p] = to]
  /\ UNCHANGED <<lifeVars, early, led>>

------------------------------------------------------------------------------
(* Timer_Unlocked_Ioctl.                                                      *)
OpenCmd(p) ==
  /\ Command(p, "open", "open")
  /\ mod_timer /\ closed' = FALSE
  /\ UNCHANGED <<timer_period, callback>>

StartCloseCmd(p) ==
  /\ Command(p, "open", "deleting")
  /\ UNCHANGED timerVars

CloseCmd(p) ==
  /\ Command(p, "deleting", "open")
  /\ del_timer_sync /\ closed' = TRUE
  /\ UNCHANGED <<timer_period, callback>>

(* SETPERIOD: store the period, look whether the timer is armed, arm it.      *)
StorePeriod(p, new_period) ==
  /\ Command(p, "open", "stored")
  /\ timer_period' = IF new_period < MinPeriod THEN MinPeriod ELSE new_period
  /\ UNCHANGED <<pending, callback, closed>>

(* Mutant: the timer is deleted first, to be armed anew.                      *)
TestPendingDeletes(p) ==
  /\ Command(p, "stored", IF pending THEN "rearming" ELSE "open")
  /\ pending' = FALSE
  /\ UNCHANGED <<timer_period, callback, closed>>

TestPending(p) ==
  /\ Command(p, "stored", IF pending THEN "rearming" ELSE "open")
  /\ UNCHANGED timerVars

Rearm(p) ==
  /\ Command(p, "rearming", "open")
  /\ mod_timer
  /\ UNCHANGED <<timer_period, callback, closed>>

IoctlStep(p) == CloseCmd(p) \/ TestPending(p) \/ Rearm(p)

------------------------------------------------------------------------------
(* The kernel runs the callback of a timer on one processor at a time.        *)
Expire ==
  /\ pending /\ callback = "none"
  /\ pending' = FALSE /\ callback' = "entered"
  /\ UNCHANGED <<charDevVars, timer_period, closed>>

(* Timer_Callback.  The descriptor it tests was set before timer_setup.       *)
Toggle ==
  /\ callback = "entered"
  /\ led' = 1 - led
  /\ callback' = "toggled"
  /\ UNCHANGED <<lifeVars, early, pc, timer_period, pending, closed>>

RearmItself ==
  /\ callback = "toggled"
  /\ mod_timer /\ callback' = "rearmed"
  /\ UNCHANGED <<charDevVars, timer_period, closed>>

ReturnFromCallback ==
  /\ callback = "rearmed" /\ callback' = "none"
  /\ UNCHANGED <<charDevVars, timer_period, pending, closed>>

Timer_Callback == Expire \/ Toggle \/ RearmItself \/ ReturnFromCallback

(* Mutant: del_timer, which does not wait for the callback.                   *)
DeleteAtExitNoSync ==
  /\ pending' = FALSE
  /\ UNCHANGED <<timer_period, callback, closed>>

(* del_timer_sync in Timer_Exit.                                              *)
DeleteAtExit ==
  /\ del_timer_sync
  /\ UNCHANGED <<timer_period, callback, closed>>

------------------------------------------------------------------------------
Blinking == pending \/ callback # "none"

(* Once the exit function has deleted the timer, and ever after, no callback  *)
(* is armed or under way although each callback arms the next: the code is    *)
(* about to go.                                                               *)
TimerGoneBeforeCode ==
  driver = "timer" /\ (~Loaded /\ ~(stage = "exit" /\ at = 1)) => ~Blinking

(* An LED that blinks goes on until somebody closes the timer or the module   *)
(* is unloaded: no order of SETPERIOD, OPEN and callback loses the timer.     *)
BlinksUntilClosed ==
  [][Blinking /\ ~Blinking' =>
       \/ \E p \in Procs : pc[p] = "deleting" /\ pc'[p] = "open"
       \/ stage = "exit"]_<<charDevVars, timerVars>>

(* What 12_timer_app says, "Timer stopped", once CLOSE has returned: nothing  *)
(* but OPEN starts the timer again.                                           *)
ClosedStaysClosed == closed => ~Blinking
==============================================================================
