--------------------------- MODULE EthernetWatchdog ---------------------------
(***************************************************************************)
(* The ethernet watchdog as a whole: net_monitor processes, the            *)
(* net_watchdog driver they write to, and the interfaces it restarts.      *)
(*                                                                         *)
(* A monitor is that of NetMonitor, with the driver's real answer.  The    *)
(* driver is RestartService, which NetWatchdog implements, behind the two  *)
(* tests a write has to pass: the cooldown, then the busy flag, with time  *)
(* between them.  An interface that is closed has no carrier to read, one  *)
(* that was just opened has none yet.                                      *)
(***************************************************************************)
EXTENDS NetMonitor

CONSTANT Rivals   \* the interfaces that other programs ask to restart

ASSUME RivalsAssumption == 0 \notin Rivals \cup Monitors

VARIABLES cooled,   \* the cooldown since the last accepted request is over
          passed,   \* the requests that passed the cooldown test
          job,      \* the interface being restarted, or 0
          phase,    \* how far its restart has come
          running,  \* the interfaces that are running
          plugged   \* the interfaces whose cable is plugged in

driverVars == <<cooled, passed, job, phase>>
netVars == <<running, plugged>>
systemVars == <<vars, driverVars, netVars>>

\* Every monitor watches an interface of its own, named like the monitor.
Interfaces == Monitors \cup Rivals

Service == INSTANCE RestartService WITH up <- running

SystemInit ==
  /\ Init
  /\ cooled = TRUE /\ passed = {}
  /\ Service!Init
  /\ plugged \in SUBSET Monitors
  /\ \A m \in Monitors : /\ carrier[m] = "unavailable" <=> m \notin running
                         /\ carrier[m] = "up" => m \in plugged
-----------------------------------------------------------------------------
(* net_watchdog_write                                                      *)

\* Mutant of CoolEnough: the operands of time_before swapped.
CoolEnoughSwapped == ~cooled

CoolEnough == cooled

PassCooldown(i) == /\ passed' = passed \cup {i}
                   /\ UNCHANGED <<cooled, job, phase>>

\* The test of the busy flag, the stamp on last_request and queue_work.
Accept(i) == /\ Service!Accept(i)
             /\ cooled' = FALSE
             /\ passed' = passed \ {i}

RefuseBusy(i) == /\ phase # "free"
                 /\ passed' = passed \ {i}
                 /\ UNCHANGED <<cooled, job, phase>>

\* A monitor's request, from fopen to what fclose is told.
Request(m) ==
  \/ /\ m \notin passed
     /\ \E reply \in {"unopened", "EPERM"} : RequestAnswered(m, reply)
     /\ UNCHANGED <<driverVars, netVars>>
  \/ /\ m \notin passed /\ ~CoolEnough /\ RequestAnswered(m, "EAGAIN")
     /\ UNCHANGED <<driverVars, netVars>>
  \/ /\ m \notin passed /\ CoolEnough /\ pc[m] = "request" /\ PassCooldown(m)
     /\ UNCHANGED <<vars, netVars>>
  \/ /\ m \in passed /\ RefuseBusy(m) /\ RequestAnswered(m, "EBUSY")
     /\ UNCHANGED netVars
  \/ /\ m \in passed /\ Accept(m) /\ RequestAnswered(m, "len")
     /\ UNCHANGED plugged

\* The same for another program, of which only the requests are seen.
RivalRequest(i) ==
  /\ \/ i \notin passed /\ CoolEnough /\ PassCooldown(i) /\ UNCHANGED running
     \/ i \in passed /\ RefuseBusy(i) /\ UNCHANGED running
     \/ i \in passed /\ Accept(i)
  /\ UNCHANGED <<vars, plugged>>

CooldownElapses == /\ ~cooled
                   /\ cooled' = TRUE
                   /\ UNCHANGED <<vars, passed, job, phase, netVars>>
-----------------------------------------------------------------------------
(* The interfaces                                                          *)

\* What sysfs says of a link after interfaces were closed or opened.
LinksFollow ==
  carrier' = [m \in Monitors |-> IF m \notin running' THEN "unavailable"
                                 ELSE IF m \in running THEN carrier[m]
                                 ELSE "down"]

\* net_watchdog_restart_work: dev_close, dev_open, the busy flag.  Nothing is
\* done about a dev_open that fails.
Worker == /\ \/ Service!TakeDown /\ LinksFollow
             \/ Service!BringUp /\ LinksFollow
             \/ Service!Finish /\ UNCHANGED carrier
          /\ UNCHANGED <<monitorVars, replies, address, path, history, cooled,
                         passed, plugged>>

\* The administrator opens and closes interfaces, under the rtnl lock.
AdminUpDown(m) ==
  /\ Service!Others
  /\ running' = IF m \in running THEN running \ {m} ELSE running \cup {m}
  /\ LinksFollow
  /\ UNCHANGED <<monitorVars, replies, address, path, history, cooled, passed,
                 plugged>>

SetCarrier(m, state) ==
  /\ carrier' = [carrier EXCEPT ![m] = state]
  /\ UNCHANGED <<monitorVars, replies, address, path, history, driverVars, running>>

LinkComesUp(m) == /\ m \in running \cap plugged /\ carrier[m] = "down"
                  /\ SetCarrier(m, "up")
                  /\ UNCHANGED plugged

Unplug(m) == /\ plugged' = plugged \ {m}
             /\ SetCarrier(m, IF m \in running THEN "down" ELSE carrier[m])

Plug(m) == /\ plugged' = plugged \cup {m}
           /\ UNCHANGED <<vars, driverVars, running>>

Network == /\ \/ ReplyArrives \/ ReplyLost \/ ForeignArrives
              \/ \E m \in Monitors : PathChanges(m)
           /\ UNCHANGED <<driverVars, netVars>>
-----------------------------------------------------------------------------
MonitorRuns(m) == \/ LoopStep(m) /\ UNCHANGED <<driverVars, netVars>>
                  \/ Request(m)

SystemNext ==
  \/ \E m \in Monitors : \/ MonitorRuns(m) \/ AdminUpDown(m) \/ LinkComesUp(m)
                         \/ Unplug(m) \/ Plug(m)
  \/ \E i \in Rivals : RivalRequest(i)
  \/ CooldownElapses \/ Worker \/ Network

\* Monitors and the worker are scheduled, time passes, and a link whose cable
\* is plugged in comes up; the administrator, the rivals and the network are
\* bound to nothing.
SystemSpec ==
  /\ SystemInit /\ [][SystemNext]_systemVars
  /\ \A m \in Monitors : /\ WF_systemVars(MonitorRuns(m))
                         /\ WF_systemVars(LinkComesUp(m))
  /\ WF_systemVars(CooldownElapses)
  /\ WF_systemVars(Worker)
-----------------------------------------------------------------------------
\* An interface that is addressed, plugged in and cut off from its target, and
\* down only in the middle of a restart, while the monitor may use the device.
DeadPath(m) == /\ m \in plugged /\ address[m] /\ ~path[m]
               /\ m \in running \/ phase = "down"
               /\ answer[m] \notin {"unopened", "EPERM"}

\* Whatever packets arrive and however often the driver refuses: a monitor
\* with a dead path gets its interface restarted again and again, as long as
\* no other program's requests keep the cooldown running.
DeadPathIsRestarted ==
  \A m \in Monitors :
    <>[](DeadPath(m) /\ job \in {0, m}) => []<>(job = m /\ phase = "down")

\* From the interface back to the pings: an interface nobody but its monitor asks
\* for is taken for a restart only after fail_threshold probes of it in a row have
\* failed, however the request, the cooldown, the busy flag and the worker
\* interleave.
RestartsFounded ==
  [][\A m \in Monitors \ Rivals :
       job # m /\ job' = m => inARow[m] >= Threshold]_systemVars

\* With rivals one monitor may always come second, yet somebody is served: the
\* watchdog never refuses everyone for ever.
SomebodyIsServed ==
  (\E m \in Monitors : <>[]DeadPath(m)) => []<>(phase = "down")

\* An interface that is left down, by a dev_open that failed or by the
\* administrator, is not asked for again: its carrier cannot be read, and
\* the monitor skips its passes until somebody else opens the interface.
DownIsNotReported ==
  \A m \in Monitors : <>[](m \notin running) => <>[](pc[m] # "request")
=============================================================================
