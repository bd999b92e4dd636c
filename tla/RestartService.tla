---------------------------- MODULE RestartService ----------------------------
(***************************************************************************)
(* What /dev/net_watchdog promises its users, without a word on how: one   *)
(* request is served at a time; the interface that is taken down and       *)
(* brought up is the one the accepted request named; nobody else touches   *)
(* an interface between the two; the service is free again afterwards.     *)
(***************************************************************************)
EXTENDS Integers

CONSTANT Interfaces   \* what may be asked for

VARIABLES job,    \* the interface whose restart was accepted, or NoJob
          phase,  \* how far the restart has come
          up      \* the interfaces that are running

vars == <<job, phase, up>>

NoJob == 0

Init == /\ job = NoJob
        /\ phase = "free"
        /\ up \in SUBSET Interfaces

Accept(i) == /\ phase = "free"
             /\ job' = i
             /\ phase' = "accepted"
             /\ UNCHANGED up

TakeDown == /\ phase = "accepted"
            /\ phase' = "down"
            /\ up' = up \ {job}
            /\ UNCHANGED job

\* Bringing the interface up again may fail.
BringUp == /\ phase = "down"
           /\ phase' = "served"
           /\ up' \in {up, up \cup {job}}
           /\ UNCHANGED job

\* The interface is gone: the request is dropped.
Drop == /\ phase = "accepted"
        /\ phase' = "served"
        /\ UNCHANGED <<job, up>>

Finish == /\ phase = "served"
          /\ job' = NoJob
          /\ phase' = "free"
          /\ UNCHANGED up

\* Interfaces also change for other reasons, never in the middle of a restart.
Others == /\ phase # "down"
          /\ up' \in SUBSET Interfaces
          /\ UNCHANGED <<job, phase>>

Next == \/ \E i \in Interfaces : Accept(i)
        \/ TakeDown \/ BringUp \/ Drop \/ Finish \/ Others

Spec == Init /\ [][Next]_vars
=============================================================================
