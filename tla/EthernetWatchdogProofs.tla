------------------------ MODULE EthernetWatchdogProofs ------------------------
(***************************************************************************)
(* Proofs about the monitors of EthernetWatchdog, for any number of them,  *)
(* any threshold, any rivals, and sequence numbers that wrap around: the   *)
(* type invariant, what a request for a restart rests on, and what "ping   *)
(* ok" rests on.                                                           *)
(***************************************************************************)
EXTENDS EthernetWatchdog, TLAPS

-----------------------------------------------------------------------------
(* The inductive invariant                                                 *)

HistoryOK == /\ reached \in [Monitors -> BOOLEAN]
             /\ inARow \in [Monitors -> Nat]

\* The monitor's own count never runs ahead of what the passes found, and a
\* request is made at the threshold.
CountsAgree ==
  \A m \in Monitors : /\ failCount[m] <= inARow[m]
                      /\ pc[m] = "request" => failCount[m] >= Threshold

\* A reply with the number of the current probe, underway or in the socket, and
\* a result that was read from it, come from the current probe.
AnswersKnown ==
  \A m \in Monitors :
    /\ HasSocket(m) /\ Reply(m, seq[m]) \in replies => reached[m]
    /\ first[m] = Reply(m, seq[m]) => reached[m]
    /\ pc[m] = "count" => ret[m] = "failed" \/ (ret[m] = "ok" /\ reached[m])

MonitorInv == TypeOK /\ HistoryOK /\ CountsAgree /\ AnswersKnown

\* What the rest of the system does to the monitors: nothing, or a packet
\* arrives or is lost.
Quiet == UNCHANGED <<monitorVars, replies, history>>

MonitorNext ==
  \/ \E m \in Monitors :
       LoopStep(m) \/ \E reply \in Answers : RequestAnswered(m, reply)
  \/ ReplyArrives \/ ReplyLost \/ ForeignArrives
  \/ Quiet

-----------------------------------------------------------------------------
(* Packets                                                                 *)

\* The next sequence number is one, for every modulus.
LEMMA SeqWraps == \A s \in 0..SeqMod-1 : (s + 1) % SeqMod \in 0..SeqMod-1
  BY MonitorAssumption, SMT

\* Packets are told apart: a reply is neither the absence of a packet nor a
\* packet that is no reply to a monitor, and it says whose it is.
LEMMA PacketsDiffer ==
  ASSUME NEW m \in Monitors, NEW s \in 0..SeqMod-1
  PROVE  /\ Reply(m, s) # NoPacket /\ Reply(m, s) \in Replies
         /\ Reply(m, s) \notin ForeignPackets
         /\ \A n, t : Reply(m, s) = Reply(n, t) => n = m /\ t = s
  BY MonitorAssumption, SMT DEF Reply, Replies, ForeignPackets

LEMMA InvInit == SystemInit => MonitorInv
  BY MonitorAssumption, PacketsDiffer, SMT
  DEF SystemInit, Init, MonitorInv, TypeOK, HistoryOK, CountsAgree, AnswersKnown,
      HasSocket, Packets

-----------------------------------------------------------------------------
(* The steps of the loop                                                   *)

USE DEF MonitorInv, TypeOK, Answers, HistoryOK, CountsAgree, AnswersKnown, HasSocket, Reply

\* The checks of carrier and address.
LEMMA ChecksKeepInv ==
  ASSUME NEW m \in Monitors, MonitorInv, ReadCarrier(m) \/ ReadAddress(m)
  PROVE  MonitorInv'
  BY MonitorAssumption, SMT
  DEF ReadCarrier, ReadAddress, Goto, Record, linkVars

\* From the socket to the answer or the timeout.
LEMMA OpenSocketKeepsInv ==
  ASSUME NEW m \in Monitors, MonitorInv, OpenSocket(m)
  PROVE  MonitorInv'
  BY MonitorAssumption, SeqWraps, PacketsDiffer, SMT
  DEF OpenSocket, PingReturns, Goto, linkVars, history, Packets

LEMMA SendProbeKeepsInv ==
  ASSUME NEW m \in Monitors, MonitorInv, SendProbe(m)
  PROVE  MonitorInv'
<1> USE MonitorAssumption, SeqWraps, PacketsDiffer
    DEF PingReturns, Goto, linkVars, Packets
<1>1. CASE PingReturns(m, "failed") /\ UNCHANGED <<replies, reached>>
  BY <1>1, SMT DEF SendProbe
<1>2. CASE Goto(m, "poll") /\ UNCHANGED <<ret, first, seq, replies, reached>>
  BY <1>2, SMT DEF SendProbe
<1>3. CASE /\ Goto(m, "poll")
           /\ replies' = replies \cup {Reply(m, seq[m])}
           /\ reached' = [reached EXCEPT ![m] = TRUE]
           /\ UNCHANGED <<ret, first, seq>>
  <2>1. TypeOK'
    <3>1. Reply(m, seq[m]) \in Replies
      BY PacketsDiffer
    <3> QED BY <1>3, <3>1, SMT DEF SendProbe
  <2>2. HistoryOK' /\ CountsAgree'
    BY <1>3, SMT DEF SendProbe
  <2>3. AnswersKnown'
    BY <1>3, SMT DEF SendProbe
  <2> QED BY <2>1, <2>2, <2>3
<1> QED BY <1>1, <1>2, <1>3 DEF SendProbe

LEMMA ReceiveKeepsInv ==
  ASSUME NEW m \in Monitors, MonitorInv, Receive(m) \/ Timeout(m)
  PROVE  MonitorInv'
  BY MonitorAssumption, SeqWraps, PacketsDiffer, SMT
  DEF Receive, Timeout, Matches, PingReturns, Goto, linkVars, history, Packets

\* The count, the request and the sleep.
LEMMA CountKeepsInv ==
  ASSUME NEW m \in Monitors, MonitorInv, CountResult(m)
  PROVE  MonitorInv'
<1> USE MonitorAssumption DEF CountResult, Record, Goto, linkVars
<1>1. failCount' \in [Monitors -> Nat] /\ inARow' \in [Monitors -> Nat]
  BY SMT
<1>2. pc' = [pc EXCEPT ![m] = IF failCount'[m] >= Threshold THEN "request" ELSE "sleep"]
  BY SMT
<1>3. TypeOK' /\ HistoryOK'
  BY <1>1, <1>2, SMT
<1>4. CountsAgree'
  <2> SUFFICES ASSUME NEW n \in Monitors
               PROVE  /\ failCount'[n] <= inARow'[n]
                      /\ pc'[n] = "request" => failCount'[n] >= Threshold
    OBVIOUS
  <2>1. CASE n = m
    <3>1. pc'[m] = "request" => failCount'[m] >= Threshold
      BY <1>2, SMT
    <3>2. ret[m] = "ok" \/ ret[m] = "failed"
      BY Zenon
    <3>3. CASE ret[m] = "ok"
      <4>1. failCount'[m] = 0
        BY <3>3, SMT
      <4>2. inARow'[m] \in Nat
        BY <1>1
      <4> QED BY <2>1, <3>1, <4>1, <4>2, SMT
    <3>4. CASE ret[m] = "failed"
      <4>1. failCount'[m] = failCount[m] + 1
        BY <3>4, SMT
      <4>2. inARow'[m] = inARow[m] + 1
        BY <3>4, SMT
      <4> QED BY <2>1, <3>1, <4>1, <4>2, SMT
    <3> QED BY <3>2, <3>3, <3>4
  <2>2. CASE n # m
    <3>1. failCount'[n] = failCount[n]
      BY <2>2, SMT
    <3>2. inARow'[n] = inARow[n]
      BY <2>2, SMT
    <3>3. pc'[n] = pc[n]
      BY <1>2, <2>2, SMT
    <3> QED BY <3>1, <3>2, <3>3
  <2> QED BY <2>1, <2>2
<1>5. AnswersKnown'
  BY <1>2, SMT
<1> QED BY <1>3, <1>4, <1>5

LEMMA RequestKeepsInv ==
  ASSUME NEW m \in Monitors, MonitorInv,
         NEW reply \in Answers,
         RequestAnswered(m, reply)
  PROVE  MonitorInv'
  BY MonitorAssumption, SMT DEF RequestAnswered, Goto, linkVars

LEMMA WakeKeepsInv ==
  ASSUME NEW m \in Monitors, MonitorInv, Wake(m)
  PROVE  MonitorInv'
  BY MonitorAssumption, SMT DEF Wake, Goto, linkVars, history

-----------------------------------------------------------------------------
(* The network and the rest of the system                                  *)

LEMMA ReplyArrivesKeepsInv ==
  ASSUME MonitorInv, ReplyArrives
  PROVE  MonitorInv'
<1> PICK r \in replies : Deliver(r) /\ replies' \in {replies, replies \ {r}}
  BY DEF ReplyArrives
<1>1. UNCHANGED <<pc, failCount, seq, ret, answer, printed, reached, inARow>>
  BY DEF ReplyArrives, history
<1>2. r \in Packets
  BY DEF Packets
<1>3. TypeOK' /\ HistoryOK' /\ CountsAgree'
  BY <1>1, <1>2, SMT DEF Deliver
<1>4. AnswersKnown'
  BY <1>1, <1>2, PacketsDiffer, SMT DEF Deliver
<1> QED BY <1>3, <1>4

\* A packet that is no reply to a monitor is not taken for one.
LEMMA ForeignArrivesKeepsInv ==
  ASSUME MonitorInv, ForeignArrives
  PROVE  MonitorInv'
<1> PICK packet \in ForeignPackets : Deliver(packet)
  BY DEF ForeignArrives
<1>1. UNCHANGED <<pc, failCount, seq, ret, answer, printed, replies, reached, inARow>>
  BY DEF ForeignArrives, history
<1>2. packet \in Packets
  BY DEF Packets
<1>3. TypeOK' /\ HistoryOK' /\ CountsAgree'
  BY <1>1, <1>2, SMT DEF Deliver
<1>4. AnswersKnown'
  <2> SUFFICES ASSUME NEW m \in Monitors
               PROVE  /\ HasSocket(m)' /\ Reply(m, seq'[m]) \in replies' => reached'[m]
                      /\ first'[m] = Reply(m, seq'[m]) => reached'[m]
                      /\ pc'[m] = "count"
                         => ret'[m] = "failed" \/ (ret'[m] = "ok" /\ reached'[m])
    BY <1>1
  <2>1. Reply(m, seq[m]) # packet
    <3> HIDE DEF Reply
    <3>1. seq[m] \in 0..SeqMod-1
      OBVIOUS
    <3>2. Reply(m, seq[m]) \notin ForeignPackets
      BY <3>1, PacketsDiffer
    <3> QED BY <3>2
  <2>2. first'[m] = packet \/ first'[m] = first[m]
    BY DEF Deliver
  <2> QED BY <1>1, <2>1, <2>2
<1> QED BY <1>3, <1>4

LEMMA QuietKeepsInv ==
  ASSUME MonitorInv, ReplyLost \/ Quiet
  PROVE  MonitorInv'
<1>1. UNCHANGED <<monitorVars, history>> /\ replies' \subseteq replies
  BY SMT DEF ReplyLost, Quiet
<1> QED BY <1>1, SMT DEF monitorVars, history

\* A step of the system is a step of a monitor, of the network, or neither.
LEMMA SystemStep == [SystemNext]_systemVars => MonitorNext
<1> SUFFICES ASSUME [SystemNext]_systemVars PROVE MonitorNext
  OBVIOUS
<1> USE DEF vars
<1>1. ASSUME NEW m \in Monitors, MonitorRuns(m)
      PROVE  MonitorNext
  <2>1. CASE LoopStep(m)
    BY <2>1 DEF MonitorNext
  <2>2. CASE Request(m)
    BY <2>2 DEF MonitorNext, Request, Quiet, history
  <2> QED BY <1>1, <2>1, <2>2 DEF MonitorRuns
<1>2. ASSUME NEW m \in Monitors,
             AdminUpDown(m) \/ LinkComesUp(m) \/ Unplug(m) \/ Plug(m)
      PROVE  MonitorNext
  BY <1>2 DEF MonitorNext, Quiet, AdminUpDown, LinkComesUp, Unplug, Plug, SetCarrier
<1>3. ASSUME NEW i \in Rivals, RivalRequest(i)
      PROVE  MonitorNext
  BY <1>3 DEF MonitorNext, Quiet, RivalRequest
<1>4. CASE CooldownElapses \/ Worker \/ Network
  BY <1>4 DEF MonitorNext, Quiet, CooldownElapses, Worker, Network, PathChanges
<1>5. CASE UNCHANGED systemVars
  BY <1>5 DEF MonitorNext, Quiet, systemVars
<1> QED BY <1>1, <1>2, <1>3, <1>4, <1>5 DEF SystemNext

LEMMA MonitorInvStep ==
  ASSUME MonitorInv, MonitorNext
  PROVE  MonitorInv'
<1> HIDE DEF MonitorInv
<1>1. ASSUME NEW m \in Monitors, LoopStep(m)
      PROVE  MonitorInv'
  BY <1>1, ChecksKeepInv, OpenSocketKeepsInv, SendProbeKeepsInv, ReceiveKeepsInv,
     CountKeepsInv, WakeKeepsInv
  DEF LoopStep
<1>2. ASSUME NEW m \in Monitors,
             NEW reply \in Answers,
             RequestAnswered(m, reply)
      PROVE  MonitorInv'
  BY <1>2, RequestKeepsInv
<1> QED BY <1>1, <1>2, ReplyArrivesKeepsInv, ForeignArrivesKeepsInv, QuietKeepsInv
        DEF MonitorNext

LEMMA MonitorInvHolds == SystemSpec => []MonitorInv
<1> USE DEF MonitorInv
<1>1. SystemInit => MonitorInv
  BY InvInit
<1>2. MonitorInv /\ [SystemNext]_systemVars => MonitorInv'
  BY SystemStep, MonitorInvStep
<1> HIDE DEF MonitorInv
<1> QED BY <1>1, <1>2, PTL DEF SystemSpec

-----------------------------------------------------------------------------
(* The theorems                                                            *)

\* The monitors' variables keep to their types, and fail_count stays below the
\* threshold except on the way to a request (main, 264-284).
THEOREM MonitorsTyped == SystemSpec => []TypeOK
<1>1. MonitorInv => TypeOK
  BY DEF MonitorInv
<1> QED BY <1>1, MonitorInvHolds, PTL

\* A restart is requested only after fail_threshold probes in a row have failed
\* (main, 248-274), for every threshold.
THEOREM RequestsAreFounded == SystemSpec => []RestartNeedsFailuresInARow
<1>1. MonitorInv => RestartNeedsFailuresInARow
  BY MonitorAssumption, SMT
  DEF MonitorInv, TypeOK, HistoryOK, CountsAgree, RestartNeedsFailuresInARow
<1> QED BY <1>1, MonitorInvHolds, PTL

\* "ping ok" is said when the target answered this probe (send_ping_once,
\* 160-175), although sequence numbers wrap and every raw socket of the host
\* sees every packet.
THEOREM OkIsFounded == SystemSpec => OkMeansAnswered
<1>1. MonitorInv => [\A m \in Monitors : CountResult(m) /\ ret[m] = "ok" => reached[m]]_vars
  <2> SUFFICES ASSUME MonitorInv, NEW m \in Monitors, CountResult(m), ret[m] = "ok"
               PROVE  reached[m]
    OBVIOUS
  <2>1. pc[m] = "count"
    BY DEF CountResult
  <2> QED BY <2>1 DEF MonitorInv, AnswersKnown
<1> QED BY <1>1, MonitorInvHolds, PTL DEF OkMeansAnswered
-----------------------------------------------------------------------------
(* The driver and the interfaces                                           *)

\* Between the worker's dev_close and dev_open the interface stays down, and a
\* job is kept exactly while the driver is not free.
RestartOK ==
  /\ running \subseteq Interfaces
  /\ phase \in {"free", "accepted", "down", "served"}
  /\ job \in Interfaces \cup {0} /\ (job = 0 <=> phase = "free")
  /\ phase = "down" => job \notin running

\* What sysfs tells a monitor of its interface is what has become of it.
LinkOK ==
  /\ carrier \in [Monitors -> {"unavailable", "down", "up"}]
  /\ \A m \in Monitors : /\ carrier[m] = "unavailable" <=> m \notin running
                         /\ carrier[m] = "up" => m \in plugged

\* A request that passed the cooldown test is inside the write of its monitor.
PassedOK == \A m \in Monitors \ Rivals : m \in passed => pc[m] = "request"

\* The links and the cables are no business of the driver.
LEMMA LinksLeaveDriver ==
  ASSUME NEW m \in Monitors, LinkComesUp(m) \/ Unplug(m) \/ Plug(m)
  PROVE  UNCHANGED <<job, phase, running>>
  BY DEF LinkComesUp, Unplug, Plug, SetCarrier, driverVars, netVars

\* What a write does to the driver is an acceptance or nothing.
LEMMA WritesAccept ==
  ASSUME NEW i, Request(i) \/ RivalRequest(i)
  PROVE  Service!Accept(i) \/ UNCHANGED <<job, phase, running>>
  BY DEF Request, RivalRequest, PassCooldown, RefuseBusy, Accept, driverVars, netVars

\* A step of the system is a step of the restart service, or none of its own.
LEMMA SystemServiceStep == [SystemNext]_systemVars => [Service!Next]_(Service!vars)
<1> SUFFICES ASSUME [SystemNext]_systemVars PROVE [Service!Next]_(Service!vars)
  OBVIOUS
<1> USE DEF Service!vars, Service!Next
<1>1. ASSUME NEW m \in Monitors, MonitorRuns(m)
      PROVE  [Service!Next]_(Service!vars)
  BY <1>1, WritesAccept DEF MonitorRuns, Interfaces, driverVars, netVars
<1>2. ASSUME NEW i \in Rivals, RivalRequest(i)
      PROVE  [Service!Next]_(Service!vars)
  BY <1>2, WritesAccept DEF Interfaces
<1>3. ASSUME NEW m \in Monitors, AdminUpDown(m)
      PROVE  [Service!Next]_(Service!vars)
  BY <1>3 DEF AdminUpDown
<1>4. ASSUME NEW m \in Monitors, LinkComesUp(m) \/ Unplug(m) \/ Plug(m)
      PROVE  [Service!Next]_(Service!vars)
  BY <1>4, LinksLeaveDriver
<1>5. CASE Worker
  BY <1>5 DEF Worker
<1>6. CASE CooldownElapses \/ Network \/ UNCHANGED systemVars
  BY <1>6 DEF CooldownElapses, Network, systemVars, driverVars, netVars
<1> QED BY <1>1, <1>2, <1>3, <1>4, <1>5, <1>6 DEF SystemNext

USE DEF RestartOK, LinkOK, PassedOK
HIDE DEF MonitorInv, TypeOK, Answers, HistoryOK, CountsAgree, AnswersKnown, HasSocket,
         Reply

LEMMA RestartInit == SystemInit => RestartOK /\ LinkOK /\ PassedOK
  BY MonitorAssumption
  DEF SystemInit, Init, Service!Init, Service!NoJob

\* Nobody but the worker touches the interface between dev_close and dev_open.
LEMMA RestartStep ==
  ASSUME RestartOK, [SystemNext]_systemVars
  PROVE  RestartOK'
<1>1. 0 \notin Interfaces
  BY RivalsAssumption DEF Interfaces
<1>2. ASSUME NEW i \in Interfaces, Service!Accept(i)
      PROVE  RestartOK'
  BY <1>1, <1>2 DEF Service!Accept
<1>3. ASSUME Service!TakeDown \/ Service!BringUp \/ Service!Drop \/ Service!Finish
      PROVE  RestartOK'
  BY <1>1, <1>3
  DEF Service!TakeDown, Service!BringUp, Service!Drop, Service!Finish, Service!NoJob
<1>4. ASSUME Service!Others
      PROVE  RestartOK'
  BY <1>4 DEF Service!Others
<1>5. ASSUME UNCHANGED Service!vars
      PROVE  RestartOK'
  BY <1>5 DEF Service!vars
<1> QED BY <1>2, <1>3, <1>4, <1>5, SystemServiceStep DEF Service!Next

\* Whoever closes or opens an interface makes sysfs follow.
LEMMA LinkStep ==
  ASSUME LinkOK, RestartOK, [SystemNext]_systemVars
  PROVE  LinkOK'
<1>1. ASSUME LinksFollow, plugged' = plugged
      PROVE  LinkOK'
  BY <1>1 DEF LinksFollow
<1>2. ASSUME UNCHANGED <<carrier, running, plugged>>
      PROVE  LinkOK'
  BY <1>2
<1>3. ASSUME NEW m \in Monitors, MonitorRuns(m)
      PROVE  UNCHANGED <<carrier, running, plugged>>
  BY <1>3
  DEF MonitorRuns, LoopStep, ReadCarrier, ReadAddress, OpenSocket, SendProbe, Receive,
      Timeout, CountResult, Wake, Request, RequestAnswered, Accept, Service!Accept,
      linkVars, netVars, vars
<1>4. ASSUME NEW i \in Rivals, RivalRequest(i)
      PROVE  UNCHANGED <<carrier, running, plugged>>
  BY <1>4 DEF RivalRequest, Accept, Service!Accept, linkVars, vars
<1>5. ASSUME NEW m \in Monitors, AdminUpDown(m)
      PROVE  LinkOK'
  BY <1>1, <1>5 DEF AdminUpDown
<1>6. ASSUME NEW m \in Monitors, LinkComesUp(m)
      PROVE  LinkOK'
  BY <1>6 DEF LinkComesUp, SetCarrier
<1>7. ASSUME NEW m \in Monitors, Unplug(m)
      PROVE  LinkOK'
  BY <1>7 DEF Unplug, SetCarrier
<1>8. ASSUME NEW m \in Monitors, Plug(m)
      PROVE  LinkOK'
  BY <1>8 DEF Plug, vars, linkVars
<1>9. CASE Worker
  <2>1. CASE Service!Finish /\ UNCHANGED carrier
    BY <1>2, <1>9, <2>1 DEF Worker, Service!Finish
  <2> QED BY <1>1, <1>9, <2>1 DEF Worker
<1>10. CASE CooldownElapses \/ Network \/ UNCHANGED systemVars
  BY <1>2, <1>10
  DEF CooldownElapses, Network, ReplyArrives, ReplyLost, ForeignArrives, PathChanges,
      systemVars, netVars, vars, linkVars
<1> QED BY <1>2, <1>3, <1>4, <1>5, <1>6, <1>7, <1>8, <1>9, <1>10 DEF SystemNext

\* A monitor does not leave its write behind: the answer ends its request.
LEMMA PassedStep ==
  ASSUME PassedOK, TypeOK, [SystemNext]_systemVars
  PROVE  PassedOK'
<1>1. pc \in [Monitors -> {"carrier", "address", "socket", "send", "poll",
                           "count", "request", "sleep"}]
  BY DEF TypeOK
<1>2. ASSUME NEW m \in Monitors, LoopStep(m), UNCHANGED <<driverVars, netVars>>
      PROVE  PassedOK'
  <2>1. pc[m] # "request" /\ \A n \in Monitors : n # m => pc'[n] = pc[n]
    BY <1>1, <1>2
    DEF LoopStep, ReadCarrier, ReadAddress, OpenSocket, SendProbe, Receive, Timeout,
        CountResult, Wake, PingReturns, Goto
  <2> QED BY <1>2, <2>1 DEF driverVars
<1>3. ASSUME NEW m \in Monitors, Request(m)
      PROVE  PassedOK'
  BY <1>1, <1>3
  DEF Request, RequestAnswered, PassCooldown, RefuseBusy, Accept, Goto, driverVars,
      vars, monitorVars
<1>4. ASSUME NEW i \in Rivals, RivalRequest(i)
      PROVE  PassedOK'
  BY <1>4 DEF RivalRequest, PassCooldown, RefuseBusy, Accept, vars, monitorVars
<1>5. ASSUME NEW m \in Monitors,
             AdminUpDown(m) \/ LinkComesUp(m) \/ Unplug(m) \/ Plug(m)
      PROVE  PassedOK'
  BY <1>5
  DEF AdminUpDown, LinkComesUp, Unplug, Plug, SetCarrier, vars, monitorVars, driverVars
<1>6. CASE CooldownElapses \/ Worker \/ Network \/ UNCHANGED systemVars
  BY <1>6
  DEF CooldownElapses, Worker, Network, ReplyArrives, ReplyLost, ForeignArrives,
      PathChanges, systemVars, driverVars, vars, monitorVars
<1> QED BY <1>2, <1>3, <1>4, <1>5, <1>6 DEF SystemNext, MonitorRuns

SystemInv == MonitorInv /\ RestartOK /\ LinkOK /\ PassedOK

HIDE DEF RestartOK, LinkOK, PassedOK

LEMMA SystemInvHolds == SystemSpec => []SystemInv
<1>1. SystemInit => SystemInv
  BY InvInit, RestartInit DEF SystemInv
<1>2. SystemInv /\ [SystemNext]_systemVars => SystemInv'
  BY SystemStep, MonitorInvStep, RestartStep, LinkStep, PassedStep
  DEF SystemInv, MonitorInv
<1> QED BY <1>1, <1>2, PTL DEF SystemSpec

-----------------------------------------------------------------------------

\* The system as a whole keeps the promise of the restart service, whatever the
\* monitors, the rivals, the administrator and the cables do.
THEOREM SystemServes == SystemSpec => Service!Spec
  BY SystemServiceStep, PTL DEF SystemSpec, SystemInit, Service!Spec

\* While a restart is between dev_close and dev_open its interface is down, for
\* everybody: no monitor, rival or administrator gets in between.
THEOREM RestartUndisturbed == SystemSpec => [](phase = "down" => job \notin running)
<1>1. SystemInv => (phase = "down" => job \notin running)
  BY DEF SystemInv, RestartOK
<1> QED BY <1>1, SystemInvHolds, PTL

\* The restarts of an interface that only its monitor asks for are founded, for
\* any threshold, rivals and links (write to /dev/net_watchdog, main 274-284).
THEOREM RestartsAreFounded == SystemSpec => RestartsFounded
<1>1. ASSUME SystemInv, SystemNext, NEW m \in Monitors \ Rivals, job # m, job' = m
      PROVE  inARow[m] >= Threshold
  <2>1. m # 0
    BY RivalsAssumption
  <2>2. ~(\E i \in Rivals : RivalRequest(i))
    BY <1>1
    DEF RivalRequest, PassCooldown, RefuseBusy, Accept, Service!Accept
  <2>3. ~Worker
    BY <1>1, <2>1
    DEF Worker, Service!TakeDown, Service!BringUp, Service!Finish, Service!NoJob
  <2>4. ~(\E n \in Monitors : AdminUpDown(n) \/ LinkComesUp(n) \/ Unplug(n) \/ Plug(n))
    BY <1>1, LinksLeaveDriver DEF AdminUpDown, Service!Others
  <2>5. ~CooldownElapses /\ ~Network
    BY <1>1 DEF CooldownElapses, Network, driverVars
  <2>6. PICK n \in Monitors : MonitorRuns(n)
    BY <1>1, <2>2, <2>3, <2>4, <2>5 DEF SystemNext
  <2>7. Request(n) /\ Service!Accept(n)
    BY <1>1, <2>6, WritesAccept DEF MonitorRuns, driverVars
  <2>8. n = m /\ pc[m] = "request"
    BY <1>1, <2>7 
    DEF Request, Service!Accept, PassCooldown, RefuseBusy, RequestAnswered, driverVars
  <2>9. failCount[m] \in Nat /\ failCount[m] >= Threshold /\ failCount[m] <= inARow[m]
        /\ inARow[m] \in Nat
    BY <1>1, <2>8 DEF SystemInv, MonitorInv, TypeOK, CountsAgree, HistoryOK
  <2> QED BY <2>9, MonitorAssumption, SMT
<1>2. SystemInv => [SystemNext => \A m \in Monitors \ Rivals :
                      job # m /\ job' = m => inARow[m] >= Threshold]_systemVars
  BY <1>1
<1> QED BY <1>2, SystemInvHolds, PTL DEF SystemSpec, RestartsFounded

\* A pass that starts while the interface is closed ends without a probe and with
\* fail_count as it was: no request comes of an interface that is down.
DownIsSkipped ==
  [][\A m \in Monitors :
       ReadCarrier(m) /\ m \notin running =>
         pc'[m] = "sleep" /\ failCount' = failCount]_systemVars

THEOREM DownIsSkippedHolds == SystemSpec => DownIsSkipped
<1>1. ASSUME SystemInv, NEW m \in Monitors, ReadCarrier(m), m \notin running
      PROVE  pc'[m] = "sleep" /\ failCount' = failCount
  <2>1. carrier[m] = "unavailable" /\ pc \in [Monitors ->
          {"carrier", "address", "socket", "send", "poll", "count", "request", "sleep"}]
    BY <1>1 DEF SystemInv, LinkOK, MonitorInv, TypeOK
  <2> QED BY <1>1, <2>1 DEF ReadCarrier, Goto
<1>2. SystemInv => [\A m \in Monitors :
                      ReadCarrier(m) /\ m \notin running =>
                        pc'[m] = "sleep" /\ failCount' = failCount]_systemVars
  BY <1>1
<1> QED BY <1>2, SystemInvHolds, PTL DEF DownIsSkipped
=============================================================================
