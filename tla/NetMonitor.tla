------------------------------ MODULE NetMonitor ------------------------------
(***************************************************************************)
(* net_monitor (recipes-app/ethernet/files/3_net_monitor.c): a loop per    *)
(* process that looks at the carrier and the IPv4 address of an interface, *)
(* pings a target once, counts failures in a row and, at the threshold,    *)
(* writes a restart request to /dev/net_watchdog.                          *)
(*                                                                         *)
(* Several monitors may run.  Each opens a raw ICMP socket for every       *)
(* probe, and such a socket receives every ICMP packet of the host: late   *)
(* replies, replies to another monitor, packets of other programs.  The    *)
(* network, the interface and the driver's answer are external; delays are *)
(* not counted, a poll may end without a packet whenever none has arrived. *)
(***************************************************************************)
EXTENDS Integers, Sequences

CONSTANTS Monitors,       \* the processes, and the ids they ping with
          Threshold,      \* fail_threshold
          SeqMod,         \* sequence numbers are sent modulo this (2^16)
          CarrierStates,  \* what reading sysfs "carrier" may give
          AddressStates,  \* whether the interface has an IPv4 address
          PathStates,     \* whether the target answers
          NoPacket,       \* nothing received
          OtherIds,       \* the ids that other programs ping with
          Foreign         \* an ICMP packet that is no echo reply

ASSUME MonitorAssumption ==
  /\ Threshold \in Int /\ SeqMod \in Nat \ {0}
  /\ CarrierStates \subseteq {"unavailable", "down", "up"}
  /\ AddressStates \subseteq BOOLEAN /\ PathStates \subseteq BOOLEAN
  /\ NoPacket # Foreign
  /\ Monitors \cap OtherIds = {}
  /\ {NoPacket, Foreign} \cap [id : Monitors \cup OtherIds, seq : 0..SeqMod-1] = {}

VARIABLES pc,         \* where each monitor is in its loop
          failCount,  \* fail_count
          seq,        \* seq, as it is sent
          first,      \* the first packet in the probe's socket, if it is open
          ret,        \* what send_ping_once returned: 0 is "ok"
          answer,     \* what the driver said to the last request
          printed,    \* whether "restart request failed" was printed for it
          replies,    \* echo replies underway
          carrier, address, path,  \* the interface of each monitor
          reached,    \* history: the target answered the current probe
          inARow      \* history: the probes that failed since the link was last
                      \* judged otherwise, or a restart was asked for

monitorVars == <<pc, failCount, seq, first, ret, answer, printed>>
linkVars    == <<carrier, address, path>>
history     == <<reached, inARow>>
vars == <<monitorVars, replies, linkVars, history>>

Reply(m, s) == [id |-> m, seq |-> s]
Replies == [id : Monitors, seq : 0..SeqMod-1]
ForeignPackets == [id : OtherIds, seq : 0..SeqMod-1] \cup {Foreign}
Packets == Replies \cup ForeignPackets

HasSocket(m) == pc[m] \in {"send", "poll"}

Init == /\ pc = [m \in Monitors |-> "carrier"]
        /\ failCount = [m \in Monitors |-> 0]
        /\ seq = [m \in Monitors |-> 0]
        /\ first = [m \in Monitors |-> NoPacket]
        /\ ret = [m \in Monitors |-> "none"]
        /\ answer = [m \in Monitors |-> "none"]
        /\ printed = [m \in Monitors |-> FALSE]
        /\ replies = {}
        /\ carrier \in [Monitors -> CarrierStates]
        /\ address \in [Monitors -> AddressStates]
        /\ path \in [Monitors -> PathStates]
        /\ reached = [m \in Monitors |-> FALSE]
        /\ inARow = [m \in Monitors |-> 0]
-----------------------------------------------------------------------------
(* The loop of main                                                        *)

Goto(m, to) == pc' = [pc EXCEPT ![m] = to]

\* The history of what the passes found, independent of fail_count.
Record(m, outcome) ==
  inARow' = [inARow EXCEPT ![m] = IF outcome = "failed" THEN @ + 1 ELSE 0]

\* Mutant of ReadCarrier: the count survives the loss of the carrier.
ReadCarrierKeepsCount(m) ==
  /\ pc[m] = "carrier"
  /\ \/ /\ carrier[m] = "unavailable"
        /\ Goto(m, "sleep")
        /\ UNCHANGED inARow
     \/ /\ carrier[m] = "down"
        /\ Record(m, "unplugged")
        /\ Goto(m, "sleep")
     \/ /\ carrier[m] = "up"
        /\ Goto(m, "address")
        /\ UNCHANGED inARow
  /\ UNCHANGED <<failCount, seq, first, ret, answer, printed, replies, linkVars,
                 reached>>

\* Mutant of ReadCarrier: an error of read_int_sysfs is printed and forgotten.
ReadCarrierGoesOn(m) ==
  /\ pc[m] = "carrier"
  /\ IF carrier[m] = "down"
     THEN /\ failCount' = [failCount EXCEPT ![m] = 0]
          /\ Record(m, "unplugged")
          /\ Goto(m, "sleep")
     ELSE Goto(m, "address") /\ UNCHANGED <<failCount, inARow>>
  /\ UNCHANGED <<seq, first, ret, answer, printed, replies, linkVars, reached>>

ReadCarrier(m) ==
  /\ pc[m] = "carrier"
  /\ \/ /\ carrier[m] = "unavailable"
        /\ Goto(m, "sleep")
        /\ UNCHANGED <<failCount, inARow>>
     \/ /\ carrier[m] = "down"
        /\ failCount' = [failCount EXCEPT ![m] = 0]
        /\ Record(m, "unplugged")
        /\ Goto(m, "sleep")
     \/ /\ carrier[m] = "up"
        /\ Goto(m, "address")
        /\ UNCHANGED <<failCount, inARow>>
  /\ UNCHANGED <<seq, first, ret, answer, printed, replies, linkVars, reached>>

ReadAddress(m) ==
  /\ pc[m] = "address"
  /\ IF address[m]
     THEN /\ Goto(m, "socket")
          /\ UNCHANGED <<failCount, inARow>>
     ELSE /\ failCount' = [failCount EXCEPT ![m] = 0]
          /\ Record(m, "unaddressed")
          /\ Goto(m, "sleep")
  /\ UNCHANGED <<seq, first, ret, answer, printed, replies, linkVars, reached>>

\* send_ping_once(target_ip, timeout_ms, seq++) returns to the loop and closes
\* its socket; the sequence number is used up, sent or not.
PingReturns(m, value) ==
  /\ ret' = [ret EXCEPT ![m] = value]
  /\ first' = [first EXCEPT ![m] = NoPacket]
  /\ seq' = [seq EXCEPT ![m] = (@ + 1) % SeqMod]
  /\ Goto(m, "count")

\* From the moment it is open the raw socket collects packets.  A reply to the
\* probe that last had this number is long gone by now (SeqMod probes later).
OpenSocket(m) ==
  /\ pc[m] = "socket"
  /\ \/ /\ Goto(m, "send")
        /\ UNCHANGED <<ret, first, seq>>
     \/ PingReturns(m, "failed")
  /\ replies' = replies \ {Reply(m, seq[m])}
  /\ UNCHANGED <<failCount, answer, printed, linkVars, history>>

\* sendto fails, or the probe is lost on its way, or the target answers it.
SendProbe(m) ==
  /\ pc[m] = "send"
  /\ \/ /\ PingReturns(m, "failed")
        /\ UNCHANGED <<replies, reached>>
     \/ /\ Goto(m, "poll")
        /\ UNCHANGED <<ret, first, seq, replies, reached>>
     \/ /\ path[m]
        /\ Goto(m, "poll")
        /\ replies' = replies \cup {Reply(m, seq[m])}
        /\ reached' = [reached EXCEPT ![m] = TRUE]
        /\ UNCHANGED <<ret, first, seq>>
  /\ UNCHANGED <<failCount, answer, printed, linkVars, inARow>>

\* Mutant of Matches: the id is not compared.
MatchesAnyId(m, packet) == packet # Foreign /\ packet.seq = seq[m]

\* One packet is received and compared with what was sent.
Matches(m, packet) == packet = Reply(m, seq[m])

Receive(m) ==
  /\ pc[m] = "poll" /\ first[m] # NoPacket
  /\ PingReturns(m, IF Matches(m, first[m]) THEN "ok" ELSE "failed")
  /\ UNCHANGED <<failCount, answer, printed, replies, linkVars, history>>

\* Mutant of Timeout: the 0 that poll returned is returned.
TimeoutIsZero(m) ==
  /\ pc[m] = "poll" /\ first[m] = NoPacket
  /\ PingReturns(m, "ok")
  /\ UNCHANGED <<failCount, answer, printed, replies, linkVars, history>>

Timeout(m) ==
  /\ pc[m] = "poll" /\ first[m] = NoPacket
  /\ PingReturns(m, "failed")
  /\ UNCHANGED <<failCount, answer, printed, replies, linkVars, history>>

\* Mutant of CountResult: the threshold must be exceeded.
CountResultLate(m) ==
  /\ pc[m] = "count"
  /\ failCount' = [failCount EXCEPT ![m] = IF ret[m] = "ok" THEN 0 ELSE @ + 1]
  /\ Record(m, ret[m])
  /\ ret' = [ret EXCEPT ![m] = "none"]
  /\ reached' = [reached EXCEPT ![m] = FALSE]
  /\ Goto(m, IF failCount'[m] > Threshold THEN "request" ELSE "sleep")
  /\ UNCHANGED <<seq, first, answer, printed, replies, linkVars>>

\* ret is a local of the pass, and not looked at again.
CountResult(m) ==
  /\ pc[m] = "count"
  /\ failCount' = [failCount EXCEPT ![m] = IF ret[m] = "ok" THEN 0 ELSE @ + 1]
  /\ Record(m, ret[m])
  /\ ret' = [ret EXCEPT ![m] = "none"]
  /\ reached' = [reached EXCEPT ![m] = FALSE]
  /\ Goto(m, IF failCount'[m] >= Threshold THEN "request" ELSE "sleep")
  /\ UNCHANGED <<seq, first, answer, printed, replies, linkVars>>

\* How a request may end: the device cannot be opened, or what write() returned.
Answers == {"unopened", "len", "EPERM", "EAGAIN", "EBUSY"}

\* request_restart: only a device that cannot be opened is an error.  The line
\* is buffered; the driver sees it, and answers, when fclose flushes it.
RequestAnswered(m, reply) ==
  /\ pc[m] = "request"
  /\ answer' = [answer EXCEPT ![m] = reply]
  /\ printed' = [printed EXCEPT ![m] = reply = "unopened"]
  /\ failCount' = [failCount EXCEPT ![m] = 0]
  /\ inARow' = [inARow EXCEPT ![m] = 0]
  /\ Goto(m, "sleep")
  /\ UNCHANGED <<seq, first, ret, replies, linkVars, reached>>

RequestRestart(m) ==
  \E reply \in Answers : RequestAnswered(m, reply)

Wake(m) ==
  /\ pc[m] = "sleep"
  /\ answer' = [answer EXCEPT ![m] = "none"]
  /\ printed' = [printed EXCEPT ![m] = FALSE]
  /\ Goto(m, "carrier")
  /\ UNCHANGED <<failCount, seq, first, ret, replies, linkVars, history>>

LoopStep(m) == \/ ReadCarrier(m) \/ ReadAddress(m) \/ OpenSocket(m)
               \/ SendProbe(m) \/ Receive(m) \/ Timeout(m)
               \/ CountResult(m) \/ Wake(m)

MonitorStep(m) == LoopStep(m) \/ RequestRestart(m)
-----------------------------------------------------------------------------
(* The environment                                                         *)

\* A packet reaches the host: every open raw socket gets a copy.
Deliver(packet) ==
  first' = [m \in Monitors |->
              IF HasSocket(m) /\ first[m] = NoPacket THEN packet ELSE first[m]]

\* Replies may be lost, delayed, overtaken and duplicated.
ReplyArrives == /\ \E r \in replies : /\ Deliver(r)
                                      /\ replies' \in {replies, replies \ {r}}
                /\ UNCHANGED <<pc, failCount, seq, ret, answer, printed,
                               linkVars, history>>

ReplyLost == /\ \E r \in replies : replies' = replies \ {r}
             /\ UNCHANGED <<monitorVars, linkVars, history>>

\* The raw sockets also see replies to other programs and other ICMP packets.
ForeignArrives == /\ \E packet \in ForeignPackets : Deliver(packet)
                  /\ UNCHANGED <<pc, failCount, seq, ret, answer, printed,
                                 replies, linkVars, history>>

CarrierChanges(m) ==
  /\ \E c \in CarrierStates : carrier' = [carrier EXCEPT ![m] = c]
  /\ UNCHANGED <<monitorVars, replies, address, path, history>>

PathChanges(m) ==
  /\ \/ \E a \in AddressStates : address' = [address EXCEPT ![m] = a] /\ UNCHANGED path
     \/ \E p \in PathStates : path' = [path EXCEPT ![m] = p] /\ UNCHANGED address
  /\ UNCHANGED <<monitorVars, replies, carrier, history>>

Next == \/ \E m \in Monitors : MonitorStep(m) \/ CarrierChanges(m) \/ PathChanges(m)
        \/ ReplyArrives \/ ReplyLost \/ ForeignArrives

\* A monitor is a process that is scheduled and whose sleeps and polls end;
\* the network and the link owe it nothing.
Spec == /\ Init /\ [][Next]_vars
        /\ \A m \in Monitors : WF_vars(MonitorStep(m))
-----------------------------------------------------------------------------
\* The type invariant; the failure count stays below the threshold except
\* on the way to a request.
TypeOK ==
  /\ pc \in [Monitors -> {"carrier", "address", "socket", "send", "poll",
                          "count", "request", "sleep"}]
  /\ failCount \in [Monitors -> Nat]
  /\ \A m \in Monitors : pc[m] # "request" => failCount[m] = 0 \/ failCount[m] < Threshold
  /\ seq \in [Monitors -> 0..SeqMod-1]
  /\ first \in [Monitors -> Packets \cup {NoPacket}]
  /\ \A m \in Monitors : ~HasSocket(m) => first[m] = NoPacket
  /\ ret \in [Monitors -> {"none", "ok", "failed"}]
  /\ answer \in [Monitors -> Answers \cup {"none"}]
  /\ printed \in [Monitors -> BOOLEAN]
  /\ replies \subseteq Replies

\* A restart is requested only after Threshold probes in a row have failed,
\* with no answered probe, no missing carrier, no missing address and no other
\* request in between (passes that could not read the carrier judge nothing).
RestartNeedsFailuresInARow ==
  \A m \in Monitors :
    pc[m] = "request" => inARow[m] >= Threshold

\* "ping ok" is never said on the strength of a late reply to an earlier probe,
\* of another monitor's reply or of any other packet: the target answered the
\* probe of this very pass.
OkMeansAnswered ==
  [][\A m \in Monitors :
       CountResult(m) /\ ret[m] = "ok" => reached[m]]_vars

\* What main says it does when a request fails: "restart request failed".
FailedRequestIsPrinted ==
  [][\A m \in Monitors :
       RequestRestart(m) /\ answer'[m] # "len" => printed'[m]]_vars
=============================================================================
