---------------------------- MODULE LpuartPolling ----------------------------
(* The polling UART driver lpuart_polling: open turns the clock and the port   *)
(* on, read and write wait in a loop for the port and then use it.  There is   *)
(* no release function, no lock and no interrupt.                              *)
EXTENDS CharDevModule

CONSTANT MaxEnables     \* bound: how often the clock is enabled

ASSUME MaxEnablesAssumption == MaxEnables \in Nat

VARIABLES clock,      \* how often the clock is enabled
          enabled,    \* TE and RE in the CTRL register
          tdre,       \* the transmit register is empty
          rdrf,       \* the receive register is full
          disturbed   \* programs between whose poll and use another came

portVars == <<clock, enabled, tdre, rdrf>>
pollingVars == <<portVars, disturbed>>

PollingInit ==
  /\ clock = 0 /\ enabled = FALSE
  /\ tdre = TRUE /\ rdrf = FALSE
  /\ disturbed = {}

Polling(p, from) == driver = "lpuart_polling" /\ pc[p] = from /\ Loaded

Go(p, from, to) ==
  /\ Polling(p, from)
  /\ pc' = [pc EXCEPT ![p] = to]
  /\ UNCHANGED <<lifeVars, early, led>>

(* A program uses what others at this place have polled already.              *)
Disturb(p, place) ==
  disturbed' = disturbed \union {q \in Procs \ {p} : pc[q] = place}

------------------------------------------------------------------------------
(* Mutant: the result of clk_prepare_enable is not looked at.                 *)
EnableClockUnchecked(p) ==
  /\ Go(p, "opening", "clocked")
  /\ clock' \in {clock} \union ({clock + 1} \intersect 0..MaxEnables)
  /\ UNCHANGED <<enabled, tdre, rdrf, disturbed>>

(* uart_open.  Every open enables the clock and nothing disables it again.    *)
EnableClock(p) ==
  /\ \/ Go(p, "opening", "idle") /\ clock' = clock
     \/ Go(p, "opening", "clocked") /\ clock < MaxEnables /\ clock' = clock + 1
  /\ UNCHANGED <<enabled, tdre, rdrf, disturbed>>

(* CTRL is cleared for the baud rate, whoever is sending or receiving.        *)
CtrlOff(p) ==
  /\ Go(p, "clocked", "off")
  /\ enabled' = FALSE
  /\ UNCHANGED <<clock, tdre, rdrf, disturbed>>

(* The baud rate is set and CTRL written with TE and RE.                       *)
CtrlOn(p) ==
  /\ Polling(p, "off") /\ OpenedFrom(p, "off")
  /\ enabled' = TRUE
  /\ UNCHANGED <<clock, tdre, rdrf, disturbed>>

uart_open(p) == EnableClock(p) \/ CtrlOff(p) \/ CtrlOn(p)

------------------------------------------------------------------------------
(* read and write, after their checks of the buffer.                          *)
StartCall(p) ==
  /\ Go(p, "open", "sending") \/ Go(p, "open", "receiving")
  /\ UNCHANGED pollingVars

(* lpuart_putc: wait for TDRE, then write DATA; uart_write goes on with the   *)
(* next byte, or returns after the last or at a byte it cannot fetch.         *)
PollTransmitter(p) ==
  /\ tdre
  /\ Go(p, "sending", "put")
  /\ disturbed' = disturbed \ {p}
  /\ UNCHANGED portVars

PutByte(p) ==
  /\ Go(p, "put", "sending") \/ Go(p, "put", "open")
  /\ tdre' = FALSE
  /\ Disturb(p, "put")
  /\ UNCHANGED <<clock, enabled, rdrf>>

(* Mutant: the wait is for any status but zero.                               *)
PollReceiverAnyStatus(p) ==
  /\ tdre \/ rdrf
  /\ Go(p, "receiving", "get")
  /\ disturbed' = disturbed \ {p}
  /\ UNCHANGED portVars

(* lpuart_getc: wait for RDRF, however long and whatever signals come, then   *)
(* read DATA; uart_read returns with the one byte, or loses it to a fault.    *)
PollReceiver(p) ==
  /\ rdrf
  /\ Go(p, "receiving", "get")
  /\ disturbed' = disturbed \ {p}
  /\ UNCHANGED portVars

GetByte(p) ==
  /\ Go(p, "get", "open")
  /\ rdrf' = FALSE
  /\ Disturb(p, "get")
  /\ UNCHANGED <<clock, enabled, tdre>>

uart_call(p) == PollTransmitter(p) \/ PutByte(p) \/ PollReceiver(p) \/ GetByte(p)

------------------------------------------------------------------------------
(* The port.  A byte that meets a full receive register is lost.              *)
Port ==
  /\ clock > 0 /\ enabled
  /\ \/ ~tdre /\ tdre' = TRUE /\ rdrf' = rdrf
     \/ ~rdrf /\ rdrf' = TRUE /\ tdre' = tdre
  /\ UNCHANGED <<charDevVars, clock, enabled, disturbed>>

------------------------------------------------------------------------------
Users == {p \in Procs : pc[p] \in {"sending", "put", "receiving", "get"}}

(* The port is ready for whoever uses it: no register is touched without the  *)
(* clock, a file that is open finds the port on unless another open is        *)
(* setting it up, and what a poll found still holds at the access behind it   *)
(* unless another's access came in between, which no lock prevents.           *)
PortReady ==
  driver = "lpuart_polling" =>
    /\ \A p \in Procs : pc[p] \in {"clocked", "off"} \/ p \in Users => clock > 0
    /\ Users # {} => enabled \/ \E p \in Procs : pc[p] = "off"
    /\ \A p \in Procs \ disturbed : /\ pc[p] = "put" => tdre
                                    /\ pc[p] = "get" => rdrf

(* What the comment in lpuart_putc says: DATA is written when the hardware is  *)
(* idle, that is with TDRE set.  Two programs that write break it.             *)
DataIsWrittenWhenEmpty ==
  driver = "lpuart_polling" => \A p \in Procs : pc[p] = "put" => tdre

(* What the comment in uart_open says: before the baud rate is set sending and *)
(* receiving must be off.  Two programs that open the device at once break it. *)
BaudIsSetWhileOff ==
  driver = "lpuart_polling" => \A p \in Procs : pc[p] = "off" => ~enabled
==============================================================================
