-------------------------------- MODULE At24 --------------------------------
(***************************************************************************)
(* The AT24C256 EEPROM driver (recipes-kernel/hsiao-kmod/files/            *)
(* 22_i2c_at24.c): read, write in pieces that stay inside a page, llseek.  *)
(*                                                                         *)
(* Each process has a file of its own.  The chip, the bus and the VFS are  *)
(* external: the chip takes a piece into one page, rolling over at its     *)
(* end, and answers nothing until its write cycle is over; the VFS hands   *)
(* the driver a copy of the file's position and keeps what the driver made *)
(* of it when the call succeeds.                                           *)
(***************************************************************************)
EXTENDS Integers, FiniteSets

CONSTANTS Procs,         \* processes that use the device
          Size,          \* priv->size: 32768
          PageSize,      \* priv->page_size: 64
          AddressSpace,  \* an address is sent in two bytes: 65536
          UIntMod,       \* an unsigned int is taken modulo this: 2^32
          MaxCount,      \* bound: the longest read or write
          Nobody         \* no process

ASSUME At24Assumption ==
  /\ Size \in Nat \ {0} /\ PageSize \in Nat \ {0} /\ Size % PageSize = 0
  /\ AddressSpace \in Nat /\ AddressSpace >= Size
  /\ UIntMod \in Nat /\ UIntMod > 2 * Size
  /\ MaxCount \in Nat
  /\ Nobody \notin Procs

VARIABLES pc,      \* where each process is
          op,      \* the call it is in
          pos,     \* f_pos of its file
          offset,  \* *offset in the call
          count,   \* count in the call, once it is clamped
          total,   \* total_written in the call
          ret,     \* what the last i2c_transfer came to
          mutex,   \* who holds lock
          cycle,   \* whose piece the chip is burning in, or Nobody
          wrong,   \* the chip's cells that do not hold the byte last written
                   \* to their place in the file
          spread   \* history: a call has written a second piece

callVars == <<op, offset, count, total, ret>>
chipVars == <<cycle, wrong, spread>>
vars == <<pc, pos, callVars, mutex, chipVars>>

Addresses == 0..Size-1

Init == /\ pc = [p \in Procs |-> "idle"]
        /\ op = [p \in Procs |-> "none"]
        /\ pos = [p \in Procs |-> 0]
        /\ offset = [p \in Procs |-> 0]
        /\ count = [p \in Procs |-> 0]
        /\ total = [p \in Procs |-> 0]
        /\ ret = [p \in Procs |-> "done"]
        /\ mutex = Nobody
        /\ cycle = Nobody /\ wrong = {}
        /\ spread = FALSE

Goto(p, to) == pc' = [pc EXCEPT ![p] = to]

\* The call returns; the VFS keeps the position of a call that succeeded.
Return(p, newPos) == /\ Goto(p, "idle")
                     /\ pos' = [pos EXCEPT ![p] = newPos]
                     /\ op' = [op EXCEPT ![p] = "none"]
                     /\ offset' = [offset EXCEPT ![p] = 0]
                     /\ count' = [count EXCEPT ![p] = 0]
                     /\ total' = [total EXCEPT ![p] = 0]
                     /\ ret' = [ret EXCEPT ![p] = "done"]
-----------------------------------------------------------------------------
(* at24_eeprom_llseek                                                      *)

\* -(priv->size) is an unsigned int: it is large, and no offset <= 0 exceeds it.
MinusSize == (UIntMod - Size) % UIntMod

SeekTarget(p, o, whence) == CASE whence = "SET" -> o
                              [] whence = "CUR" -> pos[p] + o
                              [] whence = "END" -> Size + o

SeekAllowed(p, o, whence) ==
  IF whence = "END" THEN o <= 0 /\ o > MinusSize
                    ELSE SeekTarget(p, o, whence) \in Addresses

Seek(p, o, whence) ==
  /\ pc[p] = "idle"
  /\ SeekAllowed(p, o, whence)
  /\ pos' = [pos EXCEPT ![p] = SeekTarget(p, o, whence)]
  /\ UNCHANGED <<pc, callVars, mutex, chipVars>>
-----------------------------------------------------------------------------
(* at24_eeprom_read and at24_eeprom_write                                  *)

\* Mutant of Clamped: the count is not cut.
ClampedNot(p, n) == n

Clamped(p, n) == IF pos[p] + n > Size THEN Size - pos[p] ELSE n

\* Both refuse a position at the end, cut the count to what is left, and may
\* find no memory for their buffer; a call refused changes nothing.
StartCall(p, call, n) ==
  /\ pc[p] = "idle" /\ pos[p] < Size
  /\ op' = [op EXCEPT ![p] = call]
  /\ offset' = [offset EXCEPT ![p] = pos[p]]
  /\ count' = [count EXCEPT ![p] = Clamped(p, n)]
  /\ Goto(p, "lock")
  /\ UNCHANGED <<pos, total, ret, mutex, chipVars>>

\* Mutant of Lock: nobody waits.
LockUnchecked(p) == /\ pc[p] = "lock"
                    /\ mutex' = p
                    /\ Goto(p, IF op[p] = "write" THEN "fill" ELSE "transfer")
                    /\ UNCHANGED <<pos, callVars, chipVars>>

Lock(p) == /\ pc[p] = "lock" /\ mutex = Nobody
           /\ mutex' = p
           /\ Goto(p, IF op[p] = "write" THEN "fill" ELSE "transfer")
           /\ UNCHANGED <<pos, callVars, chipVars>>

\* Where a piece goes: both *offset and total_written have been advanced by the
\* pieces before it.
Target(p) == offset[p] + total[p]

\* Mutant of Piece: the page is not looked at.
PieceUnpaged(p) == count[p] - total[p]

\* bytes_to_write: up to the end of the page, or what is left to write.
Piece(p) == LET room == PageSize - (Target(p) % PageSize)
                left == count[p] - total[p]
            IN IF room < left THEN room ELSE left

\* Mutant of FillBuffer: a return without mutex_unlock.
FillBufferKeepsLock(p) == /\ pc[p] = "fill"
                          /\ \/ /\ Goto(p, "transfer")
                                /\ UNCHANGED <<pos, callVars, mutex>>
                             \/ Return(p, pos[p]) /\ UNCHANGED mutex
                          /\ UNCHANGED chipVars

\* copy_from_user, under the mutex; a fault gives the mutex back and fails.
FillBuffer(p) == /\ pc[p] = "fill"
                 /\ \/ /\ Goto(p, "transfer")
                       /\ UNCHANGED <<pos, callVars, mutex>>
                    \/ Return(p, pos[p]) /\ mutex' = Nobody
                 /\ UNCHANGED chipVars

\* The chip: the cell that byte k of a piece sent to an address falls into; the
\* piece stays in the page of its first byte.
Cell(address, k) ==
  LET first == (address % AddressSpace) % Size
      inPage == first % PageSize
  IN (first - inPage) + ((inPage + k) % PageSize)

\* The cell it belongs into.
OwnCell(p, k) == pos[p] + total[p] + k

\* A piece that goes astray spoils the cells it hits and those it misses.
Burn(p) == LET bytes  == 0..Piece(p)-1
               landed == {k \in bytes : Cell(Target(p), k) = OwnCell(p, k)}
           IN (wrong \cup {Cell(Target(p), k) : k \in bytes}
                     \cup {OwnCell(p, k) : k \in bytes})
                 \ {OwnCell(p, k) : k \in landed}

\* i2c_transfer.  A chip in its write cycle answers nothing; the bus may fail
\* for other reasons.
Transfer(p) ==
  /\ pc[p] = "transfer"
  /\ \/ /\ ret' = [ret EXCEPT ![p] = "failed"]
        /\ UNCHANGED chipVars
     \/ /\ cycle = Nobody /\ op[p] = "read"
        /\ ret' = [ret EXCEPT ![p] = "done"]
        /\ UNCHANGED chipVars
     \/ /\ cycle = Nobody /\ op[p] = "write"
        /\ ret' = [ret EXCEPT ![p] = "done"]
        /\ wrong' = Burn(p)
        /\ spread' = IF total[p] > 0 THEN TRUE ELSE spread
        /\ cycle' = p
  /\ Goto(p, "unlock")
  /\ UNCHANGED <<pos, op, offset, count, total, mutex>>

Unlock(p) ==
  /\ pc[p] = "unlock"
  /\ mutex' = Nobody
  /\ IF ret[p] = "failed" THEN Return(p, pos[p])
     ELSE /\ Goto(p, IF op[p] = "write" THEN "advance" ELSE "deliver")
          /\ UNCHANGED <<pos, callVars>>
  /\ UNCHANGED chipVars

\* copy_to_user may fault; otherwise the position moves by what was read.
Deliver(p) == /\ pc[p] = "deliver"
              /\ Return(p, pos[p]) \/ Return(p, offset[p] + count[p])
              /\ UNCHANGED <<mutex, chipVars>>

\* Mutant of Advance: *offset is left to the caller.
AdvanceTotalOnly(p) == /\ pc[p] = "advance"
                       /\ total' = [total EXCEPT ![p] = @ + Piece(p)]
                       /\ Goto(p, "sleep")
                       /\ UNCHANGED <<pos, op, offset, count, ret, mutex, chipVars>>

\* total_written and *offset are advanced, then the process sleeps.
Advance(p) == /\ pc[p] = "advance"
              /\ total' = [total EXCEPT ![p] = @ + Piece(p)]
              /\ offset' = [offset EXCEPT ![p] = @ + Piece(p)]
              /\ Goto(p, "sleep")
              /\ UNCHANGED <<pos, op, count, ret, mutex, chipVars>>

\* Mutant of WakeUp: the wait for the write cycle left out.
WakeUpAtOnce(p) == /\ pc[p] = "sleep"
                   /\ IF total[p] < count[p]
                      THEN Goto(p, "lock") /\ UNCHANGED <<pos, callVars>>
                      ELSE Return(p, offset[p])
                   /\ UNCHANGED <<mutex, chipVars>>

\* msleep(5) is at least as long as the cycle of the piece just written; then
\* the next piece, or the end.
WakeUp(p) == /\ pc[p] = "sleep" /\ cycle # p
             /\ IF total[p] < count[p]
                THEN Goto(p, "lock") /\ UNCHANGED <<pos, callVars>>
                ELSE Return(p, offset[p])
             /\ UNCHANGED <<mutex, chipVars>>

CycleEnds == /\ cycle # Nobody
             /\ cycle' = Nobody
             /\ UNCHANGED <<pc, pos, callVars, mutex, wrong, spread>>

CallStep(p) == \/ FillBuffer(p) \/ Transfer(p) \/ Unlock(p) \/ Deliver(p)
               \/ Advance(p) \/ WakeUp(p)

Next == \/ \E p \in Procs :
             \/ \E o \in -Size..Size, w \in {"SET", "CUR", "END"} : Seek(p, o, w)
             \/ \E n \in 1..MaxCount, call \in {"read", "write"} :
                  StartCall(p, call, n)
             \/ Lock(p) \/ CallStep(p)
        \/ CycleEnds

\* A call that has begun goes on; a mutex is handed to those who wait for it in
\* turn; a write cycle ends.  Nobody is obliged to make a call.
Spec == /\ Init /\ [][Next]_vars
        /\ \A p \in Procs : WF_vars(CallStep(p)) /\ SF_vars(Lock(p))
        /\ WF_vars(CycleEnds)
-----------------------------------------------------------------------------
(* Properties                                                              *)

PCs == {"idle", "lock", "fill", "transfer", "unlock", "deliver", "advance",
        "sleep"}

\* The type invariant.
TypeOK == /\ pc \in [Procs -> PCs]
          /\ op \in [Procs -> {"none", "read", "write"}]
          /\ pos \in [Procs -> 0..Size] /\ offset \in [Procs -> 0..Size]
          /\ count \in [Procs -> 0..Size] /\ total \in [Procs -> 0..Size]
          /\ ret \in [Procs -> {"done", "failed"}]
          /\ mutex \in Procs \cup {Nobody} /\ cycle \in Procs \cup {Nobody}
          /\ wrong \subseteq Addresses /\ spread \in BOOLEAN

\* A piece, wherever it goes, stays inside one page and inside the call's count,
\* and is not empty: the chip never rolls over, and a write comes to its end.
PieceFitsPage ==
  \A p \in Procs :
    pc[p] \in {"fill", "transfer"} /\ op[p] = "write" =>
      /\ Piece(p) > 0 /\ total[p] + Piece(p) <= count[p]
      /\ (Target(p) % PageSize) + Piece(p) <= PageSize

\* The bus is used by one process at a time, the one that holds the mutex.
TransfersExclude ==
  \A p, q \in Procs :
    pc[p] \in {"fill", "transfer", "unlock"} /\ pc[q] \in {"fill", "transfer", "unlock"}
      => p = q

\* What the test program says it may rely on: the driver takes care of 16-bit
\* addresses and pages, "so the application need only send plain data as when it
\* writes an ordinary file".  The chip holds what ordinary files would.
ContentsAsWritten == wrong = {}

\* What is left of it: true until some call writes a second piece.
ContentsAsWrittenInOnePiece == ~spread => wrong = {}

\* What the comment on msleep(5) says it is for: the next command finds the chip
\* done with its write cycle.  Another process's command need not: the mutex is
\* given back before the sleep.
NextCommandFindsChipIdle == \A p \in Procs : pc[p] = "transfer" => cycle = Nobody

\* What is left of it: a call never meets the write cycle that its own process has begun, in this
\* call or an earlier one.
OwnCycleIsOver == [][\A p \in Procs : Transfer(p) => cycle # p]_vars

\* The position after a successful write is where an ordinary file's would be,
\* whatever became of the bytes.
PositionFollowsCount ==
  [][\A p \in Procs :
       WakeUp(p) /\ pc'[p] = "idle" => pos'[p] = pos[p] + count[p]]_vars

\* Every call returns, and so nobody keeps the mutex: not even the write whose
\* buffer faults.
CallsReturn == \A p \in Procs : (pc[p] # "idle") ~> (pc[p] = "idle")
=============================================================================
