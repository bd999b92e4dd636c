------------------------------ MODULE At24Proofs ------------------------------
(***************************************************************************)
(* Proofs about At24, for every chip, page size and number of processes.   *)
(* What a call knows of itself (CallOK) bounds its pieces; MutexHeld and   *)
(* CycleOwner tie the mutex and the chip's write cycle to where the        *)
(* processes are.                                                          *)
(***************************************************************************)
EXTENDS At24, TLAPS

\* In a call *offset is the start plus what has been written, the count reaches
\* at most the end of the chip, and a piece is only begun if something is left.
CallOK ==
  \A p \in Procs :
    /\ pc[p] = "idle" => total[p] = 0
    /\ pc[p] # "idle" => /\ op[p] # "none"
                         /\ offset[p] = pos[p] + total[p]
                         /\ pos[p] + count[p] <= Size
                         /\ total[p] <= count[p]
    /\ pc[p] \in {"lock", "fill", "transfer", "unlock", "advance"} =>
         total[p] < count[p]
    /\ pc[p] \in {"fill", "advance", "sleep"} => op[p] = "write"
    /\ pc[p] = "deliver" => op[p] = "read"
    /\ pc[p] # "idle" /\ op[p] # "write" => total[p] = 0

\* The mutex is held by the process that is between Lock and Unlock, and by
\* nobody if there is none.
Holding == {"fill", "transfer", "unlock"}

MutexHeld == \A p \in Procs : pc[p] \in Holding <=> mutex = p

\* The chip burns a piece of p's only while p's call is on its way to the end of
\* its sleep.
CycleOwner == \A p \in Procs :
                cycle = p => /\ op[p] = "write"
                             /\ \/ pc[p] = "unlock" /\ ret[p] = "done"
                                \/ pc[p] \in {"advance", "sleep"}

IndInv == /\ TypeOK /\ CallOK /\ MutexHeld /\ CycleOwner
          /\ ContentsAsWrittenInOnePiece
-----------------------------------------------------------------------------
(* Arithmetic                                                              *)

\* A number below the divisor is its own remainder.
LEMMA ModBelow == ASSUME NEW a \in Nat, NEW m \in Nat \ {0}, a < m PROVE a % m = a
  BY SMT

\* The range of a remainder.
LEMMA ModRange == ASSUME NEW a \in Nat, NEW m \in Nat \ {0}
                  PROVE  a % m \in 0..m-1 /\ a % m <= a
  BY SMT

\* The page of a cell lies inside the chip.
LEMMA PageInside ==
  ASSUME NEW s \in Nat, NEW m \in Nat \ {0}, s % m = 0, NEW a \in 0..s-1
  PROVE  (a - (a % m)) + m <= s
<1> DEFINE q == a \div m
           r == s \div m
<1>1. q \in Nat /\ r \in Nat /\ a = m * q + (a % m) /\ a % m \in 0..m-1 /\ s = m * r
  BY SMT
<1>2. q < r
  <2>1. SUFFICES ASSUME r <= q PROVE FALSE
    BY <1>1, SMT
  <2>2. m * r <= m * q
    BY <1>1, <2>1, SMT
  <2> QED
    BY <1>1, <2>2, SMT
<1>3. m * (q + 1) <= m * r
  <2>1. q + 1 <= r
    BY <1>1, <1>2, SMT
  <2> QED
    BY <1>1, <2>1, SMT
<1>4. m * (q + 1) = m * q + m
  BY <1>1, SMT
<1> QED
  BY <1>1, <1>3, <1>4, SMT

\* Minus the size, taken as an unsigned int, is a large positive number.
LEMMA MinusSizeIsLarge == MinusSize = UIntMod - Size /\ MinusSize > Size
<1>1. UIntMod - Size \in Nat /\ UIntMod \in Nat \ {0} /\ UIntMod - Size < UIntMod
  BY At24Assumption, SMT
<1>2. (UIntMod - Size) % UIntMod = UIntMod - Size
  BY <1>1, ModBelow
<1> QED
  BY <1>2, At24Assumption, SMT DEF MinusSize

\* llseek from the end never succeeds, not even to the last byte: the code's
\* comparison with -(priv->size) is one of unsigned numbers.
THEOREM SeekFromEndFails ==
  ASSUME NEW p \in Procs, NEW o \in Int PROVE ~SeekAllowed(p, o, "END")
  BY MinusSizeIsLarge, At24Assumption, SMT DEF SeekAllowed

\* Whatever llseek accepts is an address of the chip.
LEMMA SeekInRange ==
  ASSUME NEW p \in Procs, NEW o \in Int, NEW w \in {"SET", "CUR", "END"},
         SeekAllowed(p, o, w)
  PROVE  SeekTarget(p, o, w) \in Addresses
  BY SeekFromEndFails, SMT DEF SeekAllowed

\* What a piece is, for a call that has something left to write.
LEMMA PieceBounds ==
  ASSUME TypeOK, NEW p \in Procs, total[p] < count[p]
  PROVE  /\ Piece(p) \in Nat /\ Piece(p) > 0
         /\ total[p] + Piece(p) <= count[p]
         /\ Target(p) \in Nat
         /\ (Target(p) % PageSize) + Piece(p) <= PageSize
<1>1. /\ Target(p) \in Nat /\ count[p] \in Nat /\ total[p] \in Nat
      /\ PageSize \in Nat \ {0}
  BY At24Assumption, SMT DEF TypeOK, Target
<1>2. Target(p) % PageSize \in 0..PageSize-1
  BY <1>1, ModRange
<1> HIDE DEF Target
<1> QED
  BY <1>1, <1>2, SMT DEF Piece

\* Every byte of a piece falls into a cell of the chip.
LEMMA CellInRange ==
  ASSUME NEW a \in Nat, NEW k \in Nat PROVE Cell(a, k) \in Addresses
<1> DEFINE first == (a % AddressSpace) % Size
<1>1. first \in 0..Size-1
  <2>1. a % AddressSpace \in Nat
    BY At24Assumption, ModRange, SMT
  <2> QED
    BY <2>1, At24Assumption, ModRange, SMT
<1>2. first % PageSize \in Nat /\ first % PageSize <= first
  BY <1>1, At24Assumption, ModRange, SMT
<1>3. ((first % PageSize) + k) % PageSize \in 0..PageSize-1
  BY <1>2, At24Assumption, ModRange, SMT
<1>4. (first - (first % PageSize)) + PageSize <= Size
  BY <1>1, At24Assumption, PageInside
<1> HIDE DEF first
<1>5. (first - (first % PageSize)) + (((first % PageSize) + k) % PageSize) \in 0..Size-1
  BY <1>1, <1>2, <1>3, <1>4, At24Assumption, SMT
<1> QED
  BY <1>5 DEF Cell, Addresses, first

\* The bytes of the first piece of a call land where they belong.
LEMMA FirstPieceLands ==
  ASSUME NEW a \in Addresses, NEW k \in Nat, (a % PageSize) + k < PageSize
  PROVE  Cell(a, k) = a + k
<1>1. a % AddressSpace = a /\ a % Size = a
  BY At24Assumption, ModBelow, SMT DEF Addresses
<1>2. a % PageSize \in Nat
  BY At24Assumption, ModRange, SMT DEF Addresses
<1>3. ((a % PageSize) + k) % PageSize = (a % PageSize) + k
  BY <1>2, At24Assumption, ModBelow, SMT
<1> QED
  BY <1>1, <1>2, <1>3, SMT DEF Cell, Addresses
-----------------------------------------------------------------------------
(* The inductive step                                                      *)

\* What a piece does to the contents of the chip.
LEMMA BurnInRange ==
  ASSUME TypeOK, CallOK, NEW p \in Procs, pc[p] = "transfer"
  PROVE  Burn(p) \subseteq Addresses
<1>1. /\ total[p] < count[p] /\ pos[p] + count[p] <= Size
      /\ pos[p] \in Nat /\ total[p] \in Nat /\ count[p] \in Nat
  BY DEF TypeOK, CallOK
<1>2. /\ Piece(p) \in Nat /\ total[p] + Piece(p) <= count[p]
      /\ Target(p) \in Nat
  BY <1>1, PieceBounds
<1>3. ASSUME NEW k \in 0..Piece(p)-1
      PROVE  Cell(Target(p), k) \in Addresses /\ OwnCell(p, k) \in Addresses
  <2>1. Cell(Target(p), k) \in Addresses
    BY <1>2, CellInRange
  <2>2. OwnCell(p, k) \in Addresses
    BY <1>1, <1>2, At24Assumption, SMT DEF OwnCell, Addresses
  <2> QED
    BY <2>1, <2>2
<1> QED
  BY <1>3 DEF Burn, TypeOK

LEMMA BurnInPlace ==
  ASSUME TypeOK, CallOK, NEW p \in Procs, pc[p] = "transfer", total[p] = 0,
         wrong = {}
  PROVE  Burn(p) = {}
<1>1. /\ total[p] < count[p] /\ pos[p] + count[p] <= Size /\ offset[p] = pos[p]
      /\ pos[p] \in Nat /\ count[p] \in Nat
  BY At24Assumption, SMT DEF TypeOK, CallOK
<1>2. /\ Piece(p) \in Nat /\ Target(p) = pos[p] /\ pos[p] \in Addresses
      /\ (Target(p) % PageSize) + Piece(p) <= PageSize
  <2>1. Target(p) = pos[p] /\ pos[p] \in Addresses
    BY <1>1, At24Assumption, SMT DEF Target, Addresses
  <2> QED
    BY <1>1, <2>1, PieceBounds
<1>3. pos[p] % PageSize \in Nat
  BY <1>1, At24Assumption, ModRange
<1>4. ASSUME NEW k \in 0..Piece(p)-1
      PROVE  Cell(Target(p), k) = OwnCell(p, k)
  <2>1. (pos[p] % PageSize) + k < PageSize
    BY <1>2, <1>3, At24Assumption, SMT
  <2>2. Cell(pos[p], k) = pos[p] + k
    BY <1>2, <2>1, FirstPieceLands
  <2> QED
    BY <1>1, <1>2, <2>2, SMT DEF OwnCell
<1> QED
  BY <1>4 DEF Burn

\* The types.
LEMMA TypeOKStep == ASSUME IndInv, [Next]_vars PROVE TypeOK'
<1> USE At24Assumption DEF IndInv, TypeOK, PCs
<1>1. ASSUME NEW p \in Procs, NEW o \in -Size..Size, NEW w \in {"SET", "CUR", "END"}, Seek(p, o, w)
      PROVE  TypeOK'
  <2>1. SeekTarget(p, o, w) \in 0..Size
    BY <1>1, SeekInRange DEF Seek, Addresses
  <2> QED
    BY <1>1, <2>1 DEF Seek, callVars, chipVars
<1>2. ASSUME NEW p \in Procs, NEW n \in 1..MaxCount, NEW call \in {"read", "write"}, StartCall(p, call, n)
      PROVE  TypeOK'
  <2>1. Clamped(p, n) \in 0..Size
    BY <1>2 DEF StartCall, Clamped
  <2> QED
    BY <1>2, <2>1 DEF StartCall, Goto, chipVars
<1>3. ASSUME NEW p \in Procs, Lock(p)
      PROVE  TypeOK'
  BY <1>3 DEF Lock, Goto, callVars, chipVars
<1>4. ASSUME NEW p \in Procs, FillBuffer(p)
      PROVE  TypeOK'
  BY <1>4 DEF FillBuffer, Goto, Return, callVars, chipVars
<1>5. ASSUME NEW p \in Procs, Transfer(p)
      PROVE  TypeOK'
  <2>1. Burn(p) \subseteq Addresses
    BY <1>5, BurnInRange DEF Transfer
  <2> QED
    BY <1>5, <2>1 DEF Transfer, Goto, chipVars
<1>6. ASSUME NEW p \in Procs, Unlock(p)
      PROVE  TypeOK'
  BY <1>6 DEF Unlock, Goto, Return, callVars, chipVars
<1>7. ASSUME NEW p \in Procs, Deliver(p)
      PROVE  TypeOK'
  <2>1. offset[p] + count[p] \in 0..Size
    BY <1>7 DEF Deliver, CallOK
  <2> QED
    BY <1>7, <2>1 DEF Deliver, Goto, Return, chipVars
<1>8. ASSUME NEW p \in Procs, Advance(p)
      PROVE  TypeOK'
  <2>1. total[p] + Piece(p) \in 0..Size /\ offset[p] + Piece(p) \in 0..Size
    BY <1>8, PieceBounds DEF Advance, CallOK
  <2> QED
    BY <1>8, <2>1 DEF Advance, Goto, chipVars
<1>9. ASSUME NEW p \in Procs, WakeUp(p)
      PROVE  TypeOK'
  BY <1>9 DEF WakeUp, Goto, Return, callVars, chipVars
<1>10. CASE CycleEnds
  BY <1>10 DEF CycleEnds, Goto, callVars, chipVars
<1>11. CASE UNCHANGED vars
  BY <1>11 DEF vars, callVars, chipVars
<1> QED
  BY <1>1, <1>2, <1>3, <1>4, <1>5, <1>6, <1>7, <1>8, <1>9, <1>10, <1>11
     DEF Next, CallStep

\* What a call knows of itself.
LEMMA CallOKStep == ASSUME IndInv, [Next]_vars PROVE CallOK'
<1> USE At24Assumption DEF IndInv, TypeOK, CallOK
<1>1. ASSUME NEW p \in Procs, NEW o \in -Size..Size, NEW w \in {"SET", "CUR", "END"}, Seek(p, o, w)
      PROVE  CallOK'
  BY <1>1 DEF Seek, Goto, callVars, chipVars
<1>2. ASSUME NEW p \in Procs, NEW n \in 1..MaxCount, NEW call \in {"read", "write"}, StartCall(p, call, n)
      PROVE  CallOK'
  <2>1. Clamped(p, n) \in 1..Size /\ pos[p] + Clamped(p, n) <= Size
    BY <1>2 DEF StartCall, Clamped
  <2> QED
    BY <1>2, <2>1 DEF StartCall, Goto, chipVars
<1>3. ASSUME NEW p \in Procs, Lock(p)
      PROVE  CallOK'
  BY <1>3 DEF Lock, Goto, callVars, chipVars
<1>4. ASSUME NEW p \in Procs, FillBuffer(p)
      PROVE  CallOK'
  BY <1>4 DEF FillBuffer, Goto, Return, callVars, chipVars
<1>5. ASSUME NEW p \in Procs, Transfer(p)
      PROVE  CallOK'
  BY <1>5 DEF Transfer, Goto, callVars, chipVars
<1>6. ASSUME NEW p \in Procs, Unlock(p)
      PROVE  CallOK'
  <2>1. CASE ret[p] = "failed"
    BY <1>6, <2>1 DEF Unlock, Goto, Return, callVars, chipVars
  <2>2. CASE ret[p] # "failed" /\ op[p] = "write"
    BY <1>6, <2>2 DEF Unlock, Goto, Return, callVars, chipVars
  <2>3. CASE ret[p] # "failed" /\ op[p] # "write"
    BY <1>6, <2>3 DEF Unlock, Goto, Return, callVars, chipVars
  <2> QED
    BY <2>1, <2>2, <2>3
<1>7. ASSUME NEW p \in Procs, Deliver(p)
      PROVE  CallOK'
  <2>1. CASE Return(p, pos[p])
    BY <1>7, <2>1 DEF Deliver, Goto, Return, callVars, chipVars
  <2>2. CASE Return(p, offset[p] + count[p])
    <3>1. offset[p] + count[p] \in 0..Size
      BY <1>7 DEF Deliver
    <3> QED
      BY <1>7, <2>2, <3>1 DEF Deliver, Goto, Return, callVars, chipVars
  <2> QED
    BY <1>7, <2>1, <2>2 DEF Deliver
<1>8. ASSUME NEW p \in Procs, Advance(p)
      PROVE  CallOK'
  <2>1. /\ total[p] + Piece(p) <= count[p] /\ Piece(p) \in Nat
    BY <1>8, PieceBounds DEF Advance
  <2> QED
    BY <1>8, <2>1 DEF Advance, Goto, chipVars
<1>9. ASSUME NEW p \in Procs, WakeUp(p)
      PROVE  CallOK'
  BY <1>9 DEF WakeUp, Goto, Return, callVars, chipVars
<1>10. CASE CycleEnds
  BY <1>10 DEF CycleEnds, Goto, callVars, chipVars
<1>11. CASE UNCHANGED vars
  BY <1>11 DEF vars, callVars, chipVars
<1> QED
  BY <1>1, <1>2, <1>3, <1>4, <1>5, <1>6, <1>7, <1>8, <1>9, <1>10, <1>11
     DEF Next, CallStep

\* Who holds the mutex.
LEMMA MutexHeldStep == ASSUME IndInv, [Next]_vars PROVE MutexHeld'
<1> USE At24Assumption DEF IndInv, TypeOK, CallOK, MutexHeld, Holding
<1>1. ASSUME NEW p \in Procs, NEW o \in -Size..Size, NEW w \in {"SET", "CUR", "END"}, Seek(p, o, w)
      PROVE  MutexHeld'
  BY <1>1 DEF Seek, Goto, callVars, chipVars
<1>2. ASSUME NEW p \in Procs, NEW n \in 1..MaxCount, NEW call \in {"read", "write"}, StartCall(p, call, n)
      PROVE  MutexHeld'
  BY <1>2 DEF StartCall, Goto, callVars, chipVars
<1>3. ASSUME NEW p \in Procs, Lock(p)
      PROVE  MutexHeld'
  BY <1>3 DEF Lock, Goto, callVars, chipVars
<1>4. ASSUME NEW p \in Procs, FillBuffer(p)
      PROVE  MutexHeld'
  BY <1>4 DEF FillBuffer, Goto, Return, callVars, chipVars
<1>5. ASSUME NEW p \in Procs, Transfer(p)
      PROVE  MutexHeld'
  BY <1>5 DEF Transfer, Goto, callVars, chipVars
<1>6. ASSUME NEW p \in Procs, Unlock(p)
      PROVE  MutexHeld'
  BY <1>6 DEF Unlock, Goto, Return, callVars, chipVars
<1>7. ASSUME NEW p \in Procs, Deliver(p)
      PROVE  MutexHeld'
  BY <1>7 DEF Deliver, Goto, Return, callVars, chipVars
<1>8. ASSUME NEW p \in Procs, Advance(p)
      PROVE  MutexHeld'
  BY <1>8 DEF Advance, Goto, callVars, chipVars
<1>9. ASSUME NEW p \in Procs, WakeUp(p)
      PROVE  MutexHeld'
  BY <1>9 DEF WakeUp, Goto, Return, callVars, chipVars
<1>10. CASE CycleEnds
  BY <1>10 DEF CycleEnds, Goto, callVars, chipVars
<1>11. CASE UNCHANGED vars
  BY <1>11 DEF vars, callVars, chipVars
<1> QED
  BY <1>1, <1>2, <1>3, <1>4, <1>5, <1>6, <1>7, <1>8, <1>9, <1>10, <1>11
     DEF Next, CallStep

\* Whose write cycle it can be.
LEMMA CycleOwnerStep == ASSUME IndInv, [Next]_vars PROVE CycleOwner'
<1> USE At24Assumption DEF IndInv, TypeOK, CallOK, CycleOwner
<1>1. ASSUME NEW p \in Procs, NEW o \in -Size..Size, NEW w \in {"SET", "CUR", "END"}, Seek(p, o, w)
      PROVE  CycleOwner'
  BY <1>1 DEF Seek, Goto, callVars, chipVars
<1>2. ASSUME NEW p \in Procs, NEW n \in 1..MaxCount, NEW call \in {"read", "write"}, StartCall(p, call, n)
      PROVE  CycleOwner'
  BY <1>2 DEF StartCall, Goto, callVars, chipVars
<1>3. ASSUME NEW p \in Procs, Lock(p)
      PROVE  CycleOwner'
  BY <1>3 DEF Lock, Goto, callVars, chipVars
<1>4. ASSUME NEW p \in Procs, FillBuffer(p)
      PROVE  CycleOwner'
  BY <1>4 DEF FillBuffer, Goto, Return, callVars, chipVars
<1>5. ASSUME NEW p \in Procs, Transfer(p)
      PROVE  CycleOwner'
  BY <1>5 DEF Transfer, Goto, callVars, chipVars
<1>6. ASSUME NEW p \in Procs, Unlock(p)
      PROVE  CycleOwner'
  BY <1>6 DEF Unlock, Goto, Return, callVars, chipVars
<1>7. ASSUME NEW p \in Procs, Deliver(p)
      PROVE  CycleOwner'
  BY <1>7 DEF Deliver, Goto, Return, callVars, chipVars
<1>8. ASSUME NEW p \in Procs, Advance(p)
      PROVE  CycleOwner'
  BY <1>8 DEF Advance, Goto, callVars, chipVars
<1>9. ASSUME NEW p \in Procs, WakeUp(p)
      PROVE  CycleOwner'
  BY <1>9 DEF WakeUp, Goto, Return, callVars, chipVars
<1>10. CASE CycleEnds
  BY <1>10 DEF CycleEnds, Goto, callVars, chipVars
<1>11. CASE UNCHANGED vars
  BY <1>11 DEF vars, callVars, chipVars
<1> QED
  BY <1>1, <1>2, <1>3, <1>4, <1>5, <1>6, <1>7, <1>8, <1>9, <1>10, <1>11
     DEF Next, CallStep

\* The contents, until a second piece is written.
LEMMA ContentsStep ==
  ASSUME IndInv, [Next]_vars PROVE ContentsAsWrittenInOnePiece'
<1> USE DEF ContentsAsWrittenInOnePiece
<1>1. ASSUME NEW p \in Procs, NEW o \in -Size..Size, NEW w \in {"SET", "CUR", "END"}, Seek(p, o, w)
      PROVE  ContentsAsWrittenInOnePiece'
  BY <1>1 DEF IndInv, Seek, Goto, callVars, chipVars
<1>2. ASSUME NEW p \in Procs, NEW n \in 1..MaxCount, NEW call \in {"read", "write"}, StartCall(p, call, n)
      PROVE  ContentsAsWrittenInOnePiece'
  BY <1>2 DEF IndInv, StartCall, Goto, callVars, chipVars
<1>3. ASSUME NEW p \in Procs, Lock(p)
      PROVE  ContentsAsWrittenInOnePiece'
  BY <1>3 DEF IndInv, Lock, Goto, callVars, chipVars
<1>4. ASSUME NEW p \in Procs, FillBuffer(p)
      PROVE  ContentsAsWrittenInOnePiece'
  BY <1>4 DEF IndInv, FillBuffer, Goto, Return, callVars, chipVars
<1>5. ASSUME NEW p \in Procs, Transfer(p)
      PROVE  ContentsAsWrittenInOnePiece'
  <2>1. total[p] \in Nat
    BY DEF IndInv, TypeOK
  <2>2. CASE total[p] = 0 /\ ~spread
    <3>1. Burn(p) = {}
      BY <1>5, <2>2, BurnInPlace DEF IndInv, Transfer
    <3> QED
      BY <1>5, <2>2, <3>1 DEF IndInv, Transfer, chipVars
  <2>3. CASE total[p] > 0 \/ spread
    BY <1>5, <2>3 DEF IndInv, Transfer, chipVars
  <2> QED
    BY <2>1, <2>2, <2>3
<1>6. ASSUME NEW p \in Procs, Unlock(p)
      PROVE  ContentsAsWrittenInOnePiece'
  BY <1>6 DEF IndInv, Unlock, Goto, Return, callVars, chipVars
<1>7. ASSUME NEW p \in Procs, Deliver(p)
      PROVE  ContentsAsWrittenInOnePiece'
  BY <1>7 DEF IndInv, Deliver, Goto, Return, callVars, chipVars
<1>8. ASSUME NEW p \in Procs, Advance(p)
      PROVE  ContentsAsWrittenInOnePiece'
  BY <1>8 DEF IndInv, Advance, Goto, callVars, chipVars
<1>9. ASSUME NEW p \in Procs, WakeUp(p)
      PROVE  ContentsAsWrittenInOnePiece'
  BY <1>9 DEF IndInv, WakeUp, Goto, Return, callVars, chipVars
<1>10. CASE CycleEnds
  BY <1>10 DEF IndInv, CycleEnds, Goto, callVars, chipVars
<1>11. CASE UNCHANGED vars
  BY <1>11 DEF IndInv, vars, callVars, chipVars
<1> QED
  BY <1>1, <1>2, <1>3, <1>4, <1>5, <1>6, <1>7, <1>8, <1>9, <1>10, <1>11
     DEF Next, CallStep

\* The initial states satisfy the invariant.
LEMMA InitIndInv == Init => IndInv
<1> SUFFICES ASSUME Init PROVE IndInv
  OBVIOUS
<1> USE At24Assumption DEF Init
<1>1. TypeOK
  <2>1. spread \in BOOLEAN /\ wrong \subseteq Addresses
    OBVIOUS
  <2>2. 0 \in 0..Size
    BY SMT
  <2> QED
    BY <2>1, <2>2 DEF TypeOK, PCs
<1>2. CallOK
  BY DEF CallOK
<1>3. MutexHeld
  BY DEF MutexHeld, Holding
<1>4. CycleOwner
  BY DEF CycleOwner
<1>5. ContentsAsWrittenInOnePiece
  BY DEF ContentsAsWrittenInOnePiece
<1> QED
  BY <1>1, <1>2, <1>3, <1>4, <1>5 DEF IndInv

\* The invariant is inductive.
THEOREM Inductive == Spec => []IndInv
<1>1. IndInv /\ [Next]_vars => IndInv'
  BY TypeOKStep, CallOKStep, MutexHeldStep, CycleOwnerStep, ContentsStep
     DEF IndInv
<1> QED
  BY InitIndInv, <1>1, PTL DEF Spec
-----------------------------------------------------------------------------
(* The theorems                                                            *)

\* The variables keep to their types; in particular the file position never
\* leaves the chip, whatever is read, written or sought.
THEOREM TypeCorrect == Spec => []TypeOK
<1>1. IndInv => TypeOK
  BY DEF IndInv
<1> QED
  BY Inductive, <1>1, PTL

\* Every piece stays inside one page and the call's count, and is not empty.
THEOREM PiecesFitPages == Spec => []PieceFitsPage
<1>1. IndInv => PieceFitsPage
  <2> SUFFICES ASSUME IndInv, NEW p \in Procs,
                      pc[p] \in {"fill", "transfer"}
               PROVE  /\ Piece(p) > 0 /\ total[p] + Piece(p) <= count[p]
                      /\ (Target(p) % PageSize) + Piece(p) <= PageSize
    BY DEF PieceFitsPage
  <2>1. total[p] < count[p]
    BY DEF IndInv, CallOK
  <2> QED
    BY <2>1, PieceBounds DEF IndInv
<1> QED
  BY Inductive, <1>1, PTL

\* The mutex keeps the transfers of different processes apart.
THEOREM OneTransferAtATime == Spec => []TransfersExclude
<1>1. IndInv => TransfersExclude
  BY DEF IndInv, MutexHeld, Holding, TransfersExclude
<1> QED
  BY Inductive, <1>1, PTL

\* As long as every write fits one page, the chip holds what was written.
THEOREM OnePieceIsSafe == Spec => []ContentsAsWrittenInOnePiece
<1>1. IndInv => ContentsAsWrittenInOnePiece
  BY DEF IndInv
<1> QED
  BY Inductive, <1>1, PTL

\* No transfer meets the write cycle its own process has begun.
THEOREM SleepCoversOwnCycle == Spec => OwnCycleIsOver
<1>1. IndInv => (\A p \in Procs : Transfer(p) => cycle # p)
  BY DEF IndInv, CycleOwner, Transfer
<1>2. IndInv /\ [Next]_vars => [\A p \in Procs : Transfer(p) => cycle # p]_vars
  BY <1>1
<1> QED
  BY Inductive, <1>2, PTL DEF Spec, OwnCycleIsOver

\* A write that succeeds moves the position by the count it returns.
THEOREM PositionIsOrdinary == Spec => PositionFollowsCount
<1>1. IndInv => (\A p \in Procs : WakeUp(p) /\ pc'[p] = "idle"
                                  => pos'[p] = pos[p] + count[p])
  <2> SUFFICES ASSUME IndInv, NEW p \in Procs, WakeUp(p), pc'[p] = "idle"
               PROVE  pos'[p] = pos[p] + count[p]
    OBVIOUS
  <2>1. /\ pc[p] = "sleep" /\ ~(total[p] < count[p])
        /\ pos' = [pos EXCEPT ![p] = offset[p]]
    <3>1. CASE total[p] < count[p]
      <4>1. pc' = [pc EXCEPT ![p] = "lock"] /\ pc \in [Procs -> PCs]
        BY <3>1 DEF WakeUp, Goto, IndInv, TypeOK
      <4>2. pc'[p] = "lock"
        BY <4>1
      <4> QED
        BY <4>2
    <3>2. CASE ~(total[p] < count[p])
      BY <3>2 DEF WakeUp, Return
    <3> QED
      BY <3>1, <3>2
  <2>2. offset[p] = pos[p] + count[p]
    <3>1. /\ offset[p] = pos[p] + total[p] /\ total[p] <= count[p]
          /\ total[p] \in 0..Size /\ count[p] \in 0..Size
      BY <2>1 DEF IndInv, TypeOK, CallOK
    <3> QED
      BY <2>1, <3>1, At24Assumption
  <2> QED
    BY <2>1, <2>2 DEF IndInv, TypeOK
<1>2. IndInv /\ [Next]_vars =>
        [\A p \in Procs : WakeUp(p) /\ pc'[p] = "idle"
                            => pos'[p] = pos[p] + count[p]]_vars
  BY <1>1
<1> QED
  BY Inductive, <1>2, PTL DEF Spec, PositionFollowsCount

\* The mutex is never left locked by a call that is over, not even by one whose
\* buffer faulted: whoever waits for it waits for somebody inside.
THEOREM MutexIsGivenBack ==
  Spec => [](mutex # Nobody => mutex \in Procs /\ pc[mutex] \in Holding)
<1>1. IndInv => (mutex # Nobody => mutex \in Procs /\ pc[mutex] \in Holding)
  BY DEF IndInv, TypeOK, MutexHeld
<1> QED
  BY Inductive, <1>1, PTL
-----------------------------------------------------------------------------
(* A write of more than one piece                                          *)

\* What is left of an address below twice the size of the chip.
LEMMA RolledAddress ==
  ASSUME AddressSpace % Size = 0, NEW a \in Nat, a < 2 * Size
  PROVE  (a % AddressSpace) % Size = IF a < Size THEN a ELSE a - Size
<1> DEFINE q == AddressSpace \div Size
<1>1. q \in Nat /\ AddressSpace = Size * q /\ Size \in Nat \ {0} /\ AddressSpace >= Size
  BY At24Assumption, SMT
<1>2. a % Size = IF a < Size THEN a ELSE a - Size
  <2>1. CASE a < Size
    BY <1>1, <2>1, ModBelow
  <2>2. CASE ~(a < Size)
    BY <1>1, <2>2, SMT
  <2> QED
    BY <2>1, <2>2
<1>3. a % Size \in 0..Size-1
  BY <1>1, ModRange
<1>4. (a % Size) % Size = a % Size
  BY <1>1, <1>3, ModBelow, SMT
<1>5. q = 0 \/ q = 1 \/ q >= 2
  BY <1>1, SMT
<1>6. CASE q = 0
  BY <1>1, <1>6, SMT
<1>7. CASE q = 1
  <2>1. AddressSpace = Size
    BY <1>1, <1>7, SMT
  <2> QED
    BY <1>2, <1>4, <2>1
<1>8. CASE q >= 2
  <2>1. Size * q >= Size * 2
    BY <1>1, <1>8, SMT
  <2>2. a < AddressSpace /\ AddressSpace \in Nat \ {0}
    BY <1>1, <2>1, SMT
  <2>3. a % AddressSpace = a
    BY <2>2, ModBelow
  <2> QED
    BY <1>2, <2>3
<1> QED
  BY <1>5, <1>6, <1>7, <1>8

\* The first byte of a later piece falls into another cell than its own.
LEMMA LaterPieceMisses ==
  ASSUME IndInv, AddressSpace % Size = 0, NEW p \in Procs,
         pc[p] = "transfer", total[p] > 0
  PROVE  Cell(Target(p), 0) # OwnCell(p, 0)
<1>1. /\ pos[p] \in Nat /\ total[p] \in Nat /\ count[p] \in Nat /\ Size \in Nat
      /\ total[p] < count[p] /\ pos[p] + count[p] <= Size
      /\ offset[p] = pos[p] + total[p]
  BY At24Assumption, SMT DEF IndInv, TypeOK, CallOK
<1>2. /\ Target(p) = pos[p] + total[p] + total[p] /\ Target(p) \in Nat
      /\ Target(p) < 2 * Size
  BY <1>1, SMT DEF Target
<1> DEFINE first == (Target(p) % AddressSpace) % Size
<1>3. first = IF Target(p) < Size THEN Target(p) ELSE Target(p) - Size
  BY <1>2, RolledAddress
<1>4. first \in Nat /\ first # pos[p] + total[p]
  BY <1>1, <1>2, <1>3, SMT
<1>5. first % PageSize \in 0..PageSize-1 /\ PageSize \in Nat \ {0}
  BY <1>4, At24Assumption, ModRange
<1>6. ((first % PageSize) + 0) % PageSize = first % PageSize
  BY <1>5, ModBelow, SMT
<1>7. Cell(Target(p), 0) = (first - (first % PageSize)) + (first % PageSize)
  BY <1>6 DEF Cell
<1> HIDE DEF first
<1>8. Cell(Target(p), 0) = first
  BY <1>4, <1>5, <1>7, SMT
<1> QED
  BY <1>1, <1>4, <1>8, SMT DEF OwnCell

\* What at24_eeprom_write does to a write that spans a page boundary: each piece
\* after the first that the chip takes leaves a cell of the file's wrong, because
\* *offset and total_written are both added to the address.
LaterPiecesGoAstray ==
  [][\A p \in Procs :
       Transfer(p) /\ cycle' = p /\ total[p] > 0 => OwnCell(p, 0) \in wrong']_vars

\* No page size, no chip and no position saves a write of more than one piece, as
\* long as the addresses that can be sent are a multiple of the size (two bytes
\* and 32768 here): the disagreement the small instance shows is there in all.
THEOREM EveryLongWriteIsSpoiled ==
  ASSUME AddressSpace % Size = 0 PROVE Spec => LaterPiecesGoAstray
<1>1. ASSUME IndInv, NEW p \in Procs, Transfer(p), cycle' = p, total[p] > 0
      PROVE  OwnCell(p, 0) \in wrong'
  <2>1. /\ pc[p] = "transfer" /\ total[p] < count[p]
        /\ pos[p] \in Nat /\ total[p] \in Nat
    BY <1>1, SMT DEF IndInv, Transfer, CallOK, TypeOK
  <2>2. wrong' = Burn(p)
    BY <1>1, <2>1 DEF IndInv, CycleOwner, Transfer, chipVars
  <2>3. Piece(p) \in Nat /\ Piece(p) > 0
    BY <1>1, <2>1, PieceBounds DEF IndInv
  <2>4. 0 \in 0..Piece(p)-1
    BY <2>3, SMT
  <2>5. \A k \in 0..Piece(p)-1 : OwnCell(p, k) = OwnCell(p, 0) => k = 0
    BY <2>1, <2>3, SMT DEF OwnCell
  <2>6. Cell(Target(p), 0) # OwnCell(p, 0)
    BY <1>1, <2>1, LaterPieceMisses
  <2> QED
    BY <2>2, <2>4, <2>5, <2>6 DEF Burn
<1>2. IndInv => [\A p \in Procs :
                   Transfer(p) /\ cycle' = p /\ total[p] > 0
                     => OwnCell(p, 0) \in wrong']_vars
  BY <1>1
<1> QED
  BY Inductive, <1>2, PTL DEF LaterPiecesGoAstray
=============================================================================
