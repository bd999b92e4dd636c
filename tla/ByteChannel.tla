----------------------------- MODULE ByteChannel -----------------------------
(***************************************************************************)
(* What a serial port promises the programs that read from it, without a   *)
(* word on how: while the port is open bytes come in, and they are read in *)
(* the order in which they came, each of them once.  A byte may be lost in *)
(* three ways only: it comes in while an earlier one is still unread, it   *)
(* is one too many for the buffer, or the port is closed.                  *)
(***************************************************************************)
EXTENDS Integers, Sequences

CONSTANT Capacity   \* the size of the buffer

VARIABLES open,      \* the port can be read
          arrived,   \* the bytes that have come in, which are numbered
          unread,    \* those that wait to be read, oldest first
          delivered  \* those that have been read, in the order of reading

vars == <<open, arrived, unread, delivered>>

Init == /\ open = FALSE /\ arrived = 0
        /\ unread = <<>> /\ delivered = <<>>

Open == /\ ~open /\ open' = TRUE
        /\ UNCHANGED <<arrived, unread, delivered>>

Close == /\ open /\ open' = FALSE
         /\ UNCHANGED <<arrived, unread, delivered>>

Receive == /\ open
           /\ arrived' = arrived + 1
           /\ unread' = Append(unread, arrived')
           /\ UNCHANGED <<open, delivered>>

\* A byte is lost on the line: the receiver has not got rid of the last one.
Overrun == /\ open /\ unread # <<>>
           /\ arrived' = arrived + 1
           /\ UNCHANGED <<open, unread, delivered>>

\* The oldest bytes are read.
Read(n) == /\ open /\ n <= Len(unread)
           /\ delivered' = delivered \o SubSeq(unread, 1, n)
           /\ unread' = SubSeq(unread, n + 1, Len(unread))
           /\ UNCHANGED <<open, arrived>>

\* The buffer is full: the first byte behind it is lost.
Overflow == /\ Len(unread) > Capacity
            /\ unread' = SubSeq(unread, 1, Capacity)
                           \o SubSeq(unread, Capacity + 2, Len(unread))
            /\ UNCHANGED <<open, arrived, delivered>>

\* Opening and closing empty the buffer; what is still in the receiver stays.
Reset(n) == /\ ~open /\ n <= Len(unread)
            /\ unread' = SubSeq(unread, n + 1, Len(unread))
            /\ UNCHANGED <<open, arrived, delivered>>

Next == \/ Open \/ Close \/ Receive \/ Overrun \/ Overflow
        \/ \E n \in 1..Len(unread) : Read(n) \/ Reset(n)

Spec == Init /\ [][Next]_vars
-----------------------------------------------------------------------------
\* Bytes are read in the order in which they came in, none twice.
InOrder == LET bytes == delivered \o unread
           IN \A m, n \in 1..Len(bytes) : m < n => bytes[m] < bytes[n]
=============================================================================
