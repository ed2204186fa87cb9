----------------------------- MODULE ByteQueue -----------------------------
(***************************************************************************)
(* What kernel/pipe.c promises: a bounded queue of bytes between a write   *)
(* end and a read end.  Bytes come out once, in the order they went in; a  *)
(* read whose copyout faults loses the one byte it was about to deliver.   *)
(***************************************************************************)
EXTENDS Naturals, Sequences

CONSTANTS Byte, Size

VARIABLES queue,         \* bytes in transit
          out,           \* the byte last delivered to a reader
          ropen, wopen   \* the two ends

vars == <<queue, out, ropen, wopen>>

Init == /\ queue = <<>>
        /\ out \in Byte
        /\ ropen = 1 /\ wopen = 1

Put(b) == /\ ropen = 1 /\ wopen = 1
          /\ Len(queue) < Size
          /\ queue' = Append(queue, b)
          /\ UNCHANGED <<out, ropen, wopen>>

Get == /\ ropen = 1
       /\ queue # <<>>
       /\ out' = Head(queue)
       /\ queue' = Tail(queue)
       /\ UNCHANGED <<ropen, wopen>>

Lose == /\ ropen = 1
        /\ queue # <<>>
        /\ queue' = Tail(queue)
        /\ UNCHANGED <<out, ropen, wopen>>

\* Whoever closes second throws the remaining bytes away.
Close == /\ \/ ropen = 1 /\ ropen' = 0 /\ UNCHANGED wopen
            \/ wopen = 1 /\ wopen' = 0 /\ UNCHANGED ropen
         /\ queue' = IF ropen' = 0 /\ wopen' = 0 THEN <<>> ELSE queue
         /\ UNCHANGED out

Next == Get \/ Lose \/ Close \/ \E b \in Byte : Put(b)

Spec == Init /\ [][Next]_vars
=============================================================================
