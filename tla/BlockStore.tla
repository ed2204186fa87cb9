----------------------------- MODULE BlockStore -----------------------------
(***************************************************************************)
(* What kernel/bio.c promises: a process gets exclusive use of a block,    *)
(* finds in it what its last user left there, and may change it.           *)
(***************************************************************************)
CONSTANTS Proc, Block, Val

VARIABLES content,  \* of every block
          user      \* of every block: the set of processes that use it

vars == <<content, user>>

Init == content \in [Block -> Val] /\ user = [b \in Block |-> {}]

Get(p, b) == /\ user[b] = {}
             /\ user' = [user EXCEPT ![b] = {p}]
             /\ UNCHANGED content

Change(p, b) == /\ user[b] = {p}
                /\ \E v \in Val : content' = [content EXCEPT ![b] = v]
                /\ UNCHANGED user

Put(p, b) == /\ user[b] = {p}
             /\ user' = [user EXCEPT ![b] = {}]
             /\ UNCHANGED content

Next == \E p \in Proc, b \in Block : Get(p, b) \/ Change(p, b) \/ Put(p, b)

Spec == Init /\ [][Next]_vars
=============================================================================
