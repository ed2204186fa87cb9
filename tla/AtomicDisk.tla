----------------------------- MODULE AtomicDisk -----------------------------
(***************************************************************************)
(* What the logging layer of kernel/log.c promises the file system above   *)
(* it: a disk whose contents change only by whole groups of operations.    *)
(* Operations write a volatile view; at a moment when no operation is      *)
(* active the view may become the stable contents, all of it at once; a    *)
(* crash falls back to the stable contents.                                *)
(***************************************************************************)
CONSTANTS Proc, Block, Val

VARIABLES stable,   \* what a reboot now would find, [Block -> Val]
          view,     \* what running operations read and write
          active    \* processes between begin_op and end_op

vars == <<stable, view, active>>

Init == /\ stable \in [Block -> Val]
        /\ view = stable
        /\ active = {}

Begin(p) == /\ p \notin active
            /\ active' = active \cup {p}
            /\ UNCHANGED <<stable, view>>

Write(p, b, v) == /\ p \in active
                  /\ view' = [view EXCEPT ![b] = v]
                  /\ UNCHANGED <<stable, active>>

End(p) == /\ p \in active
          /\ active' = active \ {p}
          /\ UNCHANGED <<stable, view>>

Commit == /\ active = {}
          /\ stable' = view
          /\ UNCHANGED <<view, active>>

Crash == /\ view' = stable
         /\ active' = {}
         /\ UNCHANGED stable

Next == \/ \E p \in Proc : Begin(p) \/ End(p)
        \/ \E p \in Proc, b \in Block, v \in Val : Write(p, b, v)
        \/ Commit
        \/ Crash

Spec == Init /\ [][Next]_vars
=============================================================================
