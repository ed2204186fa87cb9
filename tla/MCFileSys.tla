----------------------------- MODULE MCFileSys -----------------------------
EXTENDS FileSys, TLC
CONSTANTS a, b
MCPath == {<<a>>, <<b>>, <<a, b>>, <<a, b, "..">>}
MCDisks ==
  LET Types == {"dir", "file"}
      One == {Made(Formatted, i, t, Root, a) : i \in Ino \ {Root}, t \in Types}
      Under(i) == {Made(Made(Formatted, i, "dir", Root, a), j, t, i, b) : j \in Ino \ {Root, i}, t \in Types}
  IN {Formatted} \cup One \cup UNION {Under(i) : i \in Ino \ {Root}}
Symmetric == Permutations(Proc) \cup Permutations(Ino \ {Root})
=============================================================================
