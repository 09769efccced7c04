-------------------------------- MODULE MCLibevFds --------------------------------
(* Two watchers, which may share a descriptor, and three descriptors, so    *)
(* that the array for poll() loses its first entry and its last.            *)
EXTENDS LibevFds

CONSTANTS w1, w2

WatchersDef == {w1, w2}
FdsDef == 1..3
Symm == Permutations(WatchersDef)

================================================================================
