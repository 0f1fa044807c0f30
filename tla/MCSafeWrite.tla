---------------------------- MODULE MCSafeWrite ----------------------------
(* Two concurrent calls of safe_write on one path.  Model values stand for   *)
(* the calls and for the inode numbers: one per directory entry, one for a   *)
(* descriptor that lost its entry and one for the editor's next save.        *)
EXTENDS SafeWrite, TLC

Symmetry == Permutations(Writers) \cup Permutations(Inodes)
=============================================================================
