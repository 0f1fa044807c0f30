------------------------------ MODULE SafeWrite ------------------------------
(***************************************************************************)
(* The no-follow text writers of src/adduce/safe_write.py, one system call *)
(* at a time.  Every Writer is one call of one of the four writers:        *)
(*                                                                         *)
(*   "create"   create_text_exclusive                                      *)
(*   "append"   append_text_regular                                        *)
(*   "replace"  replace_text_regular                                       *)
(*   "expect"   snapshot_text_regular by the caller, then                  *)
(*              replace_text_regular_if_unchanged against that snapshot    *)
(*                                                                         *)
(* All of them work on one path, Target, in one directory, next to an      *)
(* editor (any other program) that saves, deletes or re-links that path at *)
(* any moment.  A call may meet an I/O error or be killed at every step.   *)
(* Inode numbers are reused as soon as the file system may reuse them.     *)
(***************************************************************************)
EXTENDS Naturals, Sequences

CONSTANTS
  Writers,        \* calls in flight
  Inodes,         \* inode numbers of the file system
  NoInode,        \* a directory entry that does not exist
  NoSnapshot,     \* a snapshot that was not taken
  Target,         \* the path written to
  Ops,            \* the writers under study, a subset of the four above
  PayloadLength,  \* blocks in one payload: os.write may take several rounds
  MaxEdits,       \* bound: changes the editor makes
  MaxFaults       \* bound: I/O errors and kills, in total

AllOps == {"create", "append", "replace", "expect"}

ASSUME ConstantsAssumption ==
  /\ NoInode \notin Inodes
  /\ NoSnapshot \notin [ino : Inodes, stamp : Nat, data : Seq((Writers \cup {"old", "edit"}) \X Nat)]
  /\ Target \notin Writers /\ "old" \notin Writers /\ "edit" \notin Writers
  /\ Ops \subseteq AllOps
  /\ PayloadLength \in Nat \ {0}
  /\ MaxEdits \in Nat
  /\ MaxFaults \in Nat

VARIABLES
  entry,    \* the directory: path -> inode number or NoInode
  inodes,   \* inode number -> kind, content, change stamp, and the ghosts
            \*   whole (no writer is still filling it) and by (who created it)
  call,     \* the state of each call
  clock,    \* the file system's change clock
  edits, faults   \* what the bounds count

vars == <<entry, inodes, call, clock, edits, faults>>

(* A writer's temporary is .<name>.<token>.tmp with a fresh random token, so *)
(* it is modelled as a path of its own: the writer's name.                   *)
Names == Writers \cup {Target}

Block == (Writers \cup {"old", "edit"}) \X Nat
Payload(w) == [i \in 1 .. PayloadLength |-> <<w, i>>]

(* "file": regular with one link; "linked": regular with more links;         *)
(* "other": a symbolic link or another non-regular entry.                    *)
Kinds == {"file", "linked", "other"}

Stat(i) == [ino |-> i, stamp |-> inodes[i].stamp]
Snapshot(i) == [ino |-> i, stamp |-> inodes[i].stamp, data |-> inodes[i].data]

(* What the file called dest[w] must hold when the call is through.          *)
NewText(w) == IF call[w].op = "append" THEN call[w].seen.data \o Payload(w)
                                       ELSE Payload(w)

(* The file system may hand out i again: no entry and no open descriptor     *)
(* refers to it, and it has no further hard link elsewhere.                  *)
Free(i) ==
  /\ \A n \in Names : entry[n] # i
  /\ \A w \in Writers : ~(call[w].pc \in {"write", "sync"} /\ call[w].own = i)
  /\ inodes[i].kind # "linked"

Idle == [op : Ops, pc : {"inspect", "open"}, before : {NoSnapshot},
         seen : {NoSnapshot}, dest : Names, own : {NoInode},
         outcome : {"pending"}, checkedAt : {0}]

Init ==
  /\ clock = 1
  /\ edits = 0
  /\ faults = 0
  /\ inodes = [i \in Inodes |-> [kind |-> "file", data |-> <<<<"old", 1>>>>,
                                 stamp |-> 0, whole |-> TRUE, by |-> Target]]
  /\ \E i \in Inodes \cup {NoInode} :
       entry = [n \in Names |-> IF n = Target THEN i ELSE NoInode]
  /\ call \in [Writers -> Idle]
  /\ \A w \in Writers :
       IF call[w].op = "create" THEN call[w].pc = "open" /\ call[w].dest = Target
                                ELSE call[w].pc = "inspect" /\ call[w].dest = w

------------------------------------------------------------------------------
(* Shared shapes of a step                                                    *)

Moves(w, c) == call' = [call EXCEPT ![w] = c]

\* Mutant of Over: the two results are passed in the wrong order.
OverSwapped(w, pc, outcome) ==
  Moves(w, [call[w] EXCEPT !.pc = outcome, !.outcome = pc, !.before = NoSnapshot,
                           !.seen = NoSnapshot, !.checkedAt = 0])

(* The call is over: its local variables are gone.                            *)
Over(w, pc, outcome) ==
  Moves(w, [call[w] EXCEPT !.pc = pc, !.outcome = outcome, !.before = NoSnapshot,
                           !.seen = NoSnapshot, !.checkedAt = 0])

\* Mutant of Refuses: no finally clause, the temporary stays.
RefusesAtOnce(w) == Over(w, "done", "refused")

(* SafeWriteError: a call that already has its temporary removes it first     *)
(* (the finally clauses), a call without one raises at once.                  *)
Refuses(w) ==
  IF call[w].own = NoInode
  THEN Over(w, "done", "refused")
  ELSE Moves(w, [call[w] EXCEPT !.outcome = "refused", !.pc = "unlink"])

Fault == faults < MaxFaults /\ faults' = faults + 1

FileSystemUnchanged == UNCHANGED <<entry, inodes, clock>>

------------------------------------------------------------------------------
(* Inspection: lstat, then open, fstat, read and the closing comparisons      *)

Accepted(op) == IF op = "replace" THEN {"file", "linked"} ELSE {"file"}

(* Path is missing: replace_text_regular falls back to exclusive creation,    *)
(* unless it had already inspected a file.                                    *)
InspectMissing(w) ==
  /\ call[w].pc = "inspect"
  /\ entry[Target] = NoInode
  /\ IF call[w].op = "replace" /\ call[w].own = NoInode
     THEN Moves(w, [call[w] EXCEPT !.pc = "open", !.dest = Target])
     ELSE Refuses(w)
  /\ FileSystemUnchanged /\ UNCHANGED <<edits, faults>>

InspectWrongKind(w) ==
  /\ call[w].pc = "inspect"
  /\ entry[Target] # NoInode
  /\ inodes[entry[Target]].kind \notin Accepted(call[w].op)
  /\ Refuses(w)
  /\ FileSystemUnchanged /\ UNCHANGED <<edits, faults>>

(* replace_text_regular only looks at the identity of the file: once before   *)
(* and once after its temporary is written.                                   *)
InspectIdentity(w) ==
  LET i == entry[Target]  c == call[w] IN
  /\ c.pc = "inspect" /\ c.op = "replace"
  /\ i # NoInode
  /\ inodes[i].kind \in Accepted("replace")
  /\ IF c.own = NoInode
     THEN Moves(w, [c EXCEPT !.pc = "open", !.before = Stat(i)])
     ELSE IF c.before.ino = i
     THEN Moves(w, [c EXCEPT !.pc = "replace", !.checkedAt = clock])
     ELSE Refuses(w)
  /\ FileSystemUnchanged /\ UNCHANGED <<edits, faults>>

InspectBegin(w) ==
  LET i == entry[Target]  c == call[w] IN
  /\ c.pc = "inspect" /\ c.op # "replace"
  /\ i # NoInode
  /\ inodes[i].kind = "file"
  /\ Moves(w, [c EXCEPT !.pc = "read", !.before = Stat(i)])
  /\ FileSystemUnchanged /\ UNCHANGED <<edits, faults>>

(* The file is still the one lstat saw: same inode, same change stamps.       *)
Undisturbed(w) ==
  /\ entry[Target] # NoInode
  /\ inodes[entry[Target]].kind = "file"
  /\ entry[Target] = call[w].before.ino
  /\ inodes[entry[Target]].stamp = call[w].before.stamp

\* Mutant of SameSnapshot: identity only, as replace_text_regular compares.
SameInode(s, t) == s.ino = t.ino

(* Equality of two RegularTextSnapshots: bytes, identity and stamps.          *)
SameSnapshot(s, t) == s = t

(* Where a call goes after a good snapshot.  The first one an "expect" call   *)
(* takes is the caller's own; both replacing writers compare once more, just  *)
(* before os.replace.                                                         *)
Inspected(w, s) ==
  LET c == [call[w] EXCEPT !.before = NoSnapshot] IN
  IF c.seen = NoSnapshot
  THEN Moves(w, [c EXCEPT !.seen = s, !.checkedAt = clock,
                          !.pc = IF c.op = "append" THEN "open" ELSE "inspect"])
  ELSE IF ~SameSnapshot(c.seen, s)
  THEN Refuses(w)
  ELSE Moves(w, [c EXCEPT !.checkedAt = clock,
                          !.pc = IF c.own = NoInode THEN "open" ELSE "replace"])

InspectEnd(w) ==
  /\ call[w].pc = "read"
  /\ IF Undisturbed(w) THEN Inspected(w, Snapshot(entry[Target])) ELSE Refuses(w)
  /\ FileSystemUnchanged /\ UNCHANGED <<edits, faults>>

------------------------------------------------------------------------------
(* Exclusive creation of the temporary, or of the target itself               *)

OpenExists(w) ==
  /\ call[w].pc = "open"
  /\ entry[call[w].dest] # NoInode
  /\ Refuses(w)
  /\ FileSystemUnchanged /\ UNCHANGED <<edits, faults>>

\* Mutant of OpenExclusive: O_EXCL is lost, an existing entry is taken over.
OpenReplacing(w) ==
  /\ call[w].pc = "open"
  /\ \E i \in Inodes :
       /\ Free(i)
       /\ entry' = [entry EXCEPT ![call[w].dest] = i]
       /\ inodes' = [inodes EXCEPT ![i] = [kind |-> "file", data |-> << >>,
                        stamp |-> clock + 1, whole |-> FALSE, by |-> w]]
       /\ Moves(w, [call[w] EXCEPT !.pc = "write", !.own = i])
  /\ clock' = clock + 1
  /\ UNCHANGED <<edits, faults>>

OpenExclusive(w) ==
  /\ call[w].pc = "open"
  /\ entry[call[w].dest] = NoInode
  /\ \E i \in Inodes :
       /\ Free(i)
       /\ entry' = [entry EXCEPT ![call[w].dest] = i]
       /\ inodes' = [inodes EXCEPT ![i] = [kind |-> "file", data |-> << >>,
                        stamp |-> clock + 1, whole |-> FALSE, by |-> w]]
       /\ Moves(w, [call[w] EXCEPT !.pc = "write", !.own = i])
  /\ clock' = clock + 1
  /\ UNCHANGED <<edits, faults>>

OpenFails(w) ==
  /\ call[w].pc = "open"
  /\ Fault
  /\ Refuses(w)
  /\ FileSystemUnchanged /\ UNCHANGED edits

\* Mutant of WriteBlock: the temporary is used after the first os.write.
WriteOnce(w) ==
  LET i == call[w].own  d == inodes[i].data  text == NewText(w) IN
  /\ call[w].pc = "write"
  /\ Len(d) < Len(text)
  /\ inodes' = [inodes EXCEPT ![i].data = Append(d, text[Len(d) + 1]),
                              ![i].stamp = clock + 1]
  /\ clock' = clock + 1
  /\ Moves(w, [call[w] EXCEPT !.pc = IF call[w].dest = Target THEN "sync" ELSE "inspect"])
  /\ UNCHANGED <<entry, edits, faults>>

(* One round of _write_all.                                                   *)
WriteBlock(w) ==
  LET i == call[w].own  d == inodes[i].data  text == NewText(w) IN
  /\ call[w].pc = "write"
  /\ Len(d) < Len(text)
  /\ inodes' = [inodes EXCEPT ![i].data = Append(d, text[Len(d) + 1]),
                              ![i].stamp = clock + 1]
  /\ clock' = clock + 1
  /\ Moves(w, [call[w] EXCEPT !.pc = IF Len(d) + 1 = Len(text) THEN "sync" ELSE "write"])
  /\ UNCHANGED <<entry, edits, faults>>

(* fchmod, fsync, the size check and close.                                   *)
Sync(w) ==
  LET c == call[w] IN
  /\ c.pc = "sync"
  /\ Len(inodes[c.own].data) = Len(NewText(w))
  /\ inodes' = [inodes EXCEPT ![c.own].whole = TRUE]
  /\ IF c.dest = Target
     THEN Over(w, "done", "ok")
     ELSE Moves(w, [c EXCEPT !.pc = "inspect"])
  /\ UNCHANGED <<entry, clock, edits, faults>>

WriteFails(w) ==
  /\ call[w].pc \in {"write", "sync"}
  /\ Fault
  /\ Moves(w, [call[w] EXCEPT !.pc = "cleanup"])
  /\ FileSystemUnchanged /\ UNCHANGED edits

(* _unlink_if_same: lstat and compare, then unlink by name.                   *)
CleanupInspect(w) ==
  LET c == call[w] IN
  /\ c.pc = "cleanup"
  /\ IF entry[c.dest] = c.own
     THEN Moves(w, [c EXCEPT !.pc = "unlinkOwn"])
     ELSE Over(w, "done", "refused")
  /\ FileSystemUnchanged /\ UNCHANGED <<edits, faults>>

CleanupUnlink(w) ==
  LET c == call[w] IN
  /\ c.pc = "unlinkOwn"
  /\ entry' = [entry EXCEPT ![c.dest] = NoInode]
  /\ Over(w, "done", "refused")
  /\ UNCHANGED <<inodes, clock, edits, faults>>

------------------------------------------------------------------------------
(* Publication and the final cleanup                                          *)

Replace(w) ==
  LET i == entry[w] IN
  /\ call[w].pc = "replace"
  /\ i # NoInode
  /\ entry' = [entry EXCEPT ![Target] = i, ![w] = NoInode]
  /\ inodes' = [inodes EXCEPT ![i].stamp = clock + 1]
  /\ clock' = clock + 1
  /\ Moves(w, [call[w] EXCEPT !.pc = "unlink", !.outcome = "ok"])
  /\ UNCHANGED <<edits, faults>>

ReplaceFails(w) ==
  /\ call[w].pc = "replace"
  /\ Fault
  /\ Refuses(w)
  /\ FileSystemUnchanged /\ UNCHANGED edits

(* The finally clause: temporary.unlink() with every OSError suppressed.      *)
UnlinkTemporary(w) ==
  /\ call[w].pc = "unlink"
  /\ entry' = [entry EXCEPT ![w] = NoInode]
  /\ Over(w, "done", call[w].outcome)
  /\ UNCHANGED <<inodes, clock, edits, faults>>

UnlinkFails(w) ==
  /\ call[w].pc \in {"cleanup", "unlinkOwn", "unlink"}
  /\ Fault
  /\ Over(w, "leaked", IF call[w].outcome = "ok" THEN "ok" ELSE "refused")
  /\ FileSystemUnchanged /\ UNCHANGED edits

(* The process dies; the kernel closes its descriptors.                       *)
Kill(w) ==
  /\ call[w].pc \notin {"done", "leaked", "killed"}
  /\ Fault
  /\ Over(w, "killed", call[w].outcome)
  /\ FileSystemUnchanged /\ UNCHANGED edits

------------------------------------------------------------------------------
(* The editor.  It leaves alone the bytes of a file another program is still  *)
(* filling, but may replace or delete the path itself at any time.            *)

Edit == edits < MaxEdits /\ edits' = edits + 1
EditText == <<<<"edit", edits + 1>>>>

EditInPlace ==
  LET i == entry[Target] IN
  /\ Edit
  /\ i # NoInode
  /\ inodes[i].kind # "other" /\ inodes[i].whole
  /\ inodes' = [inodes EXCEPT ![i].data = EditText, ![i].stamp = clock + 1, ![i].by = Target]
  /\ clock' = clock + 1
  /\ UNCHANGED <<entry, call, faults>>

(* An atomic save, a checkout, or a symbolic link put in place of the file.   *)
SaveByRename ==
  /\ Edit
  /\ \E i \in Inodes, kind \in {"file", "other"} :
       /\ Free(i)
       /\ entry' = [entry EXCEPT ![Target] = i]
       /\ inodes' = [inodes EXCEPT ![i] = [kind |-> kind, data |-> EditText,
                        stamp |-> clock + 1, whole |-> TRUE, by |-> Target]]
  /\ clock' = clock + 1
  /\ UNCHANGED <<call, faults>>

Delete ==
  /\ Edit
  /\ entry[Target] # NoInode
  /\ entry' = [entry EXCEPT ![Target] = NoInode]
  /\ UNCHANGED <<inodes, call, clock, faults>>

AddHardLink ==
  LET i == entry[Target] IN
  /\ Edit
  /\ i # NoInode
  /\ inodes[i].kind = "file" /\ inodes[i].whole
  /\ inodes' = [inodes EXCEPT ![i].kind = "linked", ![i].stamp = clock + 1]
  /\ clock' = clock + 1
  /\ UNCHANGED <<entry, call, faults>>

------------------------------------------------------------------------------

WriterStep(w) ==
  \/ InspectMissing(w) \/ InspectWrongKind(w) \/ InspectIdentity(w)
  \/ InspectBegin(w) \/ InspectEnd(w)
  \/ OpenExists(w) \/ OpenExclusive(w) \/ OpenFails(w)
  \/ WriteBlock(w) \/ Sync(w) \/ WriteFails(w)
  \/ CleanupInspect(w) \/ CleanupUnlink(w)
  \/ Replace(w) \/ ReplaceFails(w)
  \/ UnlinkTemporary(w) \/ UnlinkFails(w) \/ Kill(w)

EditorStep == EditInPlace \/ SaveByRename \/ Delete \/ AddHardLink

Next == (\E w \in Writers : WriterStep(w)) \/ EditorStep

Spec == Init /\ [][Next]_vars
------------------------------------------------------------------------------
(* Properties                                                                 *)

SnapshotType == [ino : Inodes, stamp : Nat, data : Seq(Block)]

CallType == [op : Ops,
             pc : {"inspect", "read", "open", "write", "sync", "cleanup", "unlinkOwn",
                   "replace", "unlink", "done", "leaked", "killed"},
             before : [ino : Inodes, stamp : Nat] \cup {NoSnapshot},
             seen : SnapshotType \cup {NoSnapshot},
             dest : Names,
             own : Inodes \cup {NoInode},
             outcome : {"pending", "ok", "refused"},
             checkedAt : Nat]

(* The state has the shape the code's variables have.                         *)
TypeOK ==
  /\ entry \in [Names -> Inodes \cup {NoInode}]
  /\ inodes \in [Inodes -> [kind : Kinds, data : Seq(Block), stamp : Nat,
                            whole : BOOLEAN, by : Names]]
  /\ call \in [Writers -> CallType]
  /\ clock \in Nat /\ edits \in Nat /\ faults \in Nat

(* A reader of the path finds a half-written file only while (or because) an  *)
(* exclusive creation of that very path is unfinished: whatever is killed or  *)
(* fails, a replacing writer never exposes its temporary before it is         *)
(* complete (append_text_regular and the two replacing writers).         *)
NeverTorn ==
  LET i == entry[Target] IN
  (i # NoInode /\ ~inodes[i].whole) =>
     /\ inodes[i].by \in Writers
     /\ call[inodes[i].by].dest = Target
     /\ call[inodes[i].by].outcome # "ok"

(* Every exit path, refusals and write errors included, removes the temporary *)
(* it created: only a killed process or a failing unlink leaves one behind.   *)
TemporariesRemoved ==
  \A w \in Writers : call[w].pc = "done" => entry[w] = NoInode

(* The file a snapshot-comparing writer discards holds exactly the text it    *)
(* inspected, unless it was changed after the writer's last inspection: no    *)
(* earlier edit, save or rename slips through the comparison, even when the   *)
(* file system reuses the inode number.                                       *)
KeepsUninspectedText ==
  [][\A w \in Writers :
       LET i == entry[Target] IN
       (/\ call[w].pc = "replace" /\ call'[w].outcome = "ok"
        /\ call[w].op # "replace"
        /\ i # NoInode /\ inodes[i].stamp <= call[w].checkedAt)
       => /\ inodes[i].data = call[w].seen.data
          /\ inodes[i].kind = "file"]_vars

------------------------------------------------------------------------------
(* The inductive invariant behind the three invariants above.                 *)

(* No two paths of the directory share an inode number.                       *)
EntriesDistinct ==
  \A m, n \in Names : m # n /\ entry[m] # NoInode => entry[m] # entry[n]

(* What a call's program counter says of its local variables: which file it   *)
(* created, under which path, and whether it is complete.                     *)
CallInv(w) ==
  LET c == call[w] IN
  /\ c.dest \in {w, Target}
  /\ c.pc \in {"write", "sync", "cleanup", "unlinkOwn", "replace", "unlink"} => c.own \in Inodes
  /\ c.pc = "open" => c.own = NoInode
  /\ c.pc \notin {"unlink", "done", "leaked", "killed"} => c.outcome = "pending"
  /\ c.pc \in {"inspect", "read", "replace", "unlink"} => c.dest = w
  /\ c.dest = Target => c.op \in {"create", "replace"}
  /\ c.op # "replace" /\ c.dest = w /\ c.pc \in {"open", "write", "sync"} =>
        c.seen \in SnapshotType
  /\ c.op # "replace" /\ c.pc \in {"inspect", "read"} /\ c.seen = NoSnapshot =>
        c.own = NoInode
  /\ c.dest = w /\ c.pc \in {"write", "sync"} => entry[w] = c.own
  /\ c.own # NoInode /\ c.pc \in {"inspect", "read", "replace"} =>
        entry[w] = c.own /\ inodes[c.own].whole

(* A temporary path only ever holds the file its own call created.            *)
TemporaryIsPrivate(w) ==
  entry[w] # NoInode => call[w].own = entry[w] /\ call[w].dest = w

(* An unfinished file at the target belongs to the call still filling it.     *)
UnfinishedIsOwned ==
  LET i == entry[Target] IN
  (i # NoInode /\ ~inodes[i].whole) =>
     /\ inodes[i].by \in Writers
     /\ call[inodes[i].by].own = i
     /\ call[inodes[i].by].dest = Target
     /\ call[inodes[i].by].outcome # "ok"

(* Nothing carries a stamp from the future, and a writer about to replace     *)
(* holds the text of every target that has not changed since it looked.       *)
ClockInv ==
  /\ \A i \in Inodes : inodes[i].stamp <= clock
  /\ \A w \in Writers : call[w].checkedAt <= clock

InspectionHolds(w) ==
  LET i == entry[Target] IN
  (/\ call[w].pc = "replace" /\ call[w].op # "replace"
   /\ i # NoInode /\ inodes[i].stamp <= call[w].checkedAt)
  => inodes[i].data = call[w].seen.data /\ inodes[i].kind = "file"

IInv ==
  /\ TypeOK
  /\ EntriesDistinct
  /\ \A w \in Writers : CallInv(w) /\ TemporaryIsPrivate(w) /\ InspectionHolds(w)
  /\ UnfinishedIsOwned
  /\ TemporariesRemoved
  /\ ClockInv

------------------------------------------------------------------------------
(* What the module promises, as a specification of one file (AtomicFile).     *)

AbsFile ==
  LET i == entry[Target] IN
  IF i = NoInode THEN [state |-> "absent"]
  ELSE IF ~inodes[i].whole THEN [state |-> "partial", by |-> inodes[i].by]
  ELSE IF inodes[i].kind = "other" THEN [state |-> "foreign"]
  ELSE [state |-> "whole", text |-> inodes[i].data]

AbsStatus ==
  [w \in Writers |->
     IF call[w].outcome # "pending" THEN call[w].outcome
     ELSE IF call[w].dest = Target /\ call[w].own # NoInode THEN "creating"
     ELSE "pending"]

Abstract == INSTANCE AtomicFile WITH file <- AbsFile, status <- AbsStatus

(* What the implementation needs to know beyond IInv: a file being filled is  *)
(* its call's and holds a beginning of the new text, a temporary about to be  *)
(* published ends with the payload.                                           *)
FileHolds(w) ==
  LET c == call[w]  f == inodes[c.own] IN
  /\ c.pc \in {"write", "sync"} =>
       /\ f.kind = "file" /\ ~f.whole /\ f.by = w
       /\ Len(f.data) <= Len(NewText(w))
       /\ \A k \in 1 .. Len(f.data) : f.data[k] = NewText(w)[k]
  /\ c.own # NoInode /\ c.pc \in {"inspect", "read", "replace"} =>
       f.kind = "file" /\ Abstract!Carries(f.data, w)

FilesHold == \A w \in Writers : FileHolds(w)

ImplementsAtomicFile == Abstract!Spec
==============================================================================
