-------------------------- MODULE SafeWriteProofs --------------------------
(***************************************************************************)
(* Theorems about SafeWrite for any set of calls, any directory size, any  *)
(* payload length and any bound on edits and faults.                       *)
(***************************************************************************)
EXTENDS SafeWrite, SequenceTheorems, TLAPS

(* A payload is a text.                                                    *)
LEMMA PayloadType ==
  ASSUME NEW w \in Writers
  PROVE  Payload(w) \in Seq(Block) /\ Len(Payload(w)) = PayloadLength
  BY ConstantsAssumption DEF Payload, Block

(* What a call writes is a text whenever it is about to write it.          *)
LEMMA NewTextType ==
  ASSUME NEW w \in Writers, CallInv(w), call[w].pc \in {"open", "write", "sync"}
  PROVE  NewText(w) \in Seq(Block)
  BY PayloadType, ConstantsAssumption DEF NewText, CallInv, SnapshotType

(* Taking metadata or a snapshot of an existing inode is well typed.       *)
LEMMA SnapshotTypes ==
  ASSUME TypeOK, NEW i \in Inodes
  PROVE  /\ Stat(i) \in [ino : Inodes, stamp : Nat]
         /\ Snapshot(i) \in SnapshotType
  BY DEF TypeOK, Stat, Snapshot, SnapshotType

LEMMA InitInv == Init => IInv
  <1> SUFFICES ASSUME Init PROVE IInv
    OBVIOUS
  <1>1. TypeOK
    BY ConstantsAssumption DEF Init, TypeOK, Idle, CallType, Names, Block, Kinds
  <1>2. EntriesDistinct
    BY ConstantsAssumption DEF Init, EntriesDistinct, Names
  <1>3. ASSUME NEW w \in Writers
        PROVE  CallInv(w) /\ TemporaryIsPrivate(w) /\ InspectionHolds(w)
    <2>1. call[w] \in Idle
      BY DEF Init
    <2>2. /\ call[w].own = NoInode /\ call[w].pc \in {"inspect", "open"}
          /\ call[w].pc = "open" => call[w].op = "create" /\ call[w].dest = Target
          /\ call[w].pc # "open" => call[w].dest = w
          /\ w # Target /\ entry[w] = NoInode /\ call[w].outcome = "pending"
      BY <2>1, ConstantsAssumption DEF Init, Idle, Names
    <2>3. QED
      BY <2>2, ConstantsAssumption DEF CallInv, TemporaryIsPrivate, InspectionHolds
  <1>4. UnfinishedIsOwned /\ TemporariesRemoved /\ ClockInv
    BY ConstantsAssumption DEF Init, UnfinishedIsOwned, TemporariesRemoved, ClockInv, Idle, Names
  <1>5. QED
    BY <1>1, <1>2, <1>3, <1>4 DEF IInv

-----------------------------------------------------------------------------
(* Steps that only move one call and leave the file system alone.          *)

(* What the next call record must satisfy for such a step to be safe.      *)
GoodMove(w, c) ==
  /\ c \in CallType
  /\ c.own = call[w].own
  /\ c.dest = call[w].dest \/ (c.own = NoInode /\ c.dest \in {w, Target})
  /\ c.outcome = "ok" => call[w].outcome = "ok"
  /\ c.checkedAt <= clock
  /\ c.pc = "done" => entry[w] = NoInode

LEMMA CallStep ==
  ASSUME IInv, NEW w \in Writers, NEW c, GoodMove(w, c), Moves(w, c),
         FileSystemUnchanged, edits' = edits, faults' \in Nat,
         CallInv(w)', InspectionHolds(w)'
  PROVE  IInv'
  <1>1. /\ call \in [Writers -> CallType] /\ call'[w] = c
        /\ \A v \in Writers : v # w => call'[v] = call[v]
        /\ call' \in [Writers -> CallType]
    BY DEF IInv, TypeOK, Moves, GoodMove
  <1>2. TypeOK'
    BY <1>1 DEF IInv, TypeOK, FileSystemUnchanged
  <1>3. EntriesDistinct'
    BY DEF IInv, EntriesDistinct, FileSystemUnchanged
  <1>4. ASSUME NEW v \in Writers PROVE (CallInv(v) /\ TemporaryIsPrivate(v) /\ InspectionHolds(v))'
    <2>1. CASE v = w
      BY <2>1, <1>1 DEF IInv, TemporaryIsPrivate, GoodMove, FileSystemUnchanged
    <2>2. CASE v # w
      BY <2>2, <1>1 DEF IInv, TemporaryIsPrivate, CallInv, InspectionHolds, FileSystemUnchanged
    <2>3. QED
      BY <2>1, <2>2
  <1>5. UnfinishedIsOwned'
    BY <1>1 DEF IInv, UnfinishedIsOwned, GoodMove, FileSystemUnchanged
  <1>6. TemporariesRemoved'
    BY <1>1 DEF IInv, TemporariesRemoved, GoodMove, FileSystemUnchanged
  <1>7. ClockInv'
    BY <1>1 DEF IInv, ClockInv, GoodMove, FileSystemUnchanged
  <1>8. QED
    BY <1>2, <1>3, <1>4, <1>5, <1>6, <1>7 DEF IInv

(* A call that ends without success.                                       *)
LEMMA OverStep ==
  ASSUME IInv, NEW w \in Writers, NEW pc \in {"done", "leaked", "killed"},
         NEW outcome \in {"pending", "ok", "refused"},
         Over(w, pc, outcome), FileSystemUnchanged, edits' = edits, faults' \in Nat,
         outcome = "ok" => call[w].outcome = "ok",
         pc = "done" => entry[w] = NoInode
  PROVE  IInv'
  <1> DEFINE c == [call[w] EXCEPT !.pc = pc, !.outcome = outcome, !.before = NoSnapshot,
                                  !.seen = NoSnapshot, !.checkedAt = 0]
  <1>1. call[w] \in CallType /\ CallInv(w) /\ clock \in Nat
    BY DEF IInv, TypeOK
  <1>2. c \in CallType
    BY <1>1 DEF CallType
  <1>3. /\ c.own = call[w].own /\ c.dest = call[w].dest /\ c.pc = pc
        /\ c.outcome = outcome /\ c.checkedAt = 0
    BY <1>1 DEF CallType
  <1>4. GoodMove(w, c) /\ Moves(w, c)
    BY <1>1, <1>2, <1>3 DEF GoodMove, Over
  <1>5. call'[w] = c
    BY <1>4 DEF IInv, TypeOK, Moves
  <1>6. CallInv(w)' /\ InspectionHolds(w)'
    BY <1>1, <1>3, <1>5 DEF CallInv, InspectionHolds
  <1>7. QED
    BY <1>4, <1>6, CallStep

LEMMA RefusesStep ==
  ASSUME IInv, NEW w \in Writers, call[w].pc \in {"inspect", "read", "open", "replace"},
         Refuses(w), FileSystemUnchanged, edits' = edits, faults' \in Nat
  PROVE  IInv'
  <1>1. call[w] \in CallType /\ CallInv(w) /\ TemporaryIsPrivate(w) /\ clock \in Nat
        /\ call[w].checkedAt <= clock
    BY DEF IInv, TypeOK, ClockInv
  <1>2. CASE call[w].own = NoInode
    <2>1. entry[w] = NoInode
      BY <1>1, <1>2 DEF TemporaryIsPrivate
    <2>2. Over(w, "done", "refused")
      BY <1>2 DEF Refuses
    <2>3. QED
      BY <2>1, <2>2, OverStep
  <1>3. CASE call[w].own # NoInode
    <2> DEFINE c == [call[w] EXCEPT !.outcome = "refused", !.pc = "unlink"]
    <2>1. Moves(w, c)
      BY <1>3 DEF Refuses
    <2>2. c \in CallType /\ c.own = call[w].own /\ c.dest = call[w].dest /\ c.pc = "unlink"
          /\ c.outcome = "refused" /\ c.checkedAt = call[w].checkedAt /\ c.seen = call[w].seen
          /\ c.op = call[w].op
      BY <1>1 DEF CallType
    <2>3. GoodMove(w, c)
      BY <1>1, <2>2 DEF GoodMove
    <2>4. call'[w] = c
      BY <2>1 DEF IInv, TypeOK, Moves
    <2>5. call[w].own \in Inodes /\ call[w].dest = w
      BY <1>1, <1>3 DEF CallType, CallInv
    <2>6. CallInv(w)' /\ InspectionHolds(w)'
      BY <1>1, <2>2, <2>4, <2>5 DEF CallInv, InspectionHolds
    <2>7. QED
      BY <2>1, <2>3, <2>6, CallStep
  <1>4. QED
    BY <1>2, <1>3

-----------------------------------------------------------------------------
(* Inspection.                                                             *)

LEMMA InspectMissingStep ==
  ASSUME IInv, NEW w \in Writers, InspectMissing(w)
  PROVE  IInv'
  <1>1. call[w] \in CallType /\ CallInv(w) /\ clock \in Nat /\ faults \in Nat
        /\ call[w].checkedAt <= clock
    BY DEF IInv, TypeOK, ClockInv
  <1>2. CASE call[w].op = "replace" /\ call[w].own = NoInode
    <2> DEFINE c == [call[w] EXCEPT !.pc = "open", !.dest = Target]
    <2>1. Moves(w, c)
      BY <1>2 DEF InspectMissing
    <2>2. c \in CallType /\ c.own = NoInode /\ c.dest = Target /\ c.pc = "open"
          /\ c.op = "replace" /\ c.outcome = call[w].outcome /\ c.checkedAt = call[w].checkedAt
      BY <1>1, <1>2 DEF CallType, Names
    <2>3. GoodMove(w, c)
      BY <1>1, <1>2, <2>2 DEF GoodMove
    <2>4. call'[w] = c
      BY <2>1 DEF IInv, TypeOK, Moves
    <2>5. CallInv(w)' /\ InspectionHolds(w)'
      BY <1>1, <2>2, <2>4, ConstantsAssumption DEF CallInv, InspectionHolds, InspectMissing
    <2>6. QED
      BY <1>1, <2>1, <2>3, <2>5, CallStep DEF InspectMissing
  <1>3. CASE ~(call[w].op = "replace" /\ call[w].own = NoInode)
    BY <1>1, <1>3, RefusesStep DEF InspectMissing
  <1>4. QED
    BY <1>2, <1>3

LEMMA InspectIdentityStep ==
  ASSUME IInv, NEW w \in Writers, InspectIdentity(w)
  PROVE  IInv'
  <1> DEFINE i == entry[Target]
  <1>1. call[w] \in CallType /\ CallInv(w) /\ TemporaryIsPrivate(w) /\ clock \in Nat
        /\ faults \in Nat /\ call[w].checkedAt <= clock /\ call[w].pc = "inspect"
        /\ call[w].op = "replace"
    BY DEF IInv, TypeOK, ClockInv, InspectIdentity
  <1>2. i \in Inodes
    BY DEF IInv, TypeOK, Names, InspectIdentity
  <1>3. CASE call[w].own = NoInode
    <2> DEFINE c == [call[w] EXCEPT !.pc = "open", !.before = Stat(i)]
    <2>1. Moves(w, c)
      BY <1>3 DEF InspectIdentity
    <2>2. c \in CallType /\ c.own = NoInode /\ c.dest = call[w].dest /\ c.pc = "open"
          /\ c.op = "replace" /\ c.outcome = call[w].outcome /\ c.checkedAt = call[w].checkedAt
      BY <1>1, <1>2, <1>3, SnapshotTypes DEF CallType, IInv
    <2>3. GoodMove(w, c)
      BY <1>1, <1>3, <2>2 DEF GoodMove
    <2>4. call'[w] = c
      BY <2>1 DEF IInv, TypeOK, Moves
    <2>5. CallInv(w)' /\ InspectionHolds(w)'
      BY <1>1, <2>2, <2>4 DEF CallInv, InspectionHolds
    <2>6. QED
      BY <1>1, <2>1, <2>3, <2>5, CallStep DEF InspectIdentity
  <1>4. CASE call[w].own # NoInode /\ call[w].before.ino = i
    <2> DEFINE c == [call[w] EXCEPT !.pc = "replace", !.checkedAt = clock]
    <2>1. Moves(w, c)
      BY <1>4 DEF InspectIdentity
    <2>2. c \in CallType /\ c.own = call[w].own /\ c.dest = call[w].dest /\ c.pc = "replace"
          /\ c.op = "replace" /\ c.outcome = call[w].outcome /\ c.checkedAt = clock
      BY <1>1, <1>2 DEF CallType
    <2>3. GoodMove(w, c)
      BY <1>1, <2>2 DEF GoodMove
    <2>4. call'[w] = c /\ call[w].own \in Inodes
      BY <1>1, <1>4, <2>1 DEF IInv, TypeOK, Moves, CallType
    <2>5. CallInv(w)' /\ InspectionHolds(w)'
      BY <1>1, <2>2, <2>4 DEF CallInv, InspectionHolds, InspectIdentity, FileSystemUnchanged
    <2>6. QED
      BY <1>1, <2>1, <2>3, <2>5, CallStep DEF InspectIdentity
  <1>5. CASE call[w].own # NoInode /\ call[w].before.ino # i
    BY <1>1, <1>5, RefusesStep DEF InspectIdentity
  <1>6. QED
    BY <1>3, <1>4, <1>5

LEMMA InspectBeginStep ==
  ASSUME IInv, NEW w \in Writers, InspectBegin(w)
  PROVE  IInv'
  <1> DEFINE i == entry[Target]
             c == [call[w] EXCEPT !.pc = "read", !.before = Stat(i)]
  <1>1. call[w] \in CallType /\ CallInv(w) /\ faults \in Nat /\ clock \in Nat
        /\ call[w].checkedAt <= clock /\ call[w].pc = "inspect"
    BY DEF IInv, TypeOK, ClockInv, InspectBegin
  <1>2. i \in Inodes
    BY DEF IInv, TypeOK, Names, InspectBegin
  <1>3. c \in CallType /\ c.own = call[w].own /\ c.dest = call[w].dest /\ c.pc = "read"
        /\ c.op = call[w].op /\ c.outcome = call[w].outcome /\ c.checkedAt = call[w].checkedAt
    BY <1>1, <1>2, SnapshotTypes DEF CallType, IInv
  <1>4. Moves(w, c) /\ call'[w] = c
    BY DEF IInv, TypeOK, Moves, InspectBegin
  <1>5. GoodMove(w, c)
    BY <1>1, <1>3 DEF GoodMove
  <1>6. CallInv(w)' /\ InspectionHolds(w)'
    BY <1>1, <1>3, <1>4 DEF CallInv, InspectionHolds, InspectBegin, FileSystemUnchanged
  <1>7. QED
    BY <1>1, <1>4, <1>5, <1>6, CallStep DEF InspectBegin

LEMMA InspectEndStep ==
  ASSUME IInv, NEW w \in Writers, InspectEnd(w)
  PROVE  IInv'
  <1> DEFINE s == Snapshot(entry[Target])
             b == [call[w] EXCEPT !.before = NoSnapshot]
  <1>1. call[w] \in CallType /\ CallInv(w) /\ faults \in Nat /\ clock \in Nat
        /\ call[w].checkedAt <= clock /\ call[w].pc = "read"
    BY DEF IInv, TypeOK, ClockInv, InspectEnd
  <1>2. CASE ~Undisturbed(w)
    BY <1>1, <1>2, RefusesStep DEF InspectEnd
  <1>3. CASE Undisturbed(w)
    <2>1. entry[Target] \in Inodes /\ s \in SnapshotType /\ Inspected(w, s)
      BY <1>3, SnapshotTypes DEF IInv, TypeOK, Names, Undisturbed, InspectEnd
    <2>2. b \in CallType /\ b.own = call[w].own /\ b.dest = call[w].dest /\ b.pc = call[w].pc
          /\ b.op = call[w].op /\ b.outcome = call[w].outcome /\ b.seen = call[w].seen
      BY <1>1 DEF CallType
    <2>3. CASE call[w].seen = NoSnapshot
      <3> DEFINE c == [b EXCEPT !.seen = s, !.checkedAt = clock,
                                !.pc = IF b.op = "append" THEN "open" ELSE "inspect"]
      <3>1. Moves(w, c) /\ call'[w] = c
        BY <2>1, <2>2, <2>3 DEF Inspected, IInv, TypeOK, Moves
      <3>2. c \in CallType /\ c.own = call[w].own /\ c.dest = call[w].dest /\ c.seen = s
            /\ c.op = call[w].op /\ c.outcome = call[w].outcome /\ c.checkedAt = clock
            /\ c.pc = IF call[w].op = "append" THEN "open" ELSE "inspect"
        BY <1>1, <2>1, <2>2 DEF CallType
      <3>3. GoodMove(w, c)
        BY <1>1, <3>2 DEF GoodMove
      <3>4. call[w].op # "replace" => call[w].own = NoInode
        BY <1>1, <2>3 DEF CallInv
      <3>5. CallInv(w)' /\ InspectionHolds(w)'
        BY <1>1, <2>1, <3>1, <3>2, <3>4 DEF CallInv, InspectionHolds, InspectEnd, FileSystemUnchanged
      <3>6. QED
        BY <1>1, <3>1, <3>3, <3>5, CallStep DEF InspectEnd
    <2>4. CASE call[w].seen # NoSnapshot /\ ~SameSnapshot(call[w].seen, s)
      BY <1>1, <2>1, <2>2, <2>4, RefusesStep DEF Inspected, InspectEnd
    <2>5. CASE call[w].seen # NoSnapshot /\ SameSnapshot(call[w].seen, s)
      <3> DEFINE c == [b EXCEPT !.checkedAt = clock,
                                !.pc = IF b.own = NoInode THEN "open" ELSE "replace"]
      <3>1. Moves(w, c) /\ call'[w] = c
        BY <2>1, <2>2, <2>5 DEF Inspected, IInv, TypeOK, Moves
      <3>2. c \in CallType /\ c.own = call[w].own /\ c.dest = call[w].dest
            /\ c.seen = call[w].seen /\ c.op = call[w].op /\ c.outcome = call[w].outcome
            /\ c.checkedAt = clock
            /\ c.pc = IF call[w].own = NoInode THEN "open" ELSE "replace"
        BY <1>1, <2>1, <2>2 DEF CallType
      <3>3. GoodMove(w, c)
        BY <1>1, <3>2 DEF GoodMove
      <3>4. call[w].seen = s /\ call[w].seen \in SnapshotType
        BY <2>1, <2>5 DEF SameSnapshot
      <3>5. CallInv(w)'
        BY <1>1, <3>1, <3>2, <3>4 DEF CallInv, CallType, InspectEnd, FileSystemUnchanged
      <3>6. InspectionHolds(w)'
        BY <1>3, <3>1, <3>2, <3>4 DEF InspectionHolds, Undisturbed, Snapshot, InspectEnd,
                                      FileSystemUnchanged
      <3>7. QED
        BY <1>1, <3>1, <3>3, <3>5, <3>6, CallStep DEF InspectEnd
    <2>6. QED
      BY <2>3, <2>4, <2>5
  <1>4. QED
    BY <1>2, <1>3

-----------------------------------------------------------------------------
(* Creation of the temporary, or of the target itself.                     *)

LEMMA OpenExclusiveStep ==
  ASSUME IInv, NEW w \in Writers, OpenExclusive(w)
  PROVE  IInv'
  <1>1. PICK i \in Inodes :
          /\ Free(i)
          /\ entry' = [entry EXCEPT ![call[w].dest] = i]
          /\ inodes' = [inodes EXCEPT ![i] = [kind |-> "file", data |-> << >>,
                           stamp |-> clock + 1, whole |-> FALSE, by |-> w]]
          /\ Moves(w, [call[w] EXCEPT !.pc = "write", !.own = i])
    BY DEF OpenExclusive
  <1> DEFINE c == [call[w] EXCEPT !.pc = "write", !.own = i]
  <1>2. /\ call[w] \in CallType /\ CallInv(w) /\ TemporaryIsPrivate(w)
        /\ call[w].pc = "open" /\ entry[call[w].dest] = NoInode
        /\ clock \in Nat /\ clock' = clock + 1 /\ edits' = edits /\ faults' = faults
        /\ call[w].dest \in Names /\ w \in Names /\ Target \in Names /\ w # Target
        /\ call[w].outcome = "pending" /\ call[w].dest \in {w, Target}
    BY ConstantsAssumption DEF IInv, TypeOK, OpenExclusive, CallType, CallInv, Names
  <1>3. /\ c \in CallType /\ c.own = i /\ c.dest = call[w].dest /\ c.pc = "write"
        /\ c.op = call[w].op /\ c.outcome = call[w].outcome /\ c.seen = call[w].seen
        /\ c.checkedAt = call[w].checkedAt
    BY <1>1, <1>2 DEF CallType
  <1>4. /\ call'[w] = c
        /\ \A v \in Writers : v # w => call'[v] = call[v]
        /\ call' \in [Writers -> CallType]
    BY <1>1, <1>3 DEF IInv, TypeOK, Moves
  <1> HIDE DEF c
  <1>5. /\ entry'[call[w].dest] = i
        /\ \A n \in Names : n # call[w].dest => entry'[n] = entry[n]
        /\ \A n \in Names : entry[n] # i
        /\ inodes'[i] = [kind |-> "file", data |-> << >>, stamp |-> clock + 1,
                         whole |-> FALSE, by |-> w]
        /\ \A j \in Inodes : j # i => inodes'[j] = inodes[j]
    BY <1>1, <1>2 DEF IInv, TypeOK, Free
  <1>6. TypeOK'
    BY <1>1, <1>2, <1>4 DEF IInv, TypeOK, Names, Kinds
  <1>7. EntriesDistinct'
    BY <1>5, <1>2 DEF IInv, EntriesDistinct
  <1>8. ASSUME NEW v \in Writers PROVE (CallInv(v) /\ TemporaryIsPrivate(v) /\ InspectionHolds(v))'
    <2>1. CASE v = w
      <3>1. CallInv(w)'
        BY <1>2, <1>3, <1>4, <1>5 DEF CallInv
      <3>2. TemporaryIsPrivate(w)'
        BY <1>2, <1>3, <1>4, <1>5 DEF TemporaryIsPrivate
      <3>3. InspectionHolds(w)'
        BY <1>3, <1>4 DEF InspectionHolds
      <3>4. QED
        BY <2>1, <3>1, <3>2, <3>3
    <2>2. CASE v # w
      <3>1. /\ call[v] \in CallType /\ CallInv(v) /\ TemporaryIsPrivate(v) /\ InspectionHolds(v)
            /\ call[v].checkedAt <= clock /\ call'[v] = call[v] /\ v \in Names
            /\ call[w].dest # v /\ Target \in Names
        BY <2>2, <1>2, <1>4, ConstantsAssumption DEF IInv, TypeOK, ClockInv, CallInv, Names
      <3>2. entry'[v] = entry[v] /\ entry[v] # i
        BY <3>1, <1>5
      <3>3. CallInv(v)'
        BY <3>1, <3>2, <1>5 DEF CallInv, CallType
      <3>4. TemporaryIsPrivate(v)'
        BY <3>1, <3>2 DEF TemporaryIsPrivate
      <3>5. InspectionHolds(v)'
        <4>1. CASE call[w].dest = Target
          BY <4>1, <3>1, <1>2, <1>5 DEF InspectionHolds, CallType
        <4>2. CASE call[w].dest # Target
          BY <4>2, <3>1, <1>2, <1>5 DEF InspectionHolds, IInv, TypeOK
        <4>3. QED
          BY <4>1, <4>2
      <3>6. QED
        BY <3>3, <3>4, <3>5
    <2>3. QED
      BY <2>1, <2>2
  <1>9. UnfinishedIsOwned'
    <2>1. CASE call[w].dest = Target
      BY <2>1, <1>2, <1>3, <1>4, <1>5 DEF UnfinishedIsOwned
    <2>2. CASE call[w].dest # Target
      <3> DEFINE j == entry[Target]
      <3>1. entry'[Target] = j /\ j # i /\ j \in Inodes \cup {NoInode}
        BY <2>2, <1>2, <1>5 DEF IInv, TypeOK
      <3>2. SUFFICES ASSUME j # NoInode, ~inodes[j].whole
                     PROVE  UnfinishedIsOwned'
        BY <3>1, <1>5 DEF UnfinishedIsOwned
      <3>3. inodes'[j] = inodes[j] /\ inodes[j].by \in Writers /\ call[inodes[j].by].own = j
        BY <3>1, <3>2, <1>5 DEF IInv, UnfinishedIsOwned
      <3>4. inodes[j].by # w
        BY <3>2, <3>3, <1>2 DEF CallInv
      <3>5. QED
        BY <3>1, <3>2, <3>3, <3>4, <1>4 DEF IInv, UnfinishedIsOwned
    <2>3. QED
      BY <2>1, <2>2
  <1>10. TemporariesRemoved'
    <2>1. ASSUME NEW v \in Writers, call'[v].pc = "done" PROVE entry'[v] = NoInode
      <3>1. v # w /\ v # Target /\ v \in Names /\ call[v].pc = "done"
        BY <2>1, <1>3, <1>4, ConstantsAssumption DEF Names
      <3>2. QED
        BY <3>1, <1>2, <1>5 DEF TemporariesRemoved, IInv
    <2>2. QED
      BY <2>1 DEF TemporariesRemoved
  <1>11. ClockInv'
    <2>1. \A j \in Inodes : inodes'[j].stamp <= clock'
      BY <1>2, <1>5 DEF ClockInv, IInv, TypeOK
    <2>2. \A v \in Writers : call'[v].checkedAt <= clock'
      BY <1>2, <1>3, <1>4 DEF ClockInv, IInv, TypeOK, CallType
    <2>3. QED
      BY <2>1, <2>2 DEF ClockInv
  <1>12. QED
    BY <1>6, <1>7, <1>8, <1>9, <1>10, <1>11 DEF IInv

LEMMA WriteBlockStep ==
  ASSUME IInv, NEW w \in Writers, WriteBlock(w)
  PROVE  IInv'
  <1> DEFINE i == call[w].own
             d == inodes[i].data
             text == NewText(w)
             c == [call[w] EXCEPT !.pc = IF Len(d) + 1 = Len(text) THEN "sync" ELSE "write"]
  <1>1. /\ call[w] \in CallType /\ CallInv(w) /\ TemporaryIsPrivate(w)
        /\ call[w].pc = "write" /\ i \in Inodes /\ call[w].outcome = "pending"
        /\ clock \in Nat /\ clock' = clock + 1 /\ edits' = edits /\ faults' = faults
        /\ entry' = entry
    BY DEF IInv, TypeOK, WriteBlock, CallInv
  <1>2. /\ inodes' = [inodes EXCEPT ![i].data = Append(d, text[Len(d) + 1]),
                                    ![i].stamp = clock + 1]
        /\ Moves(w, c) /\ Len(d) < Len(text)
    BY DEF WriteBlock
  <1>3. d \in Seq(Block) /\ text \in Seq(Block)
    BY <1>1, NewTextType DEF IInv, TypeOK
  <1>4. Append(d, text[Len(d) + 1]) \in Seq(Block)
    BY <1>2, <1>3
  <1> HIDE DEF text, d
  <1>5. /\ c \in CallType /\ c.own = i /\ c.dest = call[w].dest /\ c.pc \in {"sync", "write"}
        /\ c.op = call[w].op /\ c.outcome = call[w].outcome /\ c.seen = call[w].seen
        /\ c.checkedAt = call[w].checkedAt
    BY <1>1 DEF CallType
  <1>6. /\ call'[w] = c
        /\ \A v \in Writers : v # w => call'[v] = call[v]
        /\ call' \in [Writers -> CallType]
    BY <1>2, <1>5 DEF IInv, TypeOK, Moves
  <1> HIDE DEF c
  <1>7. /\ inodes' \in [Inodes -> [kind : Kinds, data : Seq(Block), stamp : Nat,
                                   whole : BOOLEAN, by : Names]]
        /\ inodes'[i].stamp = clock + 1
        /\ \A j \in Inodes : /\ inodes'[j].whole = inodes[j].whole
                             /\ inodes'[j].by = inodes[j].by
                             /\ inodes'[j].kind = inodes[j].kind
                             /\ j # i => inodes'[j] = inodes[j]
    <2> DEFINE e == Append(d, text[Len(d) + 1])
               r == [inodes[i] EXCEPT !.data = e, !.stamp = clock + 1]
    <2>0. e \in Seq(Block) /\ clock + 1 \in Nat
      BY <1>1, <1>4
    <2>1. inodes[i] \in [kind : Kinds, data : Seq(Block), stamp : Nat, whole : BOOLEAN, by : Names]
      BY <1>1 DEF IInv, TypeOK
    <2>2. /\ r \in [kind : Kinds, data : Seq(Block), stamp : Nat, whole : BOOLEAN, by : Names]
          /\ r.stamp = clock + 1 /\ r.whole = inodes[i].whole /\ r.by = inodes[i].by
          /\ r.kind = inodes[i].kind
      <3> HIDE DEF e
      <3>1. QED
        BY <2>0, <2>1
    <2>3. inodes' = [inodes EXCEPT ![i] = r]
      BY <1>1, <1>2 DEF IInv, TypeOK
    <2> HIDE DEF r
    <2>4. QED
      BY <1>1, <2>2, <2>3 DEF IInv, TypeOK
  <1>8. TypeOK'
    BY <1>1, <1>6, <1>7 DEF IInv, TypeOK
  <1>9. EntriesDistinct'
    BY <1>1 DEF IInv, EntriesDistinct
  <1>10. ASSUME NEW v \in Writers PROVE (CallInv(v) /\ TemporaryIsPrivate(v) /\ InspectionHolds(v))'
    <2>1. CallInv(v)'
      <3>1. call'[v].own \in Inodes => inodes'[call'[v].own].whole = inodes[call'[v].own].whole
        BY <1>7
      <3>2. CASE v = w
        BY <3>2, <1>1, <1>5, <1>6 DEF CallInv
      <3>3. CASE v # w
        BY <3>1, <3>3, <1>1, <1>6 DEF CallInv, IInv, TypeOK, CallType
      <3>4. QED
        BY <3>2, <3>3
    <2>2. TemporaryIsPrivate(v)'
      BY <1>1, <1>5, <1>6 DEF TemporaryIsPrivate, IInv
    <2>3. InspectionHolds(v)'
      <3>1. CASE v = w
        BY <3>1, <1>5, <1>6 DEF InspectionHolds
      <3>2. CASE v # w
        <4>1. InspectionHolds(v) /\ call'[v] = call[v] /\ call[v].checkedAt <= clock
              /\ call[v].checkedAt \in Nat /\ entry'[Target] = entry[Target]
              /\ entry[Target] \in Inodes \cup {NoInode}
          BY <3>2, <1>1, <1>6 DEF IInv, TypeOK, ClockInv, CallType, Names
        <4>2. QED
          BY <4>1, <1>1, <1>7 DEF InspectionHolds
      <3>3. QED
        BY <3>1, <3>2
    <2>4. QED
      BY <2>1, <2>2, <2>3
  <1>11. UnfinishedIsOwned'
    <2>1. UnfinishedIsOwned /\ entry[Target] \in Inodes \cup {NoInode}
      BY DEF IInv, TypeOK, Names
    <2>2. \A v \in Writers : call'[v].own = call[v].own /\ call'[v].dest = call[v].dest
                              /\ call'[v].outcome = call[v].outcome
      BY <1>5, <1>6
    <2>3. QED
      BY <2>1, <2>2, <1>1, <1>7 DEF UnfinishedIsOwned
  <1>12. TemporariesRemoved'
    BY <1>1, <1>5, <1>6 DEF TemporariesRemoved, IInv
  <1>13. ClockInv'
    <2>1. \A j \in Inodes : inodes'[j].stamp <= clock'
      <3>1. \A j \in Inodes : inodes[j].stamp \in Nat /\ inodes[j].stamp <= clock
        BY DEF ClockInv, IInv, TypeOK
      <3>2. ASSUME NEW j \in Inodes PROVE inodes'[j].stamp <= clock'
        <4>1. CASE j = i
          BY <4>1, <1>1, <1>7
        <4>2. CASE j # i
          <5>1. inodes'[j] = inodes[j] /\ inodes[j].stamp \in Nat /\ inodes[j].stamp <= clock
            BY <4>2, <3>1, <1>7
          <5>2. QED
            BY <5>1, <1>1
        <4>3. QED
          BY <4>1, <4>2
      <3>3. QED
        BY <3>2
    <2>2. \A v \in Writers : call'[v].checkedAt <= clock'
      <3>1. \A v \in Writers : call[v].checkedAt \in Nat /\ call[v].checkedAt <= clock
                                /\ call'[v].checkedAt = call[v].checkedAt
        BY <1>5, <1>6 DEF ClockInv, IInv, TypeOK, CallType
      <3>2. QED
        BY <3>1, <1>1
    <2>3. QED
      BY <2>1, <2>2 DEF ClockInv
  <1>14. QED
    BY <1>8, <1>9, <1>10, <1>11, <1>12, <1>13 DEF IInv

LEMMA SyncStep ==
  ASSUME IInv, NEW w \in Writers, Sync(w)
  PROVE  IInv'
  <1> DEFINE i == call[w].own
             overCall == [call[w] EXCEPT !.pc = "done", !.outcome = "ok", !.before = NoSnapshot,
                                         !.seen = NoSnapshot, !.checkedAt = 0]
             nextCall == [call[w] EXCEPT !.pc = "inspect"]
             c == IF call[w].dest = Target THEN overCall ELSE nextCall
  <1>1. /\ call[w] \in CallType /\ CallInv(w) /\ TemporaryIsPrivate(w)
        /\ call[w].pc = "sync" /\ i \in Inodes /\ call[w].outcome = "pending"
        /\ clock \in Nat /\ clock' = clock /\ edits' = edits /\ faults' = faults
        /\ entry' = entry /\ call[w].dest \in {w, Target} /\ w # Target
    BY ConstantsAssumption DEF IInv, TypeOK, Sync, CallInv
  <1>2. inodes' = [inodes EXCEPT ![i].whole = TRUE] /\ Moves(w, c)
    BY DEF Sync, Over
  <1>3. /\ c \in CallType /\ c.own = i /\ c.dest = call[w].dest /\ c.op = call[w].op
        /\ c.checkedAt \in {0, call[w].checkedAt}
        /\ call[w].dest = Target => c.pc = "done" /\ c.outcome = "ok" /\ c.seen = NoSnapshot
        /\ call[w].dest # Target => c.pc = "inspect" /\ c.outcome = "pending"
                                    /\ c.seen = call[w].seen
    BY <1>1 DEF CallType
  <1>4. /\ call'[w] = c
        /\ \A v \in Writers : v # w => call'[v] = call[v]
        /\ call' \in [Writers -> CallType]
    BY <1>2, <1>3 DEF IInv, TypeOK, Moves
  <1> HIDE DEF c
  <1>5. /\ inodes' \in [Inodes -> [kind : Kinds, data : Seq(Block), stamp : Nat,
                                   whole : BOOLEAN, by : Names]]
        /\ inodes'[i].whole
        /\ \A j \in Inodes : /\ inodes[j].whole => inodes'[j].whole
                             /\ inodes'[j].by = inodes[j].by
                             /\ inodes'[j].kind = inodes[j].kind
                             /\ inodes'[j].stamp = inodes[j].stamp
                             /\ inodes'[j].data = inodes[j].data
                             /\ j # i => inodes'[j] = inodes[j]
    BY <1>1, <1>2 DEF IInv, TypeOK
  <1>6. TypeOK'
    BY <1>1, <1>4, <1>5 DEF IInv, TypeOK
  <1>7. EntriesDistinct'
    BY <1>1 DEF IInv, EntriesDistinct
  <1>8. ASSUME NEW v \in Writers PROVE (CallInv(v) /\ TemporaryIsPrivate(v) /\ InspectionHolds(v))'
    <2>1. CallInv(v)'
      <3>1. CASE v = w /\ call[w].dest = Target
        BY <3>1, <1>1, <1>3, <1>4 DEF CallInv
      <3>2. CASE v = w /\ call[w].dest # Target
        <4>1. call[w].seen # NoSnapshot \/ call[w].op = "replace"
          BY <3>2, <1>1, ConstantsAssumption DEF CallInv, SnapshotType, Block
        <4>2. entry[w] = i
          BY <3>2, <1>1 DEF CallInv
        <4>3. QED
          BY <3>2, <4>1, <4>2, <1>1, <1>3, <1>4, <1>5 DEF CallInv
      <3>3. CASE v # w
        BY <3>3, <1>1, <1>4, <1>5 DEF CallInv, IInv, TypeOK, CallType
      <3>4. QED
        BY <3>1, <3>2, <3>3
    <2>2. TemporaryIsPrivate(v)'
      BY <1>1, <1>3, <1>4 DEF TemporaryIsPrivate, IInv
    <2>3. InspectionHolds(v)'
      BY <1>1, <1>3, <1>4, <1>5 DEF InspectionHolds, IInv, TypeOK, Names
    <2>4. QED
      BY <2>1, <2>2, <2>3
  <1>9. UnfinishedIsOwned'
    <2>1. UnfinishedIsOwned /\ entry[Target] \in Inodes \cup {NoInode}
      BY DEF IInv, TypeOK, Names
    <2>2. \A v \in Writers : call'[v].own = call[v].own /\ call'[v].dest = call[v].dest
      BY <1>3, <1>4
    <2>3. \A v \in Writers : call[v].outcome # "ok" /\ call'[v].outcome = "ok"
                               => v = w /\ call[v].own = i
      BY <1>3, <1>4
    <2>4. QED
      BY <2>1, <2>2, <2>3, <1>1, <1>5 DEF UnfinishedIsOwned
  <1>10. TemporariesRemoved'
    BY <1>1, <1>3, <1>4 DEF TemporariesRemoved, TemporaryIsPrivate, IInv
  <1>11. ClockInv'
    <2>1. /\ \A j \in Inodes : inodes[j].stamp <= clock
          /\ \A v \in Writers : call[v].checkedAt <= clock
      BY DEF ClockInv, IInv
    <2>2. ASSUME NEW j \in Inodes PROVE inodes'[j].stamp <= clock'
      <3>1. inodes'[j].stamp = inodes[j].stamp
        BY <1>5
      <3>2. QED
        BY <2>1, <3>1, <1>1
    <2>3. ASSUME NEW v \in Writers PROVE call'[v].checkedAt <= clock'
      <3>1. call'[v].checkedAt = 0 \/ call'[v].checkedAt = call[v].checkedAt
        BY <1>3, <1>4
      <3>2. QED
        BY <2>1, <3>1, <1>1
    <2>4. QED
      BY <2>2, <2>3 DEF ClockInv
  <1>12. QED
    BY <1>6, <1>7, <1>8, <1>9, <1>10, <1>11 DEF IInv

-----------------------------------------------------------------------------
(* Publication and removal of entries.                                     *)

LEMMA ReplaceStep ==
  ASSUME IInv, NEW w \in Writers, Replace(w)
  PROVE  IInv'
  <1> DEFINE i == entry[w]
             c == [call[w] EXCEPT !.pc = "unlink", !.outcome = "ok"]
  <1>1. /\ call[w] \in CallType /\ CallInv(w) /\ TemporaryIsPrivate(w)
        /\ call[w].pc = "replace" /\ i \in Inodes /\ call[w].own = i /\ call[w].dest = w
        /\ inodes[i].whole /\ clock \in Nat /\ clock' = clock + 1 /\ edits' = edits
        /\ faults' = faults /\ w \in Names /\ Target \in Names /\ w # Target
    BY ConstantsAssumption DEF IInv, TypeOK, Replace, CallInv, TemporaryIsPrivate, Names
  <1>2. /\ entry' = [entry EXCEPT ![Target] = i, ![w] = NoInode]
        /\ inodes' = [inodes EXCEPT ![i].stamp = clock + 1]
        /\ Moves(w, c)
    BY DEF Replace
  <1>3. /\ c \in CallType /\ c.own = i /\ c.dest = w /\ c.pc = "unlink" /\ c.outcome = "ok"
        /\ c.op = call[w].op /\ c.checkedAt = call[w].checkedAt
    BY <1>1 DEF CallType
  <1>4. /\ call'[w] = c
        /\ \A v \in Writers : v # w => call'[v] = call[v]
        /\ call' \in [Writers -> CallType]
    BY <1>2, <1>3 DEF IInv, TypeOK, Moves
  <1> HIDE DEF c
  <1>5. /\ entry'[Target] = i /\ entry'[w] = NoInode
        /\ \A n \in Names : n # w /\ n # Target => entry'[n] = entry[n] /\ entry[n] # i
        /\ entry' \in [Names -> Inodes \cup {NoInode}]
    BY <1>1, <1>2, ConstantsAssumption DEF IInv, TypeOK, EntriesDistinct
  <1>6. /\ inodes' \in [Inodes -> [kind : Kinds, data : Seq(Block), stamp : Nat,
                                   whole : BOOLEAN, by : Names]]
        /\ inodes'[i].stamp = clock + 1
        /\ \A j \in Inodes : /\ inodes'[j].whole = inodes[j].whole
                             /\ inodes'[j].by = inodes[j].by
                             /\ j # i => inodes'[j] = inodes[j]
    BY <1>1, <1>2 DEF IInv, TypeOK
  <1>7. TypeOK'
    BY <1>1, <1>4, <1>5, <1>6 DEF IInv, TypeOK
  <1>8. EntriesDistinct'
    BY <1>1, <1>5 DEF IInv, EntriesDistinct
  <1>9. ASSUME NEW v \in Writers PROVE (CallInv(v) /\ TemporaryIsPrivate(v) /\ InspectionHolds(v))'
    <2>1. CASE v = w
      BY <2>1, <1>1, <1>3, <1>4, <1>5 DEF CallInv, TemporaryIsPrivate, InspectionHolds
    <2>2. CASE v # w
      <3>1. /\ call[v] \in CallType /\ CallInv(v) /\ TemporaryIsPrivate(v)
            /\ call[v].checkedAt <= clock /\ call'[v] = call[v] /\ v \in Names
            /\ v # Target
        BY <2>2, <1>4, ConstantsAssumption DEF IInv, TypeOK, ClockInv, Names
      <3>2. entry'[v] = entry[v]
        BY <2>2, <3>1, <1>5
      <3>3. CallInv(v)'
        BY <3>1, <3>2, <1>6 DEF CallInv, CallType
      <3>4. TemporaryIsPrivate(v)'
        BY <3>1, <3>2 DEF TemporaryIsPrivate
      <3>5. InspectionHolds(v)'
        BY <3>1, <1>1, <1>5, <1>6 DEF InspectionHolds, CallType
      <3>6. QED
        BY <3>3, <3>4, <3>5
    <2>3. QED
      BY <2>1, <2>2
  <1>10. UnfinishedIsOwned'
    BY <1>1, <1>5, <1>6 DEF UnfinishedIsOwned
  <1>11. TemporariesRemoved'
    <2>1. ASSUME NEW v \in Writers, call'[v].pc = "done" PROVE entry'[v] = NoInode
      <3>1. v # w /\ v # Target /\ v \in Names /\ call[v].pc = "done"
        BY <2>1, <1>3, <1>4, ConstantsAssumption DEF Names
      <3>2. QED
        BY <3>1, <1>5 DEF TemporariesRemoved, IInv
    <2>2. QED
      BY <2>1 DEF TemporariesRemoved
  <1>12. ClockInv'
    <2>1. ASSUME NEW j \in Inodes PROVE inodes'[j].stamp <= clock'
      <3>1. inodes[j].stamp \in Nat /\ inodes[j].stamp <= clock
        BY DEF IInv, TypeOK, ClockInv
      <3>2. inodes'[j].stamp \in {inodes[j].stamp, clock + 1}
        BY <1>6
      <3>3. QED
        BY <3>1, <3>2, <1>1
    <2>2. ASSUME NEW v \in Writers PROVE call'[v].checkedAt <= clock'
      <3>1. call[v].checkedAt \in Nat /\ call[v].checkedAt <= clock
            /\ call'[v].checkedAt = call[v].checkedAt
        BY <1>3, <1>4 DEF IInv, TypeOK, ClockInv, CallType
      <3>2. QED
        BY <3>1, <1>1
    <2>3. QED
      BY <2>1, <2>2 DEF ClockInv
  <1>13. QED
    BY <1>7, <1>8, <1>9, <1>10, <1>11, <1>12 DEF IInv

(* A call that is over removes an entry: its temporary, or the file its    *)
(* failed creation leaves at the target.                                   *)
LEMMA CallRemovesEntry ==
  ASSUME IInv, NEW w \in Writers, NEW n \in {w, Target}, NEW outcome \in {"pending", "ok", "refused"},
         call[w].dest = n, Over(w, "done", outcome),
         entry' = [entry EXCEPT ![n] = NoInode],
         inodes' = inodes, clock' = clock, edits' = edits, faults' = faults
  PROVE  IInv'
  <1> DEFINE c == [call[w] EXCEPT !.pc = "done", !.outcome = outcome, !.before = NoSnapshot,
                                  !.seen = NoSnapshot, !.checkedAt = 0]
  <1>1. /\ call[w] \in CallType /\ CallInv(w) /\ TemporaryIsPrivate(w) /\ clock \in Nat
        /\ Target \in Names /\ \A v \in Writers : v \in Names /\ v # Target
    BY ConstantsAssumption DEF IInv, TypeOK, Names
  <1>2. /\ c \in CallType /\ c.own = call[w].own /\ c.dest = n /\ c.op = call[w].op
        /\ c.pc = "done" /\ c.checkedAt = 0
    BY <1>1 DEF CallType
  <1>3. /\ call'[w] = c
        /\ \A v \in Writers : v # w => call'[v] = call[v]
        /\ call' \in [Writers -> CallType]
    BY <1>2 DEF IInv, TypeOK, Moves, Over
  <1> HIDE DEF c
  <1>4. /\ entry'[n] = NoInode /\ \A m \in Names : m # n => entry'[m] = entry[m]
        /\ entry' \in [Names -> Inodes \cup {NoInode}]
    BY <1>1 DEF IInv, TypeOK
  <1>5. entry'[w] = NoInode
    BY <1>1, <1>4 DEF TemporaryIsPrivate
  <1>6. TypeOK'
    BY <1>3, <1>4 DEF IInv, TypeOK
  <1>7. EntriesDistinct'
    BY <1>4 DEF IInv, EntriesDistinct
  <1>8. ASSUME NEW v \in Writers PROVE (CallInv(v) /\ TemporaryIsPrivate(v) /\ InspectionHolds(v))'
    <2>1. CASE v = w
      BY <2>1, <1>1, <1>2, <1>3, <1>5 DEF CallInv, TemporaryIsPrivate, InspectionHolds
    <2>2. CASE v # w
      <3>1. CallInv(v) /\ TemporaryIsPrivate(v) /\ InspectionHolds(v) /\ call'[v] = call[v]
            /\ entry'[v] = entry[v] /\ entry'[Target] \in {NoInode, entry[Target]}
        BY <2>2, <1>1, <1>3, <1>4 DEF IInv
      <3>2. QED
        BY <3>1 DEF CallInv, TemporaryIsPrivate, InspectionHolds
    <2>3. QED
      BY <2>1, <2>2
  <1>9. UnfinishedIsOwned'
    <2>1. CASE n = Target
      BY <2>1, <1>4 DEF UnfinishedIsOwned
    <2>2. CASE n # Target
      <3> DEFINE b == inodes[entry[Target]].by
      <3>1. SUFFICES ASSUME entry[Target] # NoInode, ~inodes[entry[Target]].whole
                     PROVE  UnfinishedIsOwned'
        BY <2>2, <1>1, <1>4 DEF UnfinishedIsOwned
      <3>2. b \in Writers /\ call[b].own = entry[Target] /\ call[b].dest = Target
            /\ call[b].outcome # "ok"
        BY <3>1 DEF IInv, UnfinishedIsOwned
      <3>3. call'[b] = call[b] /\ entry'[Target] = entry[Target]
        BY <3>2, <2>2, <1>1, <1>3, <1>4
      <3>4. QED
        BY <3>2, <3>3 DEF UnfinishedIsOwned
    <2>3. QED
      BY <2>1, <2>2
  <1>10. TemporariesRemoved'
    BY <1>1, <1>3, <1>4, <1>5 DEF IInv, TemporariesRemoved
  <1>11. ClockInv'
    <2>1. \A v \in Writers : call'[v].checkedAt \in {0, call[v].checkedAt}
      BY <1>2, <1>3
    <2>2. QED
      BY <2>1, <1>1 DEF IInv, ClockInv
  <1>12. QED
    BY <1>6, <1>7, <1>8, <1>9, <1>10, <1>11 DEF IInv

-----------------------------------------------------------------------------
(* The editor.                                                             *)

(* Whatever the editor does to the target, every call keeps its own files. *)
LEMMA EditorChangesTarget ==
  ASSUME IInv, UNCHANGED <<call, faults>>, edits' \in Nat, clock' \in {clock, clock + 1},
         entry' \in [Names -> Inodes \cup {NoInode}],
         \A n \in Names : n # Target => entry'[n] = entry[n] /\
                                        (entry[n] # NoInode => entry'[Target] # entry[n]),
         inodes' \in [Inodes -> [kind : Kinds, data : Seq(Block), stamp : Nat,
                                 whole : BOOLEAN, by : Names]],
         \A j \in Inodes : j # entry'[Target] => inodes'[j] = inodes[j],
         entry'[Target] # NoInode =>
            /\ inodes'[entry'[Target]].whole
            /\ inodes'[entry'[Target]].stamp = clock'
            /\ clock' = clock + 1
  PROVE  IInv'
  <1>1. /\ clock \in Nat /\ clock' \in Nat /\ clock <= clock' /\ Target \in Names
        /\ \A v \in Writers : v \in Names /\ v # Target
    BY ConstantsAssumption DEF IInv, TypeOK, Names
  <1>2. TypeOK'
    BY <1>1 DEF IInv, TypeOK
  <1>3. EntriesDistinct'
    BY DEF IInv, EntriesDistinct
  <1>4. ASSUME NEW v \in Writers PROVE (CallInv(v) /\ TemporaryIsPrivate(v) /\ InspectionHolds(v))'
    <2>1. CallInv(v) /\ TemporaryIsPrivate(v) /\ call[v] \in CallType
          /\ call[v].checkedAt <= clock /\ entry'[v] = entry[v]
          /\ (entry[v] # NoInode => entry'[Target] # entry[v])
      BY <1>1 DEF IInv, TypeOK, ClockInv
    <2>2. CallInv(v)'
      BY <2>1 DEF CallInv, CallType
    <2>3. TemporaryIsPrivate(v)'
      BY <2>1 DEF TemporaryIsPrivate
    <2>4. InspectionHolds(v)'
      <3>1. entry'[Target] # NoInode => ~(inodes'[entry'[Target]].stamp <= call[v].checkedAt)
        BY <2>1, <1>1 DEF CallType
      <3>2. QED
        BY <3>1 DEF InspectionHolds
    <2>5. QED
      BY <2>2, <2>3, <2>4
  <1>5. UnfinishedIsOwned' /\ TemporariesRemoved'
    BY <1>1 DEF IInv, UnfinishedIsOwned, TemporariesRemoved
  <1>6. ClockInv'
    <2>1. ASSUME NEW j \in Inodes PROVE inodes'[j].stamp <= clock'
      <3>1. inodes[j].stamp \in Nat /\ inodes[j].stamp <= clock
        BY DEF IInv, TypeOK, ClockInv
      <3>2. inodes'[j].stamp \in {inodes[j].stamp, clock'}
        <4>1. CASE j = entry'[Target]
          BY <4>1, ConstantsAssumption
        <4>2. CASE j # entry'[Target]
          BY <4>2
        <4>3. QED
          BY <4>1, <4>2
      <3>3. QED
        BY <3>1, <3>2, <1>1
    <2>2. ASSUME NEW v \in Writers PROVE call'[v].checkedAt <= clock'
      <3>1. call[v].checkedAt \in Nat /\ call[v].checkedAt <= clock
        BY DEF IInv, TypeOK, ClockInv, CallType
      <3>2. QED
        BY <3>1, <1>1
    <2>3. QED
      BY <2>1, <2>2 DEF ClockInv
  <1>7. QED
    BY <1>2, <1>3, <1>4, <1>5, <1>6 DEF IInv

LEMMA EditInPlaceStep ==
  ASSUME IInv, EditInPlace
  PROVE  IInv'
  <1> DEFINE i == entry[Target]
             r == [inodes[i] EXCEPT !.data = EditText, !.stamp = clock + 1, !.by = Target]
  <1>1. /\ i \in Inodes /\ i # NoInode /\ inodes[i].whole /\ clock \in Nat /\ edits \in Nat
        /\ inodes[i] \in [kind : Kinds, data : Seq(Block), stamp : Nat, whole : BOOLEAN, by : Names]
        /\ Target \in Names
    BY DEF IInv, TypeOK, EditInPlace, Names
  <1>2. EditText \in Seq(Block)
    BY <1>1 DEF EditText, Block
  <1>3. /\ r \in [kind : Kinds, data : Seq(Block), stamp : Nat, whole : BOOLEAN, by : Names]
        /\ r.whole = inodes[i].whole /\ r.stamp = clock + 1
    <2>1. clock + 1 \in Nat
      BY <1>1
    <2>2. QED
      BY <1>1, <1>2, <2>1
  <1>4. inodes' = [inodes EXCEPT ![i] = r]
    BY <1>1 DEF EditInPlace, IInv, TypeOK
  <1> HIDE DEF r
  <1>5. /\ inodes' \in [Inodes -> [kind : Kinds, data : Seq(Block), stamp : Nat,
                                   whole : BOOLEAN, by : Names]]
        /\ inodes'[i] = r /\ \A j \in Inodes : j # i => inodes'[j] = inodes[j]
    BY <1>1, <1>3, <1>4 DEF IInv, TypeOK
  <1>6. UNCHANGED <<entry, call, faults>> /\ edits' \in Nat /\ clock' = clock + 1
    BY <1>1 DEF EditInPlace, Edit
  <1>7. \A n \in Names : n # Target /\ entry[n] # NoInode => entry[Target] # entry[n]
    BY <1>1 DEF IInv, EntriesDistinct
  <1>8. entry' \in [Names -> Inodes \cup {NoInode}]
    BY <1>6 DEF IInv, TypeOK
  <1>9. QED
    BY <1>1, <1>3, <1>5, <1>6, <1>7, <1>8, EditorChangesTarget

LEMMA SaveByRenameStep ==
  ASSUME IInv, SaveByRename
  PROVE  IInv'
  <1>1. PICK i \in Inodes, kind \in {"file", "other"} :
          /\ Free(i)
          /\ entry' = [entry EXCEPT ![Target] = i]
          /\ inodes' = [inodes EXCEPT ![i] = [kind |-> kind, data |-> EditText,
                           stamp |-> clock + 1, whole |-> TRUE, by |-> Target]]
    BY DEF SaveByRename
  <1>2. UNCHANGED <<call, faults>> /\ edits' \in Nat /\ clock' = clock + 1 /\ clock \in Nat
        /\ edits \in Nat /\ Target \in Names
    BY DEF SaveByRename, Edit, IInv, TypeOK, Names
  <1>3. EditText \in Seq(Block)
    BY <1>2 DEF EditText, Block
  <1>4. /\ inodes' \in [Inodes -> [kind : Kinds, data : Seq(Block), stamp : Nat,
                                   whole : BOOLEAN, by : Names]]
        /\ inodes'[i].whole /\ inodes'[i].stamp = clock + 1
        /\ \A j \in Inodes : j # i => inodes'[j] = inodes[j]
    BY <1>1, <1>2, <1>3 DEF IInv, TypeOK, Kinds
  <1>5. /\ entry' \in [Names -> Inodes \cup {NoInode}] /\ entry'[Target] = i
        /\ \A n \in Names : n # Target => entry'[n] = entry[n]
        /\ \A n \in Names : entry[n] # i
    BY <1>1, <1>2 DEF IInv, TypeOK, Free
  <1>6. QED
    BY <1>2, <1>4, <1>5, EditorChangesTarget

LEMMA DeleteStep ==
  ASSUME IInv, Delete
  PROVE  IInv'
  <1>1. UNCHANGED <<inodes, call, faults, clock>> /\ edits' \in Nat /\ Target \in Names
        /\ entry' = [entry EXCEPT ![Target] = NoInode]
    BY DEF Delete, Edit, IInv, TypeOK, Names
  <1>2. /\ entry' \in [Names -> Inodes \cup {NoInode}] /\ entry'[Target] = NoInode
        /\ \A n \in Names : n # Target => entry'[n] = entry[n]
    BY <1>1 DEF IInv, TypeOK
  <1>3. inodes' \in [Inodes -> [kind : Kinds, data : Seq(Block), stamp : Nat,
                                whole : BOOLEAN, by : Names]]
    BY <1>1 DEF IInv, TypeOK
  <1>4. QED
    BY <1>1, <1>2, <1>3, EditorChangesTarget

LEMMA AddHardLinkStep ==
  ASSUME IInv, AddHardLink
  PROVE  IInv'
  <1> DEFINE i == entry[Target]
             r == [inodes[i] EXCEPT !.kind = "linked", !.stamp = clock + 1]
  <1>1. /\ i \in Inodes /\ i # NoInode /\ inodes[i].whole /\ clock \in Nat /\ edits \in Nat
        /\ inodes[i] \in [kind : Kinds, data : Seq(Block), stamp : Nat, whole : BOOLEAN, by : Names]
        /\ Target \in Names
    BY DEF IInv, TypeOK, AddHardLink, Names
  <1>2. /\ r \in [kind : Kinds, data : Seq(Block), stamp : Nat, whole : BOOLEAN, by : Names]
        /\ r.whole = inodes[i].whole /\ r.stamp = clock + 1
    <2>1. clock + 1 \in Nat
      BY <1>1
    <2>2. QED
      BY <1>1, <2>1 DEF Kinds
  <1>3. inodes' = [inodes EXCEPT ![i] = r]
    BY <1>1 DEF AddHardLink, IInv, TypeOK
  <1> HIDE DEF r
  <1>4. /\ inodes' \in [Inodes -> [kind : Kinds, data : Seq(Block), stamp : Nat,
                                   whole : BOOLEAN, by : Names]]
        /\ inodes'[i] = r /\ \A j \in Inodes : j # i => inodes'[j] = inodes[j]
    BY <1>1, <1>2, <1>3 DEF IInv, TypeOK
  <1>5. UNCHANGED <<entry, call, faults>> /\ edits' \in Nat /\ clock' = clock + 1
    BY <1>1 DEF AddHardLink, Edit
  <1>6. \A n \in Names : n # Target /\ entry[n] # NoInode => entry[Target] # entry[n]
    BY <1>1 DEF IInv, EntriesDistinct
  <1>7. entry' \in [Names -> Inodes \cup {NoInode}]
    BY <1>5 DEF IInv, TypeOK
  <1>8. QED
    BY <1>1, <1>2, <1>4, <1>5, <1>6, <1>7, EditorChangesTarget

-----------------------------------------------------------------------------
(* The invariant, and what follows from it.                                *)

LEMMA StepInv ==
  ASSUME IInv, [Next]_vars
  PROVE  IInv'
  <1>1. ASSUME NEW w \in Writers, WriterStep(w)
        PROVE  IInv'
    <2>0. /\ call[w] \in CallType /\ CallInv(w) /\ TemporaryIsPrivate(w) /\ faults \in Nat
          /\ clock \in Nat /\ call[w].checkedAt <= clock /\ call[w].outcome \in {"pending", "ok", "refused"}
      BY DEF IInv, TypeOK, ClockInv, CallType
    <2>1. CASE InspectMissing(w)
      BY <2>1, InspectMissingStep
    <2>2. CASE InspectWrongKind(w)
      BY <2>0, <2>2, RefusesStep DEF InspectWrongKind
    <2>3. CASE InspectIdentity(w)
      BY <2>3, InspectIdentityStep
    <2>4. CASE InspectBegin(w)
      BY <2>4, InspectBeginStep
    <2>5. CASE InspectEnd(w)
      BY <2>5, InspectEndStep
    <2>6. CASE OpenExists(w)
      BY <2>0, <2>6, RefusesStep DEF OpenExists
    <2>7. CASE OpenExclusive(w)
      BY <2>7, OpenExclusiveStep
    <2>8. CASE OpenFails(w)
      BY <2>0, <2>8, RefusesStep DEF OpenFails, Fault
    <2>9. CASE WriteBlock(w)
      BY <2>9, WriteBlockStep
    <2>10. CASE Sync(w)
      BY <2>10, SyncStep
    <2>11. CASE WriteFails(w)
      <3> DEFINE c == [call[w] EXCEPT !.pc = "cleanup"]
      <3>1. Moves(w, c) /\ call'[w] = c /\ call[w].pc \in {"write", "sync"}
        BY <2>11 DEF WriteFails, IInv, TypeOK, Moves
      <3>2. /\ c \in CallType /\ c.own = call[w].own /\ c.dest = call[w].dest /\ c.pc = "cleanup"
            /\ c.op = call[w].op /\ c.outcome = call[w].outcome
            /\ c.checkedAt = call[w].checkedAt
        BY <2>0 DEF CallType
      <3>3. GoodMove(w, c) /\ CallInv(w)' /\ InspectionHolds(w)'
        BY <2>0, <3>1, <3>2 DEF GoodMove, CallInv, InspectionHolds
      <3>4. QED
        BY <2>0, <2>11, <3>1, <3>3, CallStep DEF WriteFails, Fault
    <2>12. CASE CleanupInspect(w)
      <3>1. CASE entry[call[w].dest] = call[w].own
        <4> DEFINE c == [call[w] EXCEPT !.pc = "unlinkOwn"]
        <4>1. Moves(w, c) /\ call'[w] = c /\ call[w].pc = "cleanup"
          BY <2>12, <3>1 DEF CleanupInspect, IInv, TypeOK, Moves
        <4>2. /\ c \in CallType /\ c.own = call[w].own /\ c.dest = call[w].dest
              /\ c.pc = "unlinkOwn" /\ c.op = call[w].op /\ c.outcome = call[w].outcome
              /\ c.checkedAt = call[w].checkedAt
          BY <2>0 DEF CallType
        <4>3. GoodMove(w, c) /\ CallInv(w)' /\ InspectionHolds(w)'
          BY <2>0, <4>1, <4>2 DEF GoodMove, CallInv, InspectionHolds
        <4>4. QED
          BY <2>0, <2>12, <4>1, <4>3, CallStep DEF CleanupInspect
      <3>2. CASE entry[call[w].dest] # call[w].own
        <4>1. entry[w] = NoInode
          BY <2>0, <3>2 DEF TemporaryIsPrivate
        <4>2. QED
          BY <2>0, <2>12, <3>2, <4>1, OverStep DEF CleanupInspect
      <3>3. QED
        BY <3>1, <3>2
    <2>13. CASE CleanupUnlink(w)
      BY <2>0, <2>13, CallRemovesEntry DEF CleanupUnlink, CallInv
    <2>14. CASE Replace(w)
      BY <2>14, ReplaceStep
    <2>15. CASE ReplaceFails(w)
      BY <2>0, <2>15, RefusesStep DEF ReplaceFails, Fault
    <2>16. CASE UnlinkTemporary(w)
      BY <2>0, <2>16, CallRemovesEntry DEF UnlinkTemporary, CallInv
    <2>17. CASE UnlinkFails(w)
      BY <2>0, <2>17, OverStep DEF UnlinkFails, Fault
    <2>18. CASE Kill(w)
      BY <2>0, <2>18, OverStep DEF Kill, Fault
    <2>19. QED
      BY <1>1, <2>1, <2>2, <2>3, <2>4, <2>5, <2>6, <2>7, <2>8, <2>9, <2>10, <2>11, <2>12, <2>13,
         <2>14, <2>15, <2>16, <2>17, <2>18 DEF WriterStep
  <1>2. CASE EditorStep
    BY <1>2, EditInPlaceStep, SaveByRenameStep, DeleteStep, AddHardLinkStep DEF EditorStep
  <1>3. CASE UNCHANGED vars
    BY <1>3 DEF vars, IInv, TypeOK, EntriesDistinct, CallInv, TemporaryIsPrivate, InspectionHolds,
                UnfinishedIsOwned, TemporariesRemoved, ClockInv
  <1>4. QED
    BY <1>1, <1>2, <1>3 DEF Next

(* Every reachable state of the writers satisfies the inductive invariant. *)
THEOREM InductiveInvariant == Spec => []IInv
  <1>1. IInv /\ [Next]_vars => IInv'
    BY StepInv
  <1>2. QED
    BY InitInv, <1>1, PTL DEF Spec

(* The variables of the writers keep their types.                          *)
THEOREM TypeCorrect == Spec => []TypeOK
  <1>1. IInv => TypeOK
    BY DEF IInv
  <1>2. QED
    BY <1>1, InductiveInvariant, PTL

(* However many calls run, and whichever are killed or fail, a reader of   *)
(* the target sees a half-written file only where an exclusive creation of *)
(* that same path is unfinished.                                           *)
THEOREM NeverTornHolds == Spec => []NeverTorn
  <1>1. IInv => NeverTorn
    BY DEF IInv, UnfinishedIsOwned, NeverTorn
  <1>2. QED
    BY <1>1, InductiveInvariant, PTL

(* A call that returned or raised has removed its temporary.               *)
THEOREM TemporariesRemovedHolds == Spec => []TemporariesRemoved
  <1>1. IInv => TemporariesRemoved
    BY DEF IInv
  <1>2. QED
    BY <1>1, InductiveInvariant, PTL

(* The comparing writers discard only text they inspected, but for changes *)
(* after their last inspection.                                            *)
THEOREM KeepsUninspectedTextHolds == Spec => KeepsUninspectedText
  <1> DEFINE A == \A w \in Writers :
                    LET i == entry[Target] IN
                    (/\ call[w].pc = "replace" /\ call'[w].outcome = "ok"
                     /\ call[w].op # "replace"
                     /\ i # NoInode /\ inodes[i].stamp <= call[w].checkedAt)
                    => /\ inodes[i].data = call[w].seen.data
                       /\ inodes[i].kind = "file"
  <1>1. IInv /\ [Next]_vars => [A]_vars
    BY DEF IInv, InspectionHolds
  <1>2. QED
    BY <1>1, InductiveInvariant, PTL DEF Spec, KeepsUninspectedText

-----------------------------------------------------------------------------
(* The writers implement AtomicFile: whatever the number of calls, every     *)
(* system call is one step of the file that is promised, or none.            *)


(* The last block of a text that carries w's payload is w's.               *)
LEMMA CarriesLast ==
  ASSUME NEW w \in Writers, NEW t \in Seq(Block), Abstract!Carries(t, w)
  PROVE  Len(t) >= 1 /\ t[Len(t)] = <<w, PayloadLength>>
  <1> DEFINE s == SubSeq(t, Len(t) - PayloadLength + 1, Len(t))
  <1>1. Len(t) \in Nat /\ PayloadLength \in Nat \ {0} /\ Len(t) >= PayloadLength
    BY ConstantsAssumption DEF Abstract!Carries
  <1>2. s = [i \in 1 .. PayloadLength |-> <<w, i>>]
    BY DEF Abstract!Carries, Abstract!Payload
  <1>3. s[PayloadLength] = <<w, PayloadLength>>
    <2> HIDE DEF s
    <2>1. QED
      BY <1>1, <1>2
  <1>4. \A i \in Len(t) - PayloadLength + 1 .. Len(t) : t[i] \in Block
    BY <1>1, ElementOfSeq
  <1>5. \A i \in 1 .. PayloadLength : s[i] = t[Len(t) - PayloadLength + i]
    BY <1>1, <1>4, SubSeqProperties
  <1>6. QED
    BY <1>1, <1>3, <1>5

(* Nobody else's text carries a payload.                                   *)
LEMMA ForeignText ==
  ASSUME NEW w \in Writers, NEW who \in {"old", "edit"}, NEW n \in Nat
  PROVE  ~Abstract!Carries(<<<<who, n>>>>, w)
  <1>1. <<<<who, n>>>> \in Seq(Block)
    BY DEF Block
  <1>2. QED
    BY <1>1, CarriesLast, ConstantsAssumption

(* A file that holds all of the new text holds it exactly, payload last.   *)
LEMMA WholeText ==
  ASSUME NEW w \in Writers, CallInv(w), call[w].pc \in {"write", "sync"},
         NEW t \in Seq(Block), Len(t) = Len(NewText(w)),
         \A k \in 1 .. Len(t) : t[k] = NewText(w)[k]
  PROVE  /\ t = NewText(w)
         /\ call[w].dest = w \/ call[w].op # "append" => Abstract!Carries(t, w)
  <1>1. NewText(w) \in Seq(Block)
    BY NewTextType
  <1>2. t = NewText(w)
    BY <1>1, SeqEqual
  <1>3. Payload(w) \in Seq(Block) /\ Len(Payload(w)) = PayloadLength
        /\ PayloadLength \in Nat \ {0}
    BY PayloadType, ConstantsAssumption
  <1>4. CASE call[w].op # "append"
    <2>1. t = Payload(w)
      BY <1>2, <1>4 DEF NewText
    <2>2. SubSeq(t, Len(t) - PayloadLength + 1, Len(t)) = t
      BY <1>3, <2>1, SubSeqFull
    <2>3. QED
      BY <1>2, <1>3, <2>1, <2>2 DEF Abstract!Carries, Abstract!Payload, Payload
  <1>5. CASE call[w].op = "append" /\ call[w].dest = w
    <2> DEFINE b == call[w].seen.data
    <2>1. b \in Seq(Block) /\ t = b \o Payload(w)
      BY <1>2, <1>5 DEF NewText, CallInv, SnapshotType
    <2> HIDE DEF b
    <2>2. Len(t) = Len(b) + PayloadLength /\ Len(b) \in Nat
      <3>1. Len(b \o Payload(w)) = Len(b) + Len(Payload(w))
        BY <1>3, <2>1, ConcatProperties
      <3>2. QED
        BY <1>3, <2>1, <3>1, LenProperties
    <2>3. SubSeq(t, Len(b) + 1, Len(b) + PayloadLength)
            = SubSeq(Payload(w), 1, PayloadLength)
      BY <1>3, <2>1, SubSeqOfConcat2
    <2>4. SubSeq(Payload(w), 1, PayloadLength) = Payload(w)
      BY <1>3, SubSeqFull
    <2>5. Len(t) - PayloadLength + 1 = Len(b) + 1 /\ Len(t) >= PayloadLength
      BY <1>3, <2>2
    <2>6. QED
      BY <1>2, <2>2, <2>3, <2>4, <2>5 DEF Abstract!Carries, Abstract!Payload, Payload
  <1>6. QED
    BY <1>2, <1>4, <1>5

-----------------------------------------------------------------------------
(* FilesHold is an invariant.                                              *)

LEMMA InitFiles == Init => FilesHold
  BY ConstantsAssumption DEF Init, Idle, FilesHold, FileHolds

(* A call that does not move keeps what it knows of its file, when nobody  *)
(* touches that file.                                                      *)
Uses(v) == \/ call[v].pc \in {"write", "sync"}
           \/ call[v].own # NoInode /\ call[v].pc \in {"inspect", "read", "replace"}

LEMMA OthersKeep ==
  ASSUME FilesHold, NEW v \in Writers, call'[v] = call[v],
         Uses(v) => inodes'[call[v].own] = inodes[call[v].own]
  PROVE  FileHolds(v)'
  <1>1. FileHolds(v) /\ NewText(v)' = NewText(v)
    BY DEF FilesHold, NewText
  <1>2. QED
    BY <1>1 DEF FileHolds, Uses

(* Every file in use is in use by one call, and is not the target another  *)
(* program could edit.                                                     *)
LEMMA FilesApart ==
  ASSUME IInv, FilesHold, NEW v \in Writers, Uses(v)
  PROVE  /\ call[v].own \in Inodes
         /\ ~Free(call[v].own)
         /\ \A w \in Writers : w # v /\ Uses(w) => call[w].own # call[v].own
         /\ entry[Target] = call[v].own => ~inodes[call[v].own].whole
  <1> DEFINE Filling(w) == call[w].pc \in {"write", "sync"}
  <1>1. \A w \in Writers : w \in Names /\ Target \in Names /\ w # Target
    BY ConstantsAssumption DEF Names
  <1>2. \A w \in Writers : Uses(w) /\ ~Filling(w) =>
          entry[w] = call[w].own /\ inodes[call[w].own].whole /\ call[w].own # NoInode
    BY DEF IInv, CallInv, Uses
  <1>3. \A w \in Writers : Filling(w) =>
          ~inodes[call[w].own].whole /\ inodes[call[w].own].by = w
    BY DEF FilesHold, FileHolds
  <1>4. call[v].own \in Inodes
    BY DEF IInv, TypeOK, CallType, CallInv, Uses
  <1>5. ~Free(call[v].own)
    BY <1>1, <1>2 DEF Free, Uses
  <1>6. \A w \in Writers : w # v /\ Uses(w) => call[w].own # call[v].own
    BY <1>1, <1>2, <1>3 DEF IInv, EntriesDistinct
  <1>7. entry[Target] = call[v].own => ~inodes[call[v].own].whole
    BY <1>1, <1>2, <1>3, <1>4, ConstantsAssumption DEF IInv, EntriesDistinct
  <1>8. QED
    BY <1>4, <1>5, <1>6, <1>7

-----------------------------------------------------------------------------
(* Steps of a call that fill no file: they keep the call's own file, and   *)
(* end it with a refusal or leave its outcome as it was.                   *)
Settles(w) ==
  LET c == call[w]  d == call'[w] IN
  /\ \A v \in Writers : v # w => call'[v] = call[v]
  /\ inodes' = inodes /\ edits' = edits
  /\ d.own = c.own
  /\ d.pc \notin {"write", "sync"}
  /\ d.pc \in {"inspect", "read", "replace"} => c.pc \in {"inspect", "read"} \/ c.own = NoInode
  /\ \/ d.outcome = c.outcome /\ (d.dest = c.dest \/ c.own = NoInode)
     \/ c.outcome = "pending" /\ d.outcome = "refused" /\ d.dest = c.dest

LEMMA MovesOne ==
  ASSUME IInv, NEW w \in Writers, NEW c, Moves(w, c)
  PROVE  call'[w] = c /\ \A v \in Writers : v # w => call'[v] = call[v]
  BY DEF IInv, TypeOK, Moves

LEMMA OverSettles ==
  ASSUME IInv, NEW w \in Writers, NEW pc \in {"done", "leaked", "killed"}, NEW outcome,
         Over(w, pc, outcome), inodes' = inodes, edits' = edits,
         outcome = call[w].outcome \/ (call[w].outcome = "pending" /\ outcome = "refused")
  PROVE  Settles(w)
  <1> DEFINE c == [call[w] EXCEPT !.pc = pc, !.outcome = outcome, !.before = NoSnapshot,
                                  !.seen = NoSnapshot, !.checkedAt = 0]
  <1>1. call'[w] = c /\ \A v \in Writers : v # w => call'[v] = call[v]
    BY MovesOne DEF Over
  <1>2. call[w] \in CallType
    BY DEF IInv, TypeOK
  <1>3. c.own = call[w].own /\ c.dest = call[w].dest /\ c.pc = pc /\ c.outcome = outcome
    BY <1>2 DEF CallType
  <1> HIDE DEF c
  <1>4. QED
    BY <1>1, <1>3 DEF Settles

LEMMA RefusesSettles ==
  ASSUME IInv, NEW w \in Writers, call[w].outcome = "pending", Refuses(w),
         inodes' = inodes, edits' = edits
  PROVE  Settles(w)
  <1>1. CASE call[w].own = NoInode
    BY <1>1, OverSettles DEF Refuses
  <1>2. CASE call[w].own # NoInode
    <2> DEFINE c == [call[w] EXCEPT !.outcome = "refused", !.pc = "unlink"]
    <2>1. call'[w] = c /\ \A v \in Writers : v # w => call'[v] = call[v]
      BY <1>2, MovesOne DEF Refuses
    <2>2. call[w] \in CallType
      BY DEF IInv, TypeOK
    <2>3. c.own = call[w].own /\ c.dest = call[w].dest /\ c.pc = "unlink" /\ c.outcome = "refused"
      BY <2>2 DEF CallType
    <2> HIDE DEF c
    <2>4. QED
      BY <2>1, <2>3 DEF Settles
  <1>3. QED
    BY <1>1, <1>2

(* The two ways an inspection succeeds.                                    *)
LEMMA InspectionSettles ==
  ASSUME IInv, NEW w \in Writers, InspectIdentity(w) \/ InspectBegin(w) \/ InspectEnd(w)
  PROVE  Settles(w)
  <1> DEFINE i == entry[Target]
  <1>1. call[w] \in CallType /\ CallInv(w) /\ call[w].pc \in {"inspect", "read"}
        /\ call[w].outcome = "pending" /\ inodes' = inodes /\ edits' = edits
    BY DEF IInv, TypeOK, CallInv, InspectIdentity, InspectBegin, InspectEnd,
           FileSystemUnchanged
  <1>2. ASSUME NEW c, Moves(w, c), c.own = call[w].own, c.dest = call[w].dest,
               c.outcome = call[w].outcome, c.pc \notin {"write", "sync"}
        PROVE  Settles(w)
    BY <1>1, <1>2, MovesOne DEF Settles
  <1>3. CASE Refuses(w)
    BY <1>1, <1>3, RefusesSettles
  <1>4. CASE InspectIdentity(w) /\ ~Refuses(w)
    <2> DEFINE c == [call[w] EXCEPT !.pc = "open", !.before = Stat(i)]
               d == [call[w] EXCEPT !.pc = "replace", !.checkedAt = clock]
    <2>1. Moves(w, c) \/ Moves(w, d)
      BY <1>4 DEF InspectIdentity
    <2>2. /\ c.own = call[w].own /\ c.dest = call[w].dest /\ c.outcome = call[w].outcome
          /\ d.own = call[w].own /\ d.dest = call[w].dest /\ d.outcome = call[w].outcome
          /\ c.pc = "open" /\ d.pc = "replace"
      BY <1>1 DEF CallType
    <2> HIDE DEF c, d
    <2>3. QED
      BY <1>2, <2>1, <2>2
  <1>5. CASE InspectBegin(w)
    <2> DEFINE c == [call[w] EXCEPT !.pc = "read", !.before = Stat(i)]
    <2>1. Moves(w, c)
      BY <1>5 DEF InspectBegin
    <2>2. c.own = call[w].own /\ c.dest = call[w].dest /\ c.outcome = call[w].outcome
          /\ c.pc = "read"
      BY <1>1 DEF CallType
    <2> HIDE DEF c
    <2>3. QED
      BY <1>2, <2>1, <2>2
  <1>6. CASE InspectEnd(w) /\ ~Refuses(w)
    <2> DEFINE s == Snapshot(i)
               b == [call[w] EXCEPT !.before = NoSnapshot]
               c == [b EXCEPT !.seen = s, !.checkedAt = clock,
                              !.pc = IF b.op = "append" THEN "open" ELSE "inspect"]
               d == [b EXCEPT !.checkedAt = clock,
                              !.pc = IF b.own = NoInode THEN "open" ELSE "replace"]
    <2>1. Moves(w, c) \/ Moves(w, d)
      BY <1>6 DEF InspectEnd, Inspected
    <2>2. /\ c.own = call[w].own /\ c.dest = call[w].dest /\ c.outcome = call[w].outcome
          /\ d.own = call[w].own /\ d.dest = call[w].dest /\ d.outcome = call[w].outcome
          /\ c.pc \in {"open", "inspect"} /\ d.pc \in {"open", "replace"}
      BY <1>1 DEF CallType
    <2> HIDE DEF c, d
    <2>3. QED
      BY <1>2, <2>1, <2>2
  <1>7. QED
    BY <1>3, <1>4, <1>5, <1>6

(* The steps of a call that fill no file.                                  *)
Settling(w) ==
  \/ InspectMissing(w) \/ InspectWrongKind(w) \/ InspectIdentity(w)
  \/ InspectBegin(w) \/ InspectEnd(w) \/ OpenExists(w) \/ OpenFails(w)
  \/ WriteFails(w) \/ CleanupInspect(w) \/ CleanupUnlink(w) \/ ReplaceFails(w)
  \/ UnlinkTemporary(w) \/ UnlinkFails(w) \/ Kill(w)

LEMMA SettlingSettles ==
  ASSUME IInv, NEW w \in Writers, Settling(w)
  PROVE  Settles(w)
  <1>1. /\ call[w] \in CallType /\ CallInv(w) /\ inodes' = inodes /\ edits' = edits
        /\ call[w].outcome \in {"pending", "ok", "refused"}
    BY DEF IInv, TypeOK, CallType, Settling, InspectMissing, InspectWrongKind, InspectIdentity,
           InspectBegin, InspectEnd, OpenExists, OpenFails, WriteFails, CleanupInspect,
           CleanupUnlink, ReplaceFails, UnlinkTemporary, UnlinkFails, Kill, FileSystemUnchanged
  <1>2. CASE InspectMissing(w)
    <2> DEFINE c == [call[w] EXCEPT !.pc = "open", !.dest = Target]
    <2>1. Refuses(w) \/ (Moves(w, c) /\ call[w].own = NoInode)
      BY <1>2 DEF InspectMissing
    <2>2. c.own = call[w].own /\ c.outcome = call[w].outcome /\ c.pc = "open"
      BY <1>1 DEF CallType
    <2>3. call[w].outcome = "pending"
      BY <1>1, <1>2 DEF InspectMissing, CallInv
    <2> HIDE DEF c
    <2>4. QED
      BY <1>1, <2>1, <2>2, <2>3, RefusesSettles, MovesOne DEF Settles
  <1>3. CASE InspectWrongKind(w) \/ OpenExists(w) \/ OpenFails(w) \/ ReplaceFails(w)
    <2>1. Refuses(w) /\ call[w].outcome = "pending"
      BY <1>1, <1>3 DEF InspectWrongKind, OpenExists, OpenFails, ReplaceFails, CallInv
    <2>2. QED
      BY <1>1, <2>1, RefusesSettles
  <1>4. CASE InspectIdentity(w) \/ InspectBegin(w) \/ InspectEnd(w)
    BY <1>4, InspectionSettles
  <1>5. CASE WriteFails(w) \/ CleanupInspect(w)
    <2> DEFINE c(pc) == [call[w] EXCEPT !.pc = pc]
    <2>1. \/ \E pc \in {"cleanup", "unlinkOwn"} : Moves(w, c(pc))
          \/ Over(w, "done", "refused") /\ call[w].pc = "cleanup"
      BY <1>5 DEF WriteFails, CleanupInspect
    <2>2. \A pc : /\ c(pc).own = call[w].own /\ c(pc).dest = call[w].dest
                  /\ c(pc).outcome = call[w].outcome /\ c(pc).pc = pc
      BY <1>1 DEF CallType
    <2>3. CASE Over(w, "done", "refused") /\ call[w].pc = "cleanup"
      BY <1>1, <2>3, OverSettles DEF CallInv
    <2> HIDE DEF c
    <2>4. CASE \E pc \in {"cleanup", "unlinkOwn"} : Moves(w, c(pc))
      BY <1>1, <2>2, <2>4, MovesOne DEF Settles
    <2>5. QED
      BY <2>1, <2>3, <2>4
  <1>6. CASE CleanupUnlink(w)
    BY <1>1, <1>6, OverSettles DEF CleanupUnlink, CallInv
  <1>7. CASE UnlinkTemporary(w) \/ UnlinkFails(w) \/ Kill(w)
    <2> DEFINE o == IF UnlinkFails(w)
                    THEN IF call[w].outcome = "ok" THEN "ok" ELSE "refused"
                    ELSE call[w].outcome
    <2>1. \E pc \in {"done", "leaked", "killed"} : Over(w, pc, o)
      BY <1>7 DEF UnlinkTemporary, UnlinkFails, Kill, Over
    <2>2. o = call[w].outcome \/ (call[w].outcome = "pending" /\ o = "refused")
      BY <1>1
    <2> HIDE DEF o
    <2>3. QED
      BY <1>1, <2>1, <2>2, OverSettles
  <1>8. QED
    BY <1>2, <1>3, <1>4, <1>5, <1>6, <1>7 DEF Settling

-----------------------------------------------------------------------------
(* Every step keeps what the calls know of their files.                    *)

LEMMA SettlesKeeps ==
  ASSUME IInv, FilesHold, NEW w \in Writers, Settles(w)
  PROVE  FilesHold'
  <1>1. ASSUME NEW v \in Writers PROVE FileHolds(v)'
    <2>1. CASE v # w
      BY <2>1, OthersKeep DEF Settles
    <2>2. CASE v = w
      BY <2>2 DEF FilesHold, FileHolds, Settles
    <2>3. QED
      BY <2>1, <2>2
  <1>2. QED
    BY <1>1 DEF FilesHold

(* A step that changes one file, which is free, its own, or the target.    *)
LEMMA OneFileKeeps ==
  ASSUME IInv, FilesHold, NEW i \in Inodes, \A j \in Inodes : j # i => inodes'[j] = inodes[j],
         NEW v \in Writers, call'[v] = call[v],
         \/ Free(i)
         \/ \E w \in Writers : w # v /\ Uses(w) /\ call[w].own = i
         \/ entry[Target] = i /\ inodes[i].whole
  PROVE  FileHolds(v)'
  <1>1. Uses(v) => call[v].own \in Inodes /\ call[v].own # i
    BY FilesApart
  <1>2. QED
    BY <1>1, OthersKeep

LEMMA OpenExclusiveKeeps ==
  ASSUME IInv, FilesHold, NEW w \in Writers, OpenExclusive(w)
  PROVE  FilesHold'
  <1>1. PICK i \in Inodes :
          /\ Free(i)
          /\ inodes' = [inodes EXCEPT ![i] = [kind |-> "file", data |-> << >>,
                           stamp |-> clock + 1, whole |-> FALSE, by |-> w]]
          /\ Moves(w, [call[w] EXCEPT !.pc = "write", !.own = i])
    BY DEF OpenExclusive
  <1> DEFINE c == [call[w] EXCEPT !.pc = "write", !.own = i]
             f == [kind |-> "file", data |-> << >>, stamp |-> clock + 1,
                   whole |-> FALSE, by |-> w]
  <1>2. call[w] \in CallType /\ CallInv(w) /\ call[w].pc = "open"
        /\ inodes \in [Inodes -> [kind : Kinds, data : Seq(Block), stamp : Nat,
                                  whole : BOOLEAN, by : Names]]
    BY DEF IInv, TypeOK, OpenExclusive
  <1>3. call'[w] = c /\ \A v \in Writers : v # w => call'[v] = call[v]
    BY <1>1, MovesOne
  <1>4. c.pc = "write" /\ c.own = i /\ c.op = call[w].op /\ c.seen = call[w].seen
    BY <1>2 DEF CallType
  <1>5. f.kind = "file" /\ f.data = << >> /\ ~f.whole /\ f.by = w
    OBVIOUS
  <1>6. inodes'[i] = f /\ \A j \in Inodes : j # i => inodes'[j] = inodes[j]
    BY <1>1, <1>2
  <1> HIDE DEF c, f
  <1>7. NewText(w)' = NewText(w) /\ Len(NewText(w)) \in Nat
    <2>1. NewText(w)' = NewText(w)
      BY <1>3, <1>4 DEF NewText
    <2>2. NewText(w) \in Seq(Block)
      BY <1>2, NewTextType
    <2>3. QED
      BY <2>1, <2>2, LenProperties
  <1>8. FileHolds(w)'
    BY <1>3, <1>4, <1>5, <1>6, <1>7 DEF FileHolds
  <1>9. ASSUME NEW v \in Writers, v # w PROVE FileHolds(v)'
    BY <1>1, <1>3, <1>6, <1>9, OneFileKeeps
  <1>10. QED
    BY <1>8, <1>9 DEF FilesHold

LEMMA WriteBlockKeeps ==
  ASSUME IInv, FilesHold, NEW w \in Writers, WriteBlock(w)
  PROVE  FilesHold'
  <1> DEFINE i == call[w].own
             d == inodes[i].data
             text == NewText(w)
             e == Append(d, text[Len(d) + 1])
             f == [inodes[i] EXCEPT !.data = e, !.stamp = clock + 1]
             c == [call[w] EXCEPT !.pc = IF Len(d) + 1 = Len(text) THEN "sync" ELSE "write"]
  <1>1. /\ call[w] \in CallType /\ CallInv(w) /\ call[w].pc = "write" /\ i \in Inodes
        /\ inodes \in [Inodes -> [kind : Kinds, data : Seq(Block), stamp : Nat,
                                  whole : BOOLEAN, by : Names]]
        /\ Len(d) < Len(text) /\ Moves(w, c) /\ FileHolds(w)
        /\ inodes' = [inodes EXCEPT ![i].data = e, ![i].stamp = clock + 1]
    BY DEF IInv, TypeOK, CallInv, FilesHold, WriteBlock
  <1>2. d \in Seq(Block) /\ text \in Seq(Block)
    BY <1>1, NewTextType
  <1>3. Len(d) \in Nat /\ Len(text) \in Nat /\ text[Len(d) + 1] \in Block
    BY <1>1, <1>2, LenProperties, ElementOfSeq
  <1>4. Len(e) = Len(d) + 1 /\ e[Len(d) + 1] = text[Len(d) + 1]
        /\ \A k \in 1 .. Len(d) : e[k] = d[k]
    <2> DEFINE b == text[Len(d) + 1]
    <2>1. b \in Block
      BY <1>3
    <2> HIDE DEF d, b
    <2>2. /\ Len(Append(d, b)) = Len(d) + 1 /\ Append(d, b)[Len(d) + 1] = b
          /\ \A k \in 1 .. Len(d) : Append(d, b)[k] = d[k]
      BY <1>2, <2>1, AppendProperties
    <2>3. QED
      BY <2>2 DEF b
  <1>5. inodes'[i] = f /\ \A j \in Inodes : j # i => inodes'[j] = inodes[j]
    BY <1>1
  <1>6. f.kind = inodes[i].kind /\ f.whole = inodes[i].whole /\ f.by = inodes[i].by
        /\ f.data = e
    BY <1>1
  <1>7. call'[w] = c /\ \A v \in Writers : v # w => call'[v] = call[v]
    BY <1>1, MovesOne
  <1>8. c.own = i /\ c.op = call[w].op /\ c.seen = call[w].seen /\ c.pc \in {"write", "sync"}
    BY <1>1 DEF CallType
  <1>9. text' = text
    BY <1>7, <1>8 DEF NewText
  <1>10. /\ inodes[i].kind = "file" /\ ~inodes[i].whole /\ inodes[i].by = w
         /\ \A k \in 1 .. Len(d) : d[k] = text[k]
    BY <1>1 DEF FileHolds
  <1> HIDE DEF c, f, e, text, d
  <1>11. Len(e) <= Len(text) /\ \A k \in 1 .. Len(e) : e[k] = text[k]
    <2>1. Len(d) < Len(text) /\ \A k \in 1 .. Len(d) : d[k] = text[k]
      BY <1>1, <1>10 DEF d, text
    <2>2. \A k \in 1 .. Len(e) : k \in 1 .. Len(d) \/ k = Len(d) + 1
      BY <1>3, <1>4
    <2>3. QED
      BY <1>3, <1>4, <2>1, <2>2
  <1>12. FileHolds(w)'
    <2>1. inodes'[call'[w].own] = f /\ call'[w].pc \in {"write", "sync"}
      BY <1>5, <1>7, <1>8
    <2>2. NewText(w)' = text
      BY <1>9 DEF text
    <2>3. QED
      BY <1>6, <1>10, <1>11, <2>1, <2>2 DEF FileHolds
  <1>13. ASSUME NEW v \in Writers, v # w PROVE FileHolds(v)'
    BY <1>1, <1>5, <1>7, <1>13, OneFileKeeps DEF Uses
  <1>14. QED
    BY <1>12, <1>13 DEF FilesHold

(* What Sync closes is the whole new text.                                 *)
LEMMA SyncedText ==
  ASSUME IInv, FilesHold, NEW w \in Writers, Sync(w)
  PROVE  LET t == inodes[call[w].own].data IN
         /\ t = NewText(w)
         /\ call[w].dest = w \/ call[w].op # "append" => Abstract!Carries(t, w)
  <1> DEFINE t == inodes[call[w].own].data
  <1>1. CallInv(w) /\ call[w].pc = "sync" /\ FileHolds(w) /\ t \in Seq(Block)
        /\ Len(t) = Len(NewText(w))
    BY DEF IInv, TypeOK, CallInv, FilesHold, Sync
  <1>2. \A k \in 1 .. Len(t) : t[k] = NewText(w)[k]
    BY <1>1 DEF FileHolds
  <1> HIDE DEF t
  <1>3. t = NewText(w) /\ (call[w].dest = w \/ call[w].op # "append" => Abstract!Carries(t, w))
    BY <1>1, <1>2, WholeText
  <1>4. QED
    BY <1>3 DEF t

(* What Sync does to the call and to its file.                             *)
LEMMA SyncShape ==
  ASSUME IInv, NEW w \in Writers, Sync(w)
  PROVE  LET i == call[w].own IN
         /\ i \in Inodes
         /\ inodes'[i].whole /\ inodes'[i].kind = inodes[i].kind
         /\ inodes'[i].data = inodes[i].data /\ inodes'[i].by = inodes[i].by
         /\ \A j \in Inodes : j # i => inodes'[j] = inodes[j]
         /\ \A v \in Writers : v # w => call'[v] = call[v]
         /\ call'[w].own = i /\ call'[w].dest = call[w].dest
         /\ call[w].dest = Target => call'[w].pc = "done" /\ call'[w].outcome = "ok"
         /\ call[w].dest # Target => call'[w].pc = "inspect"
                                     /\ call'[w].outcome = call[w].outcome
  <1> DEFINE i == call[w].own
             f == [inodes[i] EXCEPT !.whole = TRUE]
             c == [call[w] EXCEPT !.pc = "done", !.outcome = "ok", !.before = NoSnapshot,
                                  !.seen = NoSnapshot, !.checkedAt = 0]
             d == [call[w] EXCEPT !.pc = "inspect"]
  <1>1. /\ call[w] \in CallType /\ i \in Inodes
        /\ inodes \in [Inodes -> [kind : Kinds, data : Seq(Block), stamp : Nat,
                                  whole : BOOLEAN, by : Names]]
        /\ inodes' = [inodes EXCEPT ![i].whole = TRUE]
    BY DEF IInv, TypeOK, CallInv, Sync
  <1>2. inodes'[i] = f /\ \A j \in Inodes : j # i => inodes'[j] = inodes[j]
    BY <1>1
  <1>3. f.whole /\ f.kind = inodes[i].kind /\ f.data = inodes[i].data /\ f.by = inodes[i].by
    BY <1>1
  <1>4. /\ call[w].dest = Target => Moves(w, c)
        /\ call[w].dest # Target => Moves(w, d)
    BY DEF Sync, Over
  <1>5. /\ c.own = i /\ c.dest = call[w].dest /\ c.pc = "done" /\ c.outcome = "ok"
        /\ d.own = i /\ d.dest = call[w].dest /\ d.pc = "inspect" /\ d.outcome = call[w].outcome
    BY <1>1 DEF CallType
  <1> HIDE DEF c, d, f
  <1>6. call'[w] = (IF call[w].dest = Target THEN c ELSE d)
        /\ \A v \in Writers : v # w => call'[v] = call[v]
    BY <1>4, MovesOne
  <1>7. QED
    BY <1>1, <1>2, <1>3, <1>5, <1>6

LEMMA SyncKeeps ==
  ASSUME IInv, FilesHold, NEW w \in Writers, Sync(w)
  PROVE  FilesHold'
  <1>1. call[w].pc = "sync" /\ FileHolds(w) /\ call[w].dest \in {w, Target}
    BY DEF IInv, CallInv, FilesHold, Sync
  <1>2. FileHolds(w)'
    <2>1. CASE call[w].dest = Target
      BY <2>1, SyncShape DEF FileHolds
    <2>2. CASE call[w].dest # Target
      <3>1. Abstract!Carries(inodes[call[w].own].data, w)
        BY <1>1, <2>2, SyncedText
      <3>2. inodes[call[w].own].kind = "file"
        BY <1>1 DEF FileHolds
      <3>3. QED
        BY <2>2, <3>1, <3>2, SyncShape DEF FileHolds
    <2>3. QED
      BY <2>1, <2>2
  <1>3. ASSUME NEW v \in Writers, v # w PROVE FileHolds(v)'
    <2>1. call[w].own \in Inodes /\ Uses(w) /\ call'[v] = call[v]
          /\ \A j \in Inodes : j # call[w].own => inodes'[j] = inodes[j]
      BY <1>1, <1>3, SyncShape DEF Uses
    <2>2. QED
      BY <1>3, <2>1, OneFileKeeps
  <1>4. QED
    BY <1>2, <1>3 DEF FilesHold

LEMMA ReplaceShape ==
  ASSUME IInv, NEW w \in Writers, Replace(w)
  PROVE  LET i == entry[w] IN
         /\ i \in Inodes /\ i = call[w].own /\ call[w].dest = w /\ call[w].outcome = "pending"
         /\ inodes'[i].whole = inodes[i].whole /\ inodes'[i].kind = inodes[i].kind
         /\ inodes'[i].data = inodes[i].data
         /\ \A j \in Inodes : j # i => inodes'[j] = inodes[j]
         /\ \A v \in Writers : v # w => call'[v] = call[v]
         /\ call'[w].pc = "unlink" /\ call'[w].outcome = "ok"
         /\ entry'[Target] = i /\ edits' = edits
  <1> DEFINE i == entry[w]
             f == [inodes[i] EXCEPT !.stamp = clock + 1]
             c == [call[w] EXCEPT !.pc = "unlink", !.outcome = "ok"]
  <1>1. /\ call[w] \in CallType /\ i \in Inodes /\ w \in Names /\ Target \in Names /\ w # Target
        /\ inodes \in [Inodes -> [kind : Kinds, data : Seq(Block), stamp : Nat,
                                  whole : BOOLEAN, by : Names]]
        /\ inodes' = [inodes EXCEPT ![i].stamp = clock + 1]
        /\ i = call[w].own /\ call[w].dest = w /\ call[w].outcome = "pending"
    BY ConstantsAssumption DEF IInv, TypeOK, CallInv, TemporaryIsPrivate, Names, Replace
  <1>2. inodes'[i] = f /\ \A j \in Inodes : j # i => inodes'[j] = inodes[j]
    BY <1>1
  <1>3. f.whole = inodes[i].whole /\ f.kind = inodes[i].kind /\ f.data = inodes[i].data
    BY <1>1
  <1>4. call'[w] = c /\ \A v \in Writers : v # w => call'[v] = call[v]
    BY MovesOne DEF Replace
  <1>5. c.pc = "unlink" /\ c.outcome = "ok"
    BY <1>1 DEF CallType
  <1>6. entry'[Target] = i /\ edits' = edits
    BY <1>1 DEF Replace, IInv, TypeOK
  <1> HIDE DEF c, f
  <1>7. QED
    BY <1>1, <1>2, <1>3, <1>4, <1>5, <1>6

LEMMA ReplaceKeeps ==
  ASSUME IInv, FilesHold, NEW w \in Writers, Replace(w)
  PROVE  FilesHold'
  <1>1. FileHolds(w)'
    BY ReplaceShape DEF FileHolds
  <1>2. ASSUME NEW v \in Writers, v # w PROVE FileHolds(v)'
    <2>1. call[w].own \in Inodes /\ Uses(w) /\ call'[v] = call[v]
          /\ \A j \in Inodes : j # call[w].own => inodes'[j] = inodes[j]
      <3>1. call[w].own \in Inodes /\ call'[v] = call[v]
            /\ \A j \in Inodes : j # call[w].own => inodes'[j] = inodes[j]
        BY <1>2, ReplaceShape
      <3>2. call[w].pc = "replace" /\ call[w].own # NoInode
        BY <3>1, ConstantsAssumption DEF Replace
      <3>3. QED
        BY <3>1, <3>2 DEF Uses
    <2>2. QED
      BY <1>2, <2>1, OneFileKeeps
  <1>3. QED
    BY <1>1, <1>2 DEF FilesHold

LEMMA EditorKeeps ==
  ASSUME IInv, FilesHold, EditorStep
  PROVE  FilesHold'
  <1>1. call' = call /\ inodes \in [Inodes -> [kind : Kinds, data : Seq(Block), stamp : Nat,
                                               whole : BOOLEAN, by : Names]]
        /\ entry[Target] \in Inodes \cup {NoInode}
    BY DEF EditorStep, EditInPlace, SaveByRename, Delete, AddHardLink, IInv, TypeOK, Names
  <1>2. \/ inodes' = inodes
        \/ \E i \in Inodes : /\ \A j \in Inodes : j # i => inodes'[j] = inodes[j]
                             /\ Free(i) \/ (entry[Target] = i /\ inodes[i].whole)
    <2>1. CASE EditInPlace
      BY <1>1, <2>1 DEF EditInPlace
    <2>2. CASE SaveByRename
      BY <1>1, <2>2 DEF SaveByRename
    <2>3. CASE Delete
      BY <2>3 DEF Delete
    <2>4. CASE AddHardLink
      BY <1>1, <2>4 DEF AddHardLink
    <2>5. QED
      BY <2>1, <2>2, <2>3, <2>4 DEF EditorStep
  <1>3. ASSUME NEW v \in Writers PROVE FileHolds(v)'
    BY <1>1, <1>2, OthersKeep, OneFileKeeps
  <1>4. QED
    BY <1>3 DEF FilesHold

(* The files of the calls are theirs: an invariant of the specification.   *)
LEMMA NextKeeps == IInv /\ FilesHold /\ [Next]_vars => FilesHold'
  <1> SUFFICES ASSUME IInv, FilesHold, [Next]_vars PROVE FilesHold'
    OBVIOUS
  <1>1. CASE UNCHANGED vars
    BY <1>1 DEF vars, FilesHold, FileHolds, NewText
  <1>2. ASSUME NEW w \in Writers, WriterStep(w) PROVE FilesHold'
    <2>1. CASE Settling(w)
      BY <2>1, SettlingSettles, SettlesKeeps
    <2>2. CASE OpenExclusive(w) \/ WriteBlock(w) \/ Sync(w) \/ Replace(w)
      BY <2>2, OpenExclusiveKeeps, WriteBlockKeeps, SyncKeeps, ReplaceKeeps
    <2>3. QED
      BY <1>2, <2>1, <2>2 DEF WriterStep, Settling
  <1>3. QED
    BY <1>1, <1>2, EditorKeeps DEF Next

THEOREM FilesInvariant == Spec => []FilesHold
  BY InductiveInvariant, InitFiles, NextKeeps, PTL DEF Spec

-----------------------------------------------------------------------------
(* Each step is a step of the promised file, or none.                      *)

AbsStep == [Abstract!Next]_(Abstract!vars)

LEMMA InitMaps == Init => Abstract!Init
  <1> SUFFICES ASSUME Init PROVE Abstract!Init
    OBVIOUS
  <1>1. AbsFile = Abstract!Absent
        \/ (AbsFile.state = "whole" /\ \A w \in Writers : ~Abstract!Carries(AbsFile.text, w))
    <2>1. CASE entry[Target] = NoInode
      BY <2>1 DEF AbsFile, Abstract!Absent
    <2>2. CASE entry[Target] # NoInode
      <3>1. entry[Target] \in Inodes
        BY <2>2 DEF Init, Names
      <3>2. AbsFile = [state |-> "whole", text |-> <<<<"old", 1>>>>]
        BY <2>2, <3>1 DEF AbsFile, Init
      <3>3. QED
        BY <3>2, ForeignText
    <2>3. QED
      BY <2>1, <2>2
  <1>2. AbsStatus = [w \in Writers |-> "pending"]
    BY DEF AbsStatus, Init, Idle
  <1>3. QED
    BY <1>1, <1>2 DEF Init, Abstract!Init

(* A step of one call changes the status of that call alone.               *)
LEMMA StatusStep ==
  ASSUME NEW w \in Writers, \A v \in Writers : v # w => call'[v] = call[v],
         NEW s, s = IF call'[w].outcome # "pending" THEN call'[w].outcome
                    ELSE IF call'[w].dest = Target /\ call'[w].own # NoInode THEN "creating"
                    ELSE "pending"
  PROVE  AbsStatus' = [AbsStatus EXCEPT ![w] = s] /\ (s = AbsStatus[w] => AbsStatus' = AbsStatus)
  BY DEF AbsStatus

LEMMA SettlingMaps ==
  ASSUME IInv, NEW w \in Writers, Settling(w)
  PROVE  AbsStep
  <1>1. Settles(w) /\ CallInv(w) /\ call[w].outcome \in {"pending", "ok", "refused"}
    BY SettlingSettles DEF IInv, TypeOK, CallType
  <1> DEFINE s == IF call'[w].outcome # "pending" THEN call'[w].outcome
                  ELSE IF call'[w].dest = Target /\ call'[w].own # NoInode THEN "creating"
                  ELSE "pending"
  <1>2. AbsStatus' = [AbsStatus EXCEPT ![w] = s] /\ (s = AbsStatus[w] => AbsStatus' = AbsStatus)
    <2>1. \A v \in Writers : v # w => call'[v] = call[v]
      BY <1>1 DEF Settles
    <2> HIDE DEF s
    <2>2. QED
      BY <2>1, StatusStep DEF s
  <1>3. AbsStatus[w] = IF call[w].outcome # "pending" THEN call[w].outcome
                       ELSE IF call[w].dest = Target /\ call[w].own # NoInode THEN "creating"
                       ELSE "pending"
    BY DEF AbsStatus
  <1>4. \/ s = AbsStatus[w]
        \/ s = "refused" /\ AbsStatus[w] \in {"pending", "creating"}
    BY <1>1, <1>3 DEF Settles
  <1> HIDE DEF s
  <1>5. CASE CleanupUnlink(w)
    <2>1. call[w].own \in Inodes /\ call[w].outcome = "pending" /\ call[w].dest \in {w, Target}
          /\ call[w].own # NoInode /\ w # Target /\ w \in Names /\ Target \in Names
          /\ entry \in [Names -> Inodes \cup {NoInode}]
      BY <1>1, <1>5, ConstantsAssumption DEF CallInv, CleanupUnlink, Names, IInv, TypeOK
    <2>2. call'[w].outcome = "refused"
      <3> DEFINE c == [call[w] EXCEPT !.pc = "done", !.outcome = "refused",
                        !.before = NoSnapshot, !.seen = NoSnapshot, !.checkedAt = 0]
      <3>1. call'[w] = c
        BY <1>5, MovesOne DEF CleanupUnlink, Over
      <3>2. c.outcome = "refused"
        BY DEF IInv, TypeOK, CallType
      <3> HIDE DEF c
      <3>3. QED
        BY <3>1, <3>2
    <2>3. s = "refused"
      BY <2>2 DEF s
    <2>4. CASE call[w].dest = Target
      <3>1. entry'[Target] = NoInode /\ AbsStatus[w] = "creating"
        BY <1>3, <1>5, <2>1, <2>4 DEF CleanupUnlink
      <3>2. AbsFile' = Abstract!Absent
        BY <3>1 DEF AbsFile, Abstract!Absent
      <3>3. QED
        BY <1>1, <1>2, <2>3, <3>1, <3>2
           DEF AbsStep, Abstract!Next, Abstract!Abandon, Abstract!Ends, Settles
    <2>5. CASE call[w].dest = w
      <3>1. entry'[Target] = entry[Target] /\ AbsStatus[w] = "pending"
        BY <1>3, <1>5, <2>1, <2>5 DEF CleanupUnlink
      <3>2. AbsFile' = AbsFile
        BY <1>1, <3>1 DEF AbsFile, Settles
      <3>3. QED
        BY <1>1, <1>2, <2>3, <3>1, <3>2
           DEF AbsStep, Abstract!Next, Abstract!Refuse, Abstract!Ends, Settles
    <2>6. QED
      BY <2>1, <2>4, <2>5
  <1>6. CASE ~CleanupUnlink(w)
    <2>1. entry'[Target] = entry[Target]
      BY <1>6, ConstantsAssumption
         DEF Settling, InspectMissing, InspectWrongKind, InspectIdentity, InspectBegin, InspectEnd,
             OpenExists, OpenFails, WriteFails, CleanupInspect, ReplaceFails, UnlinkTemporary,
             UnlinkFails, Kill, FileSystemUnchanged, IInv, TypeOK, Names
    <2>2. AbsFile' = AbsFile /\ edits' = edits
      BY <1>1, <2>1 DEF AbsFile, Settles
    <2>3. CASE s = AbsStatus[w]
      BY <1>2, <2>2, <2>3 DEF AbsStep, Abstract!vars
    <2>4. CASE s = "refused" /\ AbsStatus[w] \in {"pending", "creating"}
      BY <1>2, <2>2, <2>4
         DEF AbsStep, Abstract!Next, Abstract!Refuse, Abstract!Abandon, Abstract!Ends
    <2>5. QED
      BY <1>4, <2>3, <2>4
  <1>7. QED
    BY <1>5, <1>6

LEMMA OpenExclusiveMaps ==
  ASSUME IInv, NEW w \in Writers, OpenExclusive(w)
  PROVE  AbsStep
  <1>1. PICK i \in Inodes :
          /\ Free(i)
          /\ entry' = [entry EXCEPT ![call[w].dest] = i]
          /\ inodes' = [inodes EXCEPT ![i] = [kind |-> "file", data |-> << >>,
                           stamp |-> clock + 1, whole |-> FALSE, by |-> w]]
          /\ Moves(w, [call[w] EXCEPT !.pc = "write", !.own = i])
    BY DEF OpenExclusive
  <1> DEFINE c == [call[w] EXCEPT !.pc = "write", !.own = i]
             f == [kind |-> "file", data |-> << >>, stamp |-> clock + 1,
                   whole |-> FALSE, by |-> w]
             s == IF call[w].dest = Target THEN "creating" ELSE "pending"
  <1>2. /\ call[w] \in CallType /\ call[w].outcome = "pending" /\ call[w].own = NoInode
        /\ call[w].dest \in {w, Target} /\ w # Target /\ w \in Names /\ Target \in Names
        /\ entry \in [Names -> Inodes \cup {NoInode}] /\ entry[call[w].dest] = NoInode
        /\ inodes \in [Inodes -> [kind : Kinds, data : Seq(Block), stamp : Nat,
                                  whole : BOOLEAN, by : Names]]
        /\ i # NoInode /\ entry[Target] # i /\ edits' = edits
    <2>1. call[w].pc = "open" /\ entry[call[w].dest] = NoInode /\ edits' = edits
      BY DEF OpenExclusive
    <2>2. /\ call[w] \in CallType /\ CallInv(w) /\ entry \in [Names -> Inodes \cup {NoInode}]
          /\ inodes \in [Inodes -> [kind : Kinds, data : Seq(Block), stamp : Nat,
                                    whole : BOOLEAN, by : Names]]
      BY DEF IInv, TypeOK
    <2>3. w # Target /\ w \in Names /\ Target \in Names /\ i # NoInode
      BY ConstantsAssumption DEF Names
    <2>4. entry[Target] # i
      BY <1>1, <2>3 DEF Free
    <2>5. call[w].outcome = "pending" /\ call[w].own = NoInode /\ call[w].dest \in {w, Target}
      BY <2>1, <2>2 DEF CallInv
    <2>6. QED
      BY <2>1, <2>2, <2>3, <2>4, <2>5
  <1>3. call'[w] = c /\ \A v \in Writers : v # w => call'[v] = call[v]
    BY <1>1, MovesOne
  <1>4. c.outcome = "pending" /\ c.own = i /\ c.dest = call[w].dest
    BY <1>2 DEF CallType
  <1>5. ~f.whole /\ f.by = w
    OBVIOUS
  <1>6. inodes'[i] = f /\ \A j \in Inodes : j # i => inodes'[j] = inodes[j]
    BY <1>1, <1>2
  <1> HIDE DEF c, f
  <1>7. s = IF call'[w].outcome # "pending" THEN call'[w].outcome
            ELSE IF call'[w].dest = Target /\ call'[w].own # NoInode THEN "creating"
            ELSE "pending"
    BY <1>2, <1>3, <1>4
  <1>8. AbsStatus[w] = "pending"
    BY <1>2 DEF AbsStatus
  <1> HIDE DEF s
  <1>9. AbsStatus' = [AbsStatus EXCEPT ![w] = s] /\ (s = AbsStatus[w] => AbsStatus' = AbsStatus)
    BY <1>3, <1>7, StatusStep
  <1>10. CASE call[w].dest = Target
    <2>1. AbsFile = Abstract!Absent
      BY <1>2, <1>10 DEF AbsFile, Abstract!Absent
    <2>2. entry'[Target] = i
      BY <1>1, <1>2, <1>10
    <2>3. AbsFile' = Abstract!Partial(w)
      BY <1>2, <1>5, <1>6, <2>2 DEF AbsFile, Abstract!Partial
    <2>4. s = "creating"
      BY <1>10 DEF s
    <2>5. QED
      BY <1>2, <1>8, <1>9, <2>1, <2>3, <2>4
         DEF AbsStep, Abstract!Next, Abstract!Begin, Abstract!Ends
  <1>11. CASE call[w].dest = w
    <2>1. entry'[Target] = entry[Target] /\ s = "pending"
      BY <1>1, <1>2, <1>11 DEF s
    <2>2. AbsFile' = AbsFile
      BY <1>2, <1>6, <2>1 DEF AbsFile
    <2>3. QED
      BY <1>2, <1>8, <1>9, <2>1, <2>2 DEF AbsStep, Abstract!vars
  <1>12. QED
    BY <1>2, <1>10, <1>11

LEMMA WriteBlockMaps ==
  ASSUME IInv, FilesHold, NEW w \in Writers, WriteBlock(w)
  PROVE  AbsStep
  <1> DEFINE i == call[w].own
             e == Append(inodes[i].data, NewText(w)[Len(inodes[i].data) + 1])
             f == [inodes[i] EXCEPT !.data = e, !.stamp = clock + 1]
             pc == IF Len(inodes[i].data) + 1 = Len(NewText(w)) THEN "sync" ELSE "write"
             c == [call[w] EXCEPT !.pc = pc]
  <1>1. /\ call[w] \in CallType /\ i \in Inodes /\ ~inodes[i].whole
        /\ inodes \in [Inodes -> [kind : Kinds, data : Seq(Block), stamp : Nat,
                                  whole : BOOLEAN, by : Names]]
        /\ inodes' = [inodes EXCEPT ![i].data = e, ![i].stamp = clock + 1]
        /\ Moves(w, c) /\ entry' = entry /\ edits' = edits
    BY DEF IInv, TypeOK, CallInv, FilesHold, FileHolds, WriteBlock
  <1>2. inodes'[i] = f /\ \A j \in Inodes : j # i => inodes'[j] = inodes[j]
    BY <1>1
  <1>3. ~f.whole /\ f.by = inodes[i].by
    BY <1>1
  <1>4. call'[w] = c /\ \A v \in Writers : v # w => call'[v] = call[v]
    BY <1>1, MovesOne
  <1>5. c.outcome = call[w].outcome /\ c.own = i /\ c.dest = call[w].dest
    BY <1>1 DEF CallType
  <1> HIDE DEF c, e, f, pc
  <1>6. AbsStatus' = AbsStatus
    BY <1>4, <1>5 DEF AbsStatus
  <1>7. AbsFile' = AbsFile
    <2>1. CASE entry[Target] = i
      BY <1>1, <1>2, <1>3, <2>1 DEF AbsFile
    <2>2. CASE entry[Target] # i
      <3>1. entry[Target] # NoInode => inodes'[entry[Target]] = inodes[entry[Target]]
        BY <1>2, <2>2 DEF IInv, TypeOK, Names
      <3>2. QED
        BY <1>1, <3>1 DEF AbsFile
    <2>3. QED
      BY <2>1, <2>2
  <1>8. QED
    BY <1>1, <1>6, <1>7 DEF AbsStep, Abstract!vars

LEMMA SyncMaps ==
  ASSUME IInv, FilesHold, NEW w \in Writers, Sync(w)
  PROVE  AbsStep
  <1> DEFINE i == call[w].own
  <1>1. /\ i \in Inodes /\ i # NoInode /\ call[w].pc = "sync" /\ CallInv(w) /\ FileHolds(w)
        /\ call[w].outcome = "pending" /\ call[w].dest \in {w, Target} /\ w # Target
        /\ w \in Names /\ Target \in Names /\ edits' = edits /\ entry' = entry
        /\ entry[Target] \in Inodes \cup {NoInode}
    BY ConstantsAssumption DEF IInv, TypeOK, CallInv, FilesHold, Names, Sync
  <1>2. CASE call[w].dest = Target
    <2>1. AbsStatus[w] = "creating"
      BY <1>1, <1>2 DEF AbsStatus
    <2>2. AbsStatus' = [AbsStatus EXCEPT ![w] = "ok"]
      <3>1. call'[w].outcome = "ok" /\ \A v \in Writers : v # w => call'[v] = call[v]
        BY <1>2, SyncShape
      <3>2. QED
        BY <3>1 DEF AbsStatus
    <2>3. CASE entry[Target] = i
      <3>1. inodes[i].data = Payload(w) /\ inodes[i].kind = "file" /\ ~inodes[i].whole
            /\ inodes[i].by = w
        BY <1>1, <1>2, SyncedText DEF FileHolds, CallInv, NewText
      <3>2. AbsFile = Abstract!Partial(w)
        BY <1>1, <2>3, <3>1 DEF AbsFile, Abstract!Partial
      <3>3. AbsFile' = Abstract!Whole(Payload(w))
        BY <1>1, <2>3, <3>1, SyncShape DEF AbsFile, Abstract!Whole
      <3>4. Abstract!Payload(w) = Payload(w)
        BY DEF Abstract!Payload, Payload
      <3>5. QED
        BY <1>1, <2>1, <2>2, <3>2, <3>3, <3>4
           DEF AbsStep, Abstract!Next, Abstract!Finish, Abstract!Ends
    <2>4. CASE entry[Target] # i
      <3>1. AbsFile # Abstract!Partial(w)
        BY <1>1, <2>4 DEF AbsFile, Abstract!Partial, IInv, UnfinishedIsOwned
      <3>2. AbsFile' = AbsFile
        <4>1. entry[Target] # NoInode => inodes'[entry[Target]] = inodes[entry[Target]]
          BY <1>1, <2>4, SyncShape
        <4>2. QED
          BY <1>1, <4>1 DEF AbsFile
      <3>3. QED
        BY <1>1, <2>1, <2>2, <3>1, <3>2
           DEF AbsStep, Abstract!Next, Abstract!Finish, Abstract!Ends
    <2>5. QED
      BY <2>3, <2>4
  <1>3. CASE call[w].dest = w
    <2>1. AbsStatus' = AbsStatus
      BY <1>1, <1>3, SyncShape DEF AbsStatus
    <2>2. entry[Target] # i
      BY <1>1, <1>3 DEF CallInv, IInv, EntriesDistinct
    <2>3. AbsFile' = AbsFile
      <3>1. entry[Target] # NoInode => inodes'[entry[Target]] = inodes[entry[Target]]
        BY <1>1, <2>2, SyncShape
      <3>2. QED
        BY <1>1, <3>1 DEF AbsFile
    <2>4. QED
      BY <1>1, <2>1, <2>3 DEF AbsStep, Abstract!vars
  <1>4. QED
    BY <1>1, <1>2, <1>3

LEMMA ReplaceMaps ==
  ASSUME IInv, FilesHold, NEW w \in Writers, Replace(w)
  PROVE  AbsStep
  <1> DEFINE i == entry[w]
  <1>1. /\ i \in Inodes /\ i # NoInode /\ i = call[w].own /\ call[w].pc = "replace"
        /\ call[w].outcome = "pending" /\ call[w].dest = w /\ w # Target
        /\ entry'[Target] = i /\ edits' = edits
    BY ReplaceShape, ConstantsAssumption DEF Replace
  <1>2. inodes[i].whole /\ inodes[i].kind = "file" /\ Abstract!Carries(inodes[i].data, w)
    BY <1>1 DEF FilesHold, FileHolds, IInv, CallInv
  <1>3. inodes'[i].whole /\ inodes'[i].kind = "file" /\ inodes'[i].data = inodes[i].data
    BY <1>2, ReplaceShape
  <1>4. AbsFile' = [state |-> "whole", text |-> inodes[i].data]
    BY <1>1, <1>3 DEF AbsFile
  <1>5. AbsStatus[w] = "pending"
    BY <1>1 DEF AbsStatus
  <1>6. AbsStatus' = [AbsStatus EXCEPT ![w] = "ok"]
    <2>1. call'[w].outcome = "ok" /\ \A v \in Writers : v # w => call'[v] = call[v]
      BY ReplaceShape
    <2>2. QED
      BY <2>1 DEF AbsStatus
  <1>7. AbsFile'.state = "whole" /\ AbsFile'.text = inodes[i].data
    BY <1>4
  <1>8. QED
    BY <1>1, <1>2, <1>5, <1>6, <1>7 DEF AbsStep, Abstract!Next, Abstract!Commit, Abstract!Ends

LEMMA EditorMaps ==
  ASSUME IInv, EditorStep
  PROVE  AbsStep
  <1> DEFINE i == entry[Target]
             text == EditText
  <1>1. /\ i \in Inodes \cup {NoInode} /\ NoInode \notin Inodes /\ Target \in Names
        /\ entry \in [Names -> Inodes \cup {NoInode}]
        /\ inodes \in [Inodes -> [kind : Kinds, data : Seq(Block), stamp : Nat,
                                  whole : BOOLEAN, by : Names]]
        /\ edits' = edits + 1 /\ edits \in Nat /\ call' = call
    BY ConstantsAssumption DEF IInv, TypeOK, Names, EditorStep, EditInPlace, SaveByRename,
                               Delete, AddHardLink, Edit
  <1>2. AbsStatus' = AbsStatus
    BY <1>1 DEF AbsStatus
  <1>3. \A w \in Writers : ~Abstract!Carries(text, w)
    BY <1>1, ForeignText DEF EditText
  <1>4. SUFFICES /\ AbsFile'.state # "partial" \/ AbsFile' = AbsFile
                 /\ AbsFile' # AbsFile /\ AbsFile'.state = "whole" => AbsFile'.text = text
    BY <1>1, <1>2, <1>3 DEF AbsStep, Abstract!Next, Abstract!Edit
  <1>5. CASE EditInPlace
    <2> DEFINE f == [inodes[i] EXCEPT !.data = text, !.stamp = clock + 1, !.by = Target]
    <2>1. i \in Inodes /\ inodes[i].kind # "other" /\ inodes[i].whole /\ entry' = entry
      BY <1>1, <1>5 DEF EditInPlace
    <2>2. inodes'[i] = f
      BY <1>1, <1>5, <2>1 DEF EditInPlace
    <2>3. f.whole /\ f.kind # "other" /\ f.data = text
      BY <1>1, <2>1
    <2> HIDE DEF f, text
    <2>4. AbsFile' = [state |-> "whole", text |-> text]
      BY <1>1, <2>1, <2>2, <2>3 DEF AbsFile
    <2>5. QED
      BY <2>4
  <1>6. CASE SaveByRename
    <2>1. PICK j \in Inodes, kind \in {"file", "other"} :
            /\ entry' = [entry EXCEPT ![Target] = j]
            /\ inodes' = [inodes EXCEPT ![j] = [kind |-> kind, data |-> text,
                             stamp |-> clock + 1, whole |-> TRUE, by |-> Target]]
      BY <1>6 DEF SaveByRename
    <2>2. entry'[Target] = j /\ inodes'[j].whole /\ inodes'[j].kind = kind
          /\ inodes'[j].data = text
      BY <1>1, <2>1
    <2> HIDE DEF text
    <2>3. AbsFile' = IF kind = "other" THEN [state |-> "foreign"]
                                       ELSE [state |-> "whole", text |-> text]
      BY <1>1, <2>2 DEF AbsFile
    <2>4. QED
      BY <2>3
  <1>7. CASE Delete
    <2>1. entry'[Target] = NoInode
      BY <1>1, <1>7 DEF Delete
    <2>2. AbsFile' = [state |-> "absent"]
      BY <2>1 DEF AbsFile
    <2>3. QED
      BY <2>2
  <1>8. CASE AddHardLink
    <2> DEFINE f == [inodes[i] EXCEPT !.kind = "linked", !.stamp = clock + 1]
    <2>1. i \in Inodes /\ inodes[i].kind = "file" /\ inodes[i].whole /\ entry' = entry
      BY <1>1, <1>8 DEF AddHardLink
    <2>2. inodes'[i] = f
      BY <1>1, <1>8, <2>1 DEF AddHardLink
    <2>3. f.whole /\ f.kind = "linked" /\ f.data = inodes[i].data
      BY <1>1, <2>1
    <2> HIDE DEF f
    <2>4. AbsFile' = AbsFile
      BY <1>1, <2>1, <2>2, <2>3 DEF AbsFile
    <2>5. QED
      BY <2>4
  <1>9. QED
    BY <1>5, <1>6, <1>7, <1>8 DEF EditorStep

LEMMA NextMaps == IInv /\ FilesHold /\ [Next]_vars => AbsStep
  <1> SUFFICES ASSUME IInv, FilesHold, [Next]_vars PROVE AbsStep
    OBVIOUS
  <1>1. CASE UNCHANGED vars
    BY <1>1 DEF vars, AbsStep, Abstract!vars, AbsFile, AbsStatus
  <1>2. ASSUME NEW w \in Writers, WriterStep(w) PROVE AbsStep
    <2>1. CASE Settling(w)
      BY <2>1, SettlingMaps
    <2>2. CASE OpenExclusive(w) \/ WriteBlock(w) \/ Sync(w) \/ Replace(w)
      BY <2>2, OpenExclusiveMaps, WriteBlockMaps, SyncMaps, ReplaceMaps
    <2>3. QED
      BY <1>2, <2>1, <2>2 DEF WriterStep, Settling
  <1>3. QED
    BY <1>1, <1>2, EditorMaps DEF Next

(* The four writers, interleaved system call by system call with each      *)
(* other, an editor, I/O errors and kills, do nothing to the path that     *)
(* AtomicFile does not allow: an existing file is replaced by a complete   *)
(* text in one step, a call commits at most once and exactly when it       *)
(* reports success, and a refused call leaves the file as it was.          *)
THEOREM Implements == Spec => ImplementsAtomicFile
  <1>1. Spec => []IInv /\ []FilesHold
    BY InductiveInvariant, FilesInvariant, PTL
  <1>2. QED
    BY <1>1, InitMaps, NextMaps, PTL DEF Spec, ImplementsAtomicFile, Abstract!Spec, AbsStep
=============================================================================
