-------------------------- MODULE GraphStoreProofs --------------------------
(***************************************************************************)
(* The safety theorems of GraphStore, for any number of writers, readers,  *)
(* faults and damaged files.                                               *)
(***************************************************************************)
EXTENDS GraphStore, TLAPS

LEMMA InitInv == Init => IInv
  BY ConstantsAssumption
     DEF Init, IInv, TypeOK, CreatorsKnown, AtWork, AnswersLast, HeaderCommits, ReadsWholeGraphs,
         Present, Whole, Missing, Files, WriterState, ReaderState

(* What a step of one writer may do to the files: nothing, or one of the     *)
(* three things write_graph does to the file it stands at.                   *)
LEMMA WriterEffect ==
  ASSUME IInv, NEW w \in Writers, WriterStep(w) \/ FillFails(w) \/ Kill(w)
  PROVE  \/ file' = file
         \/ /\ writer[w].pc = "create" /\ ~ Present(writer[w].at)
            /\ file' = [file EXCEPT ![writer[w].at] = [state |-> "torn", by |-> w]]
         \/ /\ writer[w].pc = "fill" /\ file[writer[w].at].by = w
            /\ file' = [file EXCEPT ![writer[w].at] = [state |-> "whole", by |-> w]]
         \/ /\ writer[w].pc = "fill" /\ file[writer[w].at].by = w
            /\ file' = [file EXCEPT ![writer[w].at] = Missing]
  BY DEF WriterStep, Look, Create, Goto, Fill, FillFails, Cleanup, Kill

(* A writer's step leaves every file that is complete, or that another       *)
(* writer created, as it is, while nothing was damaged.                      *)
LEMMA OthersStand ==
  ASSUME IInv, damage = 0, NEW w \in Writers, WriterStep(w) \/ FillFails(w) \/ Kill(w),
         NEW f \in Files
  PROVE  /\ Whole(f) => file'[f] = file[f]
         /\ Present(f) /\ file[f].by # w => file'[f] = file[f]
  <1> DEFINE at == writer[w].at
  <1>1. /\ file \in [Files -> [state : {"absent", "torn", "whole"}, by : Writers \cup {NoOne}]]
        /\ writer[w].pc = "fill" => at \in Files /\ file[at].state = "torn"
    <2>1. file \in [Files -> [state : {"absent", "torn", "whole"}, by : Writers \cup {NoOne}]]
      BY DEF IInv, TypeOK
    <2>2. AtWork(w)
      BY DEF IInv
    <2>3. writer[w].pc = "fill" => at \in Files /\ file[at] = [state |-> "torn", by |-> w]
      BY <2>2 DEF AtWork
    <2>4. QED
      BY <2>1, <2>3
  <1>2. CASE file' = file
    BY <1>2
  <1>3. CASE f # at /\ \E g : file' = [file EXCEPT ![at] = g]
    BY <1>1, <1>3
  <1>4. CASE f = at /\ writer[w].pc = "create" /\ ~ Present(at)
    BY <1>1, <1>4 DEF Present, Whole
  <1>5. CASE f = at /\ writer[w].pc = "fill" /\ file[at].by = w
    BY <1>1, <1>5 DEF Present, Whole
  <1>6. QED
    BY <1>1, <1>2, <1>3, <1>4, <1>5, WriterEffect

LEMMA NextInv == IInv /\ [Next]_vars => IInv'
  <1> SUFFICES ASSUME IInv, [Next]_vars PROVE IInv'
    OBVIOUS
  <1> USE ConstantsAssumption DEF Files, WriterState, ReaderState, Missing
  <1>1. ASSUME NEW w \in Writers, WriterStep(w) \/ FillFails(w) \/ Kill(w)
        PROVE  IInv'
    <2> DEFINE at == writer[w].at
    <2>0. \/ file' = file
          \/ /\ writer[w].pc = "create" /\ ~ Present(at)
             /\ file' = [file EXCEPT ![at] = [state |-> "torn", by |-> w]]
          \/ /\ writer[w].pc = "fill" /\ file[at].by = w
             /\ file' = [file EXCEPT ![at] = [state |-> "whole", by |-> w]]
          \/ /\ writer[w].pc = "fill" /\ file[at].by = w
             /\ file' = [file EXCEPT ![at] = Missing]
      BY <1>1, WriterEffect
    <2>1. /\ UNCHANGED <<reader, damage>> /\ faults' \in 0 .. MaxFaults
          /\ \A v \in Writers : v # w => writer'[v] = writer[v]
      BY <1>1 DEF WriterStep, Look, Create, Goto, Fill, FillFails, Kill, Return, IInv, TypeOK
    <2>2. writer' \in [Writers -> WriterState]
      BY <1>1 DEF WriterStep, Look, Create, Goto, Fill, FillFails, Kill, Return, Following,
                  IInv, TypeOK, AtWork
    <2>3. file' \in [Files -> [state : {"absent", "torn", "whole"}, by : Writers \cup {NoOne}]]
      BY <2>0 DEF IInv, TypeOK
    <2>4. TypeOK'
      BY <2>1, <2>2, <2>3 DEF IInv, TypeOK
    <2>5. CreatorsKnown'
      BY <2>0, <2>3 DEF IInv, TypeOK, CreatorsKnown, Present
    <2>6. AnswersLast' /\ ReadsWholeGraphs'
      BY <2>1 DEF IInv, AnswersLast, ReadsWholeGraphs
    <2>7. HeaderCommits'
      <3> SUFFICES ASSUME damage = 0, Present("header")' PROVE Whole("nodes")' /\ Whole("edges")'
        BY <2>1 DEF HeaderCommits
      <3>1. Whole("nodes") /\ Whole("edges")
        <4>1. CASE Present("header")
          BY <4>1 DEF IInv, HeaderCommits
        <4>2. CASE ~ Present("header")
          <5>1. writer[w].pc \in {"create", "fill"} /\ at = "header"
            BY <2>0, <4>2 DEF Present, IInv, TypeOK
          <5>2. QED
            BY <5>1 DEF IInv, AtWork
        <4>3. QED
          BY <4>1, <4>2
      <3>2. QED
        BY <1>1, <3>1, OthersStand DEF Whole
    <2>8. ASSUME NEW v \in Writers PROVE AtWork(v)'
      <3>1. CASE v # w
        BY <1>1, <2>1, <3>1, OthersStand DEF IInv, AtWork, Whole, Present, TypeOK
      <3>2. CASE v = w
        BY <1>1, <2>1, <2>3, <2>0, <3>2, OthersStand
           DEF WriterStep, Look, Create, Goto, Fill, FillFails, Kill, Return, Following,
               IInv, TypeOK, AtWork, Whole, Present
      <3>3. QED
        BY <3>1, <3>2
    <2>9. QED
      BY <2>4, <2>5, <2>6, <2>7, <2>8 DEF IInv
  <1>2. ASSUME NEW r \in Readers, ReaderStep(r)
        PROVE  IInv'
    <2>1. UNCHANGED <<file, writer, faults, damage>>
      BY <1>2 DEF ReaderStep, ReadHeader, ReadEntries, Verify
    <2>2. /\ reader[r] \in ReaderState /\ reader[r].at # "end" => reader[r].answer = "pending"
          /\ \A f \in Files : file[f].state \in {"absent", "torn", "whole"}
      BY DEF IInv, TypeOK, AnswersLast
    <2>3. /\ reader' = [reader EXCEPT ![r] = reader'[r]]
          /\ reader'[r] \in ReaderState
          /\ reader'[r].at # "end" => reader'[r].answer = "pending"
          /\ reader'[r].answer = "graph" => \A f \in Files : reader'[r].seen[f] = "whole"
      <3>1. reader \in [Readers -> ReaderState]
        BY DEF IInv, TypeOK
      <3>2. CASE ReadHeader(r)
        BY <2>2, <3>1, <3>2 DEF ReadHeader, Answer, Sees
      <3>3. CASE ReadEntries(r)
        BY <2>2, <3>1, <3>3 DEF ReadEntries, Sees
      <3>4. CASE Verify(r)
        BY <2>2, <3>1, <3>4 DEF Verify, Verified, Answer
      <3>5. QED
        BY <1>2, <3>2, <3>3, <3>4 DEF ReaderStep
    <2>4. TypeOK' /\ AnswersLast' /\ ReadsWholeGraphs'
      <3>1. reader \in [Readers -> ReaderState]
        BY DEF IInv, TypeOK
      <3>2. /\ reader' \in [Readers -> ReaderState]
            /\ \A q \in Readers : q # r => reader'[q] = reader[q]
        <4> HIDE DEF ReaderState
        <4>1. QED
          BY <2>3, <3>1
      <3>3. TypeOK'
        BY <2>1, <3>2 DEF IInv, TypeOK
      <3>4. AnswersLast' /\ ReadsWholeGraphs'
        BY <2>3, <3>2 DEF IInv, AnswersLast, ReadsWholeGraphs
      <3>5. QED
        BY <3>3, <3>4
    <2>5. QED
      BY <2>1, <2>4 DEF IInv, CreatorsKnown, AtWork, HeaderCommits, Present, Whole
  <1>3. ASSUME NEW f \in Files, Lose(f) \/ CutShort(f)
        PROVE  IInv'
    <2>1. damage' # 0 /\ UNCHANGED <<writer, reader, faults>>
      BY <1>3 DEF Lose, CutShort, IInv, TypeOK
    <2>2. TypeOK' /\ CreatorsKnown'
      BY <1>3 DEF Lose, CutShort, Present, Whole, IInv, TypeOK, CreatorsKnown
    <2>3. QED
      BY <2>1, <2>2 DEF IInv, AtWork, AnswersLast, HeaderCommits, ReadsWholeGraphs
  <1>4. CASE UNCHANGED vars
    BY <1>4 DEF vars, IInv, TypeOK, CreatorsKnown, AtWork, AnswersLast, HeaderCommits,
                ReadsWholeGraphs, Present, Whole
  <1>5. QED
    BY <1>1, <1>2, <1>3, <1>4 DEF Next

(* The inductive invariant of write_graph and read_graph.                    *)
THEOREM InductiveInvariant == Spec => []IInv
  <1>1. QED
    BY InitInv, NextInv, PTL DEF Spec

(* Every reachable state has the shape of the code's files and calls.        *)
THEOREM TypeCorrect == Spec => []TypeOK
  <1>1. IInv => TypeOK
    BY DEF IInv
  <1>2. QED
    BY <1>1, InductiveInvariant, PTL

(* However many runs store a graph at once, fail or are killed: its header   *)
(* stands only beside complete nodes and edges.                              *)
THEOREM HeaderCommitsHolds == Spec => []HeaderCommits
  <1>1. IInv => HeaderCommits
    BY DEF IInv
  <1>2. QED
    BY <1>1, InductiveInvariant, PTL

(* read_graph returns only graphs it has read completely.                    *)
THEOREM ReadsWholeGraphsHolds == Spec => []ReadsWholeGraphs
  <1>1. IInv => ReadsWholeGraphs
    BY DEF IInv
  <1>2. QED
    BY <1>1, InductiveInvariant, PTL

(* A writer changes a file that exists only while it fills it itself.        *)
THEOREM LeavesOthersFilesHolds == Spec => LeavesOthersFiles
  <1> DEFINE Kept == damage' = damage =>
        \A f \in Files : Present(f) /\ file'[f] # file[f] =>
          \E w \in Writers : file[f].by = w /\ writer[w].pc = "fill" /\ writer[w].at = f
  <1>1. IInv /\ [Next]_vars => [Kept]_vars
    <2> SUFFICES ASSUME IInv, [Next]_vars, damage' = damage, NEW f \in Files,
                        Present(f), file'[f] # file[f]
                 PROVE  \E w \in Writers :
                          file[f].by = w /\ writer[w].pc = "fill" /\ writer[w].at = f
      OBVIOUS
    <2>1. CASE \E w \in Writers : WriterStep(w) \/ FillFails(w) \/ Kill(w)
      <3> PICK w \in Writers : WriterStep(w) \/ FillFails(w) \/ Kill(w)
        BY <2>1
      <3> file \in [Files -> [state : {"absent", "torn", "whole"}, by : Writers \cup {NoOne}]]
        BY DEF IInv, TypeOK
      <3>1. \/ file' = file
            \/ writer[w].pc = "create" /\ ~ Present(writer[w].at)
                 /\ \E g : file' = [file EXCEPT ![writer[w].at] = g]
            \/ writer[w].pc = "fill" /\ file[writer[w].at].by = w
                 /\ \E g : file' = [file EXCEPT ![writer[w].at] = g]
        BY WriterEffect
      <3>2. QED
        BY <3>1
    <2>2. CASE \E r \in Readers : ReaderStep(r)
      BY <2>2 DEF ReaderStep, ReadHeader, ReadEntries, Verify
    <2>3. CASE \E g \in Files : Lose(g) \/ CutShort(g)
      BY <2>3 DEF Lose, CutShort, IInv, TypeOK
    <2>4. QED
      BY <2>1, <2>2, <2>3 DEF Next, vars
  <1>2. QED
    BY <1>1, InductiveInvariant, PTL DEF Spec, LeavesOthersFiles
=============================================================================
