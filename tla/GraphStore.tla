----------------------------- MODULE GraphStore -----------------------------
(***************************************************************************)
(* The stored evidence graph of aeg/store.py: the directory of one graph,  *)
(* named by the graph's content id, with the writers (write_graph, one per *)
(* run of `adduce graph --store`) and the readers (read_graph) that meet   *)
(* in it.  All writers hold the same graph, so they write the same bytes.  *)
(*                                                                         *)
(* A file is created as create_text_exclusive creates it (SafeWrite): it   *)
(* exists, incomplete, from its creation until its last byte is written.   *)
(* Writers may fail or be killed; files may be lost or cut short from      *)
(* outside, the directory being the repository's.                          *)
(***************************************************************************)
EXTENDS Naturals

CONSTANTS
  Writers,      \* runs of write_graph
  Readers,      \* runs of read_graph
  NoOne,        \* the creator of a file that does not exist
  MaxFaults,    \* bound: failed writes and kills
  MaxDamage     \* bound: files lost or cut short from outside

ASSUME ConstantsAssumption ==
  /\ NoOne \notin Writers
  /\ MaxFaults \in Nat /\ MaxDamage \in Nat

VARIABLES
  file,      \* file name -> state on disk and who created it
  writer,    \* the state of each write_graph call
  reader,    \* the state of each read_graph call
  faults, damage   \* what the bounds count

vars == <<file, writer, reader, faults, damage>>

Files == {"nodes", "edges", "header"}
Missing == [state |-> "absent", by |-> NoOne]

\* Mutant of Following: the header is written before the edges.
HeaderSecond(f) ==
  CASE f = "nodes" -> "header" [] f = "header" -> "edges" [] f = "edges" -> "end"

\* Mutant of Following: the header is never written.
HeaderForgotten(f) == IF f = "nodes" THEN "edges" ELSE "end"

(* The order of creation in write_graph: the header comes last.               *)
Following(f) ==
  CASE f = "nodes" -> "edges" [] f = "edges" -> "header" [] f = "header" -> "end"

Init ==
  /\ file = [f \in Files |-> Missing]
  /\ writer = [w \in Writers |-> [pc |-> "look", at |-> "nodes", outcome |-> "pending"]]
  /\ reader = [r \in Readers |-> [at |-> "header", seen |-> [f \in Files |-> "unread"],
                                  answer |-> "pending"]]
  /\ faults = 0 /\ damage = 0

Present(f) == file[f].state # "absent"
Whole(f) == file[f].state = "whole"
Stored == \A f \in Files : Whole(f)

------------------------------------------------------------------------------
(* write_graph                                                                *)

\* Mutant of Return: the step counter keeps its place.
ReturnInPlace(w, outcome) ==
  writer' = [writer EXCEPT ![w] = [pc |-> "end", at |-> @.at, outcome |-> outcome]]

Return(w, outcome) ==
  writer' = [writer EXCEPT ![w] = [pc |-> "returned", at |-> "end", outcome |-> outcome]]

Goto(w, pc, at) ==
  writer' = [writer EXCEPT ![w] = [pc |-> pc, at |-> at, outcome |-> "pending"]]

(* A graph already present is left untouched; presence is the header's.       *)
Look(w) ==
  /\ writer[w].pc = "look"
  /\ IF Present("header")
     THEN Return(w, "stored")
     ELSE Goto(w, "create", "nodes")
  /\ UNCHANGED <<file, reader, faults, damage>>

Create(w) ==
  LET f == writer[w].at IN
  /\ writer[w].pc = "create"
  /\ IF Present(f)
     THEN Return(w, "refused") /\ UNCHANGED file
     ELSE Goto(w, "fill", f) /\ file' = [file EXCEPT ![f] = [state |-> "torn", by |-> w]]
  /\ UNCHANGED <<reader, faults, damage>>

(* The last byte; a file that was removed meanwhile takes it to nowhere.      *)
Fill(w) ==
  LET f == writer[w].at IN
  /\ writer[w].pc = "fill"
  /\ file' = IF file[f].by = w THEN [file EXCEPT ![f] = [state |-> "whole", by |-> w]] ELSE file
  /\ IF Following(f) = "end"
     THEN Return(w, "stored")
     ELSE Goto(w, "create", Following(f))
  /\ UNCHANGED <<reader, faults, damage>>

\* Mutant of Cleanup: every file of the directory goes, not just the own one.
RemoveAll(w, f) == [g \in Files |-> Missing]

(* _unlink_if_same: only the inode this call created.                         *)
Cleanup(w, f) == IF file[f].by = w THEN [file EXCEPT ![f] = Missing] ELSE file

(* A write fails: create_text_exclusive removes the file it was filling, and  *)
(* nothing removes the files before it.                                       *)
FillFails(w) ==
  /\ writer[w].pc = "fill" /\ faults < MaxFaults
  /\ faults' = faults + 1
  /\ file' = Cleanup(w, writer[w].at)
  /\ Return(w, "refused")
  /\ UNCHANGED <<reader, damage>>

Kill(w) ==
  /\ writer[w].pc \in {"create", "fill"} /\ faults < MaxFaults
  /\ faults' = faults + 1
  /\ Return(w, "killed")
  /\ UNCHANGED <<file, reader, damage>>

------------------------------------------------------------------------------
(* read_graph                                                                 *)

Answer(r, answer) ==
  reader' = [reader EXCEPT ![r] = [at |-> "end", seen |-> reader[r].seen, answer |-> answer]]

Sees(r, f, next) ==
  reader' = [reader EXCEPT ![r] = [at |-> next, answer |-> "pending",
                                   seen |-> [reader[r].seen EXCEPT ![f] = file[f].state]]]

(* Without a header there is no graph; a header that is not JSON raises.      *)
ReadHeader(r) ==
  /\ reader[r].at = "header"
  /\ \/ ~ Present("header") /\ Answer(r, "none")
     \/ Present("header") /\ ~ Whole("header") /\ Answer(r, "error")
     \/ Whole("header") /\ Sees(r, "header", "nodes")
  /\ UNCHANGED <<file, writer, faults, damage>>

(* A missing file reads as an empty one; its entries are parsed later.        *)
ReadEntries(r) ==
  /\ \/ reader[r].at = "nodes" /\ Sees(r, "nodes", "edges")
     \/ reader[r].at = "edges" /\ Sees(r, "edges", "verify")
  /\ UNCHANGED <<file, writer, faults, damage>>

\* Mutant of Verified: entries that parse are enough.
AnyEntries(seen) == TRUE

(* The digest of what was read equals the one the header records.             *)
Verified(seen) == \A f \in Files : seen[f] = "whole"

Verify(r) ==
  /\ reader[r].at = "verify"
  /\ Answer(r, IF Verified(reader[r].seen) THEN "graph" ELSE "error")
  /\ UNCHANGED <<file, writer, faults, damage>>

------------------------------------------------------------------------------
(* The repository's owner, or anything else with access to .adduce/           *)

Lose(f) ==
  /\ Present(f) /\ damage < MaxDamage
  /\ damage' = damage + 1
  /\ file' = [file EXCEPT ![f] = Missing]
  /\ UNCHANGED <<writer, reader, faults>>

CutShort(f) ==
  /\ Whole(f) /\ damage < MaxDamage
  /\ damage' = damage + 1
  /\ file' = [file EXCEPT ![f] = [state |-> "torn", by |-> file[f].by]]
  /\ UNCHANGED <<writer, reader, faults>>

------------------------------------------------------------------------------
WriterStep(w) == Look(w) \/ Create(w) \/ Fill(w)
ReaderStep(r) == ReadHeader(r) \/ ReadEntries(r) \/ Verify(r)

Next ==
  \/ \E w \in Writers : WriterStep(w) \/ FillFails(w) \/ Kill(w)
  \/ \E r \in Readers : ReaderStep(r)
  \/ \E f \in Files : Lose(f) \/ CutShort(f)

(* Every process of a run is scheduled again and again until it is through.   *)
Fairness ==
  /\ \A w \in Writers : WF_vars(WriterStep(w))
  /\ \A r \in Readers : WF_vars(ReaderStep(r))

Spec == Init /\ [][Next]_vars /\ Fairness

------------------------------------------------------------------------------
(* Properties                                                                 *)

WriterState == [pc : {"look", "create", "fill", "returned"}, at : Files \cup {"end"},
                outcome : {"pending", "stored", "refused", "killed"}]

ReaderState == [at : Files \cup {"verify", "end"},
                seen : [Files -> {"unread", "absent", "torn", "whole"}],
                answer : {"pending", "none", "error", "graph"}]

(* Every file is absent, torn or whole, a writer or reader is at a file or  *)
(* past its last, and only a writer of this graph has created a file.       *)
TypeOK ==
  /\ file \in [Files -> [state : {"absent", "torn", "whole"}, by : Writers \cup {NoOne}]]
  /\ writer \in [Writers -> WriterState]
  /\ reader \in [Readers -> ReaderState]
  /\ faults \in 0 .. MaxFaults /\ damage \in 0 .. MaxDamage

(* The header is the commit record of write_graph: as long as nobody damages  *)
(* the directory, whatever crashed or failed, a header, even an incomplete    *)
(* one, stands only beside complete nodes and edges.                          *)
HeaderCommits ==
  damage = 0 /\ Present("header") => Whole("nodes") /\ Whole("edges")

(* read_graph never returns a graph it read only part of: what it returns was *)
(* on disk, whole, under this header.                                         *)
ReadsWholeGraphs ==
  \A r \in Readers : reader[r].answer = "graph" =>
    \A f \in Files : reader[r].seen[f] = "whole"

(* A writer never changes a file that is complete, and never touches one      *)
(* another writer is filling: files are only ever lost to outsiders.          *)
LeavesOthersFiles ==
  [][damage' = damage =>
      \A f \in Files : Present(f) /\ file'[f] # file[f] =>
        \E w \in Writers : file[f].by = w /\ writer[w].pc = "fill" /\ writer[w].at = f]_vars

(* What holds of a writer that is still at work: it is at a file, the files   *)
(* before it are complete, and the one it fills is its own and incomplete.    *)
AtWork(w) ==
  /\ writer[w].pc # "returned" => writer[w].at \in Files
  /\ damage = 0 =>
       /\ writer[w].pc = "look" => writer[w].at = "nodes"
       /\ writer[w].pc \in {"create", "fill"} /\ writer[w].at # "nodes" => Whole("nodes")
       /\ writer[w].pc \in {"create", "fill"} /\ writer[w].at = "header" => Whole("edges")
       /\ writer[w].pc = "fill" =>
            file[writer[w].at] = [state |-> "torn", by |-> w]

(* An absent file has no creator.                                             *)
CreatorsKnown == \A f \in Files : Present(f) <=> file[f].by # NoOne

(* A reader answers in its last step.                                         *)
AnswersLast == \A r \in Readers : reader[r].at # "end" => reader[r].answer = "pending"

(* The inductive invariant behind HeaderCommits and ReadsWholeGraphs: the     *)
(* order of creation as every writer of write_graph stands in it.             *)
IInv ==
  /\ TypeOK
  /\ CreatorsKnown
  /\ \A w \in Writers : AtWork(w)
  /\ AnswersLast
  /\ HeaderCommits
  /\ ReadsWholeGraphs

(* Without faults and damage, the runs that meet in one directory leave the   *)
(* graph stored, whichever of them is refused.                                *)
EventuallyStored == <>[](faults = 0 /\ damage = 0 => Stored)

(* The docstring of write_graph: a graph already present is left untouched,   *)
(* the bytes it would be given are the bytes it already holds.  A run killed  *)
(* while it fills the header breaks it.                                       *)
PresentGraphIsWhole ==
  damage = 0 => \A w \in Writers : writer[w].outcome = "stored" =>
    \/ Stored
    \/ \E v \in Writers : writer[v].pc = "fill"

==============================================================================
