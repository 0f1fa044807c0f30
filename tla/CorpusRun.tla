------------------------------ MODULE CorpusRun ------------------------------
(***************************************************************************)
(* The recorded runs of the corpus: corpus/scripts/clone_repos.py acquires *)
(* the repositories and writes a manifest of their bytes, run_validation   *)
(* .py checks the clones against it, scans them one by one with            *)
(* check_builtin.py and finalizes a directory of evidence (run_contract    *)
(* .py), and compare_runs.py says of two such directories whether the      *)
(* analyzer is deterministic.                                              *)
(*                                                                         *)
(* Nothing keeps the clones or the analyzer still in the meantime, a run   *)
(* may be killed at any step, and a recorded file may be changed later.    *)
(* A clone that was changed never gets its old bytes back; the analyzer    *)
(* may (a branch is switched and switched back).                           *)
(***************************************************************************)
EXTENDS Integers, Sequences

CONSTANTS
  Order,      \* the repositories, in the order of repos.csv
  Runs,       \* output directories, one per run
  Analyzers,  \* versions of the analyzer and the corpus harness
  Outcomes,   \* what a scan of the same bytes may answer
  Edits,      \* bound: versions of a clone's bytes
  Failed,     \* the record of a repository that could not be acquired
  Nothing

Repos == {Order[i] : i \in DOMAIN Order}

ASSUME CorpusAssumption ==
  /\ \A i, j \in DOMAIN Order : Order[i] = Order[j] => i = j
  /\ Edits \in Nat
  /\ Nothing \notin Nat /\ Failed \notin Nat /\ Failed # Nothing

VARIABLES
  clones,    \* repository -> the version of its bytes on disk, 0 when absent
  acquired,  \* repository -> the record clone_one made of it
  manifest,  \* the clone manifest
  analyzer,  \* the analyzer installed now
  pc, at,    \* what a run does, and at which repository
  run,       \* what a run holds in memory
  dir,       \* its directory
  scanned,   \* for the properties: what was scanned, by which analyzer
  verdict    \* the last comparison

inputs == <<clones, acquired, manifest, analyzer>>
vars == <<inputs, pc, at, run, dir, scanned, verdict>>

Init ==
  /\ clones = [r \in Repos |-> 0]
  /\ acquired = [r \in Repos |-> Nothing]
  /\ manifest = Nothing
  /\ analyzer \in Analyzers
  /\ pc = [d \in Runs |-> "idle"]
  /\ at = [d \in Runs |-> 1]
  /\ run = [d \in Runs |-> Nothing]
  /\ dir = [d \in Runs |-> Nothing]
  /\ scanned = [d \in Runs |-> [r \in {} |-> Nothing]]
  /\ verdict = Nothing

----------------------------------------------------------------------------
(* clone_repos.py.  A clone that exists is inspected again, a clone command  *)
(* or an inspection may fail.                                                *)
Acquire(r) ==
  /\ manifest = Nothing /\ acquired[r] = Nothing
  /\ \/ /\ clones' = [clones EXCEPT ![r] = IF @ = 0 THEN 1 ELSE @]
        /\ acquired' = [acquired EXCEPT ![r] = clones'[r]]
     \/ acquired' = [acquired EXCEPT ![r] = Failed] /\ UNCHANGED clones
  /\ UNCHANGED <<manifest, analyzer, pc, at, run, dir, scanned, verdict>>

WriteManifest ==
  /\ manifest = Nothing /\ \A r \in Repos : acquired[r] # Nothing
  /\ manifest' = acquired
  /\ UNCHANGED <<clones, acquired, analyzer, pc, at, run, dir, scanned, verdict>>

(* A kill before the manifest is written: the clones stay.                   *)
AcquisitionDies ==
  /\ manifest = Nothing /\ \E r \in Repos : acquired[r] # Nothing
  /\ acquired' = [r \in Repos |-> Nothing]
  /\ UNCHANGED <<clones, manifest, analyzer, pc, at, run, dir, scanned, verdict>>

(* Someone else works in the clones, or on the analyzer.                     *)
ChangeClone(r) ==
  /\ clones[r] \in 1 .. Edits - 1
  /\ clones' = [clones EXCEPT ![r] = @ + 1]
  /\ UNCHANGED <<acquired, manifest, analyzer, pc, at, run, dir, scanned, verdict>>

ChangeAnalyzer ==
  /\ analyzer' \in Analyzers \ {analyzer}
  /\ UNCHANGED <<clones, acquired, manifest, pc, at, run, dir, scanned, verdict>>

----------------------------------------------------------------------------
(* run_validation.py                                                         *)

Goto(d, label) == pc' = [pc EXCEPT ![d] = label]
Repo(d) == Order[at[d]]
More(d) == at[d] \in DOMAIN Order

(* source_identity, harness_snapshot.  Runs write to directories of their    *)
(* own and only read what they share, so one after the other is enough.      *)
Begin(d) ==
  /\ pc[d] = "idle" /\ manifest # Nothing
  /\ \A e \in Runs : pc[e] \in {"idle", "ended"}
  /\ run' = [run EXCEPT ![d] = [identity |-> analyzer, manifest |-> manifest, before |-> 0,
                                row |-> Nothing, rows |-> [r \in {} |-> Nothing]]]
  /\ Goto(d, "preflight")
  /\ UNCHANGED <<inputs, at, dir, scanned, verdict>>

(* load_clone_records: the bytes on disk are those the manifest names.       *)
Verify(d) ==
  /\ pc[d] = "preflight" /\ More(d)
  /\ run[d].manifest[Repo(d)] \in {Failed, clones[Repo(d)]}
  /\ at' = [at EXCEPT ![d] = @ + 1]
  /\ UNCHANGED <<inputs, pc, run, dir, scanned, verdict>>

(* ensure_new_output_directory                                               *)
Create(d) ==
  /\ pc[d] = "preflight" /\ ~ More(d)
  /\ dir' = [dir EXCEPT ![d] = [marker |-> "running", meta |-> Nothing, combined |-> Nothing,
                                raw |-> [r \in {} |-> Nothing]]]
  /\ at' = [at EXCEPT ![d] = 1]
  /\ Goto(d, "next")
  /\ UNCHANGED <<inputs, run, scanned, verdict>>

Row(status, tree) == [status |-> status, tree |-> tree]

SkipFailed(d) ==
  /\ pc[d] = "next" /\ More(d) /\ run[d].manifest[Repo(d)] = Failed
  /\ run' = [run EXCEPT ![d].row = Row("acquisition failed", 0)]
  /\ Goto(d, "row")
  /\ UNCHANGED <<inputs, at, dir, scanned, verdict>>

(* tree_before                                                               *)
Hash(d) ==
  /\ pc[d] = "next" /\ More(d) /\ run[d].manifest[Repo(d)] # Failed
  /\ run' = [run EXCEPT ![d].before = clones[Repo(d)]]
  /\ Goto(d, "scan")
  /\ UNCHANGED <<inputs, at, dir, scanned, verdict>>

(* check_repo: the scanner is told the digest of the analyzer of this moment *)
(* and refuses to be another one, so it may be another than the run's.       *)
Scan(d) ==
  /\ pc[d] = "scan"
  /\ \E outcome \in Outcomes :
       LET result == [analyzer |-> analyzer, bytes |-> clones[Repo(d)], outcome |-> outcome]
       IN /\ run' = [run EXCEPT ![d].row = result]
          /\ scanned' = [scanned EXCEPT ![d] = [r \in DOMAIN @ \cup {Repo(d)} |->
                                                  IF r = Repo(d) THEN result ELSE @[r]]]
  /\ Goto(d, "scanned")
  /\ UNCHANGED <<inputs, at, dir, verdict>>

(* It crashes, runs into the timeout, or prints no payload.                  *)
ScanFails(d) ==
  /\ pc[d] = "scan"
  /\ run' = [run EXCEPT ![d].row = Row("scanner failed", run[d].before)]
  /\ Goto(d, "row")
  /\ UNCHANGED <<inputs, at, dir, scanned, verdict>>

(* tree_after, validate_raw_payload                                          *)
PayloadHolds(d) ==
  /\ clones[Repo(d)] = run[d].before
  /\ run[d].row.analyzer = run[d].identity

Take(d) ==
  /\ pc[d] = "scanned" /\ PayloadHolds(d)
  /\ dir' = [dir EXCEPT ![d].raw = [r \in DOMAIN @ \cup {Repo(d)} |->
                                      IF r = Repo(d) THEN run[d].row ELSE @[r]]]
  /\ run' = [run EXCEPT ![d].row = Row("succeeded", run[d].before)]
  /\ Goto(d, "row")
  /\ UNCHANGED <<inputs, at, scanned, verdict>>

RefusePayload(d) ==
  /\ pc[d] = "scanned" /\ ~ PayloadHolds(d)
  /\ run' = [run EXCEPT ![d].row = Row("contract failed", run[d].before)]
  /\ Goto(d, "row")
  /\ UNCHANGED <<inputs, at, dir, scanned, verdict>>

AddRow(d) ==
  /\ pc[d] = "row"
  /\ run' = [run EXCEPT ![d].rows = [r \in DOMAIN @ \cup {Repo(d)} |->
                                       IF r = Repo(d) THEN run[d].row ELSE @[r]],
                        ![d].row = Nothing, ![d].before = 0]
  /\ at' = [at EXCEPT ![d] = @ + 1]
  /\ Goto(d, "next")
  /\ UNCHANGED <<inputs, dir, scanned, verdict>>

(* ending_identity, combined.csv and the artifact records                    *)
WriteEvidence(d) ==
  /\ pc[d] = "next" /\ ~ More(d)
  /\ analyzer = run[d].identity
  /\ dir' = [dir EXCEPT ![d].combined = run[d].rows,
                        ![d].meta = [identity |-> run[d].identity, manifest |-> run[d].manifest,
                                     combined |-> run[d].rows, raw |-> dir[d].raw]]
  /\ Goto(d, "finalize")
  /\ UNCHANGED <<inputs, at, run, scanned, verdict>>

----------------------------------------------------------------------------
(* run_contract.py                                                           *)

\* Mutant of RowHolds: the scanned bytes are not compared with the acquired.
AnyTree(row, acquisition) ==
  IF acquisition = Failed THEN row.status = "acquisition failed"
  ELSE row.status # "acquisition failed"

(* _validate_combined_rows: the digests of acquisition and scan agree, even  *)
(* for a repository whose scan failed.                                       *)
RowHolds(row, acquisition) ==
  IF acquisition = Failed THEN row.status = "acquisition failed"
  ELSE row.status # "acquisition failed" /\ row.tree = acquisition

(* _validate_artifacts: every recorded file has its recorded digest.         *)
ArtifactsHold(evidence) ==
  /\ evidence.combined = evidence.meta.combined
  /\ evidence.raw = evidence.meta.raw

ContentsHold(evidence) ==
  LET rows == evidence.combined
      succeeded == {r \in DOMAIN rows : rows[r].status = "succeeded"}
  IN /\ evidence.meta # Nothing
     /\ ArtifactsHold(evidence)
     /\ DOMAIN rows = Repos
     /\ \A r \in Repos : RowHolds(rows[r], evidence.meta.manifest[r])
     /\ DOMAIN evidence.raw = succeeded
     /\ \A r \in succeeded : evidence.raw[r].analyzer = evidence.meta.identity

Finalize(d) ==
  /\ pc[d] = "finalize" /\ ContentsHold(dir[d])
  /\ dir' = [dir EXCEPT ![d].marker = "complete"]
  /\ Goto(d, "ended") /\ run' = [run EXCEPT ![d] = Nothing]
  /\ UNCHANGED <<inputs, at, scanned, verdict>>

(* A refusal, an error or a kill: what the directory holds by then stays.    *)
Dies(d) ==
  /\ pc[d] \notin {"idle", "ended"}
  /\ Goto(d, "ended") /\ run' = [run EXCEPT ![d] = Nothing]
  /\ UNCHANGED <<inputs, at, dir, scanned, verdict>>

(* A recorded result is changed where its summary does not show it.          *)
Tamper(d) ==
  /\ pc[d] = "ended" /\ dir[d] # Nothing
  /\ \E r \in DOMAIN dir[d].raw, outcome \in Outcomes :
       dir' = [dir EXCEPT ![d].raw[r].outcome = outcome]
  /\ UNCHANGED <<inputs, pc, at, run, scanned, verdict>>

(* validate_run_evidence                                                     *)
Valid(d) == dir[d] # Nothing /\ dir[d].marker = "complete" /\ ContentsHold(dir[d])

\* Mutant of Comparable: runs of different analyzers are compared.
SameManifest(d, e) == dir[d].meta.manifest = dir[e].meta.manifest

(* IDENTITY_FIELDS                                                           *)
Comparable(d, e) ==
  /\ dir[d].meta.identity = dir[e].meta.identity
  /\ dir[d].meta.manifest = dir[e].meta.manifest

Deterministic(d, e) == dir[d].combined = dir[e].combined /\ dir[d].raw = dir[e].raw

Compare(d, e) ==
  /\ d # e /\ Valid(d) /\ Valid(e)
  /\ verdict' = [of |-> {d, e}, comparable |-> Comparable(d, e),
                 deterministic |-> Comparable(d, e) /\ Deterministic(d, e)]
  /\ UNCHANGED <<inputs, pc, at, run, dir, scanned>>

Step(d) ==
  \/ Begin(d) \/ Verify(d) \/ Create(d) \/ SkipFailed(d) \/ Hash(d) \/ Scan(d) \/ ScanFails(d)
  \/ Take(d) \/ RefusePayload(d) \/ AddRow(d) \/ WriteEvidence(d) \/ Finalize(d) \/ Dies(d)

Next ==
  \/ \E r \in Repos : Acquire(r) \/ ChangeClone(r)
  \/ WriteManifest \/ AcquisitionDies \/ ChangeAnalyzer
  \/ \E d \in Runs : Step(d) \/ Tamper(d)
  \/ \E d, e \in Runs : Compare(d, e)

Spec == Init /\ [][Next]_vars

----------------------------------------------------------------------------
(* A directory that validates is evidence: of every repository that was      *)
(* acquired it holds a failure or, unchanged, what the analyzer the run      *)
(* names answered about the very bytes the manifest names.                   *)
EvidenceIsWhatWasScanned ==
  \A d \in Runs : Valid(d) =>
    \A r \in Repos :
      LET row == dir[d].combined[r]
      IN IF dir[d].meta.manifest[r] = Failed THEN row.status = "acquisition failed"
         ELSE row.status = "succeeded" =>
                /\ r \in DOMAIN scanned[d] /\ dir[d].raw[r] = scanned[d][r]
                /\ scanned[d][r].analyzer = dir[d].meta.identity
                /\ scanned[d][r].bytes = dir[d].meta.manifest[r]

(* The analyzer is called nondeterministic for nothing else: of two compared *)
(* runs that differ either one records that a scan failed, or the same       *)
(* analyzer answered differently about the same bytes.                       *)
BlameIsTheAnalyzers ==
  verdict # Nothing /\ verdict.comparable /\ ~ verdict.deterministic =>
    \E d, e \in verdict.of, r \in Repos :
      \/ dir[d].meta.combined[r].status \in {"scanner failed", "contract failed"}
      \/ /\ r \in DOMAIN scanned[d] \cap DOMAIN scanned[e]
         /\ scanned[d][r].analyzer = scanned[e][r].analyzer
         /\ scanned[d][r].bytes = scanned[e][r].bytes
         /\ scanned[d][r].outcome # scanned[e][r].outcome
----------------------------------------------------------------------------
Working == {"next", "scan", "scanned", "row"}
Statuses == {"acquisition failed", "scanner failed", "contract failed", "succeeded"}
Rows == [status : Statuses, tree : Nat]
Results == [analyzer : Analyzers, bytes : Nat, outcome : Outcomes]
Partial(f, S) == DOMAIN f \subseteq Repos /\ f \in [DOMAIN f -> S]

RunTypes(d) ==
  /\ run[d] = [identity |-> run[d].identity, manifest |-> run[d].manifest,
               before |-> run[d].before, row |-> run[d].row, rows |-> run[d].rows]
  /\ run[d].before \in Nat
  /\ Partial(run[d].rows, Rows)

DirTypes(d) ==
  /\ dir[d] = [marker |-> dir[d].marker, meta |-> dir[d].meta, combined |-> dir[d].combined,
               raw |-> dir[d].raw]
  /\ Partial(dir[d].raw, Results)

Typed(d) ==
  /\ Partial(scanned[d], Results)
  /\ pc[d] \notin {"idle", "ended"} => RunTypes(d)
  /\ pc[d] \in {"idle", "preflight"} => dir[d] = Nothing
  /\ pc[d] \in Working \cup {"finalize"} \/ dir[d] # Nothing => DirTypes(d)

TypeOK ==
  /\ clones \in [Repos -> Nat] /\ analyzer \in Analyzers
  /\ pc \in [Runs -> Working \cup {"idle", "preflight", "finalize", "ended"}]
  /\ at \in [Runs -> Nat]
  /\ DOMAIN run = Runs /\ DOMAIN dir = Runs /\ DOMAIN scanned = Runs
  /\ \A d \in Runs : Typed(d)

(* Recorded results are the analyzer's; a row that says "succeeded" has one  *)
(* of the bytes the row names.                                               *)
Faithful(raw, d) == \A r \in DOMAIN raw : r \in DOMAIN scanned[d] /\ raw[r] = scanned[d][r]

RowRests(row, r, raw) ==
  /\ row.status = "succeeded" => r \in DOMAIN raw /\ raw[r].bytes = row.tree
  /\ row.status = "acquisition failed" => row.tree = 0

RowsRest(rows, raw) == \A r \in DOMAIN rows : RowRests(rows[r], r, raw)

(* What a run has so far: results of repositories it has passed, and of the  *)
(* one at hand bytes that were there before, at and after the scan.          *)
Passed(d) == {Order[i] : i \in {j \in DOMAIN Order \cap Nat : j < at[d]}}

SoFar(d) ==
  /\ pc[d] = "preflight" => DOMAIN run[d].rows = {}
  /\ pc[d] \in Working =>
       /\ dir[d].marker = "running" /\ dir[d].meta = Nothing
       /\ Faithful(dir[d].raw, d)
       /\ RowsRest(run[d].rows, dir[d].raw)
       /\ DOMAIN dir[d].raw \subseteq Passed(d) \cup (IF pc[d] = "row" THEN {Repo(d)} ELSE {})
  /\ pc[d] \in Working \ {"next"} => More(d)
  /\ pc[d] = "scan" => run[d].before =< clones[Repo(d)]
  /\ pc[d] = "scanned" =>
       /\ Repo(d) \in DOMAIN scanned[d] /\ run[d].row = scanned[d][Repo(d)]
       /\ run[d].before =< run[d].row.bytes /\ run[d].row.bytes =< clones[Repo(d)]
  /\ pc[d] = "row" => run[d].row \in Rows /\ RowRests(run[d].row, Repo(d), dir[d].raw)

(* What the metadata names stays true of the run, whatever becomes of the    *)
(* files beside it.                                                          *)
Sealed(d) ==
  pc[d] = "finalize" \/ dir[d] # Nothing =>
    /\ dir[d].marker = "complete" => pc[d] = "ended"
    /\ dir[d].meta # Nothing =>
         /\ Partial(dir[d].meta.combined, Rows) /\ Partial(dir[d].meta.raw, Results)
         /\ Faithful(dir[d].meta.raw, d)
         /\ RowsRest(dir[d].meta.combined, dir[d].meta.raw)

(* The inductive invariant: from the scan to the comparison.                 *)
IInv ==
  /\ TypeOK
  /\ \A d \in Runs : SoFar(d) /\ Sealed(d)
  /\ verdict # Nothing => verdict.of \subseteq {d \in Runs : pc[d] = "ended"}
  /\ BlameIsTheAnalyzers
=============================================================================
