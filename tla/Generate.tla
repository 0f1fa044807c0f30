------------------------------ MODULE Generate ------------------------------
(***************************************************************************)
(* Generating artifacts and auditing them: `adduce appendix` with and      *)
(* without --output, `adduce package` with and without --force, and        *)
(* `adduce audit-generated`, over the files they share.                    *)
(*                                                                         *)
(* checklist and appendix work alike; the artifact here is the appendix,   *)
(* at the repository root, in docs/ and in the submission bundle, always   *)
(* under one file name.  A text is named by the run that rendered it; one  *)
(* the author edited, or a kill cut short, is Altered.  A record matches a *)
(* text when the names agree, as two digests do.                           *)
(* The calls of safe_write are single steps that succeed, are refused or   *)
(* fail (SafeWrite models their inside); a run may be killed before each.  *)
(***************************************************************************)
EXTENDS Naturals, Sequences

CONSTANTS
  Runs,       \* the generating runs, each of them one process
  Jobs,       \* what a run may be asked to do
  Together,   \* the jobs that may run at the same time; the others run alone
  MaxFaults,  \* how many writes fail and runs are killed
  MaxEdits,   \* how often the author edits an artifact
  Altered, Missing

ASSUME GenerateAssumption ==
  /\ Jobs \subseteq {"root", "docs", "print", "package", "refresh"}
  /\ Together \subseteq Jobs
  /\ MaxFaults \in Nat /\ MaxEdits \in Nat
  /\ {Altered, Missing} \cap Runs = {} /\ Altered # Missing

Outputs == {"appendix", "docs/appendix"}
Artifacts == Outputs \cup {"bundle/appendix"}
Name == "appendix"

(* The bundle's files in the order package writes them; "rest" stands for    *)
(* the checksums, the citation and the crate.                                *)
Bundle == <<"checklist", "bundle/appendix", "manifest", "ledger", "rest">>
BundleFiles == {Bundle[i] : i \in DOMAIN Bundle}
Files == Outputs \cup BundleFiles

Texts == Runs \cup {Altered, Missing}
Records == UNION {[keys -> Runs] : keys \in SUBSET Outputs}
NoRecords == [key \in {} |-> Missing]
At(map, key) == IF key \in DOMAIN map THEN map[key] ELSE Missing
With(map, key, run) == [k \in {key} \cup DOMAIN map |-> IF k = key THEN run ELSE map[k]]

VARIABLES
  pc, job,
  records,    \* run -> the root ledger as load_ledger returned it
  looked,     \* run -> who had written the ledger at the replacement's inspection
  step,       \* run -> position in Bundle
  file,       \* artifacts and bundle files -> the text they hold
  ledger,     \* .adduce/evidence-ledger.json: key -> recorded text
  writer,     \* the last run that replaced it: its identity on disk
  directory,  \* adduce-submission/ exists
  litter,     \* a temporary left in it by a killed replacement
  audit,      \* the audit under way: what it has read, and its verdict
  faults, edits,
  disturbed   \* artifacts that did not reach or did not keep their last text

runVars == <<job, records, looked, step>>
diskVars == <<file, ledger, writer, directory, litter>>
vars == <<pc, runVars, diskVars, audit, faults, edits, disturbed>>

NoAudit == [at |-> "none", of |-> Name, text |-> Missing, found |-> NoRecords, verdict |-> "none"]

Init ==
  /\ pc = [r \in Runs |-> "new"] /\ job = [r \in Runs |-> "none"]
  /\ records = [r \in Runs |-> NoRecords]
  /\ looked = [r \in Runs |-> Missing] /\ step = [r \in Runs |-> 1]
  /\ file = [f \in Files |-> Missing]
  /\ ledger = NoRecords /\ writer = Missing
  /\ directory = FALSE /\ litter = FALSE
  /\ audit = NoAudit
  /\ faults = 0 /\ edits = 0 /\ disturbed = {}

Ended == {"new", "done", "refused", "failed", "killed"}
Active(r) == pc[r] \notin Ended
Quiet == (\A r \in Runs : ~ Active(r)) /\ audit.at \in {"none", "judged"}

Goto(r, to) == pc' = [pc EXCEPT ![r] = to]

----------------------------------------------------------------------------
(* The steps of a job in order.  _preflight_output changes nothing here.     *)
\* Mutant of Plan: the artifact is written before its record.
ArtifactFirst(j) ==
  CASE j \in {"root", "docs"} -> <<"write", "load", "inspect", "record">>
    [] j = "print" -> <<"load", "inspect", "record">>
    [] OTHER -> <<"look", "make", "fill">>

Plan(j) ==
  CASE j \in {"root", "docs"} -> <<"load", "inspect", "record", "write">>
    [] j = "print" -> <<"load", "inspect", "record">>
    [] OTHER -> <<"look", "make", "fill">>

Proceed(r) ==
  LET plan == Plan(job[r])
      i == CHOOSE k \in DOMAIN plan : plan[k] = pc[r]
  IN Goto(r, IF i < Len(plan) THEN plan[i + 1] ELSE "done")

(* Rendering reads the repository only; what matters is which job comes.     *)
Begin(r) ==
  /\ pc[r] = "new"
  /\ audit.at \in {"none", "judged"} /\ audit' = NoAudit
  /\ \E j \in Jobs :
       /\ Quiet \/ {j} \cup {job[q] : q \in {p \in Runs : Active(p)}} \subseteq Together
       /\ job' = [job EXCEPT ![r] = j] /\ Goto(r, Head(Plan(j)))
  /\ UNCHANGED <<records, looked, step, diskVars, faults, edits, disturbed>>

\* Mutant of Key: every artifact is recorded under the default name.
DefaultKey(j) == Name

(* _ledger_key: root-relative, or the default name when printing.            *)
Key(j) == IF j = "docs" THEN "docs/appendix" ELSE Name
Target(j) == IF j = "docs" THEN "docs/appendix" ELSE "appendix"

(* write_ledger: load the file, change one record, replace the file.         *)
Load(r) ==
  /\ pc[r] = "load" /\ Proceed(r)
  /\ records' = [records EXCEPT ![r] = ledger]
  /\ UNCHANGED <<job, looked, step, diskVars, audit, faults, edits, disturbed>>

Inspect(r) ==
  /\ pc[r] = "inspect" /\ Proceed(r)
  /\ looked' = [looked EXCEPT ![r] = writer]
  /\ UNCHANGED <<job, records, step, diskVars, audit, faults, edits, disturbed>>

(* What another run recorded since the load is gone, and nothing tells.      *)
Updated(r) == With(records[r], Key(job[r]), r)

(* A run that ends forgets what it held.                                     *)
Forget(r) ==
  /\ records' = [records EXCEPT ![r] = NoRecords]
  /\ looked' = [looked EXCEPT ![r] = Missing]
  /\ step' = [step EXCEPT ![r] = 1]
  /\ UNCHANGED job

(* replace_text_regular: a ledger replaced since the inspection is refused,  *)
(* or overwritten when it was replaced after the last comparison.            *)
Record(r) ==
  /\ pc[r] = "record" /\ Proceed(r) /\ Forget(r)
  /\ ledger' = Updated(r) /\ writer' = r
  /\ disturbed' = IF job[r] = "print" THEN disturbed ELSE disturbed \cup {Target(job[r])}
  /\ UNCHANGED <<file, directory, litter, audit, faults, edits>>

RecordRefused(r) ==
  /\ pc[r] = "record" /\ writer # looked[r]
  /\ Goto(r, "refused") /\ Forget(r)
  /\ UNCHANGED <<diskVars, audit, faults, edits, disturbed>>

(* _write_or_print.                                                          *)
Write(r) ==
  /\ pc[r] = "write" /\ Proceed(r) /\ Forget(r)
  /\ file' = [file EXCEPT ![Target(job[r])] = r]
  /\ disturbed' = disturbed \ {Target(job[r])}
  /\ UNCHANGED <<ledger, writer, directory, litter, audit, faults, edits>>

----------------------------------------------------------------------------
(* package.  Without --force an existing bundle is refused; with it, one     *)
(* that holds an entry package would not write.                              *)
Forced(r) == job[r] = "refresh"

LookRefused(r) ==
  /\ pc[r] = "look" /\ directory
  /\ Forced(r) => litter
  /\ Goto(r, "refused") /\ Forget(r)
  /\ UNCHANGED <<diskVars, audit, faults, edits, disturbed>>

Look(r) ==
  /\ pc[r] = "look" /\ Proceed(r)
  /\ directory => Forced(r) /\ ~ litter
  /\ UNCHANGED <<runVars, diskVars, audit, faults, edits, disturbed>>

MakeDirectory(r) ==
  /\ pc[r] = "make" /\ Proceed(r)
  /\ directory' = TRUE
  /\ UNCHANGED <<runVars, file, ledger, writer, litter, audit, faults, edits, disturbed>>

Filling(r) == Bundle[step[r]]

\* Mutant of Opens: an existing file is taken over.
AlwaysOpens(r) == TRUE

(* write_file: replace_text_regular with --force, create_text_exclusive      *)
(* without.                                                                  *)
Opens(r) == Forced(r) \/ file[Filling(r)] = Missing

Last(r) == step[r] = Len(Bundle)

Fill(r) ==
  /\ pc[r] = "fill" /\ Opens(r)
  /\ file' = [file EXCEPT ![Filling(r)] = r]
  /\ IF Last(r)
     THEN /\ Proceed(r) /\ Forget(r)
          /\ disturbed' = IF file["bundle/appendix"] = r
                          THEN disturbed \ {"bundle/appendix"} ELSE disturbed
     ELSE /\ step' = [step EXCEPT ![r] = @ + 1]
          /\ disturbed' = disturbed \cup {"bundle/appendix"}
          /\ UNCHANGED <<pc, job, records, looked>>
  /\ UNCHANGED <<ledger, writer, directory, litter, audit, faults, edits>>

FillRefused(r) ==
  /\ pc[r] = "fill" /\ ~ Opens(r)
  /\ Goto(r, "refused") /\ Forget(r)
  /\ UNCHANGED <<diskVars, audit, faults, edits, disturbed>>

----------------------------------------------------------------------------
(* A write that fails leaves its file as it was and ends the command.        *)
WriteFails(r) ==
  /\ pc[r] \in {"record", "write", "fill"}
  /\ faults < MaxFaults /\ faults' = faults + 1
  /\ Goto(r, "failed") /\ Forget(r)
  /\ UNCHANGED <<diskVars, audit, edits, disturbed>>

(* A kill may leave a temporary of a replacement in the bundle, or the file  *)
(* an exclusive creation was filling.                                        *)
Kill(r) ==
  /\ pc[r] \notin Ended
  /\ faults < MaxFaults /\ faults' = faults + 1
  /\ Goto(r, "killed") /\ Forget(r)
  /\ \/ UNCHANGED <<file, litter, disturbed>>
     \/ /\ pc[r] = "fill" /\ Forced(r)
        /\ litter' = TRUE /\ UNCHANGED <<file, disturbed>>
     \/ /\ pc[r] = "fill" /\ ~ Forced(r) /\ file[Filling(r)] = Missing
        /\ file' = [file EXCEPT ![Filling(r)] = Altered]
        /\ disturbed' = disturbed \cup {"bundle/appendix"}
        /\ UNCHANGED litter
  /\ UNCHANGED <<ledger, writer, directory, audit, edits>>

(* The author edits an artifact.                                             *)
Edit(a) ==
  /\ file[a] # Missing
  /\ edits < MaxEdits /\ edits' = edits + 1
  /\ file' = [file EXCEPT ![a] = Altered]
  /\ disturbed' = disturbed \cup {a}
  /\ UNCHANGED <<pc, runVars, ledger, writer, directory, litter, audit, faults>>

----------------------------------------------------------------------------
(* audit-generated: the artifact, the root ledger, the ledger beside it.     *)
AuditReads(a) ==
  /\ Quiet /\ file[a] # Missing
  /\ audit' = [NoAudit EXCEPT !.at = "artifact", !.of = a, !.text = file[a]]
  /\ UNCHANGED <<pc, runVars, diskVars, faults, edits, disturbed>>

AuditLoads ==
  /\ audit.at = "artifact"
  /\ audit' = [audit EXCEPT !.at = "ledger", !.found = ledger]
  /\ UNCHANGED <<pc, runVars, diskVars, faults, edits, disturbed>>

(* _load_ledger_records: setdefault, the root ledger comes first.            *)
Beside(a) == IF a = "bundle/appendix" THEN file["ledger"] ELSE Missing
Merged(found, beside) ==
  IF beside \in Runs /\ Name \notin DOMAIN found THEN With(found, Name, beside) ELSE found

(* The artifact's path from the root, its name, any record of that name.     *)
Recorded(a, found) ==
  At(found, CASE a \in DOMAIN found -> a
              [] a \notin DOMAIN found /\ Name \in DOMAIN found -> Name
              [] OTHER -> "docs/appendix")

\* Mutant of Verdict: a text without a record passes.
AcceptUnrecorded(text, record) == IF record \in {text, Missing} THEN "clean" ELSE "changed"

Verdict(text, record) ==
  CASE record = Missing -> "unrecorded" [] record = text -> "clean" [] OTHER -> "changed"

AuditJudges ==
  /\ audit.at = "ledger"
  /\ audit' = [audit EXCEPT
       !.at = "judged", !.found = NoRecords,
       !.verdict = IF Beside(audit.of) = Altered
                   THEN "refused"
                   ELSE Verdict(audit.text,
                                Recorded(audit.of, Merged(audit.found, Beside(audit.of))))]
  /\ UNCHANGED <<pc, runVars, diskVars, faults, edits, disturbed>>

(* Every command has ended.                                                  *)
Finished ==
  /\ Quiet /\ \A r \in Runs : pc[r] # "new"
  /\ UNCHANGED vars

Run(r) ==
  \/ Begin(r) \/ Load(r) \/ Inspect(r) \/ Record(r) \/ RecordRefused(r) \/ Write(r)
  \/ LookRefused(r) \/ Look(r) \/ MakeDirectory(r) \/ Fill(r) \/ FillRefused(r)
  \/ WriteFails(r) \/ Kill(r)

Next ==
  \/ \E r \in Runs : Run(r)
  \/ \E a \in Artifacts : Edit(a) \/ AuditReads(a)
  \/ AuditLoads \/ AuditJudges \/ Finished

Spec == Init /\ [][Next]_vars

----------------------------------------------------------------------------
(* Every file holds a text, every record names a run, and a run stands at a  *)
(* step of its job's plan or has ended.                                      *)
TypeOK ==
  /\ pc \in [Runs -> Ended \cup {"load", "inspect", "record", "write", "look", "make", "fill"}]
  /\ \A r \in Runs : Active(r) => \E i \in DOMAIN Plan(job[r]) : pc[r] = Plan(job[r])[i]
  /\ job \in [Runs -> Jobs \cup {"none"}]
  /\ records \in [Runs -> Records] /\ looked \in [Runs -> Texts]
  /\ step \in [Runs -> DOMAIN Bundle]
  /\ file \in [Files -> Texts]
  /\ ledger \in Records /\ writer \in Runs \cup {Missing}
  /\ directory \in BOOLEAN /\ litter \in BOOLEAN
  /\ audit \in [at : {"none", "artifact", "ledger", "judged"}, of : Artifacts, text : Texts,
                found : Records, verdict : {"none", "unrecorded", "clean", "changed", "refused"}]
  /\ faults \in 0 .. MaxFaults /\ edits \in 0 .. MaxEdits
  /\ disturbed \subseteq Artifacts

Printed(text) == text \in Runs /\ job[text] = "print"

(* With one command at a time, a generated artifact never appears before its *)
(* record: whatever was killed or failed, the ledger holds the record of the *)
(* text on disk, or of a newer generation that did not get to writing.       *)
RecordedBeforeWritten ==
  \A o \in Outputs :
    file[o] \in Runs =>
      At(ledger, o) = file[o] \/ (At(ledger, o) # Missing /\ o \in disturbed)
        \/ Printed(At(ledger, o))

(* The record another artifact already has decides the audit instead.        *)
Shadowed(a) ==
  \/ a = "bundle/appendix" /\ Name \in DOMAIN ledger
  \/ a = Name /\ Printed(At(ledger, a))

Complains == audit.at = "judged" /\ audit.verdict \in {"unrecorded", "changed", "refused"}

(* An audit that finds the artifact's own record complains only when the     *)
(* artifact was edited or its last generation did not complete.              *)
OwnRecordComplaintsAreReal == Complains /\ ~ Shadowed(audit.of) => audit.of \in disturbed

(* A clean audit read, byte for byte, a text some run rendered for that very *)
(* artifact: neither an edit, nor what a kill left, nor a copy of another.   *)
CleanMeansGenerated ==
  audit.at = "judged" /\ audit.verdict = "clean" =>
    /\ audit.text \in Runs
    /\ CASE audit.of = "appendix" -> job[audit.text] = "root"
         [] audit.of = "docs/appendix" -> job[audit.text] = "docs"
         [] OTHER -> job[audit.text] \in {"package", "refresh"}

(* Without --force, however packages overlap, fail or are killed, the bundle *)
(* is one run's: no file of it is ever another run's.                        *)
BundleIsOneRuns ==
  (\A r \in Runs : job[r] # "refresh") =>
    \A f, g \in BundleFiles : {file[f], file[g]} \subseteq Runs => file[f] = file[g]

----------------------------------------------------------------------------
(* Why they hold, and how far commands may overlap for it.                   *)

\* No two commands that may overlap write different records.
SameKey == \A j, k \in Together \ {"package", "refresh"} : Key(j) = Key(k)

\* Generations of artifacts outside the bundle, and forced packages, are alone.
WritersAlone == {"root", "docs"} \cap Together = {}
ForcedAlone == "refresh" \notin Together

(* What a run is doing, and with whom; nobody runs while an audit does.      *)
InTurn ==
  /\ \A r \in Runs : pc[r] = "new" <=> job[r] = "none"
  /\ \A r \in Runs : pc[r] # "fill" => step[r] = 1
  /\ \A r, q \in Runs : r # q /\ Active(r) /\ Active(q) => job[r] \in Together
  /\ audit.at # "none" => \A r \in Runs : ~ Active(r)

(* Whose text an artifact holds and a record names.                          *)
Renders(a) ==
  CASE a = "appendix" -> {"root"} [] a = "docs/appendix" -> {"docs"} [] OTHER -> {"package", "refresh"}
Owned(map) ==
  \A key \in DOMAIN map : job[map[key]] \in {"root", "docs", "print"} /\ Key(job[map[key]]) = key
NamesFollow ==
  /\ \A f \in Files : file[f] \in Runs => job[file[f]] \in Renders(f)
  /\ Owned(ledger) /\ \A r \in Runs : Owned(records[r])

(* What an audit has read is still there, unless the artifact was edited.    *)
AuditFresh ==
  /\ audit.at # "none" => audit.text # Missing
  /\ audit.at # "none" /\ audit.of \notin disturbed => audit.text = file[audit.of]
  /\ audit.at # "none" /\ audit.text \in Runs => job[audit.text] \in Renders(audit.of)
  /\ audit.at = "ledger" => audit.found = ledger

(* What a run loaded agrees with the ledger on the records of others.        *)
LoadedIsCurrent ==
  \A r \in Runs : pc[r] \in {"inspect", "record"} =>
    \A key \in Outputs \ {Key(job[r])} : At(records[r], key) = At(ledger, key)

(* A text on disk has a record, its own unless a newer one came between.     *)
TextsRecorded ==
  /\ \A r \in Runs : pc[r] = "write" =>
       At(ledger, Target(job[r])) = r /\ Target(job[r]) \in disturbed
  /\ \A o \in Outputs :
       /\ file[o] \in Runs => At(ledger, o) # Missing
       /\ file[o] # Missing /\ o \notin disturbed =>
            file[o] \in Runs /\ (At(ledger, o) = file[o] \/ Printed(At(ledger, o)))

(* A run fills the bundle in order and keeps what it has filled, and the     *)
(* bundle's ledger is the one of its undisturbed appendix.                   *)
BundleFills ==
  /\ \A r \in Runs : pc[r] = "fill" =>
       \A i \in DOMAIN Bundle : i < step[r] =>
         file[Bundle[i]] = r \/ (Bundle[i] = "bundle/appendix" /\ file[Bundle[i]] = Altered)
  /\ file["bundle/appendix"] # Missing /\ "bundle/appendix" \notin disturbed =>
       file["bundle/appendix"] \in Runs /\ file["ledger"] = file["bundle/appendix"]

(* Without --force whoever created the first file created them all.          *)
FirstFileTells ==
  /\ \A f \in BundleFiles : file[f] \in Runs => file["checklist"] = file[f]
  /\ \A r \in Runs : pc[r] = "fill" /\ step[r] > 1 => file["checklist"] = r

IInv ==
  /\ TypeOK /\ InTurn /\ NamesFollow /\ AuditFresh /\ CleanMeansGenerated
  /\ SameKey => LoadedIsCurrent
  /\ WritersAlone => TextsRecorded
  /\ ForcedAlone => BundleFills
  /\ (\A r \in Runs : job[r] # "refresh") => FirstFileTells
  /\ WritersAlone /\ ForcedAlone => OwnRecordComplaintsAreReal
=============================================================================
