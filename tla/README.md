# A TLA+ verification project for adduce

adduce scans a research repository, checks it against rules about
reproducibility, scores it, drafts the artifacts a submission needs, and can run
a command twice to see whether it reproduces itself.  Beside the analyzer the
repository keeps the tools of its own validation corpus: recorded runs over
cloned repositories, and human reviews those runs are judged by.

What can go wrong in ways a unit test hardly reaches lies in three places.  At the
analyzer's edges: files other programs change between two system calls, a timer
thread that closes a socket under the main thread, processes that outlive their
shell, commands that overlap or are killed half-way, rule packs that misbehave.
Among the 78 rules: they read the same evidence, are answered by the same edits
and scaffolds, and must not contradict each other.  And in the corpus: documents
that several people read, edit and replace without a lock, while what they are
about is frozen again or changes under them.  The models are about these.

Paths below are relative to `src/adduce/` of the repository, those of the corpus
tools to `corpus/scripts/`.

## 1. The system

### 1.1 Components with state or concurrency

| Component | State it keeps | Operations | What is hard | What makes it correct |
| --- | --- | --- | --- | --- |
| Safe writes, `safe_write.py` | one directory entry, inodes, a temporary | `create_text_exclusive`, `append_text_regular`, `replace_text_regular`, `snapshot_text_regular` + `replace_text_regular_if_unchanged` | other programs act between any two system calls; inode numbers come back; I/O errors; kills | no torn target; no leaked temporary; no edit is overwritten that was not inspected |
| Metadata requests, `dynamic/resolve.py` | per hop a `_DeadlineGuard`, a Timer thread, a socket that changes hands | `_request`, `_connection`, `_connect_pinned`, `_read_limited`, the guard's `start`, `attach`, `detach`, `finish`, `_expire` | the Timer runs between any two steps of the main thread | a blocked main thread can be interrupted, whatever it waits for; no cut answer is used; nothing is left open |
| Evidence-graph store, `aeg/store.py` | a directory of three files named by content id | `write_graph`, `read_graph` | concurrent runs, crashes between files, damaged directories | the header commits; a reader never returns part of a graph |
| Check engine, `engine.py`, `scoring.py`, gates in `cli.py` | findings of a run, `.adduce/baseline.json` | the rule loop of `run_check`, `score`, `top_fixes`, `baseline`, `check --fail-under`, `--fail-on-regression` | rule packs that raise or answer under changing ids; checks that come and go between runs; zero denominators | a pack cannot speak for a built-in, and where the guard contains it costs coverage only; the ratchet catches exactly regressions; suppression moves no number |
| Generation, `ledger.py`, `cli.py`, `report/appendix.py` | artifacts, `.adduce/evidence-ledger.json`, the bundle directory | `checklist`, `appendix`, `package [--force]`, `audit-generated` | two files per artifact, overlapping commands, kills, author edits | the record precedes the artifact; a clean audit means what it says; a bundle is one run's |
| Two-run reproduction, `dynamic/reproduce.py` | two copies, a process group, pipes, reader threads, fingerprints | `reproduce`, `_run_once`, `_run_command`, `_join_readers`, `_terminate_*` | descendants that ignore SIGTERM, redirect, leave the session; timeouts; interrupts | nothing outlives its run; evidence is whole; agreement is earned |
| Online resolution and pinning, `dynamic/resolve.py`, `cache.py`, `fixers/codemods/pin_revision.py`, `cli.py` | a session cache on disk, source files | `resolve_references`, `Cache.get/put`, `pin-remotes` | another process overwrites cache entries; files change between scan, snapshot and replace | pins come from the network; no edit lost; a half-done pin run can be repeated |
| Import hook, `dynamic/import_hook.py` | an order log in the audited process | `OrderLog.record`, wrapped draw and seed functions | threads of the audited program | the log's order is an order of the calls |
| Manifest, `manifest.py`, `manifest_builder.py` | `manifest.yaml`, its JSON mirror, proposals | `manifest`, proposals with a free suffix | what is drafted from the evidence outranks it afterwards; what it quotes is scanned again; kills between two files | a draft lowers no verdict but those its quotes and claims must |
| The audited repository, `evidence/*`, `rules/*`, `fixers/*`, `modes.py`, `reviewer_time.py` | the author's files | edits, `fix`, `manifest`, `pin-remotes`, a commit, then `check` | 78 rules read overlapping evidence; shares cross boundaries; scaffolds are evidence too | rules agree, remedies never cost, tools do no harm and answer what they are chosen for |
| Drafted answers, `ledger.py`, `checklists`, `report/appendix.py`, `cli.py` | the entries of the ledger | drafts of `checklist` and `appendix`, `audit-generated` | one policy stated twice, over findings and over recorded evidence | the audit accepts what was drafted, and every "yes" can be answered for |
| Claim review workspace, `claim_review_entry.py` | one document per reviewer | `init`, `declare`, `decide`, `clear-*`, `finalize-claim`, `finalize-review` | each command reads, edits and replaces the whole document without a lock; one-second timestamps | what is exported was closed, claim by claim, by its reviewer |
| Claim review and candidate runs, `claim_review.py`, `run_validation.py` | the frozen truth, completed reviews, the merged file | `merge`, adjudication by hand, the checks before a candidate run | the truth is frozen again, the merged file edited, the run reads after it took its starting time | a run rests on two people's own reviews of its truth, decided before it started |
| Corpus runs, `clone_repos.py`, `run_validation.py`, `run_contract.py`, `compare_runs.py` | clones, the manifest of their bytes, run directories | acquisition, the run over all clones, finalization, validation, comparison | clones, analyzer and recorded files change at any moment; kills | a directory that validates is evidence; nondeterminism is blamed on the analyzer alone |
| Finding review, `label_findings.py`, `review_allocation.py` | an allocation, two reviewers' files, the merged file | `init-review-source`, `review-source`, `merge-review-sources`, `adjudicate-review`, `report-review` | loops keep a copy and save it whole; files are parsed and hashed in two reads; edits by hand | labels are what two people entered and a third settled, after calibration |

### 1.2 Components without

- **Scan and content pass** (`model.py`, `content.py`, `text.py`): one sequential
  walk and a per-process text cache.
- **Collectors** (`evidence/*`): parsers of Python, LaTeX, notebooks,
  configuration.  Their answers are modelled (`Evidence`), their parsing is not.
- **Registry** (`rules/registry.py`): discovery of rule packs, sorted and contained
  per entry point.
- **Evidence graphs** (`aeg/*`, `graph.py`): build, intern, hash.
- **Reports, exports, naming, telemetry, LLM wording**: rendering of a finished
  result.
- **Other corpus, benchmark and release scripts**: packets, metrics, sentinels,
  benchmarks; each one sequential computation from files to a file.

### 1.3 How they interact

`cli.py` drives everything.  A check is scan → collectors → rule loop → score →
report; the *baseline* and the *ledger* are the only state one command leaves for
a later one, besides generated artifacts, the manifest and stored graphs.  All
of these files are written through `safe_write.py`.  `resolve.py` and
`reproduce.py` are the only places with threads or processes, and run only on
request.  Rule packs are third-party code that runs inside the loop.

Every rule reads the same evidence, so what an author, a scaffold or a drafted
manifest changes for one rule it changes for all.  The corpus tools hand files to
each other: `claim_review_entry.py` exports what `claim_review.py` merges, and
`run_validation.py` starts a candidate run on the merged review; the clones and
manifest of `clone_repos.py` are the inputs of every run, run directories those of
`compare_runs.py` and of the allocation that `label_findings.py` works from.

`PROJECT.json` lists every component with its status, and under `hazards` each
place where this code is hard to test, with the property that covers it.

## 2. The modules

| Module | Models | Source |
| --- | --- | --- |
| `SafeWrite` | the four writers, one system call per action, beside an editor | `safe_write.py` |
| `AtomicFile` | what those writers promise about one path; `SafeWrite` refines it | abstract |
| `DeadlineGuard` | one metadata request with its redirects, guards and Timers | `dynamic/resolve.py` |
| `GraphStore` | the directory of one stored graph, its writers and readers | `aeg/store.py` |
| `Scoring` | the score, tiers and `top_fixes` as exact fractions | `scoring.py` |
| `Engine` | the rule loop, the baseline and the gates; extends `Scoring` | `engine.py`, `cli.py` |
| `Answers` | drafted answers and their audit; extends `Engine` | `ledger.py`, `checklists`, `report/appendix.py`, `cli.py` |
| `Generate` | generation and audit over the files they share | `ledger.py`, `cli.py`, `report/appendix.py` |
| `Reproduce` | both runs of a command, their processes, pipes and readers | `dynamic/reproduce.py` |
| `Evidence` | what the collectors answer about a repository | `evidence/*`, `manifest.py`, `model.py` |
| `Rules` | the verdict of each built-in rule; extends `Evidence` | `rules/*`, `evidence/*`, `manifest_builder.py` |
| `Repository` | edits, scaffolds, drafted manifests, pins and commits; extends `Rules` | `fixers/*`, `manifest_builder.py`, `modes.py`, `reviewer_time.py`, `cli.py` |
| `CandidateTruth` | the claims and decisions the next two are about | `claim_review.py` |
| `ClaimWorkspace` | one reviewer's document under several terminals | `claim_review_entry.py` |
| `ClaimReview` | reviews, merge, adjudication and the start of a candidate run | `claim_review.py`, `run_validation.py` |
| `CorpusRun` | acquisition, recorded runs, their validation and comparison | `clone_repos.py`, `run_validation.py`, `run_contract.py`, `compare_runs.py` |
| `FindingReview` | the two-reviewer labelling of sampled findings | `label_findings.py`, `review_allocation.py` |
| `SafeWriteProofs`, `GraphStoreProofs`, `EngineProofs`, `GenerateProofs`, `DynamicProofs` (`DeadlineGuard`, `Reproduce`), `RepositoryProofs`, `CorpusProofs` (`ClaimWorkspace`, `ClaimReview`, `CorpusRun`), `FindingReviewProofs` | theorems | |
| `MC*` | constants and symmetry for TLC | |

`PROJECT.json` maps every definition to the lines it stands for.  Definitions
whose comment begins with "Mutant of" are plausible bugs, used by no other
definition: putting one in the place of the definition it names makes the
property named in `PROJECT.json` fail.

### 2.1 SafeWrite and AtomicFile

A `call[w]` is one call of one writer: `pc` is the next system call, `before` and
`seen` the first snapshot and the one in hand, `own` the inode it created,
`dest` the path it creates (the target or its private temporary).  `entry` is the
directory, `inodes` the file system, where each inode carries a change stamp
that stands for `st_mtime_ns`, `st_ctime_ns` and `st_size` together.  Actions follow the code:
`InspectBegin`/`InspectEnd` are the two halves of `snapshot_text_regular`, between
which the file may change (`Undisturbed` is the comparison it ends with);
`OpenExclusive`, `WriteBlock` (once per round of `os.write`), `Sync`, then
`Inspect…` again, `Replace`; `CleanupInspect`/`CleanupUnlink` are
`_unlink_if_same`, which looks and then unlinks.  `WriteFails`, `OpenFails`,
`ReplaceFails`, `UnlinkFails` and `Kill` are the ways a step goes wrong.  `EditInPlace`,
`SaveByRename`, `Delete`, `AddHardLink` are other programs.  `whole` and `by`
are ghosts: whether somebody still fills the file, and who created it.

`AtomicFile` says what callers rely on: an existing file is replaced in one step
by a complete text; a partial file is seen only where there was none; a call
that raised left the file alone.  Foreign changes are counted, so that a
writer's change cannot pass for one of them.

### 2.2 DeadlineGuard

One request: `hop` counts redirects, `address` the pinned addresses tried.  Each
hop has its own guard and Timer, all with one deadline.  The main thread's `at`
names its place in `_request`, `_connection`, `_connect_pinned`; `owner[h]` says
which Python object (raw socket or TLS socket) owns the descriptor, since
`wrap_socket` moves it; `attached[h]` is what the guard would close, `seized[h]`
what the Timer took out of the guard under the lock and closes outside it.  The
deadline may pass at any moment (`late`).  The peer may answer, trickle for ever
or cut the connection.

`CloseAll` is what closing does: of a connection, `connection.close()` also unsets its
socket (`bound`).  If that happens after `attach_connection` and before the send,
`http.client` sees a connection without a socket and dials a new one (`auto_open`):
`Reopens`, with `RequestedAnew` and `ReopenFails` for how it ends.  The new socket
(`Reopened`) was neither pinned nor attached to the guard, whose Timer has already done
its work, so nothing closes it but the request's own clean-up.

### 2.3 GraphStore

All writers hold the same graph.  A file is absent, torn (being written, or cut)
or whole.  `write_graph` looks for the header, then creates nodes, edges and
header with `create_text_exclusive`; a file that is in the way makes it fail.
`read_graph` reads the header, then nodes and edges, then checks ids and counts.
`Damage` is the outside world truncating or deleting files.

### 2.4 Scoring and Engine

`Scoring` evaluates `score` over a sequence of findings.  Python's floats are
exact fractions; rounding is modelled where the CLI rounds (`Shown`).  `Engine`
is the loop of `run_check`: for every discovered rule one of `PassOver`,
`SkipDisabled`, `SkipInapplicable`, `Degrade`, `Raise`, `RaiseUnguarded`,
`FileMalformed`, `Evaluate`, then `Finish` and `WriteBaseline` or `Gate`.  What a rule
answers is free, because the repository changes between runs; a rule pack's rule may
raise, may return rubbish, and may give any id in `Claims` each time it is asked.
The guard (`Degrade`) contains what is raised inside `applies_to` and `evaluate` and an
answer that is not the rule's finding.  It does not contain the truth value of what
`applies_to` returned (`engine.py:354`) nor the suppression over the finding's
locations (`:359`): `RaiseUnguarded`.  Nor does anyone look at the status and the weight
of a finding before `score` does (`scoring.py:186`): `FileMalformed` files such a
finding, and `Finish` then raises.  `done` and `recorded` are ghosts.

### 2.5 Generate

A run is one process with a job: an artifact at the root, in `docs/`, printed,
or a bundle with or without `--force`.  `Plan(job)` is the order of its file
operations.  A text is named by the run that rendered it, and a record matches a
text when the names agree, as two SHA-256 digests do; thus two runs never render
the same text.  `audit` is `audit-generated` in two reads.  The inside of a write
is `SafeWrite`'s affair: here a write succeeds, is refused or fails, and a run may
be killed before each one.

### 2.6 Reproduce

The main thread goes through `_run_command` twice.  A run's processes are the shell
and one descendant; each may ignore SIGTERM, redirect its output, or leave the
session.  One pipe, one reader and one descriptor number stand for stdout and
stderr.  The number is free after the stream is closed and given to the second
run's pipe: that is how Python's `os.pipe` and `Popen` use it.  Timeouts come anywhere,
an interrupt once.

### 2.7 Evidence, Rules and Repository

A repository is a set of *facts*: `<<file, kind, value>>`, with a fourth element
where a fact qualifies another.  A fact is what a collector matches; how it
matches is left out.  Hyperparameters go by name: the paper, runs, configurations and
defaults may state the one and not the other, and the drift rules compare name by
name (`Stated`, `Missing`, `Drifted`, `Ambiguous`).  `Evidence` has one operator per question the rules ask of
the evidence, `Rules` one per rule class, with the statuses the class returns and
the order of its early returns.  `Repository.Verdict` assigns them to the 78 ids
of `BUILTIN_RULES`.

The state is a repository that starts as one of several *areas*.  An area names the
facts an author may add and remove, sorted into *remedies* (what a rule's
recommendation asks for), *flaws* (whose removal is a remedy) and *changes*
(neither).  `Scaffold(tool)` is `adduce fix`: the facts of the rendered template,
never over an existing file, README sections only where missing.
`DraftManifest` is `adduce manifest`: `Drafts` is what it writes, the draft with its
claims, each of them carrying the metric's value, the config, the log and the command
(`Carried`), and the same facts again in the JSON mirror.  `Quoted` is what the
command repeats of paths, addresses and secrets, since the portability rules read
both files.  `PinRemotes` is any subset of calls and
files that `pin-remotes --write` gets through, `Commit` makes what named HEAD
name an old commit.  After every step the properties ask for the card a check
would print.

### 2.8 Answers

The engine's findings, once the loop is over, under every function `sight` that
says with which confidence and whether at a place each was seen.  `Entry` is
`build_entry`: the answer `checklist` or `appendix` drafts for an item that cites
rules, default or strict, with the evidence that is recorded for it (`FirstAnswer`
and `Derived` are the two steps of the answer).  `Validates` and `Complaints` are what
`audit-generated` says of the recorded entry.  The two sides state when a "yes" is
earned independently: over findings and over the evidence written down.

### 2.9 ClaimWorkspace and ClaimReview

Both are about the claims of `CandidateTruth`.  `CorpusProofs` extends both and
`CorpusRun`; that is why `CWInit`, `CRInit` and the like carry a prefix.

`ClaimWorkspace`: `init` is `SeeNoWorkspace` and `CreateDocument`, which replaces
whatever was written since it looked; any other command of a terminal is `Read` (which takes `copy[t]`), then the
edit with `Persist`, which replaces the whole document by the edited copy:
whatever another terminal wrote in between is lost, as in the code.  `second` has
the resolution of the timestamps.  `early` stands for the decisions recorded
before the declarations that are there now.  `finalized` is a ghost.

`ClaimReview` starts where a workspace is exported.  `HandOver` is a completed
review, on any version of the truth, `Merge` the `merge` command, `Adjudicate` and
`Rewrite` what people do to the merged file in an editor.  A candidate run is
`BeginRun` (which takes `started_at`), `ReadTruth`, `ReadReview`: between them
everything may change.  Moments are half seconds, so that `Second` cuts something off.
`adjudicated_at` is typed by hand in the code; the model takes it that the person
types the time it is, and what `DecidedBeforeRun` says of an adjudication rests on that.

### 2.10 CorpusRun

A clone's bytes are a version number, an analyzer its source digest.  `Acquire`,
`WriteManifest` and `AcquisitionDies` are `clone_repos.py`.  A run goes through
`Begin`, `Verify` (per repository), `Create`, then per repository `SkipFailed` or
`Hash`, `Scan` or `ScanFails`, `Take` or `RefusePayload`, `AddRow`, at last
`WriteEvidence` and `Finalize`; `Dies` may end it anywhere.  `ChangeClone` and
`ChangeAnalyzer` come between any two of these, `Tamper` changes a recorded result
afterwards.  `Valid` is `validate_run_evidence`, `Compare` is `compare_runs.py`.
`scanned`, a ghost, holds what the analyzer really answered.

### 2.11 FindingReview

`allocation` is the version in force, `file[role]` the file a role's reviewer
started last, `command[t]` what a terminal does with what it has read.  `Open`,
`Declare`, `Decide` and `Stop` are the loop of `review-source`, which saves its
whole copy after each decision; two loops on one file overwrite each other.
`Gather` parses both files and `Hash` reads them once more for their digests, as
`merge-review-sources`, `adjudicate-review` and `report-review` all do, then
`SaveMerge`, `OpenMerged` with `Adjudicate`, or `Report`.  `EditMerged` and
`RemoveMerged` are people.  `Gated` are the fields of a judgement that the calibration
gate compares, each by itself (`CalibrationAgrees`): with four of five required, reviewers
who differ on one finding in correctness and on another in applicability pass.  `entered` is a ghost: what reviewers really typed.

## 3. What is checked

| Run | Bounds | Distinct states | What it shows |
| --- | --- | --- | --- |
| `safe_write` | 2 calls of any kind, 5 inodes, 1 outside change, 1 fault, payload of one block | 553,290 | nothing torn, nothing leaked, no uninspected edit lost; implements `AtomicFile` |
| `deadline_guard` | 3 redirects and 16 addresses, the code's own limits | 11,051 | the deadline reaches a blocked thread except in `http.client`'s reconnect, cut answers are never used, nothing stays behind, every request not held there ends |
| `graph_store` | 2 writers, 1 reader, 2 faults, 1 damage | 2,568 | the header commits; whole graphs only; no writer touches another's file; a graph gets stored |
| `graph_store_torn_header` | the same, 1 fault, no damage | — | *violated*: see 3.2 |
| `engine` | 1 built-in and 1 pack rule in one category beside an empty one, 99 or 100 lines, threshold 70, 5 confidences; any number of baselines and checks | 28,105 | a pack neither speaks for a built-in nor moves a number; score, threshold, ratchet; drafts stand up to their audit |
| `generate` | 3 processes over 5 jobs, `package` and `print` may overlap, 1 fault, 1 edit | 35,062 | ledger, audit and bundle |
| `reproduce` | both runs, shell and one child, one metric line per run, two values | 949,971 | processes, evidence, agreement, termination |
| `claim_workspace` | 2 terminals, 1 claim with 1 link, 2 decisions, 2 seconds, 2 closings | 2,501,615 | no export mixes what was closed separately |
| `claim_review` | 1 claim, 3 people, 2 truths, 2 reviews, 4 half seconds after the first | 420,256 | what a candidate run rests on |
| `corpus_run` | 2 repositories, 2 runs, 2 analyzers, 2 outcomes, 2 versions of a clone | 2,659,429 | recorded evidence is what was scanned; blame for nondeterminism |
| `finding_review` | 2 findings, both for calibration, 2 allocations, 3 people, 3 judgements of two gated fields, of which 1 of 2 must agree in each, 2 terminals of which one is the desk and serves both roles, the other only the primary one, 4 entries per allocation, 1 edit by hand | 1,903,274 | labels and calibration behind a report |
| `repository` | 13 areas, all subsets of their facts, the tools each area allows, 2 hyperparameters | 27,504 | the 78 rules agree; remedies cost nothing, tools only what is named |

### 3.1 The properties

*SafeWrite.*  `NeverTorn`: the target is incomplete only while, or after, an
exclusive creation that has not finished.  `TemporariesRemoved`: a call that is
over, was not killed and could unlink leaves no temporary.
`KeepsUninspectedText`: a comparing writer never discards text it did not
inspect, unless the change came after its last comparison (the few instructions
before `os.replace`, which no POSIX call can close).  `ImplementsAtomicFile`:
every step is a step of `AtomicFile` or a stutter.

*DeadlineGuard.*  `Interruptible`: whenever the main thread waits for the peer,
its socket is attached and a Timer is going to close it; the one wait of which that
is not so is `http.client`'s reconnect, and a request gets there only after its guard has
expired and closed everything.  `ActsOnWholeAnswers`: an answer that may have been cut
by the Timer, or came over a socket the guard does not know, is not followed, parsed or
returned.  `OpensOneAtATime` (reconnect included), `LeavesNothingBehind`: sockets and
Timers do not pile up.  `EndsAfterDeadline`: once the deadline has passed, the request
ends whatever the peer does, or is held in the reconnect for ever.

*GraphStore.*  `HeaderCommits`, `ReadsWholeGraphs`, `LeavesOthersFiles`,
`EventuallyStored` (without damage, faults or a header in the way, a graph some
writer set out to store is on disk in the end).

*Engine and Answers.*  `BuiltinsSpeakForThemselves`, `FailuresCostOnlyCoverage`,
`SuppressionMovesNoNumber`, `FixBuysItsPoints` (the points `top_fixes` ranks by
are the points a repair adds to the total), `RatchetCatchesRegressions` (exit 1
exactly for a rule that answered worse than the last answer the baseline has under
its id: rule packs may share ids, and then the later rule's answer is the one
`write_baseline` keeps; the run's two rules share none, the theorem covers those
that do), `ThresholdIsEarned` (up to the half tenth the score is shown with).  `DraftsSurviveTheirAudit`: whatever the
run found, however sure and wherever it was seen, every entry drafted from it
validates and draws neither R-GEN-001 nor R-GEN-002, and `--strict` never
strengthens an answer.

*Generate.*  `RecordedBeforeWritten`, `OwnRecordComplaintsAreReal`,
`CleanMeansGenerated`, `BundleIsOneRuns`.  The first two are about generations that do
not overlap with another writer of the ledger; of those that do, nothing is claimed
(3.2).

*Reproduce.*  `NothingOutlives`, `CaptureIsWhole`, `AgreementIsEarned`,
`ReproduceEnds`.

*ClaimWorkspace.*  `ExportsAreFinalized`: whatever terminals overwrite of each
other, each claim of an export is, as a whole, what one `finalize-claim` closed, complete
and declared for in an earlier second.  No lock ensures this: it follows from each
command replacing the whole document and each edit of a claim reopening it.

*ClaimReview.*  `RunsRestOnReview`: a candidate run that starts rests on two
people's handed-over reviews of the very truth it read, made after it was
frozen, and on a third person's later decision wherever they differ, although the
merged file may have been edited or replaced meanwhile.  `DecidedBeforeRun`:
no decision it rests on was made after the second it started in.

*CorpusRun.*  `EvidenceIsWhatWasScanned`: what a directory that validates says of a
repository is what the analyzer it names answered about the bytes the manifest
names.  `BlameIsTheAnalyzers`: two runs are called nondeterministic only where a scan
failed or one analyzer answered differently about the same bytes.

*FindingReview.*  `LabelsAreTheReviewers`: a label that is reported was entered by
both of its reviewers, who are two people, for that allocation, or settled by a
third.  `ReportsAreCalibrated`: of what the two reviewers entered, enough agrees on the
calibration findings in each gated field, whatever was changed between the merge and
the report.

*Repository.*  `RulesAgree`: implications between verdicts of rules that look
at the same evidence.  `RemediesNeverHurt`: after an edit that a recommendation asks
for, no assessed rule is worse, no badge's prerequisites are lost, and the
estimated time to a first result does not grow.  `ToolsDoNoHarm`: `fix`,
`manifest` and `pin-remotes` lower no verdict but the ones it names (3.2).
`ScaffoldsAnswerTheirRules`: the scaffold that `fix --rule` chooses leaves the rule
better than failed.  (Of the precision rules this asks nothing, since they never fail.)
Of the drift rules `RulesAgree` says that when R-DRIFT-001 could match no name of the
paper, R-DRIFT-003 misses one and R-DRIFT-002 finds nothing ambiguous.  The converse is not
so: with a paper that states `lr` and `batch_size` and code that knows `lr` alone,
R-DRIFT-001 passes and R-DRIFT-003 is partial.

### 3.2 Where the code and its words differ

One disagreement is a run that TLC refutes, listed under `findings`:
`aeg/store.py:86`.  A header cut short by a kill counts as a stored graph, so no later
run repairs it, against the docstring (`:80`).

Others are stated in the modules as properties that do not hold; naming one in the
configuration of its module shows the counterexample:

- `ClosesWhenDeadlineExpires` (`DeadlineGuard`): at `dynamic/resolve.py:401`
  `_remaining_timeout` is called after the handshake outside the `try` that
  closes the socket.  If the deadline passes right there the TLS socket stays open,
  against the guard's docstring (`:83`).
- `BudgetCoversTransport` (`DeadlineGuard`): "The enforceable wall-clock budget ...
  covers every subsequent transport operation" (`dynamic/resolve.py:446`).  When the Timer
  closes the connection between `attach_connection` (`:456`) and the send (`:457`),
  `http.client` reconnects.  Only the connection's own timeout bounds that, for each
  socket operation by itself, so a peer that trickles its handshake holds the request past
  the deadline.  `EndsAfterDeadline` names the case.
- `OnlyBuiltinsRaise` (`Engine`): "One installed rule pack must not be able to discard
  an entire audit" (docstring of `_evaluate_guarded`).  What a pack returned is used
  outside the guard at `engine.py:354` and `:359` and in `score` (`scoring.py:186`), and
  `Finding` validates only its confidence and items (`rules/base.py:282`).
- `ReadersReleased` (`Reproduce`): closing a pipe's descriptor
  (`dynamic/reproduce.py:409`) does not release a reader blocked on it, against the
  comment (`:81`).
- `DeclaredFirst` (`ClaimWorkspace`): two overlapping commands can leave a
  decision that is older than the declarations beside it.
- `RunsBeginAfterReview` (`ClaimReview`): decisions carry whole seconds, a run's
  start its fraction, so a decision made later in the same second passes.
- `CompletedReviewsRemain` (`FindingReview`): two loops of `review-source` on one
  file save their own copies over each other, though stopping prints that completed
  reviews remain saved.

What the models of the rules showed, each kept out of the properties above by a
named exception or by sorting the fact among an area's `changes`:

- `fix --rule` promises the scaffold that addresses a rule.  The `seeds` scaffold cannot
  answer R-DET-004 and R-DET-005, which are about calls in the author's own
  code, and `readme` leaves R-PREC-001 and R-PREC-002 as they are.
- R-DET-002 applies to repositories that use lightning, whether they import torch or not
  (`rules/determinism.py:132`), and names `fix --scaffold seeds` as its remedy.  The
  generated `seed_utils.py` sets the cuDNN flags only where torch is imported
  (`fixers/__init__.py:59`), so with lightning alone the rule stays failed, although
  scaffolds "generate the files the checks ask for" (docstring of `fixers`).  The proof of
  `ScaffoldsAnswerTheirRules` asked for this case; an area with lightning shows it to TLC
  once the exception in the property is taken away.
- The `seeds` scaffold imports `numpy` without declaring it (R-DEP-010), and its
  CUDA call makes R-PREC-005 apply where it did not.
- `pin-remotes` counts a call with `revision="main"` as one it could pin, but its
  codemod skips every call that has a `revision`.
- A drafted claim with a value outranks a results table in the README: R-DOC-003
  goes from pass to partial.
- A draft copies a run command into every claim, in `manifest.yaml` and in its mirror
  (`manifest_builder.py:70`, `manifest.py:399`), and the portability rules read both.  One
  absolute path in a run script becomes three hits or more, and R-PORT-001 goes from
  partial to fail; an address or a secret in a Makefile or a job file, which are not
  scanned, is seen for the first time in the draft (R-PORT-002, R-PORT-004).
- `adduce manifest` writes a detected precision and detected datasets, and
  R-PREC-001, -002, -004 and R-DATA-001 pass on them, although `concepts.md` calls
  inferred fields provisional.
- The placeholders of the `readme` scaffold improve R-DOC-003, R-VER-003 and
  R-LIC-003; one heading "Reproducing results" counts as usage and as results; the
  `runner` scaffold, which only fails, makes R-EXEC-002 pass.
- R-DET-001 says that no seeding was detected although TensorFlow, JAX or CUDA
  seeds are there.
- Confirming a claim or linking a run record may lower R-RES-004 or R-DRIFT-001:
  more is compared, so more can disagree.  A claim confirmed for HEAD is stale as
  soon as the manifest that says so is committed.
- A module that does not parse counts as absence of evidence.  A lock file
  without declared dependencies passes R-ENV-002 and fails R-ENV-001.

One more shows in `Generate` as what its configuration keeps apart: the ledger is loaded
before the replacement inspects it (`ledger.py:381`), so of two overlapping generations of
different artifacts the second drops the first's record, against the docstring (`:376`).
There is no lock, so no property speaks of it; with `"root"` and `"docs"` in `Together`
TLC finds the artifact without a record as a violation of `RecordedBeforeWritten`.

Further limits, where the code promises nothing else: a forced package cut short leaves a
bundle of two generations; of two terminals' decisions on a workspace the earlier may be
lost; the root ledger's record of
an artifact shadows the one beside a bundle's (`Shadowed`); 69.95 is shown as 70.0 and
passes `--fail-under 70`; a rule pack's category that the profile does not name
weighs nothing; an interrupt during the grace period of `reproduce` leaves
descendants running, so `NothingOutlives` speaks only of interrupts that reach
a running command; `review-source` does not enforce that calibration precedes the
rest, only the later commands do; a merge records digests of a second read of files
it has parsed already.

### 3.3 Bounds and why they are enough

Two callers are what it takes to interleave; each race in `safe_write.py` is
between one call and one other actor, and the pair of calls with one outside
change and one fault covers each kind of both.  The theorems about `SafeWrite`
hold for any number.  `DeadlineGuard` runs with the code's real constants.
`GraphStore` needs two writers for a conflict and one reader.  In `Engine` the
built-in and the pack's rule share a category, so that one's misbehaviour would
show in the other's number; the second, empty category has the zero denominator; 99
and 100 lines lie on both sides of the floor; the confidences lie on, above and
below the thresholds of `ledger.py`.  `Generate` needs a third process to
regenerate after two that overlapped.  In `Reproduce` one descendant can do
whatever several can, except different things at once.

In `ClaimWorkspace` one claim suffices because `finalize-claim` and every edit
concern one claim, and a second terminal is what it takes to lose an update; two
closings distinguish one finalization from another.  The theorem holds for any
number of claims and terminals.  `ClaimReview` needs a third person to adjudicate, a
second truth to go stale, and two seconds after the first so that things happen in
one second or not; its theorems hold for any.  `CorpusRun` needs two runs to compare,
two repositories so that a run is between them while one changes, and a second
analyzer to be switched to and back; its theorems hold for any.  In `FindingReview` both findings are
for calibration, so that the fields may differ on different ones and the gate, at one of
two, passes on either side of its boundary; of the judgements each two differ in one of the two
gated fields or in both; four entries are both reviewers' decisions on both findings, and
a later change wherever a second-review finding is left; one edit by hand is enough
for each file that is read twice.  That a
role keeps its reviewer is a bound of the model: the code lets a new file name another.
`Repository`'s areas are groups of rules that read the same evidence: within an
area every set of its facts that edits and tools lead to is reached.  An interaction
that needs facts of two areas at once is not looked at there; the theorems about
`Repository` cover it for all properties but `RemediesNeverHurt`.

### 3.4 Fairness

- `DeadlineGuard`: weak fairness of the main thread outside its blocking calls and
  of each Timer thread (the operating system schedules runnable threads), and of the
  main thread noticing a shutdown of its own socket.  The peer is never fair, and nobody
  shuts down a socket that `http.client` reopened.
- `GraphStore`: weak fairness of each writer's and reader's own steps.  Faults,
  kills and damage are not fair.
- `Reproduce`: weak fairness of the main thread, whose timed waits all end, and of the
  readers.  The command's processes are never fair.
- Everything else is safety only and assumes no fairness: the commands of the other
  modules are short and sequential, or wait for people.

Runs with `CHECK_DEADLOCK FALSE` model calls that end, or people who need not go
on, after which nothing has to happen.

## 4. What is proved

TLAPS proves the following for every value of the constants that satisfies the
module's named assumption (`ConstantsAssumption`: bounds are natural numbers,
distinguished values are distinct, no writer bears the name of a foreign text;
`EngineAssumption`: every rule is discovered once, a built-in answers with its own
id; `ScoringAssumption`: weights are natural numbers, as `Weight` and the profiles
give them; `AnswersAssumption`: confidences are percentages, and no rule bears the
name of the manifest; the assumptions of `Generate`, `Reproduce`,
`CandidateTruth`, `ClaimWorkspace`, `ClaimReview` and `CorpusRun` are of the first kind;
`AllocationAssumption` (`FindingReview`): an allocation's calibration findings are second-review
findings, some and finitely many, as `build_manifest` makes them;
`AreasAssumption` (`Repository`): an area consists of facts, finitely many to start from, and
`ToolsAssumption`: the tools are scaffolds that `fix` knows).

**SafeWrite** (`SafeWriteProofs`): `InductiveInvariant`, `TypeCorrect`, `NeverTornHolds`,
`TemporariesRemovedHolds`, `KeepsUninspectedTextHolds`.  The properties are not
inductive: to know that a replacement publishes a whole file one must know that
the temporary is the caller's alone, and that holds only because inode numbers
in use are not handed out again.  `IInv` adds to the type invariant:

- `EntriesDistinct`: no two names lead to one inode, except through a hard link
  made by somebody else;
- `CallInv`: what `pc` says about `own`, `dest` and the snapshots in hand;
- `TemporaryIsPrivate`: only its owner acts on a temporary;
- `UnfinishedIsOwned`: a file that is not whole belongs to a call still writing
  it, or to one that failed;
- `InspectionHolds` and `ClockInv`: a snapshot equal to the file means that the
  file has not changed since, because change stamps only grow.

`KeepsUninspectedTextHolds` is an action property and follows from the last two.

**SafeWrite implements AtomicFile** (`SafeWriteProofs`): `Implements`, that is
`Spec => ImplementsAtomicFile`, for any number of calls, inodes, foreign changes
and faults.  Beside `IInv` it needs `FilesInvariant`: a file being filled is a
regular file of its own call that holds a prefix of the text that call writes,
and a temporary about to be published holds all of it.  Then the
initial state maps to an initial state, and each step maps as follows:
`OpenExclusive` of the target is `Begin`, the `Sync` of an exclusive creation is
`Finish`, `Replace` is `Commit`, an end without effect is `Refuse` or
`Abandon`, the editor's actions are foreign changes, and everything else stutters.
Steps that leave all files alone (inspections, refusals, clean-ups) are treated
once, through `Settles`.

**DeadlineGuard** (`DynamicProofs`): `GuardInvariantHolds`, `GuardTypeCorrect`,
`InterruptibleHolds`, `ActsOnWholeAnswersHolds`, `OpensOneAtATimeHolds`,
`LeavesNothingBehindHolds`, reconnects included: the theorems hold of a request
that can get past its Timer, and `InterruptibleHolds` says when it can.  `GuardIInv` adds `Transports` (which object owns the
descriptor at each step, and that the guard holds it unless `http.client` reopened it),
`TimerHolds` (before expiry a Timer is on its way; after it, what is open is in the hands of a
Timer that is closing it, or was opened anew when that Timer had ended), `OtherHops` (earlier hops are closed and their
Timers over), `LateInv` (a guard expires only when the deadline has passed) and
`Unwinding`.

**GraphStore** (`GraphStoreProofs`): `InductiveInvariant`, `TypeCorrect`,
`HeaderCommitsHolds`, `ReadsWholeGraphsHolds`, `LeavesOthersFilesHolds`, for any
number of writers, readers, faults and damaged files.  `IInv` adds
`CreatorsKnown` (a file has a creator exactly while it is present), `AtWork` (as
long as nothing is damaged, a writer that fills a file owns it, torn, and the
files before it are whole) and `AnswersLast` (what a reader that got this far
has seen).  That the header is created last, exclusively, is what the proof of
`HeaderCommits` turns on.

**Engine, Scoring and Answers** (`EngineProofs`): every property of the run
`engine`, for any number of rules, any order of discovery and any ids a pack may
claim: `TypeCorrect`, `BuiltinsSpeakForThemselvesHolds`,
`RatchetCatchesRegressionsHolds`, `FailuresCostOnlyCoverageHolds`,
`SuppressionMovesNoNumberHolds`, `FixBuysItsPointsHolds`, `ThresholdIsEarnedHolds`,
`DraftsSurviveTheirAuditHolds`.  `IInv` is `TypeOK` with

- `LoopInv`: `LoopProgress` (which rules the loop has passed), `FiledAsDone` (every
  finding, malformed ones included, is the answer of the rule it came from, and only a built-in's own
  finding bears its id), `OneFindingEach`, `FiledInOrder` (findings stand in the
  order of discovery) and `AnswersAreFiled`;
- `BaselineIsLastAnswer`: the baseline holds, under each id, the answer of the last
  rule that gave it.  Without `FiledInOrder` one cannot tell which that is;
- `VerdictStands`: an exit code other than 2 is what the gates make of the card.

The properties of the score are about sums over any number of findings.  A sum is
a fold whose next element is chosen, which no prover here can do an induction
over; the lemmas about it (a sum may be split at any element, is positive only
with a positive summand, depends only on the summands, and is monotone) are
proved from a smallest counterexample instead: of the finite sets of places that
refute a lemma some set has no proper subset that does (`SmallestSubset`, from the
well-founded order on finite subsets), and taking out the element the fold
chooses gives one.  `FixBuysItsPointsHolds` and `ThresholdIsEarnedHolds` are
then arithmetic on numerators and denominators, one step per product.

**Generate** (`GenerateProofs`): `InvariantHolds`, `TypeCorrect`,
`CleanMeansGeneratedHolds`, `BundleIsOneRunsHolds`, `RecordedBeforeWrittenHolds`,
`OwnRecordComplaintsHold`, for any number of runs and of edits.  How far commands may
overlap is a constant, `Together`, on which the last two depend.  The theorems name the
dependence as hypotheses: `WritersAlone`, generations of artifacts outside
the bundle are not overlapped; `ForcedAlone`, nor are forced packages.  Nothing is
proved of the record of one artifact while another is generated: the code has no lock that
would keep it (3.2).
`CleanMeansGenerated` holds however commands overlap, and so does
`BundleIsOneRuns`, which speaks of the time before anyone uses `--force`.
`IInv` adds

- `InTurn`: who is active beside whom, and that nobody is during an audit;
- `NamesFollow`: a text, and a record in the ledger or in a run's memory, was made by
  a run with a job for that very path;
- `AuditFresh`: what an audit has read is still what it would read;
- `LoadedIsCurrent` (by `SameKey`, a consequence of `WritersAlone`): the ledger a run loaded differs from the one on
  disk at most in its own record;
- `TextsRecorded` (by `WritersAlone`): a text on disk has its own record unless a newer
  one of a printed checklist took the place;
- `BundleFills` (by `ForcedAlone`) and `FirstFileTells` (while nobody forces): the files of a
  bundle up to the one being written are this run's, since each is created exclusively.

**Reproduce** (`DynamicProofs`): `IInvHolds`, `TypeCorrect`, `NothingOutlivesHolds`,
`CaptureIsWholeHolds`, `AgreementIsEarnedHolds`, for any values, any number of
reported lines, and every order of exits, signals, joins and interrupts.  `IInv` is
`TypeOK` with

- `ProcessesEnd`: only the child may leave the session, and from the join of the
  readers on nothing of the group is left, unless the interrupt came while the
  main thread was past the wait (`"late"`);
- `EndingsTell`: a command raised exactly if the user interrupted it;
- `DescriptorsFollow`: the descriptor number stands for the pipe of the run at hand
  and is closed early only under a process that left the session;
- `CapturesGrow`: while no such process is about, what is captured followed by what
  is in the pipe is what was printed, and a reader that ended left nothing behind;
- `OutputsMade` and `ResultsRest`: an output that is there was made in its own
  run, since `_remove_copied_outputs` comes before the command, and a fingerprint
  names an exit code, a metric and an output of its own run.

`CaptureIsWhole` fails to be inductive for two reasons: a reader could meet the
other run's pipe under its number (`DescriptorsFollow`), and a pipe with a living
writer need not be at its end (`CapturesGrow`, by `ProcessesEnd`).

**Repository, Rules and Evidence** (`RepositoryProofs`): `TypeCorrect`, `RulesAgreeHolds`,
`ToolsDoNoHarmHolds`, `ScaffoldsAnswerHolds`, for any areas, that is for every finite set of
facts an author may have arrived at.  They need no invariant beyond `TypeOK` (the
repository is a finite set of sequences); what is hard is the step.

- `Wrote(R, S)` says what any tool does to a repository: nothing is taken away, every
  new fact is one of a few kinds, and `seed_utils.py` and a drafted manifest come whole or
  not at all.  Every scaffold, the draft and the pinning of references are such steps
  (`ScaffoldIsWriting`, `DraftIsWriting`, `PinningIsWriting`).
- From `Wrote` alone follows how the evidence changes: files, modules and seeds only
  appear (`FilesAppear`, `CodeAppears`, `CallsAppear`), no framework but numpy is detected that was
  not (`FrameworksAppear`), fewer references are unpinned (`ReferencesStay`), a manifest
  stays or is drafted where none was (`ManifestAppears`), and claims drafted from the paper
  name values nobody has confirmed.
- Then, group by group, no rule falls; `NoRuleFalls` puts the groups together for all
  78 ids, and names what must be excepted: R-DEP-010 if `seed_utils.py` was written,
  R-DOC-003 and the portability rules if the manifest was.  Most rules are monotone in the evidence; the care goes
  into those that are not, because they start to apply (CUDA seeds, drafted claims), because
  they compare shares of a growing total, or because a file takes precedence over another.
- Of the portability rules, paths can only be counted more often: R-PORT-001 falls only if a
  command that may be quoted holds one.  An address or a secret counts once it is anywhere,
  so these fall only if a command stands in a file that is not scanned.
- `RulesAgreeOn` states the implications for one set of facts.  The one about lock
  files compares the two thresholds of `PinnedAtLeast`, 99 and 90 hundredths; the ones about
  drift follow from the paper's names all missing, or some.

**ClaimWorkspace** (`CorpusProofs`): `WorkspaceInvariantHolds`, `ExportsFinalized`.
The property speaks of the export only, but the export is a copy that a terminal
read earlier.  `CWIInv` says the same of the file and of every terminal's copy: a
claim that is finalized there was closed just so by `finalize-claim`, and is
complete and in order.  Each command takes its edit of such a document to such a
document (`PersistKeeps`), which is why lost updates do no harm.

**ClaimReview** (`CorpusProofs`): `ReviewInvariantHolds`, `RunsRest`, `DecidedBefore`.
`CRIInv` adds `FromTwo` (the merged file, edited or not, names two people's
handed-over reviews of one truth) and `Stamped` (a decision bears the second it was
made in).  That a run's own checks then suffice is `AcceptedRests` and
`AcceptedDecidedBefore`.

**CorpusRun** (`CorpusProofs`): `InvariantHolds`, `ValidIsEvidenceHolds`,
`BlameHolds`, for any number of repositories, runs, analyzers and changes.  `IInv` adds
`SoFar` (a run has results only of repositories it has passed and of the one at hand,
each as scanned; the bytes seen before, during and after a scan are in this order) and
`Sealed` (what the metadata names remains true of the run whatever happens to the
files beside it).  A clone never gets its old bytes back (a bound of the model: the code compares digests only): equal digests before and
after a scan therefore mean that the scan saw these bytes.  That two valid directories
which differ must differ in an answer (`BlameIsDue`) follows from rows and digests
determining each other, and a verdict stays just because the runs it is about have ended.

**FindingReview** (`FindingReviewProofs`): `InvariantHolds`, `TypeCorrect`, `LabelsHold`,
`CalibrationHolds`, for any findings, allocations, people, terminals, judgements and
changes by hand, any gated fields and any share that must agree in each.  The properties speak of the merged file at the moment
of a report, and nothing is known of that file but its shape, since anybody may edit it.
What makes them hold is that `report-review` merges the sources again: it is enough
that the copies it has gathered are right.  `IInv` therefore says of every file, of every copy
on a terminal and of every gathered source that its decisions were entered for the
allocation it bears, as long as that is the one in force (`DecisionsEntered`).  Loops that overwrite
each other only lose decisions, and a file of an older allocation is refused when the
merge checks it.  `ReportRests` draws the conclusion for one report; the
calibration then is, field by field, a comparison of two finite sets (`EnoughGrows`).

**Only model-checked**: liveness (`EndsAfterDeadline`, `EventuallyStored`,
`ReproduceEnds`), since neither fairness nor `ENABLED` is in the prover's
reach; and `RemediesNeverHurt`, which is about the remedies an area names: which edits
answer a finding without touching the evidence of another rule is a property of that
list, not of the rules alone.  The type invariant of `Repository` is proved and is
not among the properties of its run.

## 5. What is not modelled, and why

- *Parsing*: what a collector must see in Python, LaTeX, a notebook or a
  configuration file to state a fact.  Of a finding, its message and locations; of
  a rule, the confidence it gives (free in `Answers`).
- *Discovery of rule packs* (`rules/registry.py`): `Engine` takes its result,
  distinct ids that keep the built-ins, in any order.
- *The import hook's order log*: `OrderLog.record` runs in the audited program's
  threads, and nothing in the code states what the log promises.
- *Evidence graphs* (`aeg/*`, `graph.py`): built in memory by one thread;
  `GraphStore` takes their content id as given.
- *Resolution and its cache*: `resolve_references` asks for every reference once,
  and within it the session cache is written and never read back.  `pin-remotes` is
  one action that gets through any part of its work.
- *`--refresh`*: it adds a proposal file under a free name, although that file is
  scanned as the draft's two files are.  Of a draft's claims, their texts (the phrase of the
  paper), the limit of ten and the cut of long commands; a kill between
  `manifest.yaml` and its mirror.
- In `Engine`: a pack's finding with another category or weight than its rule's, and odd
  values that raise nothing (a category that is a plain string enters no category's score
  but counts as coverage); the graph, the reviewer's time and the reports made after the score,
  which a malformed finding may end as well.
- *Reports, exports, naming, configuration and profiles, LLM wording, telemetry and
  the printing commands*: renderings of a finished result, or values read once
  before the loop.
- `safe_write.py`'s directory checks, and symbolic links beyond "not a regular
  file".  Windows branches of `safe_write.py` and `reproduce.py`.
- Name resolution and the address policy in `resolve.py`: a validation that
  succeeds or refuses.  Byte limits of bodies: part of "the answer is bad".
- In `Reproduce`: the two copies (the second is made from the first before either
  run starts), paths of expected outputs, the report file, reuse of process ids
  after the shell was reaped, and the descriptor with which outputs are hashed.  A
  join gives up on a reader only while a writer of its pipe lives: a reader that
  is merely slow is taken to catch up within the grace period.
- In `Generate` and `Answers`: the audit's rules on the provenance of sentences
  (R-GEN-003, -004 and -006).
- *In the corpus*: the quotas of an allocation, the older single-reviewer label
  files, the validation of a candidate run's own truth documents, and the tools that
  compute from files to a file: metrics, packets, sentinels, ground-truth and facts
  documents, benchmarks and release scripts.  Most of their lines check the shape of
  documents field by field.

## 6. Plan

What is left, in order of what could matter most:

1. **Discovery** inside `Engine`: that the sorted, contained loading of rule packs
   does not depend on the order entry points come in.
2. **Cache**: `Cache.get` and `put` beside another process; `pin-remotes`
   over `SafeWrite`'s compare-and-replace, refused half-way and repeated.
3. **EvidenceGraph**: independence of the content id from the order in which
   producers add edges, the first of which wins.
4. **OrderLog** and **ManifestPair**: threads in the audited program; two files
   with a kill in between, and `--refresh` under a free name.
5. `RemediesNeverHurt` for every repository: one definition of the edits that
   recommendations ask for, in the place of the areas' lists, and the lemmas on how
   evidence changes (as those from `Wrote`) for each kind of edit.

## 7. Running it

    tlc -workers 2 -config SafeWrite.cfg MCSafeWrite
    tlapm SafeWriteProofs.tla

and likewise for the other pairs listed under `runs`.  Every run ends within four
minutes on two cores; each proof module takes a few
minutes from nothing.
