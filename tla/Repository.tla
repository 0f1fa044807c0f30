----------------------------- MODULE Repository -----------------------------
(***************************************************************************)
(* An author brings a repository to reproducible shape: edits it, lets     *)
(* `adduce fix` and `adduce manifest` write files into it, commits it, and *)
(* after every step `adduce check` would answer with the verdicts of Rules *)
(* on what is there.                                                       *)
(***************************************************************************)
EXTENDS Rules

(* An area is a repository to start from and the facts the author may add to *)
(* and take from it: remedies, which answer a finding; flaws, whose removal   *)
(* does; and changes, which are neither.                                     *)
CONSTANTS Areas, Tools

(* Facts are sequences, of anything.                                         *)
IsFact(f) == f \in Seq(Range(f))
ASSUME AreasAssumption ==
  \A a \in Areas :
    /\ IsFiniteSet(a.base)
    /\ \A f \in a.base \cup a.remedies \cup a.changes \cup a.flaws : IsFact(f)

VARIABLES area, repo
vars == <<area, repo>>

----------------------------------------------------------------------------
(* The verdict of the rule with an id, BUILTIN_RULES of registry.py.         *)
Verdict(R, id) ==
  CASE id = "R-DET-001" -> SeedDeterminismRule(R)
    [] id = "R-ARC-001" -> ArchivalIdentifierRule(R)
    [] id = "R-ARC-002" -> ArchivableAsIsRule(R)
    [] id = "R-ARC-003" -> ArchivalMetadataRule(R)
    [] id = "R-CKPT-001" -> CheckpointRule(R, "optimizer")
    [] id = "R-CKPT-002" -> CheckpointRule(R, "scheduler")
    [] id = "R-CKPT-003" -> CheckpointRule(R, "progress")
    [] id = "R-CKPT-004" -> CheckpointRule(R, "rng")
    [] id = "R-CKPT-005" -> CheckpointRule(R, "provenance")
    [] id = "R-DATA-001" -> DataProvenanceRule(R)
    [] id = "R-DATA-002" -> DownloadPathRule(R)
    [] id = "R-DATA-003" -> DataIntegrityRule(R)
    [] id = "R-DATA-004" -> CommittedBinariesRule(R)
    [] id = "R-DATA-005" -> DataFrictionRule(R)
    [] id = "R-DATA-006" -> RawProcessedRule(R)
    [] id = "R-DEP-001" -> UnpinnedDependencyRule(R)
    [] id = "R-DEP-002" -> LooseRangeRule(R)
    [] id = "R-DEP-010" -> GhostDependencyRule(R)
    [] id = "R-DEP-011" -> UnusedDependencyRule(R)
    [] id = "R-DEP-012" -> NotebookOnlyImportRule(R)
    [] id = "R-DEP-013" -> SystemDependencyRule(R)
    [] id = "R-DET-002" -> CudnnFlagsRule(R)
    [] id = "R-DET-003" -> StrictDeterminismRule(R)
    [] id = "R-DET-004" -> DataLoaderGeneratorRule(R)
    [] id = "R-DET-005" -> DataLoaderWorkerRule(R)
    [] id = "R-DET-006" -> SklearnRandomStateRule(R)
    [] id = "R-DOC-001" -> ReadmeSectionsRule(R)
    [] id = "R-DOC-002" -> HyperparametersDocumentedRule(R)
    [] id = "R-DOC-003" -> ExpectedResultsRule(R)
    [] id = "R-DRIFT-001" -> HyperparameterDriftRule(R)
    [] id = "R-DRIFT-002" -> AmbiguousConfigRule(R)
    [] id = "R-DRIFT-003" -> MissingHyperparameterRule(R)
    [] id = "R-DRIFT-004" -> DatasetDriftRule(R)
    [] id = "R-DRIFT-005" -> HardwareClaimRule(R)
    [] id = "R-DRIFT-006" -> AblationTraceRule(R)
    [] id = "R-ENV-001" -> DependencyPinningRule(R)
    [] id = "R-ENV-002" -> LockfileRule(R)
    [] id = "R-ENV-003" -> ContainerRule(R)
    [] id = "R-ENV-004" -> PythonVersionRule(R)
    [] id = "R-ENV-005" -> SystemLayerCapturedRule(R)
    [] id = "R-EXEC-001" -> EntrypointRule(R)
    [] id = "R-EXEC-002" -> RunnerRule(R)
    [] id = "R-EXEC-003" -> ReproduceCommandRule(R)
    [] id = "R-LIC-001" -> LicenseRule(R)
    [] id = "R-LIC-002" -> CitationRule(R)
    [] id = "R-LIC-003" -> ThirdPartyLicensesRule(R)
    [] id = "R-NB-001" -> ExecutionOrderRule(R)
    [] id = "R-NB-002" -> StaleOutputRule(R)
    [] id = "R-NB-003" -> HiddenStateRule(R)
    [] id = "R-NB-004" -> PipInstallCellRule(R)
    [] id = "R-NB-005" -> NotebookPathsRule(R)
    [] id = "R-NB-006" -> NotebookSeedRule(R)
    [] id = "R-NB-007" -> KernelMetadataRule(R)
    [] id = "R-NB-008" -> NotebookScriptTwinRule(R)
    [] id = "R-PORT-001" -> AbsolutePathRule(R)
    [] id = "R-PORT-002" -> LocalhostRule(R)
    [] id = "R-PORT-003" -> PrivateDataSourceRule(R)
    [] id = "R-PORT-004" -> SecretsRule(R)
    [] id = "R-PREC-001" -> TF32Rule(R)
    [] id = "R-PREC-002" -> AmpRule(R)
    [] id = "R-PREC-003" -> LowPrecisionCastRule(R)
    [] id = "R-PREC-004" -> MatmulPrecisionRule(R)
    [] id = "R-PREC-005" -> GpuHardwareBaselineRule(R)
    [] id = "R-RES-001" -> RoundingDifferenceRule(R)
    [] id = "R-RES-002" -> MaterialDifferenceRule(R)
    [] id = "R-RES-003" -> SingleRunRule(R)
    [] id = "R-RES-004" -> UnbackedMetricRule(R)
    [] id = "R-REMOTE-001" -> HFRevisionRule(R)
    [] id = "R-REMOTE-002" -> MutableRevisionRule(R)
    [] id = "R-REMOTE-003" -> TorchHubRule(R)
    [] id = "R-REMOTE-004" -> RawUrlRule(R)
    [] id = "R-REMOTE-005" -> RemoteResolutionRule(R)
    [] id = "R-RUN-001" -> ClaimCommandRule(R)
    [] id = "R-RUN-002" -> MaterializedConfigDriftRule(R)
    [] id = "R-RUN-003" -> SlurmRequirementsRule(R)
    [] id = "R-VER-001" -> GitRepositoryRule(R)
    [] id = "R-VER-002" -> TaggedReleaseRule(R)
    [] id = "R-VER-003" -> CommitReferenceRule(R)

RuleIds ==
  {"R-ARC-001", "R-ARC-002", "R-ARC-003", "R-CKPT-001", "R-CKPT-002", "R-CKPT-003",
   "R-CKPT-004", "R-CKPT-005", "R-DATA-001", "R-DATA-002", "R-DATA-003", "R-DATA-004",
   "R-DATA-005", "R-DATA-006", "R-DEP-001", "R-DEP-002", "R-DEP-010", "R-DEP-011",
   "R-DEP-012", "R-DEP-013", "R-DET-001", "R-DET-002", "R-DET-003", "R-DET-004",
   "R-DET-005", "R-DET-006", "R-DOC-001", "R-DOC-002", "R-DOC-003", "R-DRIFT-001",
   "R-DRIFT-002", "R-DRIFT-003", "R-DRIFT-004", "R-DRIFT-005", "R-DRIFT-006",
   "R-ENV-001", "R-ENV-002", "R-ENV-003", "R-ENV-004", "R-ENV-005", "R-EXEC-001",
   "R-EXEC-002", "R-EXEC-003", "R-LIC-001", "R-LIC-002", "R-LIC-003", "R-NB-001",
   "R-NB-002", "R-NB-003", "R-NB-004", "R-NB-005", "R-NB-006", "R-NB-007", "R-NB-008",
   "R-PORT-001", "R-PORT-002", "R-PORT-003", "R-PORT-004", "R-PREC-001", "R-PREC-002",
   "R-PREC-003", "R-PREC-004", "R-PREC-005", "R-RES-001", "R-RES-002", "R-RES-003",
   "R-RES-004", "R-REMOTE-001", "R-REMOTE-002", "R-REMOTE-003", "R-REMOTE-004",
   "R-REMOTE-005", "R-RUN-001", "R-RUN-002", "R-RUN-003", "R-VER-001", "R-VER-002",
   "R-VER-003"}
Verdicts(R) == [id \in RuleIds |-> Verdict(R, id)]

(* modes.py: the prerequisites of each badge.                                *)
Prerequisites ==
  [available |-> {"R-ARC-001", "R-LIC-001"},
   functional |-> {"R-EXEC-001", "R-EXEC-002", "R-DOC-001", "R-ENV-001", "R-DATA-002"},
   reusable |-> {"R-EXEC-001", "R-EXEC-002", "R-DOC-001", "R-ENV-001", "R-DATA-002",
                 "R-ENV-003", "R-DOC-003", "R-LIC-002"}]
Eligible(R, badge) == \A id \in Prerequisites[badge] : Verdict(R, id) = "pass"

(* reviewer_time.py: minutes until a reviewer sees something run, unless       *)
(* nothing tells how.                                                        *)
ToFirstResult(R) ==
  LET scripted == DownloadScripts(R) # {} \/ UsesDvc(R) \/ Calls(R, {"datasets.load_dataset"})
      documented == DatasetUrls(R) \/ HasSection(R, "data") \/ Datasets(R) # {}
      framework == Uses(R, {"torch", "tensorflow", "sklearn", "jax", "transformers"})
      costs == [runner |-> <<~ (RunScripts(R) # {} \/ MakefileTargets(R) # {} \/ SmokeCommand(R)), 10, 30>>,
                container |-> <<~ (Dockerfile(R) \/ Devcontainer(R) \/ CondaEnv(R)), 5, 20>>,
                pins |-> <<~ PinnedAtLeast(R, 90), 5, 15>>,
                install |-> <<~ HasReadme(R), 10, 20>>,
                fetch |-> <<~ scripted /\ documented, 5, 20>>,
                data |-> <<~ scripted /\ ~ documented /\ framework, 15, 45>>,
                drive |-> <<DownloadReferences(R, {"gdrive"}) # {}, 5, 15>>,
                hardware |-> <<~ (HardwareInReadme(R) \/ Environment(R, "hardware")), 3, 10>>]
      charged(n) == MapThenSumSet(LAMBDA k : IF costs[k][1] THEN costs[k][n] ELSE 0, DOMAIN costs)
      low == 3 + charged(2)
      high == 8 + charged(3)
      atLeast(m, n) == IF m > n THEN m ELSE n
      quick == IF SmokeCommand(R) THEN [low |-> atLeast(1, low - 5), high |-> atLeast(atLeast(1, low - 5) + 2, high - 20)]
               ELSE [low |-> low, high |-> high + 10]
      unstated == ~ ResultsTable(R) /\ ~ \E c \in Claims(R) : Says(R, c, "value")
  IN IF unstated THEN [low |-> quick.low + 2, high |-> quick.high + 8] ELSE quick
Unknown(R) == ~ HasReadme(R) /\ RunScripts(R) = {} /\ MakefileTargets(R) = {} /\ ~ ConsoleScripts(R)

----------------------------------------------------------------------------
(* The files the tools write, as the collectors read them.                   *)

(* seed_utils.py.j2: the torch half is there for a repository that uses it.   *)
SeedUtils(R) ==
  {<<"seed_utils.py", "import", i>> : i \in {"random", "numpy"}}
    \cup {<<"seed_utils.py", "call", c>> : c \in {"random.seed", "numpy.random.seed"}}
    \cup (IF ~ Uses(R, {"torch"}) THEN {<<"seed_utils.py", "import", "os">>}
          ELSE {<<"seed_utils.py", "import", "torch">>}
                 \cup {<<"seed_utils.py", "call", c>> :
                         c \in {"torch.manual_seed", "torch.cuda.manual_seed_all",
                                "torch.use_deterministic_algorithms(True)"}}
                 \cup {<<"seed_utils.py", "assign", a>> :
                         a \in {"cudnn.deterministic=True", "cudnn.benchmark=False"}})

DockerImage ==
  {<<"Dockerfile", "python">>, <<"Dockerfile", "sets", "PYTHONHASHSEED">>,
   <<"Dockerfile", "sets", "CUBLAS_WORKSPACE_CONFIG">>}

(* readme_sections.md.j2.  "Reproducing results" is a heading of usage and of *)
(* results; the placeholders name a GPU, a license and, in a git repository,  *)
(* its HEAD.                                                                 *)
ReadmeSections(R) ==
  LET without(key, facts) == IF HasSection(R, key) THEN {} ELSE facts
      section(key) == <<"README.md", "section", key>>
      says(what) == <<"README.md", "says", what>>
  IN without("install", {section("install")})
       \cup without("usage", {section("usage"), section("results"), says("run command")})
       \cup without("data", {section("data"), says("asset license")})
       \cup without("results", {section("results"), says("results table")})
       \cup without("hardware", {section("hardware"), says("hardware")}
                                  \cup (IF IsGit(R) THEN {says("commit")} ELSE {}))

Writes(R, tool) ==
  CASE tool = "seeds" -> [file |-> "seed_utils.py", holds |-> SeedUtils(R)]
    [] tool = "citation" -> [file |-> "CITATION.cff", holds |-> {<<"CITATION.cff", "file">>}]
    [] tool = "docker" -> [file |-> "Dockerfile", holds |-> DockerImage]
    [] tool = "runner" -> [file |-> "reproduce.sh", holds |-> {<<"reproduce.sh", "file">>}]
    [] tool = "readme" -> [file |-> "README.md", holds |-> ReadmeSections(R)]

(* The rules each scaffold is chosen for; `fix` knows no other scaffold.      *)
RuleToScaffold ==
  [seeds |-> {"R-DET-001", "R-DET-002", "R-DET-003", "R-DET-004", "R-DET-005"},
   citation |-> {"R-LIC-002"}, docker |-> {"R-ENV-003"}, runner |-> {"R-EXEC-002"},
   readme |-> {"R-DOC-001", "R-DOC-003", "R-PREC-001", "R-PREC-002", "R-PREC-005"}]
ASSUME ToolsAssumption == Tools \subseteq DOMAIN RuleToScaffold

(* manifest_builder.py: what scaffold_manifest drafts from the evidence.  Every *)
(* drafted claim quotes one command, the first the scripts hold or else the    *)
(* README's, with all that is in it, or else `make` and a target.             *)
Quotable(R) ==
  IF RunCommands(R) # {} THEN RunCommands(R) ELSE {<<"README.md", "says", "run command">>} \cap R
Quoted(R) ==
  IF Quotable(R) # {} THEN {{"command"} \cup {h \in Hits : Says(R, c, h)} : c \in Quotable(R)}
  ELSE {IF MakefileTargets(R) # {} THEN {"command"} ELSE {}}

(* One claim for every metric of the paper, or else one for the table of      *)
(* results, and what each of them carries.                                   *)
Entry(kind, v) == <<"manifest.yaml", kind, v>>
Drafted(R) ==
  LET metrics == {m[3] : m \in Facts(R, "paper.tex", "metric")}
  IN IF metrics # {} THEN {Entry("claim", m) : m \in metrics}
     ELSE IF ResultsTable(R) THEN {Entry("claim", "C1")} ELSE {}
Carried(R, quoted) ==
  (IF Facts(R, "paper.tex", "metric") # {} THEN {"value"} ELSE {})
    \cup quoted
    \cup (IF ConfigFiles(R) # {} THEN {"config"} ELSE {})
    \cup (IF Exists(R, "results/run.json") THEN {"results/run.json"}
          ELSE Files(R) \cap {"results/sweep.json"})
Draft(R, quoted) ==
  {<<"manifest.yaml", "file">>}
    \cup {Entry("environment", "precision") : e \in PrecisionEvents(R)}
    \cup {Entry("dataset", d) : d \in LoadedDatasets(R) \cup PaperDatasets(R)}
    \cup Drafted(R) \cup {Append(c, q) : c \in Drafted(R), q \in Carried(R, quoted)}

(* write_manifest: beside manifest.yaml, the same in manifest.json.           *)
Mirrored(f) == <<"manifest.json">> \o Tail(f)
Drafts(R, quoted) == Draft(R, quoted) \cup {Mirrored(f) : f \in Draft(R, quoted)}

----------------------------------------------------------------------------
Qualifies(g, f) == Len(g) >= Len(f) /\ SubSeq(g, 1, Len(f)) = f

Init == area \in Areas /\ repo = area.base

(* A qualifier needs what it qualifies, and goes with it.                     *)
Add(f) ==
  /\ f \notin repo
  /\ Len(f) = 4 => SubSeq(f, 1, 3) \in repo
  /\ repo' = repo \cup {f}
  /\ UNCHANGED area
Remove(f) ==
  /\ f \in repo
  /\ repo' = {g \in repo : ~ Qualifies(g, f)}
  /\ UNCHANGED area

Remedy == (\E f \in area.remedies : Add(f)) \/ (\E f \in area.flaws : Remove(f))
Change ==
  \/ \E f \in area.changes \cup area.flaws : Add(f)
  \/ \E f \in area.changes \cup area.remedies : Remove(f)

(* fixers/__init__.py: what exists is never overwritten; a README gets the     *)
(* sections it lacks.                                                        *)
Scaffold(tool) ==
  /\ tool \in Tools \cap area.tools
  /\ tool # "readme" => ~ Exists(repo, Writes(repo, tool).file)
  /\ repo' = repo \cup Writes(repo, tool).holds
  /\ repo' # repo
  /\ UNCHANGED area

(* `adduce manifest` refuses a repository that has either file.  Which command  *)
(* is the first is the order of files and lines, and left open.               *)
DraftManifest ==
  /\ "manifest" \in area.tools
  /\ ~ Exists(repo, "manifest.yaml") /\ ~ Exists(repo, "manifest.json")
  /\ \E quoted \in Quoted(repo) : repo' = repo \cup Drafts(repo, quoted)
  /\ UNCHANGED area

(* cli.py pin_remotes --write: each hub call without a revision gets the one   *)
(* that was resolved for it, file by file; a file is passed over when the     *)
(* codemod cannot parse it, and a changed one ends the command there.  A call *)
(* that names a branch counts as pinnable, and is left as it is.             *)
Pinned(R, resolved, files) ==
  {Append(a, "sha") :
     a \in {b \in Unpinned(R, Hub(R)) :
              ~ Says(R, b, "mutable-ref") /\ b[1] \in files /\ b[3] \in resolved}}

PinRemotes ==
  /\ "pin-remotes" \in area.tools
  /\ LET pinnable == Unpinned(repo, Hub(repo))
     IN \E resolved \in SUBSET Values(pinnable), files \in SUBSET {a[1] : a \in pinnable} :
          repo' = repo \cup Pinned(repo, resolved, files)
  /\ repo' # repo
  /\ UNCHANGED area

(* A commit makes HEAD another: what named the old one no longer does.         *)
Commit ==
  /\ "commit" \in area.tools
  /\ IsGit(repo)
  /\ LET current == {g \in repo : Len(g) = 4 /\ g[4] = "HEAD"}
     IN repo' = (repo \ (current \cup {<<".git", "tag at HEAD">>}))
                  \cup {[g EXCEPT ![4] = "old commit"] : g \in current}
  /\ repo' # repo
  /\ UNCHANGED area

Next ==
  Remedy \/ Change \/ (\E tool \in Tools : Scaffold(tool)) \/ DraftManifest \/ PinRemotes \/ Commit
Spec == Init /\ [][Next]_vars

----------------------------------------------------------------------------
NoWorse(before, after) ==
  before \in Assessed /\ after \in Assessed => Rank(after) >= Rank(before)

Unharmed(ids) ==
  LET before == Verdicts(repo)
      after == Verdicts(repo')
  IN \A id \in ids : NoWorse(before[id], after[id])

(* Answering a finding never costs: no rule that stays assessed falls, no      *)
(* badge's prerequisites are lost and no minute is added to the reviewer's     *)
(* time.                                                                     *)
RemediesNeverHurt ==
  [][Remedy =>
       /\ Unharmed(RuleIds)
       /\ \A b \in DOMAIN Prerequisites : Eligible(repo, b) => Eligible(repo', b)
       /\ ~ Unknown(repo) => ToFirstResult(repo').high <= ToFirstResult(repo).high]_vars

(* What the tools write lowers a verdict only where it must: seed_utils.py      *)
(* imports numpy, declared or not; a drafted claim with a value takes the      *)
(* place of the README's table of results; and a draft repeats the command it  *)
(* quotes in two more files, which counts its paths again, and its addresses   *)
(* and secrets for the first time when it stood where none are looked for.     *)
ToolsDoNoHarm ==
  [][/\ DraftManifest =>
          Unharmed(RuleIds \ ({"R-DOC-003"}
            \cup (IF \E c \in Quotable(repo) : Says(repo, c, "abs_path") THEN {"R-PORT-001"} ELSE {})
            \cup (IF Within(repo, Unscanned, "command") # {} THEN {"R-PORT-002", "R-PORT-004"}
                  ELSE {})))
     /\ PinRemotes => Unharmed(RuleIds)
     /\ \A tool \in Tools :
          Scaffold(tool) => Unharmed(RuleIds \ (IF tool = "seeds" THEN {"R-DEP-010"} ELSE {}))]_vars

(* The scaffold `fix --rule` chooses for a rule leaves it at least partly      *)
(* answered, except where it takes edits to the DataLoaders themselves, and    *)
(* the cuDNN flags of a repository that uses lightning without torch.  (The   *)
(* precision rules, never failing, are at least partly answered before.)      *)
ScaffoldsAnswerTheirRules ==
  [][\A tool \in Tools :
       Scaffold(tool) =>
         \A id \in RuleToScaffold[tool]
                    \ ({"R-DET-004", "R-DET-005"}
                         \cup (IF Uses(repo, {"torch"}) THEN {} ELSE {"R-DET-002"})) :
           Verdict(repo', id) # "fail"]_vars

(* Rules that read the same evidence do not contradict each other.            *)
RulesAgree ==
  LET card == Verdicts(repo)
      passes(id) == card[id] = "pass"
      applies(id) == card[id] # "not-applicable"
  IN /\ passes("R-RUN-001") => passes("R-EXEC-003")
     /\ passes("R-REMOTE-004") /\ applies("R-DATA-003") => passes("R-DATA-003")
     /\ passes("R-DATA-002") => passes("R-DATA-005")
     /\ passes("R-PREC-003") /\ applies("R-PREC-005") => passes("R-PREC-005")
     /\ passes("R-NB-001") /\ passes("R-NB-003") /\ applies("R-NB-002") => passes("R-NB-002")
     /\ card["R-DRIFT-001"] = "unknown" =>
          card["R-DRIFT-003"] = "partial" /\ card["R-DRIFT-002"] # "partial"
     /\ passes("R-RES-004") => card["R-RES-002"] # "unknown"
     /\ passes("R-ENV-002") /\ Declared(repo) => passes("R-ENV-001")

----------------------------------------------------------------------------
(* Why they hold                                                              *)

(* A repository is a finite set of sequences.                                 *)
TypeOK == area \in Areas /\ IsFiniteSet(repo) /\ \A f \in repo : IsFact(f)
=============================================================================
