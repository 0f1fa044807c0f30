------------------------------- MODULE Rules -------------------------------
(***************************************************************************)
(* The built-in rules of rules/: each operator is what the rule class of   *)
(* that name answers about a repository, a set of facts of Evidence.       *)
(* Confidence, wording and the locations of a finding are left out.        *)
(***************************************************************************)
EXTENDS Evidence, TLC

Assessed == {"pass", "partial", "fail"}
Rank(status) == CASE status = "pass" -> 2 [] status = "partial" -> 1 [] status = "fail" -> 0

(* The shapes a verdict takes: by two conditions, by the sites with a gap    *)
(* among all sites, by gaps that only ever warn, and only where it applies.  *)
Tiered(full, some) == IF full THEN "pass" ELSE IF some THEN "partial" ELSE "fail"
Warned(gaps) == IF gaps = {} THEN "pass" ELSE "partial"

\* Mutant of Shares: the two ways to have gaps are swapped.
SharesSwapped(gaps, sites) ==
  IF gaps = {} THEN "pass" ELSE IF gaps = sites THEN "partial" ELSE "fail"

Shares(gaps, sites) ==
  IF gaps = {} THEN "pass" ELSE IF gaps = sites THEN "fail" ELSE "partial"
Where(applies, verdict) == IF applies THEN verdict ELSE "not-applicable"

----------------------------------------------------------------------------
(* determinism.py                                                            *)
Umbrellas == {"lightning.seed_everything", "lightning.seed_everything(workers=True)",
              "transformers.set_seed"}
Umbrella(R) == Calls(R, Umbrellas)
CudaSeeds == {"torch.cuda.manual_seed_all", "torch.cuda.manual_seed"}

\* Mutant of Seeded: numpy's legacy seed is no seed.
SeededByGenerator(R, library) ==
  CASE library = "python" -> Calls(R, {"random.seed"}) \/ Umbrella(R)
    [] library = "numpy" -> Calls(R, {"numpy.random.default_rng"}) \/ Umbrella(R)
    [] library = "torch" -> Calls(R, {"torch.manual_seed"}) \/ Umbrella(R)
    [] library = "torch CUDA" -> Calls(R, CudaSeeds) \/ Umbrella(R)
    [] library \in {"tensorflow", "jax"} -> FALSE

(* The seed a library needs is there, or the library is not.                 *)
Seeded(R, library) ==
  CASE library = "python" -> Calls(R, {"random.seed"}) \/ Umbrella(R)
    [] library = "numpy" ->
         Calls(R, {"numpy.random.seed", "numpy.random.default_rng", "numpy.random.Generator"})
           \/ Umbrella(R)
    [] library = "torch" -> Calls(R, {"torch.manual_seed"}) \/ Umbrella(R)
    [] library = "torch CUDA" -> Calls(R, CudaSeeds) \/ Umbrella(R)
    [] library = "tensorflow" -> Calls(R, {"tensorflow.random.set_seed"})
    [] library = "jax" -> Calls(R, {"jax.random.PRNGKey", "jax.random.key"})

InPlay(R) ==
  (IF "random" \in Imports(R) \/ Uses(R, {"torch", "tensorflow", "jax", "lightning", "transformers"})
   THEN {"python"} ELSE {})
    \cup (Frameworks(R) \cap {"numpy", "torch", "tensorflow", "jax"})
    \cup (IF Uses(R, {"torch"}) THEN {"torch CUDA"} ELSE {})

SeedDeterminismRule(R) ==
  Where(Uses(R, {"torch", "tensorflow", "numpy", "sklearn", "jax", "lightning", "transformers"}),
    Tiered(\A l \in InPlay(R) : Seeded(R, l),
           \E l \in {"python", "numpy", "torch"} : Seeded(R, l)))

StrictAlgorithms(R) == Calls(R, {"torch.use_deterministic_algorithms(True)"})

CudnnFlagsRule(R) ==
  LET flags == Assigns(R) \cap {"cudnn.deterministic=True", "cudnn.benchmark=False"}
  IN Where(Uses(R, {"torch", "lightning"}),
       Tiered(\/ Cardinality(flags) = 2
              \/ StrictAlgorithms(R)
              \/ Calls(R, {"Trainer(deterministic=True)"}),
              flags # {}))

StrictDeterminismRule(R) ==
  LET variables == {"PYTHONHASHSEED", "CUBLAS_WORKSPACE_CONFIG"}
      set == {v \in variables : SetsAtProcessStart(R, v)}
  IN Where(Uses(R, {"torch"}),
       Tiered(StrictAlgorithms(R) /\ set = variables, StrictAlgorithms(R) \/ set # {}))

DataLoaderGeneratorRule(R) ==
  LET shuffling == {l \in DataLoaders(R) : Says(R, l, "shuffle") /\ ~ Says(R, l, "sampler")}
      gaps == {l \in shuffling : ~ Says(R, l, "generator")}
  IN Where(Uses(R, {"torch"}) /\ shuffling # {}, Shares(gaps, shuffling))

DataLoaderWorkerRule(R) ==
  LET workers == {l \in DataLoaders(R) : Says(R, l, "workers")}
      gaps == {l \in workers : ~ Says(R, l, "worker_init_fn")}
  IN Where(Uses(R, {"torch"}) /\ workers # {},
       IF Calls(R, {"lightning.seed_everything(workers=True)"}) THEN "pass" ELSE Warned(gaps))

SklearnRandomStateRule(R) ==
  Where(Uses(R, {"sklearn"}) /\ Estimators(R) # {},
    Shares({e \in Estimators(R) : ~ Says(R, e, "random_state")}, Estimators(R)))

----------------------------------------------------------------------------
(* deps.py                                                                   *)
Python(R) == PythonFiles(R) # {}
Stdlib == {"random", "os", "hashlib", "json"}

UnpinnedDependencyRule(R) ==
  Where(Python(R) /\ Dependencies(R) # {},
    IF HasLockfile(R) THEN "pass"
    ELSE Shares({d \in Dependencies(R) : Unbounded(R, d)}, Dependencies(R)))

NumericDists == {"torch", "tensorflow", "numpy", "scikit-learn", "jax", "transformers", "xgboost", "pandas"}
LooseRangeRule(R) ==
  Where(Python(R) /\ Dependencies(R) # {},
    IF HasLockfile(R) THEN "pass"
    ELSE Warned({d \in Dependencies(R) : ~ Exact(R, d) /\ d[3] \in NumericDists}))

Undeclared(R, roots) ==
  {i \in roots \ (Stdlib \cup ProjectModules(R)) : {i, DistOf(i)} \cap DeclaredDists(R) = {}}

GhostDependencyRule(R) ==
  LET ghosts == Undeclared(R, Imports(R))
  IN Where(Python(R) /\ Declared(R), Tiered(ghosts = {}, Cardinality(ghosts) <= 2))

NotebookImports(R) ==
  {a[3] : a \in {b \in R : b[2] = "cell import" /\ <<b[1], "broken">> \notin R}}
NeverFlag == {"pytest"}
UnusedDependencyRule(R) ==
  LET imported == Imports(R) \cup {DistOf(i) : i \in Imports(R) \cup NotebookImports(R)}
  IN Where(Python(R) /\ Dependencies(R) # {}, Warned(DeclaredDists(R) \ (imported \cup NeverFlag)))

SystemTools == {"ffmpeg", "wget"}
SystemDependencyRule(R) ==
  LET invoked == Values(Within(R, Modules(R), "runs")) \cap SystemTools
  IN Where(Python(R) /\ invoked # {}, IF Dockerfile(R) \/ CondaEnv(R) THEN "pass" ELSE "partial")

----------------------------------------------------------------------------
(* env.py                                                                    *)
DependencyPinningRule(R) ==
  Where(Python(R),
    IF Declared(R) /\ Dependencies(R) = {} /\ ~ HasLockfile(R) THEN "unknown"
    ELSE Tiered(Declared(R) /\ PinnedAtLeast(R, 90),
                Declared(R) /\ PinnedAtLeast(R, 40)))

LockfileRule(R) ==
  Where(Python(R),
    Tiered(HasLockfile(R) \/ (Dependencies(R) # {} /\ PinnedAtLeast(R, 99)), FALSE))

ContainerRule(R) == Where(Python(R), Tiered(Dockerfile(R) \/ Devcontainer(R), CondaEnv(R)))
PythonVersionRule(R) == Where(Python(R), Tiered(PythonVersion(R), FALSE))

HardwareInReadme(R) == HardwareInline(R) \/ HasSection(R, "hardware")
SystemLayerCapturedRule(R) ==
  Where(Uses(R, {"torch", "tensorflow", "jax", "lightning"}),
    Tiered(Dockerfile(R) \/ CondaEnv(R) \/ Environment(R, "cuda"), HardwareInReadme(R)))

----------------------------------------------------------------------------
(* exec_.py                                                                  *)
EntrypointRule(R) ==
  Where(Python(R), Tiered(Entrypoints(R) # {} \/ ConsoleScripts(R), MainGuards(R) # {}))

RunnerRule(R) ==
  Where(Python(R), Tiered(RunScripts(R) # {} \/ MakefileTargets(R) # {}, RunCommandsDocumented(R)))

ReproduceCommandRule(R) ==
  Where(Python(R),
    Tiered(\E c \in Claims(R) : Confirmed(R, c) /\ Says(R, c, "command"),
           \/ \E c \in Claims(R) : Says(R, c, "command")
           \/ RunCommandsDocumented(R) \/ RunCommands(R) # {}))

----------------------------------------------------------------------------
(* docs.py                                                                   *)
ReadmeSectionsRule(R) ==
  LET missing == {s \in {"install", "usage", "hardware"} : ~ HasSection(R, s)}
                   \ (IF HardwareInline(R) THEN {"hardware"} ELSE {})
  IN Tiered(HasReadme(R) /\ missing = {}, HasReadme(R) /\ Cardinality(missing) < 3)

HyperparametersDocumentedRule(R) ==
  Tiered(ConfigFiles(R) # {} \/ Materialized(R) # {}, CliArgs(R) # {} \/ DataclassDefaults(R) # {})

ExpectedResultsRule(R) ==
  LET stated == {c \in Claims(R) : Says(R, c, "value")}
  IN IF stated # {} THEN Tiered(\E c \in stated : Confirmed(R, c), TRUE)
     ELSE Tiered(HasSection(R, "results") /\ ResultsTable(R), HasSection(R, "results") \/ ResultsTable(R))

----------------------------------------------------------------------------
(* data.py                                                                   *)
DataRepo(R) == Uses(R, {"torch", "tensorflow", "sklearn", "jax", "lightning", "transformers", "xgboost", "pandas"})
DatasetLoaders(R) ==
  Calls(R, {"datasets.load_dataset", "sklearn.datasets.fetch_openml", "torchvision.datasets.CIFAR10"})
BoundChecksums(R) ==
  {r \in DownloadReferences(R, Downloads) : Says(R, r, "checksum")}

DataProvenanceRule(R) ==
  LET signals == Cardinality({s \in {1, 2, 3, 4} :
                   CASE s = 1 -> Datasets(R) # {} [] s = 2 -> DatasetUrls(R)
                     [] s = 3 -> HasSection(R, "data") [] s = 4 -> DatasetLoaders(R)})
  IN Where(DataRepo(R), Tiered(signals >= 2 \/ Datasets(R) # {}, signals >= 1))

ScriptedData(R) == DownloadScripts(R) # {} \/ UsesDvc(R) \/ DatasetLoaders(R)
DownloadPathRule(R) ==
  Where(DataRepo(R), Tiered(ScriptedData(R), DatasetUrls(R) \/ HasSection(R, "data")))

DatasetChecksums(R) == {d \in Datasets(R) : Says(R, d, "checksum")}
DataIntegrityRule(R) ==
  Where(DataRepo(R),
    Tiered(UsesDvc(R) \/ BoundChecksums(R) # {},
           \/ DatasetChecksums(R) # {} \/ ChecksumFiles(R) # {}
           \/ UsesHashlib(R) /\ DownloadScripts(R) # {}))

CommittedBinariesRule(R) == Shares(UntrackedBinaries(R), LargeBinaries(R))

DataFrictionRule(R) ==
  LET checksummed == UsesDvc(R) \/ BoundChecksums(R) # {} \/ DatasetChecksums(R) # {}
      documented == DatasetUrls(R) \/ HasSection(R, "data") \/ Datasets(R) # {}
  IN Where(DataRepo(R), Tiered(ScriptedData(R) \/ (documented /\ checksummed), documented))

RawProcessedRule(R) ==
  Where(DataRepo(R) /\ DataDirectory(R), IF DataMarkers(R) THEN "pass" ELSE "partial")

----------------------------------------------------------------------------
(* licensing.py, archival.py                                                 *)
LicenseRule(R) == Tiered(LicenseFile(R), FALSE)
CitationRule(R) == Tiered(CitationFile(R), ReadmeSays(R, "bibtex") \/ HasSection(R, "citation"))

ThirdPartyLicensesRule(R) ==
  Where(/\ Uses(R, {"torch", "tensorflow", "sklearn", "jax", "transformers", "lightning", "pandas"})
        /\ RemoteReferences(R) # {} \/ Datasets(R) # {} \/ DatasetUrls(R),
    Tiered(\E d \in Datasets(R) : Says(R, d, "license"), AssetLicensing(R)))

ArchivalIdentifierRule(R) == Tiered(ArchivalDoi(R), Dois(R) # {})

(* The deposit budget of the whole tree is left out: what exceeds it is a    *)
(* file over 200 MiB.                                                        *)
ArchivableAsIsRule(R) == Warned({f \in UntrackedBinaries(R) : <<f, "over 200 MiB">> \in R})

ArchivalMetadataRule(R) ==
  LET present == Files(R) \cap {".zenodo.json", "codemeta.json"}
  IN Tiered(Cardinality(present) = 2, present # {})

----------------------------------------------------------------------------
(* checkpoint.py: what the dictionaries handed to torch.save hold.           *)
CheckpointRule(R, key) ==
  LET visible == {s \in TorchSaves(R) : Says(R, s, "dict") \/ Says(R, s, "state_dict")}
  IN Where(Uses(R, {"torch"}) /\ TorchSaves(R) # {},
       IF visible = {} THEN "unknown"
       ELSE IF \E s \in visible : Says(R, s, "dict") /\ Says(R, s, key) THEN "pass" ELSE "partial")

----------------------------------------------------------------------------
(* notebook.py.  Notebooks that cannot be parsed only keep the rules         *)
(* applicable.                                                               *)
Companions ==
  [n \in {"explore.ipynb", "plots.ipynb"} |->
     IF n = "explore.ipynb" THEN {"explore.py", "explore.md"} ELSE {"plots.py", "plots.md"}]
Notebooks(R) == Files(R) \cap DOMAIN Companions
Parsed(R) == {n \in Notebooks(R) : <<n, "broken">> \notin R}
Cells(R, what) == {n \in Parsed(R) : <<n, what>> \in R}
Disordered(R) == Cells(R, "executed out of order")
Gapped(R) == Cells(R, "gaps in the counts")
Executed(R) == Cells(R, "executed") \cup Disordered(R) \cup Gapped(R)
WithOutputs(R) == Cells(R, "outputs")

ExecutionOrderRule(R) == Where(Executed(R) # {}, Warned(Disordered(R)))
StaleOutputRule(R) ==
  Where(WithOutputs(R) # {}, Warned(WithOutputs(R) \cap (Disordered(R) \cup Gapped(R))))
HiddenStateRule(R) == Where(Executed(R) # {}, Warned(Gapped(R)))
PipInstallCellRule(R) == Where(Notebooks(R) # {}, Warned(Cells(R, "pip install")))
NotebookPathsRule(R) == Where(Notebooks(R) # {}, Warned(Cells(R, "absolute path")))
NotebookSeedRule(R) ==
  LET random == Cells(R, "randomness")
  IN Where(random # {}, Warned(random \ Cells(R, "seed first")))
KernelMetadataRule(R) ==
  Where(Parsed(R) # {}, Warned(Parsed(R) \ (Cells(R, "kernelspec") \cap Cells(R, "language_info"))))
NotebookScriptTwinRule(R) ==
  Where(WithOutputs(R) # {}, Warned({n \in WithOutputs(R) : Files(R) \cap Companions[n] = {}}))

NotebookOnlyImportRule(R) ==
  Where(Parsed(R) # {} /\ Declared(R), Warned(Undeclared(R, NotebookImports(R))))

----------------------------------------------------------------------------
(* remote.py; the check is offline.  A branch or tag named by a call takes    *)
(* the place of the commit it named before.                                  *)
Hub(R) == HubReferences(R, {"hf", "sentence_transformers"})
Unpinned(R, references) ==
  {r \in references : ~ Says(R, r, "sha") \/ Says(R, r, "mutable-ref")}

HFRevisionRule(R) == Where(Hub(R) # {}, Shares(Unpinned(R, Hub(R)), Hub(R)))
MutableRevisionRule(R) ==
  Where(Hub(R) # {}, Warned({r \in Unpinned(R, Hub(R)) : Says(R, r, "mutable-ref")}))
TorchHubRule(R) ==
  LET references == HubReferences(R, {"torch_hub"})
  IN Where(Uses(R, {"torch"}) /\ references # {}, Shares(Unpinned(R, references), references))
RawUrlRule(R) ==
  LET references == DownloadReferences(R, Downloads)
  IN Where(references # {}, Shares(references \ BoundChecksums(R), references))
RemoteResolutionRule(R) == Where(RemoteReferences(R) # {}, "unknown")

----------------------------------------------------------------------------
(* portability.py, versioning.py                                             *)
AbsolutePathRule(R) ==
  LET hits == PortabilityHits(R, "abs_path")
  IN Where(Python(R), Tiered(hits = {}, Cardinality(hits) <= 2))
LocalhostRule(R) == Where(Python(R), Warned(PortabilityHits(R, "localhost")))
PrivateDataSourceRule(R) == Warned(DownloadReferences(R, {"gdrive", "bucket"}))
SecretsRule(R) == Tiered(PortabilityHits(R, "secret") = {}, FALSE)

GitRepositoryRule(R) == Tiered(IsGit(R), FALSE)
TaggedReleaseRule(R) == Where(IsGit(R), Tiered(Tagged(R), FALSE))

(* A confirmed claim's commit is HEAD, another commit, or no commit at all.   *)
CommitReferenceRule(R) ==
  LET citing(what) == {c \in Claims(R) : Confirmed(R, c) /\ Says(R, c, what)}
      current == citing("HEAD")
      stale == citing("old commit") \ current
      invalid == citing("no commit") \ (current \cup stale)
  IN IF current \cup stale \cup invalid # {}
     THEN Tiered(stale \cup invalid = {}, current \cup stale # {})
     ELSE Tiered(ReadmeSays(R, "commit"), Tagged(R))

----------------------------------------------------------------------------
(* precision.py                                                              *)
PrecisionDocumented(R) ==
  Environment(R, "precision") \/ PaperSays(R, "precision") \/ HasSection(R, "precision")
HardwareDocumented(R) ==
  Environment(R, "hardware") \/ HardwareInReadme(R) \/ PaperSays(R, "hardware")

PrecisionRule(R, kinds, documented) ==
  Where(Uses(R, {"torch", "lightning", "transformers"}) /\ PrecisionEvents(R) \cap kinds # {},
    IF documented THEN "pass" ELSE "partial")

TF32Rule(R) == PrecisionRule(R, {"tf32", "matmul_precision"}, PrecisionDocumented(R))
AmpRule(R) == PrecisionRule(R, {"autocast", "grad_scaler"}, PrecisionDocumented(R))

\* Mutant of LowPrecisionCastRule: the second look, at the hardware, is gone.
LowPrecisionCastRuleOfNotes(R) ==
  PrecisionRule(R, {"cast", "trainer_flag", "deepspeed"}, PrecisionDocumented(R))

LowPrecisionCastRule(R) ==
  PrecisionRule(R, {"cast", "trainer_flag", "deepspeed"},
                PrecisionDocumented(R) /\ HardwareDocumented(R))
MatmulPrecisionRule(R) ==
  Where(Uses(R, {"torch"}) /\ "matmul_precision" \in PrecisionEvents(R),
    IF PrecisionDocumented(R) THEN "pass" ELSE "partial")

CudaCalls == CudaSeeds \cup {"torch.cuda.is_available"}
GpuHardwareBaselineRule(R) ==
  Where(/\ Uses(R, {"torch", "tensorflow", "jax", "lightning"})
        /\ Calls(R, CudaCalls) \/ PrecisionEvents(R) # {} \/ SlurmGpu(R),
    IF HardwareDocumented(R) THEN "pass" ELSE "partial")

----------------------------------------------------------------------------
(* run.py                                                                    *)
ClaimCommandRule(R) ==
  LET confirmed == {c \in Claims(R) : Confirmed(R, c)}
  IN Where(Python(R) /\ (Claims(R) # {} \/ Paper(R) \/ ResultsTable(R)),
       IF Claims(R) # {}
       THEN Tiered(confirmed # {} /\ \A c \in confirmed : Says(R, c, "command"), TRUE)
       ELSE Tiered(FALSE, RunCommands(R) # {} \/ RunCommandsDocumented(R)))

(* drift.py: the values a hyperparameter has, by its name: the authority of a  *)
(* run record (3) over a config (2) over a default (1).  Two values match when *)
(* the paper's is the other, rounded; here each stands for all that round to   *)
(* it.  An argument without a numeric default has no value.                    *)
Hyperparameters == {"lr", "batch_size"}
PaperValues(R, name) == Values(Facts(R, "paper.tex", name))
RunValues(R, name) == Values(Facts(R, RunRecord, name))
ConfigValues(R, name) == Values(Within(R, ConfigFiles(R), name))
DefaultValues(R, name) ==
  {a[4] : a \in {b \in R : /\ Len(b) = 4 /\ b[3] = name
                          /\ SubSeq(b, 1, 3) \in CliArgs(R) \cup DataclassDefaults(R)}}
Linked(R) == \E c \in Claims(R) : Confirmed(R, c) /\ Says(R, c, "run record")

Candidates(R, name, authority) ==
  CASE authority = 3 -> IF Linked(R) THEN RunValues(R, name) ELSE {}
    [] authority = 2 -> ConfigValues(R, name)
    [] authority = 1 -> DefaultValues(R, name)

Authorities(R, name) == {a \in 1 .. 3 : Candidates(R, name, a) # {}}
Stated(R) == {name \in Hyperparameters : PaperValues(R, name) # {}}
Missing(R) == {name \in Stated(R) : Authorities(R, name) = {}}

MaterializedConfigDriftRule(R) ==
  Where(Python(R) /\ Materialized(R) # {},
    Warned({name \in Hyperparameters :
              ConfigValues(R, name) # {} /\ ~ RunValues(R, name) \subseteq ConfigValues(R, name)}))
SlurmRequirementsRule(R) ==
  Where(Python(R) /\ SlurmScripts(R) # {},
    IF HardwareInReadme(R) \/ Environment(R, "hardware") THEN "pass" ELSE "partial")

(* Only what the highest authority on a name says counts, name by name.        *)
Drifted(R) ==
  {name \in Stated(R) \ Missing(R) :
     ~ PaperValues(R, name) \subseteq Candidates(R, name, Max(Authorities(R, name)))}

HyperparameterDriftRule(R) ==
  Where(Stated(R) # {},
    IF Stated(R) = Missing(R) THEN "unknown"
    ELSE Tiered(Drifted(R) = {}, \A name \in Drifted(R) : Authorities(R, name) = {1}))

Ambiguous(R) ==
  {name \in Stated(R) : Cardinality(ConfigValues(R, name)) > 1 /\ Candidates(R, name, 3) = {}}
AmbiguousConfigRule(R) ==
  LET resolved == /\ Claims(R) # {}
                  /\ \A c \in Claims(R) :
                       Confirmed(R, c) /\ (Says(R, c, "config") \/ Says(R, c, "run record"))
  IN Where(Stated(R) # {}, IF resolved THEN "pass" ELSE Warned(Ambiguous(R)))
MissingHyperparameterRule(R) == Where(Stated(R) # {}, Warned(Missing(R)))

(* A call names a dataset by its first argument, not by its revision.          *)
Revisions == {"sha", "mutable-ref"}
DatasetCalls(R) == {a \in Within(R, Modules(R), "call") : a[3] = "datasets.load_dataset"}
LoadedDatasets(R) ==
  {a[4] : a \in {b \in R : Len(b) = 4 /\ SubSeq(b, 1, 3) \in DatasetCalls(R)
                               /\ b[4] \notin Revisions}}
    \cup (IF Calls(R, {"torchvision.datasets.CIFAR10"}) THEN {"cifar10"} ELSE {})
DatasetTokens(R) ==
  LoadedDatasets(R) \cup Values(Datasets(R)) \cup Values(Within(R, ConfigFiles(R), "dataset"))
PaperDatasets(R) == Values(Facts(R, "paper.tex", "dataset"))
DatasetDriftRule(R) ==
  Where(PaperDatasets(R) # {},
    IF PaperDatasets(R) \cap DatasetTokens(R) # {} THEN "pass"
    ELSE IF DatasetTokens(R) = {} THEN "unknown" ELSE "partial")
HardwareClaimRule(R) ==
  Where(PaperSays(R, "hardware") \/ PaperSays(R, "runtime"),
    IF Environment(R, "hardware") \/ HardwareInReadme(R) \/ SlurmGpu(R) THEN "pass" ELSE "partial")
AblationTraceRule(R) ==
  Where(PaperSays(R, "ablation"), IF AblationTraced(R) THEN "pass" ELSE "partial")

----------------------------------------------------------------------------
(* reconcile.py: the metric the paper and the claims state, against the logs. *)
(* A logged value is the stated one, rounds to it, is within two per cent of  *)
(* it, or is far from it.                                                    *)
Distance == [same |-> 0, rounds |-> 1, near |-> 2, far |-> 3]
Statements(R) ==
  LET claimed == {c \in Claims(R) : Says(R, c, "value")}
  IN IF claimed # {} THEN claimed ELSE Facts(R, "paper.tex", "metric")
Reconcilable(R) == (Paper(R) \/ Claims(R) # {}) /\ ResultsPresent(R)
Backed(R) == {s \in Statements(R) : Logged(R, s) # {}}

RoundingDifferenceRule(R) ==
  Where(Reconcilable(R) /\ \E s \in Statements(R) : "rounds" \in Logged(R, s), "pass")
MaterialDifferenceRule(R) ==
  Where(Reconcilable(R),
    IF Backed(R) = {} THEN "unknown" ELSE Warned({s \in Backed(R) : Logged(R, s) = {"far"}}))
SingleRunRule(R) ==
  Where(Uses(R, {"torch", "tensorflow", "sklearn", "jax", "lightning", "transformers"}),
    IF \/ \E c \in Claims(R) : Confirmed(R, c) /\ Says(R, c, "seeds")
       \/ Cardinality(SeedsSwept(R)) > 1
    THEN "pass"
    ELSE IF Paper(R) \/ Claims(R) # {} \/ RunCommands(R) # {} THEN "partial" ELSE "unknown")
UnbackedMetricRule(R) ==
  Where(Reconcilable(R) /\ Statements(R) # {}, Warned(Statements(R) \ Backed(R)))
=============================================================================
