------------------------------ MODULE Evidence ------------------------------
(***************************************************************************)
(* What the collectors of evidence/ read out of a repository.  A           *)
(* repository is a set of facts, each a sequence of strings: a file, the   *)
(* kind of thing the file holds, and what it holds, as in                  *)
(* <<"train.py", "call", "torch.manual_seed">>.  A longer fact qualifies   *)
(* the one it extends (<<..., "loader", "a", "shuffle">>), and an empty    *)
(* file is <<file, "file">>.  The regular expressions and the parsers are  *)
(* left out: a fact is what they match.                                    *)
(***************************************************************************)
EXTENDS Naturals, Sequences, FiniteSetsExt

Facts(R, file, kind) == {a \in R : a[1] = file /\ a[2] = kind /\ Len(a) = 3}
Within(R, files, kind) == {a \in R : a[1] \in files /\ a[2] = kind /\ Len(a) = 3}
Values(facts) == {a[3] : a \in facts}
Says(R, fact, qualifier) == Append(fact, qualifier) \in R

Exists(R, file) == \E a \in R : a[1] = file
Files(R) == {a[1] : a \in R}

----------------------------------------------------------------------------
(* python_ast.py.  A call site counts wherever it stands: the names called   *)
(* inside a function are call sites of the module themselves.                *)
PythonNames == {"train.py", "model.py", "explore.py", "download_data.py", "seed_utils.py"}
EntrypointNames == {"train.py"}
DownloadNames == {"download_data.py"}

PythonFiles(R) == Files(R) \cap PythonNames

(* The modules that parse.  Nothing is kept of one that does not.            *)
Modules(R) == {f \in PythonFiles(R) : <<f, "syntax error">> \notin R}

Imports(R) == Values(Within(R, Modules(R), "import"))
CallSites(R) == Values(Within(R, Modules(R), "call"))
Calls(R, names) == CallSites(R) \cap names # {}
Assigns(R) == Values(Within(R, Modules(R), "assign"))
MainGuards(R) == {f \in Modules(R) : <<f, "main guard">> \in R}
CliArgs(R) == Within(R, Modules(R), "argument")
DataclassDefaults(R) == Within(R, Modules(R), "default")
TorchSaves(R) == Within(R, Modules(R), "torch.save")
Estimators(R) == Within(R, Modules(R), "estimator")

(* Only where the module imports torch is it torch's DataLoader.             *)
DataLoaders(R) ==
  {a \in Within(R, Modules(R), "loader") : <<a[1], "import", "torch">> \in R}

ProjectModules(R) ==
  {CASE f = "train.py" -> "train" [] f = "model.py" -> "model" [] f = "explore.py" -> "explore"
     [] f = "download_data.py" -> "download_data" [] OTHER -> "seed_utils" : f \in PythonFiles(R)}

----------------------------------------------------------------------------
(* dependencies.py: a requirement and, as qualifiers, how it is pinned.      *)
Lockfiles == {"uv.lock"}
Declarers == {"requirements.txt", "environment.yml", "pyproject.toml"}

Dependencies(R) == Within(R, Declarers, "requires")
Exact(R, d) == Says(R, d, "==")
Bounded(R, d) == ~ Exact(R, d) /\ Says(R, d, "~=")
Unbounded(R, d) == ~ Exact(R, d) /\ ~ Bounded(R, d)

HasLockfile(R) == Files(R) \cap Lockfiles # {}
Declared(R) ==
  \/ \E f \in {"requirements.txt", "environment.yml", "setup.py"} : Exists(R, f)
  \/ Facts(R, "pyproject.toml", "requires") # {}

(* pinned_fraction >= percent / 100, with halves for the bounded ones        *)
PinnedAtLeast(R, percent) ==
  \/ HasLockfile(R)
  \/ LET deps == Dependencies(R)
     IN /\ deps # {}
        /\ 100 * Cardinality({d \in deps : Exact(R, d)})
             + 50 * Cardinality({d \in deps : Bounded(R, d)}) >= percent * Cardinality(deps)

PythonVersion(R) ==
  \/ \E f \in {"pyproject.toml", "environment.yml", ".python-version"} : <<f, "python">> \in R
  \/ <<"Dockerfile", "python">> \in R

(* The import roots and the distributions that differ from them.             *)
DistOf(root) == IF root = "sklearn" THEN "scikit-learn" ELSE root
DeclaredDists(R) == Values(Dependencies(R))

----------------------------------------------------------------------------
(* model.py and _detect_frameworks                                           *)
FrameworkImports ==
  [torch |-> "torch", torchvision |-> "torch", lightning |-> "lightning", tensorflow |-> "tensorflow",
   jax |-> "jax", numpy |-> "numpy", sklearn |-> "sklearn", pandas |-> "pandas",
   transformers |-> "transformers", datasets |-> "transformers", xgboost |-> "xgboost"]
FrameworkDists ==
  [d \in (DOMAIN FrameworkImports \ {"datasets"}) \cup {"scikit-learn"} |->
     IF d = "scikit-learn" THEN "sklearn" ELSE FrameworkImports[d]]

Frameworks(R) ==
  {FrameworkImports[i] : i \in Imports(R) \cap DOMAIN FrameworkImports}
    \cup {FrameworkDists[d] : d \in DeclaredDists(R) \cap DOMAIN FrameworkDists}
Uses(R, frameworks) == Frameworks(R) \cap frameworks # {}

----------------------------------------------------------------------------
(* environment.py                                                            *)
Shells == {"run.sh", "reproduce.sh"}
\* Mutant of RunScripts: only a run*.sh is a runner.
RunScriptsByOneName(R) == Files(R) \cap {"run.sh"}

RunScripts(R) == Files(R) \cap Shells
MakefileTargets(R) == Facts(R, "Makefile", "target")
Entrypoints(R) == Files(R) \cap EntrypointNames
ConsoleScripts(R) == <<"pyproject.toml", "scripts">> \in R
Dockerfile(R) == Exists(R, "Dockerfile")
Devcontainer(R) == Exists(R, ".devcontainer.json")
CondaEnv(R) == Exists(R, "environment.yml")
Launchers == {"Dockerfile", "Makefile", "run.sh", "reproduce.sh"}
SetsAtProcessStart(R, name) == \E f \in Launchers : <<f, "sets", name>> \in R

----------------------------------------------------------------------------
(* docs.py.  The project's title, the first heading of level 1, is no        *)
(* section whatever it says.                                                 *)
HasReadme(R) == Exists(R, "README.md")
HasSection(R, key) == <<"README.md", "section", key>> \in R
ReadmeSays(R, what) == <<"README.md", "says", what>> \in R
RunCommandsDocumented(R) == ReadmeSays(R, "run command")
HardwareInline(R) == ReadmeSays(R, "hardware")
ResultsTable(R) == ReadmeSays(R, "results table")
Dois(R) == Facts(R, "README.md", "doi")
LicenseFile(R) == Exists(R, "LICENSE")
CitationFile(R) == Exists(R, "CITATION.cff")
AssetLicensing(R) == ReadmeSays(R, "asset license")

(* git.py                                                                    *)
IsGit(R) == Exists(R, ".git")
Tagged(R) == <<".git", "tag at HEAD">> \in R
ArchivalDoi(R) == <<"README.md", "doi", "zenodo">> \in R \/ Exists(R, ".zenodo.json")

----------------------------------------------------------------------------
(* data.py                                                                   *)
UsesDvc(R) == Exists(R, "dvc.yaml")
DownloadScripts(R) == Files(R) \cap DownloadNames
ChecksumFiles(R) == Files(R) \cap {"SHA256SUMS.txt"}
DatasetUrls(R) == ReadmeSays(R, "dataset host")
UsesHashlib(R) == "hashlib" \in Imports(R)
DataDirectory(R) == \E a \in R : a[2] = "in data/"
DataMarkers(R) == \E a \in R : a[2] = "in data/" /\ Len(a) = 3 /\ a[3] = "raw"

(* Only what git tracks is committed; a pointer or an LFS pattern covers it. *)
Binaries == {"model.pt", "corpus.csv"}
LargeBinaries(R) ==
  {f \in Files(R) \cap Binaries : IsGit(R) => <<f, "tracked">> \in R}
UntrackedBinaries(R) == {f \in LargeBinaries(R) : <<f, "lfs">> \notin R}

----------------------------------------------------------------------------
(* config.py, latex.py, precision.py, portability.py                         *)
ConfigFiles(R) == Files(R) \cap {"config.yaml", "ds_config.json"}
Deepspeed(R) == <<"ds_config.json", "fp16">> \in R

Paper(R) == Exists(R, "paper.tex")
PaperSays(R, what) == <<"paper.tex", "says", what>> \in R

PrecisionEvents(R) ==
  Values(Within(R, Modules(R), "precision")) \cup (IF Deepspeed(R) THEN {"deepspeed"} ELSE {})

(* A command carries what it holds as qualifiers, and so does what quotes it.  *)
(* Makefiles and job files have no suffix that is scanned.                    *)
Hits == {"abs_path", "localhost", "secret"}
Unscanned == {"Makefile", "job.slurm"}
PortabilityHits(R, kind) ==
  {a \in R : a[1] \notin Unscanned /\ (a[2] = kind \/ (Len(a) = 4 /\ a[4] = kind))}

----------------------------------------------------------------------------
(* manifest.py: nothing is read of a manifest that is not valid.  A claim's   *)
(* qualifiers are what the author filled in; "value" is its metric's value,   *)
(* the one the paper states.                                                 *)
Manifest(R, kind) ==
  IF <<"manifest.yaml", "invalid">> \in R THEN {} ELSE Facts(R, "manifest.yaml", kind)
Claims(R) == Manifest(R, "claim")
Confirmed(R, c) == Says(R, c, "confirmed")
Datasets(R) == Manifest(R, "dataset")
Environment(R, what) == \E a \in Manifest(R, "environment") : a[3] = what
SmokeCommand(R) == Manifest(R, "smoke") # {}

----------------------------------------------------------------------------
(* remote.py.  Code names an artifact in a call, and pins it by a commit; a   *)
(* line of a script downloads one, and pins it by a checksum.  The calls are  *)
(* those of modules that parse, the lines those of every file.               *)
HubCalls == [hf |-> {"transformers.AutoModel.from_pretrained", "datasets.load_dataset"},
             torch_hub |-> {"torch.hub.load"},
             sentence_transformers |-> {"sentence_transformers.SentenceTransformer"}]
Downloads == {"url", "gdrive", "bucket"}

HubReferences(R, kinds) ==
  {a \in Within(R, Modules(R), "call") : \E k \in kinds : a[3] \in HubCalls[k]}
DownloadReferences(R, kinds) ==
  {a \in Within(R, PythonFiles(R) \cup Shells \cup {"Makefile"}, "downloads") : a[3] \in kinds}
RemoteReferences(R) == HubReferences(R, DOMAIN HubCalls) \cup DownloadReferences(R, Downloads)

----------------------------------------------------------------------------
(* run_history.py                                                            *)
CommandFiles == Shells \cup {"Makefile", "job.slurm"}
RunCommands(R) == Within(R, CommandFiles, "command")
SeedsSwept(R) == Values(Within(R, CommandFiles, "seed"))
SlurmScripts(R) == {f \in CommandFiles : Facts(R, f, "sbatch") # {}}
SlurmGpu(R) == "gpu" \in Values(Within(R, CommandFiles, "sbatch"))
RunRecord == "outputs/.hydra/config.yaml"
Materialized(R) == Files(R) \cap {RunRecord}
AblationTraced(R) ==
  Exists(R, "ablation.sh") \/ \E c \in RunCommands(R) : c[3] = "ablation"

(* results.py                                                                *)
ResultFiles == {"results/run.json", "results/sweep.json"}
ResultsPresent(R) ==
  \/ Within(R, ResultFiles, "accuracy") # {}
  \/ Files(R) \cap {"events.out.tfevents", "wandb", "mlruns"} # {}

(* What a statement is compared with: only the logs that a confirmed claim    *)
(* names as its own, if it names one.                                        *)
Logged(R, statement) ==
  LET own == {f \in ResultFiles : /\ statement \in Claims(R)
                                  /\ Confirmed(R, statement) /\ Says(R, statement, f)}
  IN Values(Within(R, IF own # {} THEN own ELSE ResultFiles, "accuracy"))
=============================================================================
