---------------------------- MODULE MCRepository ----------------------------
(* One area per group of rules that read the same evidence.                  *)
EXTENDS Repository

File(f) == <<f, "file">>
Torch == {<<"train.py", "import", "torch">>, File("README.md"), File(".git")}
Call(c) == <<"train.py", "call", c>>
Section(s) == <<"README.md", "section", s>>
Claim(c, q) == <<"manifest.yaml", "claim", c, q>>
Command(f) == <<f, "command", "train">>

Determinism ==
  [base |-> Torch \cup {<<"train.py", "import", "random">>, <<"requirements.txt", "requires", "torch">>},
   remedies |-> {Call("random.seed"), Call("torch.manual_seed"), Call("torch.cuda.manual_seed_all"),
                 <<"train.py", "assign", "cudnn.benchmark=False">>,
                 Call("torch.use_deterministic_algorithms(True)"),
                 <<"run.sh", "sets", "PYTHONHASHSEED">>},
   changes |-> {<<"model.py", "import", "tensorflow">>}, flaws |-> {}, tools |-> {"seeds", "docker"}]

(* Lightning drives torch, which nothing here names.                          *)
Lightning ==
  [base |-> {<<"train.py", "import", "lightning">>, File("README.md"), File(".git")},
   remedies |-> {Call("lightning.seed_everything"), Call("Trainer(deterministic=True)"),
                 <<"train.py", "assign", "cudnn.deterministic=True">>,
                 <<"train.py", "assign", "cudnn.benchmark=False">>},
   changes |-> {<<"model.py", "import", "torch">>, <<"requirements.txt", "requires", "torch">>},
   flaws |-> {}, tools |-> {"seeds", "docker"}]

Loaders ==
  [base |-> Torch \cup {<<"train.py", "loader", "a">>, <<"train.py", "loader", "a", "shuffle">>,
                        <<"model.py", "import", "sklearn">>, <<"model.py", "estimator", "forest">>},
   remedies |-> {<<"train.py", "loader", "a", "generator">>, <<"train.py", "loader", "a", "worker_init_fn">>,
                 <<"model.py", "estimator", "forest", "random_state">>,
                 Call("lightning.seed_everything(workers=True)")},
   changes |-> {<<"train.py", "loader", "b">>, <<"train.py", "loader", "b", "shuffle">>,
                <<"train.py", "loader", "a", "workers">>, <<"train.py", "syntax error">>},
   flaws |-> {}, tools |-> {"seeds"}]

Requirements ==
  [base |-> Torch \cup {<<"train.py", "import", "numpy">>, <<"requirements.txt", "requires", "torch">>,
                        <<"requirements.txt", "requires", "pandas">>,
                        <<"requirements.txt", "requires", "pandas", "~=">>, <<"train.py", "runs", "ffmpeg">>},
   remedies |-> {<<"requirements.txt", "requires", "torch", "==">>,
                 <<"requirements.txt", "requires", "pandas", "==">>, File("uv.lock"),
                 <<".python-version", "python">>, File("environment.yml")},
   changes |-> {<<"requirements.txt", "requires", "numpy">>, <<"model.py", "import", "pandas">>},
   flaws |-> {}, tools |-> {"seeds", "docker"}]

Data ==
  [base |-> Torch \cup {<<"model.pt", "tracked">>, <<"train.py", "in data/">>},
   remedies |-> {File("download_data.py"), File("SHA256SUMS.txt"), Section("data"),
                 <<"README.md", "says", "dataset host">>, <<"model.pt", "lfs">>,
                 <<"manifest.yaml", "dataset", "mnist">>, <<"manifest.yaml", "dataset", "mnist", "checksum">>,
                 <<"manifest.yaml", "dataset", "mnist", "license">>},
   changes |-> {<<"train.py", "import", "hashlib">>}, flaws |-> {}, tools |-> {}]

Remotes ==
  [base |-> Torch \cup {Call("transformers.AutoModel.from_pretrained"), Call("torch.hub.load"),
                        <<"run.sh", "downloads", "url">>},
   remedies |-> {Append(Call("transformers.AutoModel.from_pretrained"), "sha"),
                 Append(Call("torch.hub.load"), "sha"), <<"run.sh", "downloads", "url", "checksum">>},
   changes |-> {<<"model.py", "call", "datasets.load_dataset">>,
                <<"model.py", "call", "datasets.load_dataset", "mutable-ref">>},
   flaws |-> {<<"run.sh", "downloads", "gdrive">>, <<"train.py", "abs_path", "1">>,
              <<"model.py", "secret", "1">>},
   tools |-> {"manifest", "pin-remotes"}]

Claimed ==
  [base |-> Torch \cup {<<"paper.tex", "metric", "accuracy">>, <<".git", "tag at HEAD">>,
                        Section("results"), <<"README.md", "says", "results table">>},
   remedies |-> {Claim("accuracy", "command"), Claim("accuracy", "HEAD"), Claim("accuracy", "seeds")},
   changes |-> {Claim("accuracy", "confirmed"), <<"results/run.json", "accuracy", "rounds">>, <<"results/sweep.json", "accuracy", "far">>,
                <<"run.sh", "command", "train">>},
   flaws |-> {}, tools |-> {"manifest", "commit"}]

(* What `adduce manifest` copies out of a command.                            *)
Quoting ==
  [base |-> {<<"train.py", "import", "os">>, File("README.md"), File(".git"),
             <<"README.md", "says", "run command">>},
   remedies |-> {},
   changes |-> {<<"paper.tex", "metric", "accuracy">>, <<"paper.tex", "metric", "loss">>,
                <<"README.md", "says", "results table">>} \cup {Command(f) : f \in {"run.sh", "Makefile"}},
   flaws |-> {Append(Command("run.sh"), "abs_path"), <<"README.md", "says", "run command", "localhost">>}
               \cup {Append(Command("Makefile"), h) : h \in Hits},
   tools |-> {"manifest"}]

Drift ==
  [base |-> Torch \cup {<<"paper.tex", "lr", "v1">>, <<"paper.tex", "batch_size", "v1">>,
                        <<"paper.tex", "dataset", "mnist">>, <<"manifest.yaml", "claim", "C1">>},
   remedies |-> {Claim("C1", "config")},
   changes |-> {Claim("C1", "run record"), <<"train.py", "argument", "lr">>, <<"train.py", "argument", "lr", "v2">>,
                <<"config.yaml", "lr", "v1">>, <<"config.yaml", "lr", "v2">>,
                <<"config.yaml", "batch_size", "v2">>,
                <<RunRecord, "lr", "v2">>, Claim("C1", "confirmed"),
                Call("datasets.load_dataset"), Append(Call("datasets.load_dataset"), "mnist")},
   flaws |-> {}, tools |-> {}]

Docs ==
  [base |-> {<<"train.py", "import", "torch">>, File(".git")},
   remedies |-> {File("README.md"), Section("install"), Section("usage"), Section("results"),
                 Section("hardware"), <<"README.md", "says", "results table">>, <<"Makefile", "target", "train">>},
   changes |-> {}, flaws |-> {}, tools |-> {"readme", "runner", "manifest"}]

Precision ==
  [base |-> Torch \cup {<<"train.py", "precision", "tf32">>, <<"paper.tex", "file">>},
   remedies |-> {Section("precision"), <<"README.md", "says", "hardware">>,
                 <<"paper.tex", "says", "precision">>, <<"manifest.yaml", "environment", "hardware">>},
   changes |-> {<<"train.py", "precision", "cast">>, <<"job.slurm", "sbatch", "gpu">>,
                <<"paper.tex", "says", "runtime">>},
   flaws |-> {}, tools |-> {"manifest", "readme"}]

NotebookArea ==
  [base |-> Torch \cup {<<"explore.ipynb", "executed">>, <<"explore.ipynb", "outputs">>,
                        <<"explore.ipynb", "cell import", "pandas">>, <<"requirements.txt", "requires", "torch">>,
                        <<"explore.ipynb", "randomness">>},
   remedies |-> {<<"explore.ipynb", "seed first">>, <<"explore.ipynb", "kernelspec">>,
                 <<"explore.ipynb", "language_info">>, File("explore.md")},
   changes |-> {<<"explore.ipynb", "broken">>},
   flaws |-> {<<"explore.ipynb", "executed out of order">>, <<"explore.ipynb", "gaps in the counts">>,
              <<"explore.ipynb", "pip install">>},
   tools |-> {}]

Checkpoints ==
  [base |-> Torch \cup {<<"train.py", "torch.save", "a">>, File("config.yaml")},
   remedies |-> {<<"train.py", "torch.save", "a", "optimizer">>, <<"train.py", "torch.save", "a", "rng">>,
                 File("LICENSE"), File(".zenodo.json"), <<"README.md", "doi", "zenodo">>},
   changes |-> {<<"train.py", "torch.save", "a", "dict">>, <<"train.py", "torch.save", "b">>,
                <<"train.py", "torch.save", "b", "state_dict">>},
   flaws |-> {}, tools |-> {"citation"}]

MCAreas == {Determinism, Lightning, Loaders, Requirements, Data, Remotes, Claimed, Quoting, Drift, Docs, Precision,
            NotebookArea, Checkpoints}
=============================================================================
