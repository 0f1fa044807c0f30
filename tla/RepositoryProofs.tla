-------------------------- MODULE RepositoryProofs --------------------------
(***************************************************************************)
(* Theorems of Repository, for every set of areas and every choice of      *)
(* tools: the repository stays a finite set of facts, rules that read the  *)
(* same evidence agree, what `adduce fix`, `adduce manifest` and           *)
(* `adduce pin-remotes` write lowers no verdict but those named, and a     *)
(* scaffold answers the rules it is chosen for.                            *)
(*                                                                         *)
(* The argument of the last two: whatever a tool writes, Wrote(R, S) says  *)
(* of the repository before and after.  From it follows what changes in    *)
(* the evidence (files, code, references, manifest, prose), and from that, *)
(* rule by rule, that no verdict falls.                                    *)
(***************************************************************************)
EXTENDS Repository, FiniteSetTheorems, SequenceTheorems, TLAPS

(* The kinds of fact the tools write, the files they make, and what           *)
(* seed_utils.py imports, calls and assigns where torch is used.              *)
Touched == {"file", "python", "import", "call", "assign", "sets", "section", "says", "claim",
            "dataset", "environment"}
DraftFiles == {"manifest.yaml", "manifest.json"}
NewFiles == {"seed_utils.py", "CITATION.cff", "Dockerfile", "reproduce.sh", "README.md",
             "manifest.yaml", "manifest.json"}
DraftQualifiers == ({"value", "command", "config"} \cup Hits) \cup ResultFiles
SeedImports == {"random", "numpy", "os", "torch"}
SeedCalls == {"random.seed", "numpy.random.seed", "torch.manual_seed", "torch.cuda.manual_seed_all",
              "torch.use_deterministic_algorithms(True)"}
CudnnFlags == {"cudnn.deterministic=True", "cudnn.benchmark=False"}

IsRepository(R) == IsFiniteSet(R) /\ \A f \in R : IsFact(f)

(* A fact some tool adds to R.                                                *)
Written(R, f) ==
  \/ f \in SeedUtils(R) /\ ~ Exists(R, "seed_utils.py")
  \/ f \in DockerImage \cup {<<"CITATION.cff", "file">>, <<"reproduce.sh", "file">>}
  \/ \E kind \in {"section", "says"} : \E key : f = <<"README.md", kind, key>>
  \/ (\E quoted \in Quoted(R) : f \in Drafts(R, quoted)) /\ ~ Exists(R, "manifest.yaml")
  \/ \E a \in Unpinned(R, Hub(R)) : f = Append(a, "sha") /\ ~ Says(R, a, "mutable-ref")

(* S is R and what one tool wrote: seed_utils.py and the manifest are there    *)
(* whole or not at all.                                                      *)
Wrote(R, S) ==
  /\ IsRepository(R) /\ IsRepository(S) /\ R \subseteq S
  /\ \A f \in S \ R : Written(R, f)
  /\ \/ SeedUtils(R) \subseteq S
     \/ \A f \in S \ R : f \notin SeedUtils(R)
  /\ \/ \E quoted \in Quoted(R) :
          Draft(R, quoted) \subseteq S /\ \A f \in S \ R : f \in Drafts(R, quoted)
     \/ \A f \in S \ R : f[1] \notin DraftFiles

(* No draft came; and no reason for the rule with an id to fall.              *)
Undrafted(R, S) == \A f \in S \ R : f[1] \notin DraftFiles
Spared(R, S, id) ==
  /\ id = "R-DEP-010" => \A f \in S \ R : f \notin SeedUtils(R)
  /\ id = "R-DOC-003" => Undrafted(R, S)
  /\ id = "R-PORT-001" =>
       Undrafted(R, S) \/ (\A c \in Quotable(R) : ~ Says(R, c, "abs_path"))
  /\ id \in {"R-PORT-002", "R-PORT-004"} =>
       Undrafted(R, S) \/ Within(R, Unscanned, "command") = {}

-----------------------------------------------------------------------------
(* Facts are sequences.                                                      *)

(* A sequence over any set is one over its own elements.                     *)
LEMMA SequencesAreFacts == ASSUME NEW T, NEW f \in Seq(T) PROVE IsFact(f)
  <1>1. Len(f) \in Nat /\ DOMAIN f = 1 .. Len(f) /\ f = [i \in 1 .. Len(f) |-> f[i]]
    BY LenProperties
  <1>2. \A i \in 1 .. Len(f) : f[i] \in Range(f)
    BY <1>1 DEF Range
  <1>3. f \in [1 .. Len(f) -> Range(f)]
    BY <1>1, <1>2
  <1>4. QED
    BY <1>1, <1>3, SeqDef DEF IsFact

(* The three shapes of a fact: a file, a kind and a value, and what extends  *)
(* them.                                                                     *)
LEMMA PairIs ==
  ASSUME NEW a, NEW b
  PROVE  IsFact(<<a, b>>) /\ Len(<<a, b>>) = 2 /\ <<a, b>>[1] = a /\ <<a, b>>[2] = b
  <1>1. <<a, b>> \in Seq({a, b})
    OBVIOUS
  <1>2. QED
    BY <1>1, SequencesAreFacts

LEMMA TripleIs ==
  ASSUME NEW a, NEW b, NEW c
  PROVE  /\ IsFact(<<a, b, c>>) /\ Len(<<a, b, c>>) = 3
         /\ <<a, b, c>>[1] = a /\ <<a, b, c>>[2] = b /\ <<a, b, c>>[3] = c
  <1>1. <<a, b, c>> \in Seq({a, b, c})
    OBVIOUS
  <1>2. QED
    BY <1>1, SequencesAreFacts

LEMMA Appended ==
  ASSUME NEW f, IsFact(f), NEW q
  PROVE  /\ IsFact(Append(f, q)) /\ Len(f) \in Nat /\ Len(Append(f, q)) = Len(f) + 1
         /\ Append(f, q)[Len(f) + 1] = q
         /\ \A i \in 1 .. Len(f) : Append(f, q)[i] = f[i]
  <1> DEFINE T == Range(f) \cup {q}
  <1>1. Range(f) \subseteq T /\ q \in T
    OBVIOUS
  <1>2. f \in Seq(Range(f))
    BY DEF IsFact
  <1> HIDE DEF T
  <1>3. f \in Seq(T)
    BY <1>1, <1>2
  <1>4. Append(f, q) \in Seq(T) /\ Len(Append(f, q)) = Len(f) + 1 /\ Append(f, q)[Len(f) + 1] = q
    BY <1>1, <1>3, AppendProperties
  <1>5. \A i \in 1 .. Len(f) : Append(f, q)[i] = f[i]
    BY <1>1, <1>3, AppendProperties
  <1>6. Len(f) \in Nat
    BY <1>3, LenProperties
  <1>7. QED
    BY <1>4, <1>5, <1>6, SequencesAreFacts

LEMMA Extended ==
  ASSUME NEW f, IsFact(f), Len(f) = 3, NEW q
  PROVE  /\ IsFact(Append(f, q)) /\ Len(Append(f, q)) = 4
         /\ Append(f, q)[1] = f[1] /\ Append(f, q)[2] = f[2] /\ Append(f, q)[3] = f[3]
         /\ Append(f, q)[4] = q
  <1> DEFINE g == Append(f, q)
  <1>1. IsFact(g) /\ Len(g) = Len(f) + 1 /\ g[Len(f) + 1] = q
    BY Appended
  <1>2. \A i \in 1 .. Len(f) : g[i] = f[i]
    BY Appended
  <1> HIDE DEF g
  <1>3. Len(g) = 4 /\ g[4] = q /\ g[1] = f[1] /\ g[2] = f[2] /\ g[3] = f[3]
    BY <1>1, <1>2
  <1>4. QED
    BY <1>1, <1>3 DEF g

-----------------------------------------------------------------------------
(* Finite sets of facts.                                                     *)

(* The image of a finite set under a function is finite.                     *)
LEMMA FiniteImage ==
  ASSUME NEW A, IsFiniteSet(A), NEW f, NEW B, B = {f[x] : x \in A}, DOMAIN f = A,
         f = [x \in A |-> f[x]]
  PROVE  IsFiniteSet(B)
  <1>1. f \in Surjection(A, B)
    BY DEF Surjection
  <1>2. QED
    BY <1>1, FS_Surjection

LEMMA FewAreFinite ==
  ASSUME NEW a, NEW b, NEW c, NEW d, NEW e
  PROVE  IsFiniteSet({a, b, c, d, e})
  <1>1. \A x : IsFiniteSet({x})
    BY FS_Singleton
  <1>2. IsFiniteSet({a} \cup {b})
    BY <1>1, FS_Union
  <1>3. IsFiniteSet(({a} \cup {b}) \cup {c})
    BY <1>1, <1>2, FS_Union
  <1>4. IsFiniteSet((({a} \cup {b}) \cup {c}) \cup {d})
    BY <1>1, <1>3, FS_Union
  <1>5. IsFiniteSet(((({a} \cup {b}) \cup {c}) \cup {d}) \cup {e})
    BY <1>1, <1>4, FS_Union
  <1>6. ((({a} \cup {b}) \cup {c}) \cup {d}) \cup {e} = {a, b, c, d, e}
    OBVIOUS
  <1>7. QED
    BY <1>5, <1>6

(* Sets of facts made from other sets.                                        *)
Triples(file, kind, V) == {<<file, kind, v>> : v \in V}
Fourths(A) == {a[4] : a \in A}
EachWith(A, q) == {Append(a, q) : a \in A}
Renamed(A, v) == {[g EXCEPT ![4] = v] : g \in A}
AllWith(A, Q) == {Append(a, q) : a \in A, q \in Q}
AllMirrored(A) == {Mirrored(a) : a \in A}
LEMMA FiniteValues ==
  ASSUME NEW A, IsFiniteSet(A)
  PROVE  /\ IsFiniteSet(Values(A)) /\ IsFiniteSet(Fourths(A))
         /\ \A file, kind : IsFiniteSet(Triples(file, kind, A))
         /\ \A q : IsFiniteSet(EachWith(A, q))
         /\ \A Q : IsFiniteSet(Q) => IsFiniteSet(AllWith(A, Q))
         /\ IsFiniteSet(AllMirrored(A))
         /\ \A v : IsFiniteSet(Renamed(A, v))
  <1>1. IsFiniteSet(Values(A))
    <2>1. PICK f : f = [x \in A |-> x[3]]
      OBVIOUS
    <2>2. Values(A) = {f[x] : x \in A}
      BY <2>1 DEF Values
    <2>3. QED
      BY <2>1, <2>2, FiniteImage
  <1>2. IsFiniteSet(Fourths(A))
    <2>1. PICK f : f = [x \in A |-> x[4]]
      OBVIOUS
    <2>2. Fourths(A) = {f[x] : x \in A}
      BY <2>1 DEF Fourths
    <2>3. QED
      BY <2>1, <2>2, FiniteImage
  <1>3. ASSUME NEW file, NEW kind PROVE IsFiniteSet(Triples(file, kind, A))
    <2>1. PICK f : f = [x \in A |-> <<file, kind, x>>]
      OBVIOUS
    <2>2. Triples(file, kind, A) = {f[x] : x \in A}
      BY <2>1 DEF Triples
    <2>3. QED
      BY <2>1, <2>2, FiniteImage
  <1>4. ASSUME NEW q PROVE IsFiniteSet(EachWith(A, q))
    <2>1. PICK f : f = [x \in A |-> Append(x, q)]
      OBVIOUS
    <2>2. EachWith(A, q) = {f[x] : x \in A}
      BY <2>1 DEF EachWith
    <2>3. DOMAIN f = A /\ f = [x \in A |-> f[x]]
      BY <2>1
    <2>4. QED
      BY <2>2, <2>3, FiniteImage
  <1>5. ASSUME NEW Q, IsFiniteSet(Q) PROVE IsFiniteSet(AllWith(A, Q))
    <2>1. PICK f : f = [x \in A \X Q |-> Append(x[1], x[2])]
      OBVIOUS
    <2>2. ASSUME NEW g \in AllWith(A, Q) PROVE g \in {f[x] : x \in A \X Q}
      <3>1. PICK a \in A, q \in Q : g = Append(a, q)
        BY DEF AllWith
      <3>2. <<a, q>> \in A \X Q /\ <<a, q>>[1] = a /\ <<a, q>>[2] = q
        OBVIOUS
      <3>3. f[<<a, q>>] = Append(a, q)
        BY <2>1, <3>2
      <3>4. QED
        BY <3>1, <3>2, <3>3
    <2>3. IsFiniteSet(A \X Q)
      BY <1>5, FS_Product
    <2>4. DOMAIN f = A \X Q /\ f = [x \in A \X Q |-> f[x]]
      BY <2>1
    <2>5. IsFiniteSet({f[x] : x \in A \X Q})
      BY <2>3, <2>4, FiniteImage
    <2>6. QED
      BY <2>2, <2>5, FS_Subset
  <1>6. ASSUME NEW v PROVE IsFiniteSet(Renamed(A, v))
    <2>1. PICK f : f = [x \in A |-> [x EXCEPT ![4] = v]]
      OBVIOUS
    <2>2. Renamed(A, v) = {f[x] : x \in A}
      BY <2>1 DEF Renamed
    <2>3. QED
      BY <2>1, <2>2, FiniteImage
  <1>7. IsFiniteSet(AllMirrored(A))
    <2>1. PICK f : f = [x \in A |-> Mirrored(x)]
      OBVIOUS
    <2>2. AllMirrored(A) = {f[x] : x \in A}
      BY <2>1 DEF AllMirrored
    <2>3. DOMAIN f = A /\ f = [x \in A |-> f[x]]
      BY <2>1
    <2>4. QED
      BY <2>2, <2>3, FiniteImage
  <1>8. QED
    BY <1>1, <1>2, <1>3, <1>4, <1>5, <1>6, <1>7

(* Two things are two.                                                       *)
LEMMA Pairs ==
  ASSUME NEW a, NEW b, a # b
  PROVE  IsFiniteSet({a, b}) /\ Cardinality({a, b}) = 2
  <1>1. IsFiniteSet({a}) /\ Cardinality({a}) = 1
    BY FS_Singleton
  <1>2. {a, b} = {a} \cup {b}
    OBVIOUS
  <1>3. QED
    BY <1>1, <1>2, FS_AddElement

-----------------------------------------------------------------------------
(* What the tools write.                                                     *)

(* A fact of seed_utils.py, of the other new files, of a README section, of  *)
(* a pin and of a drafted manifest.                                          *)
LEMMA SeedShape ==
  ASSUME NEW R, NEW f \in SeedUtils(R)
  PROVE  /\ IsFact(f) /\ Len(f) = 3 /\ f[1] = "seed_utils.py"
         /\ \/ f[2] = "import" /\ f[3] \in SeedImports /\ (f[3] = "torch" => Uses(R, {"torch"}))
            \/ f[2] = "call" /\ f[3] \in SeedCalls
            \/ f[2] = "assign" /\ f[3] \in CudnnFlags
  <1>1. \/ \E i \in SeedImports : /\ f = <<"seed_utils.py", "import", i>>
                                  /\ i = "torch" => Uses(R, {"torch"})
        \/ \E c \in SeedCalls : f = <<"seed_utils.py", "call", c>>
        \/ \E a \in CudnnFlags : f = <<"seed_utils.py", "assign", a>>
    BY DEF SeedUtils, SeedImports, SeedCalls, CudnnFlags
  <1>2. QED
    BY <1>1, TripleIs

LEMMA FileShape ==
  ASSUME NEW f \in DockerImage \cup {<<"CITATION.cff", "file">>, <<"reproduce.sh", "file">>}
  PROVE  /\ IsFact(f) /\ Len(f) \in {2, 3}
         /\ f[1] \in {"Dockerfile", "CITATION.cff", "reproduce.sh"}
         /\ f[2] \in {"file", "python", "sets"}
  <1>1. \/ \E a \in {"Dockerfile", "CITATION.cff", "reproduce.sh"}, b \in {"file", "python"} : f = <<a, b>>
        \/ \E v : f = <<"Dockerfile", "sets", v>>
    BY DEF DockerImage
  <1>2. QED
    BY <1>1, PairIs, TripleIs

LEMMA SectionShape ==
  ASSUME NEW R, NEW f \in ReadmeSections(R)
  PROVE  /\ IsFact(f) /\ f[1] = "README.md"
         /\ \E kind \in {"section", "says"} : \E key : f = <<"README.md", kind, key>>
  <1>1. \E kind \in {"section", "says"} : \E key : f = <<"README.md", kind, key>>
    BY DEF ReadmeSections
  <1>2. QED
    BY <1>1, TripleIs

LEMMA HubShape ==
  ASSUME NEW R, IsRepository(R), NEW a \in Unpinned(R, Hub(R))
  PROVE  a \in R /\ IsFact(a) /\ Len(a) = 3 /\ a[2] = "call" /\ a[1] \in Modules(R)
  BY DEF IsRepository, Unpinned, Hub, HubReferences, Within

LEMMA DraftShape ==
  ASSUME NEW R, IsRepository(R), NEW quoted \in Quoted(R)
  PROVE  /\ quoted \subseteq {"command"} \cup Hits
         /\ \A h \in quoted \cap Hits : \E c \in Quotable(R) : Says(R, c, h)
         /\ \A f \in Drafts(R, quoted) :
              /\ IsFact(f) /\ f[1] \in DraftFiles
              /\ f[1] = "manifest.yaml" => f \in Draft(R, quoted)
              /\ \/ Len(f) = 2 /\ f[2] = "file"
                 \/ Len(f) = 3 /\ f[2] \in {"environment", "dataset", "claim"}
                 \/ /\ Len(f) = 4 /\ f[2] = "claim"
                    /\ f[4] \in ({"value", "config"} \cup quoted) \cup ResultFiles
                    /\ f[4] = "value" => Facts(R, "paper.tex", "metric") # {}
  <1>1. /\ quoted \subseteq {"command"} \cup Hits
        /\ \A h \in quoted \cap Hits : \E c \in Quotable(R) : Says(R, c, h)
    BY DEF Quoted, Hits
  <1> DEFINE Added == ({"value", "config"} \cup quoted) \cup ResultFiles
             Shaped(f) ==
               \/ Len(f) = 2 /\ f[2] = "file"
               \/ Len(f) = 3 /\ f[2] \in {"environment", "dataset", "claim"}
               \/ /\ Len(f) = 4 /\ f[2] = "claim" /\ f[4] \in Added
                  /\ f[4] = "value" => Facts(R, "paper.tex", "metric") # {}
  <1>2. ASSUME NEW f \in Draft(R, quoted)
        PROVE  IsFact(f) /\ f[1] = "manifest.yaml" /\ Shaped(f)
    <2>1. /\ Carried(R, quoted) \subseteq Added
          /\ "value" \in Carried(R, quoted) => Facts(R, "paper.tex", "metric") # {}
      BY <1>1 DEF Carried, ResultFiles, Hits
    <2>2. \A c \in Drafted(R) : \E v : c = <<"manifest.yaml", "claim", v>>
      BY DEF Drafted, Entry
    <2>3. \/ f = <<"manifest.yaml", "file">>
          \/ \E kind \in {"environment", "dataset", "claim"} : \E v : f = <<"manifest.yaml", kind, v>>
          \/ \E c \in Drafted(R) : \E q \in Carried(R, quoted) : f = Append(c, q)
      BY <2>2 DEF Draft, Entry
    <2>4. CASE \E c \in Drafted(R) : \E q \in Carried(R, quoted) : f = Append(c, q)
      <3>1. PICK c \in Drafted(R), q \in Carried(R, quoted) : f = Append(c, q)
        BY <2>4
      <3>2. Len(c) = 3 /\ c[1] = "manifest.yaml" /\ c[2] = "claim" /\ IsFact(c)
        BY <2>2, TripleIs
      <3>3. IsFact(f) /\ Len(f) = 4 /\ f[1] = "manifest.yaml" /\ f[2] = "claim" /\ f[4] = q
        BY <3>1, <3>2, Extended
      <3> HIDE DEF Added
      <3>4. QED
        BY <2>1, <3>1, <3>3
    <2> HIDE DEF Added
    <2>5. QED
      BY <2>3, <2>4, PairIs, TripleIs
  <1> HIDE DEF Added
  <1>3. ASSUME NEW f \in Draft(R, quoted)
        PROVE  IsFact(Mirrored(f)) /\ Mirrored(f)[1] = "manifest.json" /\ Shaped(Mirrored(f))
    <2> DEFINE T == Range(f) \cup {"manifest.json"}
               g == Mirrored(f)
    <2>1. f \in Seq(Range(f)) /\ Len(f) \in {2, 3, 4} /\ Shaped(f)
      BY <1>2 DEF IsFact
    <2>2. f \in Seq(T)
      BY <2>1
    <2> HIDE DEF T
    <2>3. /\ Tail(f) \in Seq(T) /\ Len(Tail(f)) = Len(f) - 1
          /\ \A i \in 1 .. Len(f) - 1 : Tail(f)[i] = f[i + 1]
      BY <2>1, <2>2
    <2>4. <<"manifest.json">> \in Seq(T) /\ Len(<<"manifest.json">>) = 1
      BY DEF T
    <2>5. /\ g \in Seq(T) /\ Len(g) = Len(f) /\ g[1] = "manifest.json"
          /\ \A i \in 2 .. Len(f) : g[i] = f[i]
      BY <2>1, <2>3, <2>4 DEF Mirrored
    <2> HIDE DEF g
    <2>6. QED
      BY <2>1, <2>5, SequencesAreFacts DEF g
  <1>4. ASSUME NEW f \in Drafts(R, quoted)
        PROVE  /\ IsFact(f) /\ f[1] \in DraftFiles /\ Shaped(f)
               /\ f[1] = "manifest.yaml" => f \in Draft(R, quoted)
    <2>1. f \in Draft(R, quoted) \/ \E g \in Draft(R, quoted) : f = Mirrored(g)
      BY DEF Drafts
    <2> HIDE DEF Shaped
    <2>2. QED
      BY <1>2, <1>3, <2>1 DEF DraftFiles
  <1>5. QED
    BY <1>1, <1>4 DEF Added

(* What a tool wrote is of a kind and in a file it touches.                  *)
LEMMA WrittenShape ==
  ASSUME NEW R, NEW S, Wrote(R, S), NEW f \in S \ R
  PROVE  /\ IsFact(f) /\ f[2] \in Touched /\ Len(f) \in {2, 3, 4}
         /\ \/ f[1] \in NewFiles /\ Len(f) \in {2, 3} /\ f[2] \notin {"call", "import", "assign"}
            \/ f \in SeedUtils(R) /\ ~ Exists(R, "seed_utils.py") /\ f[1] = "seed_utils.py"
            \/ f[1] \in DraftFiles /\ f[2] = "claim" /\ Len(f) = 4
            \/ /\ Len(f) = 4 /\ f[2] = "call" /\ f[4] = "sha" /\ f[1] \in Modules(R)
         /\ f[1] \in DraftFiles => ~ Exists(R, "manifest.yaml")
         /\ f[2] \in {"claim", "dataset", "environment"} => f[1] \in DraftFiles
         /\ f[2] \in {"import", "call", "assign"} /\ Len(f) = 3 => f \in SeedUtils(R)
  <1>1. Written(R, f) /\ IsRepository(R)
    BY DEF Wrote
  <1>2. CASE f \in SeedUtils(R) /\ ~ Exists(R, "seed_utils.py")
    BY <1>2, SeedShape DEF Touched, NewFiles, DraftFiles
  <1>3. CASE f \in DockerImage \cup {<<"CITATION.cff", "file">>, <<"reproduce.sh", "file">>}
    BY <1>3, FileShape DEF Touched, NewFiles, DraftFiles
  <1>4. CASE \E kind \in {"section", "says"} : \E key : f = <<"README.md", kind, key>>
    BY <1>4, TripleIs DEF Touched, NewFiles, DraftFiles
  <1>5. CASE (\E quoted \in Quoted(R) : f \in Drafts(R, quoted)) /\ ~ Exists(R, "manifest.yaml")
    BY <1>1, <1>5, DraftShape DEF Touched, NewFiles, DraftFiles
  <1>6. CASE \E a \in Unpinned(R, Hub(R)) : f = Append(a, "sha") /\ ~ Says(R, a, "mutable-ref")
    <2>1. PICK a \in Unpinned(R, Hub(R)) : f = Append(a, "sha")
      BY <1>6
    <2>2. a \in R /\ IsFact(a) /\ Len(a) = 3 /\ a[2] = "call" /\ a[1] \in Modules(R)
      BY <1>1, HubShape
    <2>3. /\ IsFact(f) /\ Len(f) = 4 /\ f[4] = "sha" /\ f[1] = a[1] /\ f[2] = "call"
      BY <2>1, <2>2, Extended
    <2>4. f[1] \notin DraftFiles
      BY <2>2, <2>3 DEF Modules, PythonFiles, PythonNames, DraftFiles
    <2>5. QED
      BY <2>2, <2>3, <2>4 DEF Touched
  <1>7. QED
    BY <1>1, <1>2, <1>3, <1>4, <1>5, <1>6 DEF Written

(* What each tool writes is finitely many facts.                              *)
LEMMA ToolsWriteFiniteSets ==
  ASSUME NEW R, IsFiniteSet(R)
  PROVE  /\ IsFiniteSet(SeedUtils(R)) /\ IsFiniteSet(DockerImage)
         /\ IsFiniteSet(ReadmeSections(R))
         /\ \A quoted \in Quoted(R) : IsFiniteSet(Drafts(R, quoted))
         /\ \A resolved, files : IsFiniteSet(Pinned(R, resolved, files))
  <1>1. \A file, kind, V : IsFiniteSet(V) => IsFiniteSet(Triples(file, kind, V))
    BY FiniteValues
  <1>2. \A a, b, c, d, e : IsFiniteSet({a, b, c, d, e})
    BY FewAreFinite
  <1>3. \A A, B : IsFiniteSet(A) /\ IsFiniteSet(B) => IsFiniteSet(A \cup B)
    BY FS_Union
  <1>4. \A A, B : IsFiniteSet(A) /\ B \subseteq A => IsFiniteSet(B)
    BY FS_Subset
  <1>5. IsFiniteSet(SeedUtils(R))
    <2>1. IsFiniteSet(SeedImports) /\ IsFiniteSet(SeedCalls) /\ IsFiniteSet(CudnnFlags)
      <3>1. /\ IsFiniteSet({"random", "numpy", "os", "torch", "torch"})
            /\ IsFiniteSet({"random.seed", "numpy.random.seed", "torch.manual_seed",
                            "torch.cuda.manual_seed_all", "torch.use_deterministic_algorithms(True)"})
            /\ IsFiniteSet({"cudnn.deterministic=True", "cudnn.benchmark=False", "", "", ""})
        BY <1>2
      <3>2. QED
        BY <1>4, <3>1 DEF SeedImports, SeedCalls, CudnnFlags
    <2> DEFINE U == (Triples("seed_utils.py", "import", SeedImports)
                       \cup Triples("seed_utils.py", "call", SeedCalls))
                      \cup Triples("seed_utils.py", "assign", CudnnFlags)
    <2>2. SeedUtils(R) \subseteq U
      BY DEF Triples, SeedUtils, SeedImports, SeedCalls, CudnnFlags
    <2>3. IsFiniteSet(U)
      BY <1>1, <1>3, <2>1
    <2> HIDE DEF U
    <2>4. QED
      BY <1>4, <2>2, <2>3
  <1>6. IsFiniteSet(DockerImage)
    <2> DEFINE a == <<"Dockerfile", "python">>
               b == <<"Dockerfile", "sets", "PYTHONHASHSEED">>
               c == <<"Dockerfile", "sets", "CUBLAS_WORKSPACE_CONFIG">>
    <2>1. DockerImage = {a, b, c}
      BY DEF DockerImage
    <2> HIDE DEF a, b, c
    <2>2. DockerImage \subseteq {a, b, c, c, c}
      BY <2>1
    <2>3. QED
      BY <1>2, <1>4, <2>2
  <1>7. IsFiniteSet(ReadmeSections(R))
    <2> DEFINE Keys == {"install", "usage", "results", "data", "hardware"}
               Said == {"run command", "asset license", "results table", "hardware", "commit"}
               U == Triples("README.md", "section", Keys) \cup Triples("README.md", "says", Said)
    <2>1. ReadmeSections(R) \subseteq U
      BY DEF Triples, ReadmeSections
    <2>2. IsFiniteSet(Keys) /\ IsFiniteSet(Said)
      BY <1>2
    <2>3. IsFiniteSet(U)
      <3> HIDE DEF Keys, Said
      <3>1. QED
        BY <1>1, <1>3, <2>2
    <2> HIDE DEF U
    <2>4. QED
      BY <1>4, <2>1, <2>3
  <1>8. IsFiniteSet(LoadedDatasets(R)) /\ IsFiniteSet(PaperDatasets(R))
    <2> DEFINE A == {b \in R : Len(b) = 4 /\ SubSeq(b, 1, 3) \in DatasetCalls(R)
                               /\ b[4] \notin Revisions}
               L == {"cifar10", "", "", "", ""}
    <2>1. IsFiniteSet(A) /\ IsFiniteSet(Facts(R, "paper.tex", "dataset"))
      BY <1>4 DEF Facts
    <2>2. LoadedDatasets(R) \subseteq Fourths(A) \cup L
      BY DEF LoadedDatasets, Fourths
    <2>4. IsFiniteSet(L)
      BY <1>2
    <2> HIDE DEF A, L
    <2>3. IsFiniteSet(Fourths(A)) /\ IsFiniteSet(PaperDatasets(R))
      BY <2>1, FiniteValues DEF PaperDatasets
    <2>5. QED
      BY <1>3, <1>4, <2>2, <2>3, <2>4
  <1>9. ASSUME NEW quoted \in Quoted(R) PROVE IsFiniteSet(Drafts(R, quoted))
    <2> DEFINE C1 == <<"manifest.yaml", "claim", "C1">>
               file == <<"manifest.yaml", "file">>
               precision == <<"manifest.yaml", "environment", "precision">>
               P == LoadedDatasets(R) \cup PaperDatasets(R)
               M == Values(Facts(R, "paper.tex", "metric"))
               Q == {"value", "command", "config", "results/run.json", "results/sweep.json"}
                      \cup {"abs_path", "localhost", "secret", "secret", "secret"}
               Singles == {file, precision, C1, C1, C1}
    <2>1. IsFiniteSet(Carried(R, quoted))
      <3>1. Carried(R, quoted) \subseteq Q
        BY DEF Carried, Quoted, Hits
      <3>2. IsFiniteSet(Q)
        BY <1>2, <1>3
      <3> HIDE DEF Q
      <3>3. QED
        BY <1>4, <3>1, <3>2
    <2>2. IsFiniteSet(Singles)
      BY <1>2
    <2>3. IsFiniteSet(P) /\ IsFiniteSet(M)
      BY <1>3, <1>4, <1>8, FiniteValues DEF Facts
    <2>4. IsFiniteSet(Drafted(R))
      <3>1. Drafted(R) \subseteq Singles \cup Triples("manifest.yaml", "claim", M)
        BY DEF Drafted, Entry, Triples, Values
      <3>2. IsFiniteSet(Singles \cup Triples("manifest.yaml", "claim", M))
        <4> HIDE DEF Singles, M
        <4>1. QED
          BY <1>1, <1>3, <2>2, <2>3
      <3> HIDE DEF Singles, M
      <3>3. QED
        BY <1>4, <3>1, <3>2
    <2>5. Draft(R, quoted) \subseteq
            (Singles \cup Triples("manifest.yaml", "dataset", P))
              \cup (Drafted(R) \cup AllWith(Drafted(R), Carried(R, quoted)))
      BY DEF Draft, Entry, Triples, AllWith
    <2>6. IsFiniteSet((Singles \cup Triples("manifest.yaml", "dataset", P))
                        \cup (Drafted(R) \cup AllWith(Drafted(R), Carried(R, quoted))))
      <3>1. IsFiniteSet(AllWith(Drafted(R), Carried(R, quoted)))
        BY <2>1, <2>4, FiniteValues
      <3> HIDE DEF Singles, P
      <3>2. QED
        BY <1>1, <1>3, <2>2, <2>3, <2>4, <3>1
    <2> HIDE DEF Singles, P
    <2>8. IsFiniteSet(Draft(R, quoted))
      BY <1>4, <2>5, <2>6
    <2>9. Drafts(R, quoted) = Draft(R, quoted) \cup AllMirrored(Draft(R, quoted))
      BY DEF Drafts, AllMirrored
    <2>10. QED
      BY <1>3, <2>8, <2>9, FiniteValues
  <1>10. ASSUME NEW resolved, NEW files PROVE IsFiniteSet(Pinned(R, resolved, files))
    <2> DEFINE A == {b \in Unpinned(R, Hub(R)) :
              ~ Says(R, b, "mutable-ref") /\ b[1] \in files /\ b[3] \in resolved}
    <2>1. A \subseteq R
      BY DEF Unpinned, Hub, HubReferences, Within
    <2>2. Pinned(R, resolved, files) = EachWith(A, "sha")
      BY DEF Pinned, EachWith
    <2> HIDE DEF A
    <2>3. QED
      BY <1>4, <2>1, <2>2, FiniteValues
  <1>11. QED
    BY <1>5, <1>6, <1>7, <1>9, <1>10

-----------------------------------------------------------------------------
(* What writing changes in the evidence.                                     *)

(* Facts of the kinds the tools do not write are as they were.               *)
LEMMA UntouchedKinds ==
  ASSUME NEW R, NEW S, Wrote(R, S)
  PROVE  /\ \A k : k \notin Touched => {a \in S : a[2] = k} = {a \in R : a[2] = k}
         /\ \A F, k : k \notin Touched =>
              Within(S, F, k) = Within(R, F, k) /\ Facts(S, F, k) = Facts(R, F, k)
         /\ \A f, k : k \notin Touched => (<<f, k>> \in S <=> <<f, k>> \in R)
         /\ \A f, k, v : k \notin Touched => (<<f, k, v>> \in S <=> <<f, k, v>> \in R)
  <1>1. R \subseteq S /\ \A a \in S \ R : a[2] \in Touched
    BY WrittenShape DEF Wrote
  <1>2. \A k : k \notin Touched => {a \in S : a[2] = k} = {a \in R : a[2] = k}
    BY <1>1
  <1>3. \A F, k : k \notin Touched =>
              Within(S, F, k) = Within(R, F, k) /\ Facts(S, F, k) = Facts(R, F, k)
    BY <1>1 DEF Within, Facts
  <1>4. \A f, k : k \notin Touched => (<<f, k>> \in S <=> <<f, k>> \in R)
    <2> SUFFICES ASSUME NEW f, NEW k, k \notin Touched PROVE <<f, k>> \in S <=> <<f, k>> \in R
      OBVIOUS
    <2>1. <<f, k>>[2] = k
      OBVIOUS
    <2>2. QED
      BY <1>1, <2>1
  <1>5. \A f, k, v : k \notin Touched => (<<f, k, v>> \in S <=> <<f, k, v>> \in R)
    <2> SUFFICES ASSUME NEW f, NEW k, NEW v, k \notin Touched
                 PROVE <<f, k, v>> \in S <=> <<f, k, v>> \in R
      OBVIOUS
    <2>1. <<f, k, v>>[2] = k
      OBVIOUS
    <2>2. QED
      BY <1>1, <2>1
  <1>6. QED
    BY <1>2, <1>3, <1>4, <1>5

(* Files appear, modules appear, and no module that was there is lost.        *)
LEMMA FilesAppear ==
  ASSUME NEW R, NEW S, Wrote(R, S)
  PROVE  /\ Files(R) \subseteq Files(S) /\ Files(S) \ Files(R) \subseteq NewFiles
         /\ PythonFiles(S) \ PythonFiles(R) \subseteq {"seed_utils.py"}
         /\ \A f : f \notin NewFiles => (Exists(S, f) <=> Exists(R, f))
         /\ \A f : Exists(R, f) => Exists(S, f)
         /\ Modules(R) \subseteq Modules(S)
         /\ \A a \in R : a[1] \in Modules(S) <=> a[1] \in Modules(R)
         /\ \A a \in R : a[1] \in PythonFiles(S) <=> a[1] \in PythonFiles(R)
  <1>1. R \subseteq S /\ \A a \in S \ R : a[1] \in NewFiles \/ a[1] \in Files(R)
    BY WrittenShape, SeedShape DEF Wrote, Modules, PythonFiles, NewFiles, DraftFiles
  <1>2. Files(R) \subseteq Files(S) /\ Files(S) \ Files(R) \subseteq NewFiles
    BY <1>1 DEF Files
  <1>3. PythonFiles(S) \ PythonFiles(R) \subseteq {"seed_utils.py"}
    BY <1>2 DEF PythonFiles, PythonNames, NewFiles
  <1>4. /\ \A f : f \notin NewFiles => (Exists(S, f) <=> Exists(R, f))
        /\ \A f : Exists(R, f) => Exists(S, f)
    BY <1>1 DEF Exists, Files
  <1>5. \A f : <<f, "syntax error">> \in S <=> <<f, "syntax error">> \in R
    BY UntouchedKinds DEF Touched
  <1>6. Modules(R) \subseteq Modules(S)
    BY <1>2, <1>5 DEF Modules, PythonFiles
  <1>7. /\ \A a \in R : a[1] \in Modules(S) <=> a[1] \in Modules(R)
        /\ \A a \in R : a[1] \in PythonFiles(S) <=> a[1] \in PythonFiles(R)
    BY <1>1, <1>2, <1>5 DEF Modules, PythonFiles, Files
  <1>8. QED
    BY <1>2, <1>3, <1>4, <1>6, <1>7

(* What is said of a fact stays said; a revision is all that is added to one  *)
(* that was there.                                                            *)
LEMMA Qualified ==
  ASSUME NEW R, NEW S, Wrote(R, S), NEW f, IsFact(f), Len(f) = 3, NEW q
  PROVE  /\ Says(R, f, q) => Says(S, f, q)
         /\ f[2] # "claim" /\ (f[2] # "call" \/ q # "sha") => (Says(S, f, q) <=> Says(R, f, q))
  <1>1. R \subseteq S
    BY DEF Wrote
  <1>2. /\ Len(Append(f, q)) = 4 /\ Append(f, q)[4] = q /\ Append(f, q)[2] = f[2]
    BY Extended
  <1>3. ASSUME Append(f, q) \in S \ R
        PROVE  f[2] = "claim" \/ (f[2] = "call" /\ q = "sha")
    <2> DEFINE g == Append(f, q)
    <2>1. g \in S \ R /\ Len(g) = 4 /\ g[4] = q /\ g[2] = f[2]
      BY <1>2, <1>3
    <2> HIDE DEF g
    <2>2. g \notin SeedUtils(R)
      BY <2>1, SeedShape
    <2>3. \/ g[1] \in NewFiles /\ Len(g) \in {2, 3} /\ g[2] \notin {"call", "import", "assign"}
          \/ g \in SeedUtils(R)
          \/ g[1] \in DraftFiles /\ g[2] = "claim" /\ Len(g) = 4
          \/ Len(g) = 4 /\ g[2] = "call" /\ g[4] = "sha"
      BY <2>1, WrittenShape
    <2>4. QED
      BY <2>1, <2>2, <2>3
  <1>4. QED
    BY <1>1, <1>3 DEF Says

(* What code imports, calls and assigns: what it did, and what seed_utils.py  *)
(* does, all of it or nothing.                                                *)
LEMMA CodeAppears ==
  ASSUME NEW R, NEW S, Wrote(R, S)
  PROVE  /\ \A k : k \notin Touched => Within(S, Modules(S), k) = Within(R, Modules(R), k)
         /\ \/ /\ Within(S, Modules(S), "import") = Within(R, Modules(R), "import")
               /\ Within(S, Modules(S), "call") = Within(R, Modules(R), "call")
               /\ Within(S, Modules(S), "assign") = Within(R, Modules(R), "assign")
            \/ /\ \A k \in {"import", "call", "assign"} :
                    Within(S, Modules(S), k) = Within(R, Modules(R), k)
                                                 \cup {f \in SeedUtils(R) : f[2] = k}
  <1>1. R \subseteq S /\ \A a \in R : a[1] \in Modules(S) <=> a[1] \in Modules(R)
    BY FilesAppear DEF Wrote
  <1>2. \A k : k \notin Touched => Within(S, Modules(S), k) = Within(R, Modules(R), k)
    <2>1. \A a \in S \ R : a[2] \in Touched
      BY WrittenShape
    <2>2. QED
      BY <1>1, <2>1 DEF Within
  <1>3. \A f \in S \ R : f[2] \in {"import", "call", "assign"} /\ Len(f) = 3 => f \in SeedUtils(R)
    BY WrittenShape
  <1>4. CASE \A f \in S \ R : f \notin SeedUtils(R)
    <2>1. ASSUME NEW k \in {"import", "call", "assign"}
          PROVE  Within(S, Modules(S), k) = Within(R, Modules(R), k)
      <3>1. \A a \in S : a[2] = k /\ Len(a) = 3 => a \in R
        BY <1>3, <1>4
      <3>2. QED
        BY <1>1, <3>1 DEF Within
    <2>2. QED
      BY <1>2, <2>1
  <1>5. CASE \E f \in S \ R : f \in SeedUtils(R)
    <2>1. SeedUtils(R) \subseteq S
      BY <1>5 DEF Wrote
    <2>2. ~ Exists(R, "seed_utils.py")
      <3>1. PICK f \in S \ R : f \in SeedUtils(R)
        BY <1>5
      <3>2. f[1] = "seed_utils.py" /\ Len(f) = 3 /\ f[2] \in {"import", "call", "assign"}
        BY <3>1, SeedShape
      <3>3. QED
        BY <3>1, <3>2, WrittenShape
    <2>3. \A f \in SeedUtils(R) : f[1] = "seed_utils.py" /\ Len(f) = 3
      BY SeedShape
    <2>4. "seed_utils.py" \in Modules(S)
      <3>1. PICK f \in S \ R : f \in SeedUtils(R)
        BY <1>5
      <3>2. <<"seed_utils.py", "syntax error">> \notin S
        <4>1. <<"seed_utils.py", "syntax error">>[1] = "seed_utils.py"
          OBVIOUS
        <4>2. <<"seed_utils.py", "syntax error">> \notin R
          BY <2>2, <4>1 DEF Exists
        <4>3. QED
          BY <4>2, UntouchedKinds DEF Touched
      <3>3. QED
        BY <2>3, <3>1, <3>2 DEF Modules, PythonFiles, PythonNames, Files
    <2>5. ASSUME NEW k \in {"import", "call", "assign"}
          PROVE Within(S, Modules(S), k) = Within(R, Modules(R), k) \cup {f \in SeedUtils(R) : f[2] = k}
      BY <1>1, <1>3, <2>1, <2>3, <2>4 DEF Within
    <2>6. QED
      BY <1>2, <2>5
  <1>6. QED
    BY <1>2, <1>4, <1>5

(* The names seed_utils.py brings.                                           *)
LEMMA SeedUtilsMean ==
  ASSUME NEW R
  PROVE  /\ Values({f \in SeedUtils(R) : f[2] = "import"})
              = {"random", "numpy"} \cup (IF Uses(R, {"torch"}) THEN {"torch"} ELSE {"os"})
         /\ Values({f \in SeedUtils(R) : f[2] = "call"})
              = (IF Uses(R, {"torch"}) THEN SeedCalls ELSE {"random.seed", "numpy.random.seed"})
         /\ Values({f \in SeedUtils(R) : f[2] = "assign"})
              = (IF Uses(R, {"torch"}) THEN CudnnFlags ELSE {})
  <1> DEFINE I == {"random", "numpy"} \cup (IF Uses(R, {"torch"}) THEN {"torch"} ELSE {"os"})
             C == IF Uses(R, {"torch"}) THEN SeedCalls ELSE {"random.seed", "numpy.random.seed"}
             A == IF Uses(R, {"torch"}) THEN CudnnFlags ELSE {}
             Of(k, V) == {<<"seed_utils.py", k, v>> : v \in V}
  <1>1. SeedUtils(R) = Of("import", I) \cup Of("call", C) \cup Of("assign", A)
    BY DEF SeedUtils, SeedCalls, CudnnFlags
  <1> HIDE DEF I, C, A
  <1>2. ASSUME NEW k, NEW V
        PROVE  (\A f \in Of(k, V) : f[2] = k) /\ Values(Of(k, V)) = V
    <2>1. \A v : /\ <<"seed_utils.py", k, v>>[2] = k
                 /\ <<"seed_utils.py", k, v>>[3] = v
      OBVIOUS
    <2>2. \A f \in Of(k, V) : \E v \in V : f = <<"seed_utils.py", k, v>>
      OBVIOUS
    <2>3. \A f \in Of(k, V) : f[2] = k /\ f[3] \in V
      BY <2>1, <2>2
    <2>4. \A v \in V : \E f \in Of(k, V) : f[3] = v
      BY <2>1
    <2> HIDE DEF Of
    <2>5. QED
      BY <2>3, <2>4 DEF Values
  <1> HIDE DEF Of
  <1>3. /\ {f \in SeedUtils(R) : f[2] = "import"} = Of("import", I)
        /\ {f \in SeedUtils(R) : f[2] = "call"} = Of("call", C)
        /\ {f \in SeedUtils(R) : f[2] = "assign"} = Of("assign", A)
    BY <1>1, <1>2
  <1>4. /\ Values({f \in SeedUtils(R) : f[2] = "import"}) = I
        /\ Values({f \in SeedUtils(R) : f[2] = "call"}) = C
        /\ Values({f \in SeedUtils(R) : f[2] = "assign"}) = A
    BY <1>2, <1>3
  <1>5. QED
    BY <1>4 DEF I, C, A

(* The same of the names: unchanged, or those of seed_utils.py come to them.  *)
LEMMA NamesAppear ==
  ASSUME NEW R, NEW S, Wrote(R, S)
  PROVE  \/ Imports(S) = Imports(R) /\ CallSites(S) = CallSites(R) /\ Assigns(S) = Assigns(R)
         \/ /\ Imports(S) = Imports(R) \cup {"random", "numpy"}
                              \cup (IF Uses(R, {"torch"}) THEN {"torch"} ELSE {"os"})
            /\ CallSites(S) = CallSites(R) \cup (IF Uses(R, {"torch"}) THEN SeedCalls
                                                 ELSE {"random.seed", "numpy.random.seed"})
            /\ Assigns(S) = Assigns(R) \cup (IF Uses(R, {"torch"}) THEN CudnnFlags ELSE {})
  <1>1. \A A, B : Values(A \cup B) = Values(A) \cup Values(B)
    BY DEF Values
  <1> DEFINE W(T, k) == Within(T, Modules(T), k)
             D(k) == {f \in SeedUtils(R) : f[2] = k}
  <1>2. \/ W(S, "import") = W(R, "import") /\ W(S, "call") = W(R, "call") /\ W(S, "assign") = W(R, "assign")
        \/ /\ W(S, "import") = W(R, "import") \cup D("import")
           /\ W(S, "call") = W(R, "call") \cup D("call")
           /\ W(S, "assign") = W(R, "assign") \cup D("assign")
    BY CodeAppears
  <1>3. /\ \A T : /\ Imports(T) = Values(W(T, "import")) /\ CallSites(T) = Values(W(T, "call"))
                  /\ Assigns(T) = Values(W(T, "assign"))
    BY DEF Imports, CallSites, Assigns
  <1>4. /\ Values(D("import")) = {"random", "numpy"} \cup (IF Uses(R, {"torch"}) THEN {"torch"} ELSE {"os"})
        /\ Values(D("call")) = (IF Uses(R, {"torch"}) THEN SeedCalls
                                                 ELSE {"random.seed", "numpy.random.seed"})
        /\ Values(D("assign")) = (IF Uses(R, {"torch"}) THEN CudnnFlags ELSE {})
    BY SeedUtilsMean
  <1> HIDE DEF W, D
  <1>5. CASE W(S, "import") = W(R, "import") /\ W(S, "call") = W(R, "call") /\ W(S, "assign") = W(R, "assign")
    BY <1>3, <1>5
  <1>6. CASE /\ W(S, "import") = W(R, "import") \cup D("import")
             /\ W(S, "call") = W(R, "call") \cup D("call")
             /\ W(S, "assign") = W(R, "assign") \cup D("assign")
    <2>1. /\ Imports(S) = Imports(R) \cup Values(D("import"))
          /\ CallSites(S) = CallSites(R) \cup Values(D("call"))
          /\ Assigns(S) = Assigns(R) \cup Values(D("assign"))
      BY <1>1, <1>3, <1>6
    <2>2. QED
      BY <1>4, <2>1
  <1>7. QED
    BY <1>2, <1>5, <1>6

(* The frameworks in use are those there were, and numpy.                    *)
LEMMA FrameworksAppear ==
  ASSUME NEW R, NEW S, Wrote(R, S)
  PROVE  /\ Frameworks(R) \subseteq Frameworks(S)
         /\ Frameworks(S) \subseteq Frameworks(R) \cup {"numpy"}
         /\ DeclaredDists(S) = DeclaredDists(R) /\ Dependencies(S) = Dependencies(R)
         /\ \A fs : "numpy" \notin fs => (Uses(S, fs) <=> Uses(R, fs))
         /\ \A fs : Uses(R, fs) => Uses(S, fs)
  <1>1. DeclaredDists(S) = DeclaredDists(R) /\ Dependencies(S) = Dependencies(R)
    BY UntouchedKinds DEF DeclaredDists, Dependencies, Touched
  <1>2. /\ Imports(R) \subseteq Imports(S) /\ Imports(S) \subseteq Imports(R) \cup SeedImports
        /\ "torch" \in Imports(S) \ Imports(R) => "torch" \in Frameworks(R)
    BY NamesAppear DEF SeedImports, Uses
  <1>3. {"random", "os"} \cap DOMAIN FrameworkImports = {}
    BY DEF FrameworkImports
  <1>4. FrameworkImports["numpy"] = "numpy" /\ FrameworkImports["torch"] = "torch"
    BY DEF FrameworkImports
  <1>5. Frameworks(R) \subseteq Frameworks(S)
    BY <1>1, <1>2 DEF Frameworks
  <1>6. Frameworks(S) \subseteq Frameworks(R) \cup {"numpy"}
    <2> SUFFICES ASSUME NEW i \in Imports(S) \cap DOMAIN FrameworkImports
                 PROVE  FrameworkImports[i] \in Frameworks(R) \cup {"numpy"}
      BY <1>1 DEF Frameworks
    <2>1. CASE i \in Imports(R)
      BY <2>1 DEF Frameworks
    <2>2. CASE i \notin Imports(R)
      BY <1>2, <1>3, <1>4, <2>2 DEF SeedImports
    <2>3. QED
      BY <2>1, <2>2
  <1>7. QED
    BY <1>1, <1>5, <1>6 DEF Uses

(* No call is lost, and only those of seed_utils.py come.                    *)
LEMMA CallsAppear ==
  ASSUME NEW R, NEW S, Wrote(R, S)
  PROVE  /\ \A names : Calls(R, names) => Calls(S, names)
         /\ \A names : names \cap SeedCalls = {} => (Calls(S, names) <=> Calls(R, names))
  <1>1. CallSites(R) \subseteq CallSites(S) /\ CallSites(S) \subseteq CallSites(R) \cup SeedCalls
    BY NamesAppear DEF SeedCalls
  <1>2. QED
    BY <1>1 DEF Calls

(* No remote reference comes or goes, and none loses its pin.                *)
LEMMA ReferencesStay ==
  ASSUME NEW R, NEW S, Wrote(R, S)
  PROVE  /\ Hub(S) = Hub(R) /\ HubReferences(S, {"torch_hub"}) = HubReferences(R, {"torch_hub"})
         /\ \A kinds : DownloadReferences(S, kinds) = DownloadReferences(R, kinds)
         /\ BoundChecksums(S) = BoundChecksums(R)
         /\ RemoteReferences(S) = RemoteReferences(R)
         /\ DatasetCalls(S) = DatasetCalls(R)
         /\ \A refs : refs \subseteq Within(R, Modules(R), "call")
                            => Unpinned(S, refs) \subseteq Unpinned(R, refs)
         /\ \A refs : refs \subseteq Within(R, Modules(R), "call") =>
              {r \in Unpinned(S, refs) : Says(S, r, "mutable-ref")}
                 \subseteq {r \in Unpinned(R, refs) : Says(R, r, "mutable-ref")}
  <1> DEFINE W(T) == Within(T, Modules(T), "call")
  <1>1. /\ W(R) \subseteq W(S)
        /\ \A a \in W(S) : a \in W(R) \/ a[3] \in SeedCalls
    <2>1. W(S) = W(R) \/ W(S) = W(R) \cup {f \in SeedUtils(R) : f[2] = "call"}
      BY CodeAppears
    <2>2. \A f \in SeedUtils(R) : f[2] = "call" => f[3] \in SeedCalls
      BY SeedShape
    <2> HIDE DEF W
    <2>3. QED
      BY <2>1, <2>2
  <1>2. \A T, kinds : HubReferences(T, kinds) = {a \in W(T) : \E k \in kinds : a[3] \in HubCalls[k]}
    BY DEF HubReferences
  <1>3. \A k \in {"hf", "torch_hub", "sentence_transformers"} : HubCalls[k] \cap SeedCalls = {}
    BY DEF HubCalls, SeedCalls
  <1>4. DOMAIN HubCalls = {"hf", "torch_hub", "sentence_transformers"}
    BY DEF HubCalls
  <1>5. \A T : DatasetCalls(T) = {a \in W(T) : a[3] = "datasets.load_dataset"}
    BY DEF DatasetCalls
  <1>6. /\ R \subseteq S /\ \A a \in R : a[1] \in PythonFiles(S) <=> a[1] \in PythonFiles(R)
        /\ \A a \in S \ R : a[2] \in Touched
    BY FilesAppear, WrittenShape DEF Wrote
  <1>7. \A kinds : DownloadReferences(S, kinds) = DownloadReferences(R, kinds)
    BY <1>6 DEF DownloadReferences, Within, Touched
  <1>8. BoundChecksums(S) = BoundChecksums(R)
    <2>1. \A r \in DownloadReferences(R, Downloads) : Says(S, r, "checksum") <=> Says(R, r, "checksum")
      BY Qualified DEF Wrote, IsRepository, DownloadReferences, Within
    <2>2. QED
      BY <1>7, <2>1 DEF BoundChecksums
  <1>9. \A r \in W(R) : /\ Says(R, r, "sha") => Says(S, r, "sha")
                        /\ Says(S, r, "mutable-ref") <=> Says(R, r, "mutable-ref")
    BY Qualified DEF Wrote, IsRepository, Within
  <1> HIDE DEF W
  <1>10. \A kinds \in SUBSET {"hf", "torch_hub", "sentence_transformers"} :
           HubReferences(S, kinds) = HubReferences(R, kinds)
    BY <1>1, <1>2, <1>3
  <1>11. DatasetCalls(S) = DatasetCalls(R)
    BY <1>1, <1>5 DEF SeedCalls
  <1>12. Hub(S) = Hub(R) /\ HubReferences(S, {"torch_hub"}) = HubReferences(R, {"torch_hub"})
    BY <1>10 DEF Hub
  <1>13. RemoteReferences(S) = RemoteReferences(R)
    BY <1>4, <1>7, <1>10 DEF RemoteReferences
  <1>14. \A refs : refs \subseteq W(R) =>
           /\ Unpinned(S, refs) \subseteq Unpinned(R, refs)
           /\ {r \in Unpinned(S, refs) : Says(S, r, "mutable-ref")}
                 \subseteq {r \in Unpinned(R, refs) : Says(R, r, "mutable-ref")}
    <2> TAKE refs
    <2> HAVE refs \subseteq W(R)
    <2>1. Unpinned(S, refs) \subseteq Unpinned(R, refs)
      BY <1>9 DEF Unpinned
    <2>2. \A r \in refs : Says(S, r, "mutable-ref") <=> Says(R, r, "mutable-ref")
      BY <1>9
    <2>3. Unpinned(R, refs) \subseteq refs
      BY DEF Unpinned
    <2>4. QED
      BY <2>1, <2>2, <2>3
  <1>15. QED
    BY <1>7, <1>8, <1>11, <1>12, <1>13, <1>14 DEF W

(* The manifest stays, or is drafted where none was: what the draft says      *)
(* nobody has confirmed.                                                      *)
LEMMA ManifestAppears ==
  ASSUME NEW R, NEW S, Wrote(R, S)
  PROVE  \/ /\ \A kind : Manifest(S, kind) = Manifest(R, kind)
            /\ \A kind, q : \A c \in Manifest(R, kind) : Says(S, c, q) <=> Says(R, c, q)
         \/ /\ \A kind : Manifest(R, kind) = {}
            /\ \A kind, q : \A c \in Manifest(S, kind) :
                 Says(S, c, q) => kind = "claim" /\ q \in DraftQualifiers
            /\ {c \in Claims(S) : Says(S, c, "value")} # {} <=> Facts(R, "paper.tex", "metric") # {}
            /\ PaperDatasets(R) \subseteq Values(Datasets(S))
  <1>1. R \subseteq S /\ (\A f \in S : IsFact(f)) /\ IsRepository(R)
    BY DEF Wrote, IsRepository
  <1>2. /\ \A f : <<f, "invalid">> \in S <=> <<f, "invalid">> \in R
    BY UntouchedKinds DEF Touched
  <1>3. CASE \A f \in S \ R : f[1] # "manifest.yaml"
    <2>1. \A kind : Facts(S, "manifest.yaml", kind) = Facts(R, "manifest.yaml", kind)
      BY <1>1, <1>3 DEF Facts
    <2>2. \A kind : Manifest(S, kind) = Manifest(R, kind)
      BY <1>2, <2>1 DEF Manifest
    <2>3. ASSUME NEW kind, NEW q, NEW c \in Manifest(R, kind)
          PROVE  Says(S, c, q) <=> Says(R, c, q)
      <3>1. c \in R /\ Len(c) = 3 /\ c[1] = "manifest.yaml"
        BY <2>3 DEF Manifest, Facts
      <3>2. Append(c, q)[1] = "manifest.yaml"
        BY <1>1, <3>1, Extended
      <3>3. QED
        BY <1>1, <1>3, <3>2 DEF Says
    <2>4. QED
      BY <2>2, <2>3
  <1>4. CASE \E f \in S \ R : f[1] = "manifest.yaml"
    <2>1. PICK quoted \in Quoted(R) :
            Draft(R, quoted) \subseteq S /\ \A f \in S \ R : f \in Drafts(R, quoted)
      BY <1>4 DEF Wrote, DraftFiles
    <2>2. /\ ~ Exists(R, "manifest.yaml")
          /\ \A f \in S : f[1] = "manifest.yaml" => f \in Draft(R, quoted)
      <3>1. ~ Exists(R, "manifest.yaml")
        BY <1>4, WrittenShape DEF DraftFiles
      <3>2. QED
        BY <1>1, <2>1, <3>1, DraftShape DEF Exists
    <2>3. \A kind : Manifest(R, kind) = {}
      BY <2>2 DEF Manifest, Facts, Exists
    <2>4. <<"manifest.yaml", "invalid">> \notin S
      <3>1. <<"manifest.yaml", "invalid">>[1] = "manifest.yaml"
        OBVIOUS
      <3>2. QED
        BY <1>2, <2>2, <3>1 DEF Exists
    <2>5. \A kind : Manifest(S, kind) = Facts(S, "manifest.yaml", kind)
      BY <2>4 DEF Manifest
    <2>6. ASSUME NEW kind, NEW q, NEW c \in Manifest(S, kind), Says(S, c, q)
          PROVE  /\ kind = "claim" /\ q \in DraftQualifiers
                 /\ q = "value" => Facts(R, "paper.tex", "metric") # {}
      <3>1. c \in S /\ Len(c) = 3 /\ c[1] = "manifest.yaml" /\ c[2] = kind /\ IsFact(c)
        BY <1>1, <2>5, <2>6 DEF Facts
      <3>2. PICK g : g = Append(c, q)
        OBVIOUS
      <3>3. Len(g) = 4 /\ g[1] = "manifest.yaml" /\ g[2] = kind /\ g[4] = q /\ g \in S
        BY <2>6, <3>1, <3>2, Extended DEF Says
      <3>4. g \in Drafts(R, quoted)
        BY <2>2, <3>3 DEF Drafts
      <3>5. /\ g[2] = "claim" /\ g[4] \in ({"value", "config"} \cup quoted) \cup ResultFiles
            /\ g[4] = "value" => Facts(R, "paper.tex", "metric") # {}
            /\ quoted \subseteq {"command"} \cup Hits
        BY <1>1, <3>3, <3>4, DraftShape
      <3>6. QED
        BY <3>3, <3>5 DEF DraftQualifiers
    <2>7. ASSUME NEW m \in Facts(R, "paper.tex", "metric")
          PROVE  \E c \in Claims(S) : Says(S, c, "value")
      <3>1. PICK c : c = <<"manifest.yaml", "claim", m[3]>>
        OBVIOUS
      <3>2. c \in Drafted(R) /\ "value" \in Carried(R, quoted)
        BY <2>7, <3>1 DEF Drafted, Carried, Entry
      <3>5. c \in Draft(R, quoted) /\ Append(c, "value") \in Draft(R, quoted)
        BY <3>2 DEF Draft
      <3>3. Len(c) = 3 /\ c[1] = "manifest.yaml" /\ c[2] = "claim"
        BY <3>1, TripleIs
      <3>4. QED
        BY <2>1, <2>5, <3>3, <3>5 DEF Claims, Facts, Says
    <2>8. {c \in Claims(S) : Says(S, c, "value")} # {} <=> Facts(R, "paper.tex", "metric") # {}
      BY <2>6, <2>7 DEF Claims
    <2>9. ASSUME NEW d \in PaperDatasets(R) PROVE d \in Values(Datasets(S))
      <3>1. <<"manifest.yaml", "dataset", d>> \in S
        BY <2>1, <2>9 DEF Draft, Entry
      <3>2. PICK g : g = <<"manifest.yaml", "dataset", d>>
        OBVIOUS
      <3>3. Len(g) = 3 /\ g[1] = "manifest.yaml" /\ g[2] = "dataset" /\ g[3] = d /\ g \in S
        BY <3>1, <3>2, TripleIs
      <3>4. QED
        BY <2>5, <3>3 DEF Datasets, Facts, Values
    <2>10. QED
      BY <2>3, <2>6, <2>8, <2>9
  <1>5. QED
    BY <1>3, <1>4

(* Claims that were there stay as they were; new ones are unconfirmed.        *)
LEMMA ClaimsAppear ==
  ASSUME NEW R, NEW S, Wrote(R, S)
  PROVE  /\ \A c, q : c \in Claims(S) /\ Confirmed(S, c) /\ Says(S, c, q)
                        <=> c \in Claims(R) /\ Confirmed(R, c) /\ Says(R, c, q)
         /\ {c \in Claims(S) : Confirmed(S, c)} = {c \in Claims(R) : Confirmed(R, c)}
         /\ \A q : {c \in Claims(R) : Says(R, c, q)} \subseteq {c \in Claims(S) : Says(S, c, q)}
         /\ Claims(R) # {} => Claims(S) = Claims(R)
  <1>1. CASE /\ \A kind : Manifest(S, kind) = Manifest(R, kind)
             /\ \A kind, q : \A c \in Manifest(R, kind) : Says(S, c, q) <=> Says(R, c, q)
    BY <1>1 DEF Claims, Confirmed
  <1>2. CASE /\ \A kind : Manifest(R, kind) = {}
             /\ \A kind, q : \A c \in Manifest(S, kind) :
                 Says(S, c, q) => kind = "claim" /\ q \in DraftQualifiers
    <2>1. \A c \in Claims(S) : ~ Confirmed(S, c)
      BY <1>2 DEF Claims, Confirmed, DraftQualifiers, Hits, ResultFiles
    <2>2. QED
      BY <1>2, <2>1 DEF Claims
  <1>3. QED
    BY <1>1, <1>2, ManifestAppears

(* Dependencies and their pins are as they were.                             *)
LEMMA Pins ==
  ASSUME NEW R, NEW S, Wrote(R, S)
  PROVE  /\ \A p : PinnedAtLeast(S, p) <=> PinnedAtLeast(R, p)
         /\ HasLockfile(S) <=> HasLockfile(R)
         /\ Declared(S) <=> Declared(R)
         /\ Dependencies(S) = Dependencies(R)
         /\ Python(R) => Python(S)
  <1>1. Dependencies(S) = Dependencies(R) /\ (Python(R) => Python(S))
    BY FrameworksAppear, FilesAppear DEF Python, PythonFiles
  <1>2. HasLockfile(S) <=> HasLockfile(R)
    BY FilesAppear DEF HasLockfile, Lockfiles, NewFiles
  <1>3. \A d \in Dependencies(R) : \A q : Says(S, d, q) <=> Says(R, d, q)
    BY Qualified DEF Dependencies, Within, Wrote, IsRepository
  <1>4. /\ {d \in Dependencies(S) : Exact(S, d)} = {d \in Dependencies(R) : Exact(R, d)}
        /\ {d \in Dependencies(S) : Bounded(S, d)} = {d \in Dependencies(R) : Bounded(R, d)}
    BY <1>1, <1>3 DEF Exact, Bounded
  <1>5. Declared(S) <=> Declared(R)
    BY FilesAppear, UntouchedKinds DEF Declared, NewFiles, Touched
  <1>6. QED
    BY <1>1, <1>2, <1>4, <1>5 DEF PinnedAtLeast

(* Prose only grows, and the manifest's environment with it.                  *)
LEMMA ProseGrows ==
  ASSUME NEW R, NEW S, Wrote(R, S)
  PROVE  /\ \A k : HasSection(R, k) => HasSection(S, k)
         /\ \A k : ReadmeSays(R, k) => ReadmeSays(S, k)
         /\ HasReadme(R) => HasReadme(S)
         /\ HardwareInReadme(R) => HardwareInReadme(S)
         /\ \A w : Environment(R, w) => Environment(S, w)
         /\ PaperSays(R, "precision") => PaperSays(S, "precision")
         /\ PaperSays(R, "hardware") => PaperSays(S, "hardware")
  <1>1. R \subseteq S
    BY DEF Wrote
  <1>2. \A w : Environment(R, w) => Environment(S, w)
    BY ManifestAppears DEF Environment
  <1>3. HasReadme(R) => HasReadme(S)
    BY FilesAppear DEF HasReadme
  <1>4. QED
    BY <1>1, <1>2, <1>3 DEF HasSection, ReadmeSays, HardwareInReadme, HardwareInline, PaperSays

(* What the data rules read of the evidence.                                 *)
LEMMA DataStays ==
  ASSUME NEW R, NEW S, Wrote(R, S)
  PROVE  /\ DatasetLoaders(R) <=> DatasetLoaders(S)
         /\ Datasets(R) # {} => Datasets(S) # {}
         /\ DatasetChecksums(R) # {} => DatasetChecksums(S) # {}
         /\ DatasetUrls(R) => DatasetUrls(S)
         /\ UsesDvc(S) <=> UsesDvc(R)
         /\ DownloadScripts(S) = DownloadScripts(R)
         /\ DataRepo(S) <=> DataRepo(R)
         /\ UsesHashlib(R) => UsesHashlib(S)
         /\ Files(R) \subseteq Files(S)
         /\ (IsGit(S) <=> IsGit(R)) /\ LargeBinaries(S) = LargeBinaries(R)
         /\ UntrackedBinaries(S) = UntrackedBinaries(R)
  <1>1. DatasetLoaders(R) <=> DatasetLoaders(S)
    BY CallsAppear DEF DatasetLoaders, SeedCalls
  <1>2. /\ Datasets(R) # {} => Datasets(S) # {}
        /\ DatasetChecksums(R) # {} => DatasetChecksums(S) # {}
    BY ManifestAppears DEF Datasets, DatasetChecksums
  <1>3. /\ DatasetUrls(R) => DatasetUrls(S)
    BY ProseGrows DEF DatasetUrls
  <1>4. /\ UsesDvc(S) <=> UsesDvc(R)
        /\ DownloadScripts(S) = DownloadScripts(R)
        /\ Files(R) \subseteq Files(S)
    BY FilesAppear DEF UsesDvc, DownloadScripts, DownloadNames, NewFiles
  <1>5. DataRepo(S) <=> DataRepo(R)
    BY FrameworksAppear DEF DataRepo
  <1>6. UsesHashlib(R) => UsesHashlib(S)
    BY NamesAppear DEF UsesHashlib
  <1>7. Files(S) \cap Binaries = Files(R) \cap Binaries /\ (IsGit(S) <=> IsGit(R))
    BY FilesAppear DEF NewFiles, Binaries, IsGit
  <1>8. LargeBinaries(S) = LargeBinaries(R)
    BY <1>7, UntouchedKinds DEF LargeBinaries, Touched
  <1>9. UntrackedBinaries(S) = UntrackedBinaries(R)
    BY <1>8, UntouchedKinds DEF UntrackedBinaries, Touched
  <1>10. QED
    BY <1>1, <1>2, <1>3, <1>4, <1>5, <1>6, <1>7, <1>8, <1>9

(* The values a hyperparameter has, and what a linked run record is.          *)
LEMMA ValuesStay ==
  ASSUME NEW R, NEW S, Wrote(R, S)
  PROVE  /\ \A name \in Hyperparameters :
              /\ PaperValues(S, name) = PaperValues(R, name)
              /\ RunValues(S, name) = RunValues(R, name)
              /\ ConfigValues(S, name) = ConfigValues(R, name)
              /\ \A a \in 1 .. 3 : Candidates(S, name, a) = Candidates(R, name, a)
              /\ Authorities(S, name) = Authorities(R, name)
         /\ Stated(S) = Stated(R) /\ Missing(S) = Missing(R)
         /\ Drifted(S) = Drifted(R) /\ Ambiguous(S) = Ambiguous(R)
         /\ Materialized(S) = Materialized(R) /\ ConfigFiles(S) = ConfigFiles(R)
         /\ SlurmScripts(S) = SlurmScripts(R) /\ (SlurmGpu(S) <=> SlurmGpu(R))
  <1>1. ConfigFiles(S) = ConfigFiles(R) /\ Materialized(S) = Materialized(R)
    BY FilesAppear DEF ConfigFiles, Materialized, RunRecord, NewFiles
  <1>2. ASSUME NEW name \in Hyperparameters
        PROVE  /\ PaperValues(S, name) = PaperValues(R, name)
               /\ RunValues(S, name) = RunValues(R, name)
               /\ ConfigValues(S, name) = ConfigValues(R, name)
    <2>1. name \notin Touched
      BY DEF Hyperparameters, Touched
    <2>2. QED
      BY <1>1, <2>1, UntouchedKinds DEF PaperValues, RunValues, ConfigValues
  <1>3. Linked(S) <=> Linked(R)
    <2> DEFINE linking(T) == {c \in Claims(T) : Confirmed(T, c) /\ Says(T, c, "run record")}
    <2>1. linking(S) = linking(R)
      BY ClaimsAppear
    <2>2. \A T : Linked(T) <=> linking(T) # {}
      BY DEF Linked
    <2>3. QED
      BY <2>1, <2>2
  <1>4. ASSUME NEW name PROVE DefaultValues(S, name) = DefaultValues(R, name)
    <2> DEFINE given(T) == {b \in T : /\ Len(b) = 4 /\ b[3] = name
                                     /\ SubSeq(b, 1, 3) \in CliArgs(T) \cup DataclassDefaults(T)}
    <2>1. CliArgs(S) = CliArgs(R) /\ DataclassDefaults(S) = DataclassDefaults(R)
      BY CodeAppears DEF CliArgs, DataclassDefaults, Touched
    <2>2. ASSUME NEW b \in S \ R, Len(b) = 4 PROVE SubSeq(b, 1, 3) \notin CliArgs(S) \cup DataclassDefaults(S)
      <3>1. IsFact(b) /\ b[2] \in Touched
        BY <2>2, WrittenShape
      <3>2. b \in Seq(Range(b))
        BY <3>1 DEF IsFact
      <3>3. SubSeq(b, 1, 3)[2] = b[2]
        BY <2>2, <3>2
      <3>4. QED
        BY <3>1, <3>3 DEF CliArgs, DataclassDefaults, Within, Touched
    <2>3. R \subseteq S
      BY DEF Wrote
    <2>4. given(S) = given(R)
      BY <2>1, <2>2, <2>3
    <2>5. \A T : DefaultValues(T, name) = {b[4] : b \in given(T)}
      BY DEF DefaultValues
    <2> HIDE DEF given
    <2>6. QED
      BY <2>4, <2>5
  <1>5. ASSUME NEW name \in Hyperparameters
        PROVE  /\ \A a \in 1 .. 3 : Candidates(S, name, a) = Candidates(R, name, a)
               /\ Authorities(S, name) = Authorities(R, name)
    <2>1. Candidates(S, name, 3) = Candidates(R, name, 3)
      BY <1>2, <1>3 DEF Candidates
    <2>2. Candidates(S, name, 2) = Candidates(R, name, 2)
      BY <1>2 DEF Candidates
    <2>3. Candidates(S, name, 1) = Candidates(R, name, 1)
      BY <1>4 DEF Candidates
    <2>4. \A a \in 1 .. 3 : Candidates(S, name, a) = Candidates(R, name, a)
      BY <2>1, <2>2, <2>3
    <2>5. QED
      BY <2>4 DEF Authorities
  <1>6. Stated(S) = Stated(R) /\ Missing(S) = Missing(R)
    <2>1. Stated(S) = Stated(R)
      BY <1>2 DEF Stated
    <2>2. \A name \in Stated(R) : Authorities(S, name) = Authorities(R, name)
      BY <1>5 DEF Stated
    <2>3. QED
      BY <2>1, <2>2 DEF Missing
  <1>7. Drifted(S) = Drifted(R)
    <2>1. ASSUME NEW name \in Stated(R) \ Missing(R)
          PROVE  /\ PaperValues(S, name) = PaperValues(R, name)
                 /\ Candidates(S, name, Max(Authorities(S, name)))
                      = Candidates(R, name, Max(Authorities(R, name)))
      <3>1. name \in Hyperparameters /\ Authorities(R, name) # {}
        BY DEF Stated, Missing
      <3>2. \E m \in Authorities(R, name) : \A a \in Authorities(R, name) : m >= a
        BY <3>1 DEF Authorities
      <3>3. Max(Authorities(R, name)) \in Authorities(R, name)
        BY <3>2 DEF Max
      <3>4. Max(Authorities(R, name)) \in 1 .. 3
        BY <3>3 DEF Authorities
      <3>5. QED
        BY <1>2, <1>5, <3>1, <3>4
    <2>2. QED
      BY <1>6, <2>1 DEF Drifted
  <1>8. Ambiguous(S) = Ambiguous(R)
    <2>1. \A name \in Stated(R) : /\ ConfigValues(S, name) = ConfigValues(R, name)
                                  /\ Candidates(S, name, 3) = Candidates(R, name, 3)
      BY <1>2, <1>5 DEF Stated
    <2>2. QED
      BY <1>6, <2>1 DEF Ambiguous
  <1>9. SlurmScripts(S) = SlurmScripts(R) /\ (SlurmGpu(S) <=> SlurmGpu(R))
    BY UntouchedKinds DEF SlurmScripts, SlurmGpu, Touched
  <1>10. QED
    BY <1>1, <1>2, <1>5, <1>6, <1>7, <1>8, <1>9

(* Nothing a tool writes is a log, and a drafted claim names none as its own. *)
LEMMA LogsStay ==
  ASSUME NEW R, NEW S, Wrote(R, S)
  PROVE  /\ Within(S, ResultFiles, "accuracy") = Within(R, ResultFiles, "accuracy")
         /\ (Paper(S) <=> Paper(R)) /\ (ResultsPresent(S) <=> ResultsPresent(R))
         /\ SeedsSwept(S) = SeedsSwept(R)
         /\ Facts(S, "paper.tex", "metric") = Facts(R, "paper.tex", "metric")
         /\ Claims(R) # {} => Claims(S) # {}
  <1>1. /\ Within(S, ResultFiles, "accuracy") = Within(R, ResultFiles, "accuracy")
        /\ SeedsSwept(S) = SeedsSwept(R)
        /\ Facts(S, "paper.tex", "metric") = Facts(R, "paper.tex", "metric")
    BY UntouchedKinds DEF SeedsSwept, Touched
  <1>2. /\ Paper(S) <=> Paper(R)
        /\ Files(S) \cap {"events.out.tfevents", "wandb", "mlruns"}
             = Files(R) \cap {"events.out.tfevents", "wandb", "mlruns"}
    BY FilesAppear DEF Paper, NewFiles
  <1>3. ResultsPresent(S) <=> ResultsPresent(R)
    BY <1>1, <1>2 DEF ResultsPresent
  <1>4. QED
    BY <1>1, <1>2, <1>3, ClaimsAppear

(* Only seed_utils.py brings imports.                                        *)
LEMMA ImportsStay ==
  ASSUME NEW R, NEW S, Wrote(R, S), \A f \in S \ R : f \notin SeedUtils(R)
  PROVE  Imports(S) = Imports(R)
  <1>1. \A f \in S \ R : f[2] = "import" => Len(f) # 3
    BY WrittenShape
  <1>2. R \subseteq S /\ \A a \in R : a[1] \in Modules(S) <=> a[1] \in Modules(R)
    BY FilesAppear DEF Wrote
  <1>3. Within(S, Modules(S), "import") = Within(R, Modules(R), "import")
    BY <1>1, <1>2 DEF Within
  <1>4. QED
    BY <1>3 DEF Imports

-----------------------------------------------------------------------------
(* No verdict falls.                                                         *)

(* The order of the verdicts: what is not assessed compares with nothing.    *)
LEMMA Statuses ==
  /\ \A v \in {"pass", "partial", "fail", "unknown", "not-applicable"} : NoWorse(v, v)
  /\ NoWorse("fail", "partial") /\ NoWorse("fail", "pass") /\ NoWorse("partial", "pass")
  /\ \A v : NoWorse(v, "pass") /\ NoWorse("fail", v)
  /\ \A v : NoWorse("not-applicable", v) /\ NoWorse("unknown", v)
  /\ \A v : NoWorse(v, "not-applicable") /\ NoWorse(v, "unknown")
  BY DEF NoWorse, Assessed, Rank

(* Fewer gaps are no worse.                                                  *)
LEMMA GapsClose ==
  ASSUME NEW gaps, NEW sites, NEW fewer, fewer \subseteq gaps, gaps \subseteq sites
  PROVE  NoWorse(Shares(gaps, sites), Shares(fewer, sites)) /\ NoWorse(Warned(gaps), Warned(fewer))
  BY Statuses DEF Shares, Warned

(* determinism.py: seed_utils.py may bring numpy and python into play, and   *)
(* seeds both.                                                               *)
LEMMA DeterminismRules ==
  ASSUME NEW R, NEW S, Wrote(R, S)
  PROVE  /\ NoWorse(SeedDeterminismRule(R), SeedDeterminismRule(S))
         /\ NoWorse(CudnnFlagsRule(R), CudnnFlagsRule(S))
         /\ NoWorse(StrictDeterminismRule(R), StrictDeterminismRule(S))
         /\ NoWorse(DataLoaderGeneratorRule(R), DataLoaderGeneratorRule(S))
         /\ NoWorse(DataLoaderWorkerRule(R), DataLoaderWorkerRule(S))
         /\ NoWorse(SklearnRandomStateRule(R), SklearnRandomStateRule(S))
  <1>1. NoWorse(SeedDeterminismRule(R), SeedDeterminismRule(S))
    <2> DEFINE Libraries == {"python", "numpy", "torch", "torch CUDA", "tensorflow", "jax"}
    <2>1. ASSUME NEW l \in Libraries, Seeded(R, l) PROVE Seeded(S, l)
      <3>1. \A names : Calls(R, names) => Calls(S, names)
        BY CallsAppear
      <3>2. Umbrella(R) => Umbrella(S)
        BY <3>1 DEF Umbrella
      <3> HIDE DEF Libraries
      <3>3. CASE l = "python"
        BY <2>1, <3>1, <3>2, <3>3 DEF Seeded
      <3>4. CASE l = "numpy"
        BY <2>1, <3>1, <3>2, <3>4 DEF Seeded
      <3>5. CASE l = "torch"
        BY <2>1, <3>1, <3>2, <3>5 DEF Seeded
      <3>6. CASE l = "torch CUDA"
        BY <2>1, <3>1, <3>2, <3>6 DEF Seeded
      <3>7. CASE l = "tensorflow"
        BY <2>1, <3>1, <3>7 DEF Seeded
      <3>8. CASE l = "jax"
        BY <2>1, <3>1, <3>8 DEF Seeded
      <3>9. QED
        BY <2>1, <3>3, <3>4, <3>5, <3>6, <3>7, <3>8 DEF Libraries
    <2>2. InPlay(S) \subseteq InPlay(R) \/ {"random.seed", "numpy.random.seed"} \subseteq CallSites(S)
      <3>1. CASE Imports(S) = Imports(R)
        <4>1. Frameworks(S) = Frameworks(R)
          BY <3>1, FrameworksAppear DEF Frameworks
        <4>2. QED
          BY <3>1, <4>1 DEF InPlay, Uses
      <3>2. QED
        BY <3>1, NamesAppear DEF SeedCalls
    <2>3. InPlay(S) \subseteq InPlay(R) \cup {"python", "numpy"}
      <3>1. /\ Frameworks(S) \subseteq Frameworks(R) \cup {"numpy"}
            /\ Uses(S, {"torch"}) <=> Uses(R, {"torch"})
        BY FrameworksAppear
      <3>2. QED
        BY <3>1 DEF InPlay
    <2>4. InPlay(R) \subseteq Libraries
      BY DEF InPlay
    <2>5. {"random.seed", "numpy.random.seed"} \subseteq CallSites(S) => Seeded(S, "python") /\ Seeded(S, "numpy")
      BY DEF Seeded, Calls
    <2>6. (\A l \in InPlay(R) : Seeded(R, l)) => \A l \in InPlay(S) : Seeded(S, l)
      BY <2>1, <2>2, <2>3, <2>4, <2>5
    <2>7. (\E l \in {"python", "numpy", "torch"} : Seeded(R, l))
             => \E l \in {"python", "numpy", "torch"} : Seeded(S, l)
      BY <2>1
    <2> DEFINE Concerned == {"torch", "tensorflow", "numpy", "sklearn", "jax", "lightning", "transformers"}
    <2>8. Uses(R, Concerned) => Uses(S, Concerned)
      BY FrameworksAppear
    <2>9. QED
      BY <2>6, <2>7, <2>8, Statuses DEF SeedDeterminismRule, Where, Tiered
  <1>2. NoWorse(CudnnFlagsRule(R), CudnnFlagsRule(S))
    <2> DEFINE F(T) == Assigns(T) \cap {"cudnn.deterministic=True", "cudnn.benchmark=False"}
    <2>1. F(R) \subseteq F(S)
      BY NamesAppear
    <2>2. Cardinality(F(R)) = 2 => Cardinality(F(S)) = 2
      <3> DEFINE P == {"cudnn.deterministic=True", "cudnn.benchmark=False"}
      <3>1. IsFiniteSet(P) /\ Cardinality(P) = 2
        BY Pairs
      <3>2. IsFiniteSet(F(S)) /\ Cardinality(F(S)) <= 2 /\ Cardinality(F(R)) <= Cardinality(F(S))
        BY <2>1, <3>1, FS_Subset
      <3>3. QED
        BY <3>2, FS_CardinalityType
    <2>3. \A names : Calls(R, names) => Calls(S, names)
      BY CallsAppear
    <2>4. Uses(S, {"torch", "lightning"}) <=> Uses(R, {"torch", "lightning"})
      BY FrameworksAppear
    <2>5. QED
      BY <2>1, <2>2, <2>3, <2>4, Statuses DEF CudnnFlagsRule, StrictAlgorithms, Where, Tiered
  <1>3. NoWorse(StrictDeterminismRule(R), StrictDeterminismRule(S))
    <2>1. /\ \A names : Calls(R, names) => Calls(S, names)
          /\ Uses(S, {"torch"}) <=> Uses(R, {"torch"})
      BY CallsAppear, FrameworksAppear
    <2>2. \A v : SetsAtProcessStart(R, v) => SetsAtProcessStart(S, v)
      BY DEF SetsAtProcessStart, Wrote
    <2>3. QED
      BY <2>1, <2>2, Statuses DEF StrictDeterminismRule, StrictAlgorithms, Where, Tiered
  <1>4. /\ NoWorse(DataLoaderGeneratorRule(R), DataLoaderGeneratorRule(S))
        /\ NoWorse(DataLoaderWorkerRule(R), DataLoaderWorkerRule(S))
        /\ NoWorse(SklearnRandomStateRule(R), SklearnRandomStateRule(S))
    <2>1. DataLoaders(S) = DataLoaders(R)
      <3>1. Within(S, Modules(S), "loader") = Within(R, Modules(R), "loader")
        BY CodeAppears DEF Touched
      <3>2. ASSUME NEW a \in Within(R, Modules(R), "loader")
            PROVE <<a[1], "import", "torch">> \in S <=> <<a[1], "import", "torch">> \in R
        <4>1. PICK g : g = <<a[1], "import", "torch">>
          OBVIOUS
        <4>2. g[1] = a[1] /\ g[2] = "import" /\ Len(g) = 3 /\ a \in R
          BY <4>1, TripleIs DEF Within
        <4>3. g \in S \ R => ~ Exists(R, a[1])
          BY <4>2, WrittenShape, SeedShape DEF Exists
        <4>4. QED
          BY <4>1, <4>2, <4>3 DEF Exists, Wrote
      <3>3. QED
        BY <3>1, <3>2 DEF DataLoaders
    <2>2. Estimators(S) = Estimators(R)
      BY CodeAppears DEF Estimators, Touched
    <2>3. \A a \in DataLoaders(R) \cup Estimators(R) : \A q : Says(S, a, q) <=> Says(R, a, q)
      BY Qualified DEF DataLoaders, Estimators, Within, Wrote, IsRepository
    <2>4. /\ Uses(S, {"torch"}) <=> Uses(R, {"torch"})
          /\ Uses(S, {"sklearn"}) <=> Uses(R, {"sklearn"})
          /\ Calls(S, {"lightning.seed_everything(workers=True)"})
                <=> Calls(R, {"lightning.seed_everything(workers=True)"})
      BY CallsAppear, FrameworksAppear DEF SeedCalls
    <2>5. /\ DataLoaderGeneratorRule(S) = DataLoaderGeneratorRule(R)
          /\ DataLoaderWorkerRule(S) = DataLoaderWorkerRule(R)
          /\ SklearnRandomStateRule(S) = SklearnRandomStateRule(R)
      BY <2>1, <2>2, <2>3, <2>4
         DEF DataLoaderGeneratorRule, DataLoaderWorkerRule, SklearnRandomStateRule, Where
    <2>6. {DataLoaderGeneratorRule(R), DataLoaderWorkerRule(R), SklearnRandomStateRule(R)}
            \subseteq {"pass", "partial", "fail", "not-applicable"}
      BY DEF DataLoaderGeneratorRule, DataLoaderWorkerRule, SklearnRandomStateRule, Where, Shares, Warned
    <2>7. QED
      BY <2>5, <2>6, Statuses
  <1>5. QED
    BY <1>1, <1>2, <1>3, <1>4

(* deps.py, env.py: a ghost dependency can only come with a new import.      *)
LEMMA DependencyRules ==
  ASSUME NEW R, NEW S, Wrote(R, S)
  PROVE  /\ NoWorse(UnpinnedDependencyRule(R), UnpinnedDependencyRule(S))
         /\ NoWorse(LooseRangeRule(R), LooseRangeRule(S))
         /\ Imports(S) = Imports(R) => NoWorse(GhostDependencyRule(R), GhostDependencyRule(S))
         /\ NoWorse(UnusedDependencyRule(R), UnusedDependencyRule(S))
         /\ NoWorse(NotebookOnlyImportRule(R), NotebookOnlyImportRule(S))
         /\ NoWorse(SystemDependencyRule(R), SystemDependencyRule(S))
         /\ NoWorse(DependencyPinningRule(R), DependencyPinningRule(S))
         /\ NoWorse(LockfileRule(R), LockfileRule(S))
         /\ NoWorse(ContainerRule(R), ContainerRule(S))
         /\ NoWorse(PythonVersionRule(R), PythonVersionRule(S))
         /\ NoWorse(SystemLayerCapturedRule(R), SystemLayerCapturedRule(S))
  <1>1. /\ NoWorse(UnpinnedDependencyRule(R), UnpinnedDependencyRule(S))
        /\ NoWorse(LooseRangeRule(R), LooseRangeRule(S))
        /\ Imports(S) = Imports(R) => NoWorse(GhostDependencyRule(R), GhostDependencyRule(S))
        /\ NoWorse(UnusedDependencyRule(R), UnusedDependencyRule(S))
        /\ NoWorse(NotebookOnlyImportRule(R), NotebookOnlyImportRule(S))
        /\ NoWorse(SystemDependencyRule(R), SystemDependencyRule(S))
    <2>1. /\ Dependencies(S) = Dependencies(R) /\ DeclaredDists(S) = DeclaredDists(R)
          /\ Python(R) => Python(S)
      BY FrameworksAppear, FilesAppear DEF Python, PythonFiles
    <2>2. HasLockfile(S) <=> HasLockfile(R)
      BY FilesAppear DEF HasLockfile, Lockfiles, NewFiles
    <2>3. \A d \in Dependencies(R) : \A q : Says(S, d, q) <=> Says(R, d, q)
      BY Qualified DEF Dependencies, Within, Wrote, IsRepository
    <2>4. \A d \in Dependencies(R) : /\ Exact(S, d) <=> Exact(R, d)
                                     /\ Unbounded(S, d) <=> Unbounded(R, d)
      BY <2>3 DEF Exact, Bounded, Unbounded
    <2>5. NoWorse(UnpinnedDependencyRule(R), UnpinnedDependencyRule(S))
      <3>1. {d \in Dependencies(S) : Unbounded(S, d)} = {d \in Dependencies(R) : Unbounded(R, d)}
        BY <2>1, <2>4
      <3>2. Python(R) /\ Dependencies(R) # {} => UnpinnedDependencyRule(S) = UnpinnedDependencyRule(R)
        BY <2>1, <2>2, <3>1 DEF UnpinnedDependencyRule, Where
      <3>3. UnpinnedDependencyRule(R) \in {"pass", "partial", "fail", "not-applicable"}
        BY DEF UnpinnedDependencyRule, Where, Shares
      <3>4. QED
        BY <3>2, <3>3, Statuses DEF UnpinnedDependencyRule, Where
    <2>6. NoWorse(LooseRangeRule(R), LooseRangeRule(S))
      <3>1. {d \in Dependencies(S) : ~ Exact(S, d) /\ d[3] \in NumericDists}
              = {d \in Dependencies(R) : ~ Exact(R, d) /\ d[3] \in NumericDists}
        BY <2>1, <2>4
      <3>2. QED
        BY <2>1, <2>2, <3>1, Statuses DEF LooseRangeRule, Where, Warned
    <2>7. Declared(S) <=> Declared(R)
      BY FilesAppear, UntouchedKinds DEF Declared, NewFiles, Touched
    <2>8. ProjectModules(R) \subseteq ProjectModules(S)
      BY FilesAppear DEF ProjectModules, PythonFiles
    <2>9. \A roots : Undeclared(S, roots) \subseteq Undeclared(R, roots)
      BY <2>1, <2>8 DEF Undeclared
    <2>10. IsFiniteSet(Imports(R))
      <3>1. IsFiniteSet(Within(R, Modules(R), "import"))
        BY FS_Subset DEF Within, Wrote, IsRepository
      <3>2. QED
        <4> DEFINE W == Within(R, Modules(R), "import")
        <4>1. PICK f : f = [x \in W |-> x[3]]
          OBVIOUS
        <4>2. Imports(R) = {f[x] : x \in W}
          BY <4>1 DEF Imports, Values
        <4>3. IsFiniteSet(W)
          BY <3>1
        <4> HIDE DEF W
        <4>4. QED
          BY <4>1, <4>2, <4>3, FiniteImage
    <2>11. Imports(S) = Imports(R) => NoWorse(GhostDependencyRule(R), GhostDependencyRule(S))
      <3> SUFFICES ASSUME Imports(S) = Imports(R) PROVE NoWorse(GhostDependencyRule(R), GhostDependencyRule(S))
        OBVIOUS
      <3> DEFINE G(T) == Undeclared(T, Imports(T))
      <3>1. G(S) \subseteq G(R) /\ G(R) \subseteq Imports(R)
        BY <2>9 DEF Undeclared
      <3>2. IsFiniteSet(G(R)) /\ IsFiniteSet(G(S)) /\ Cardinality(G(S)) <= Cardinality(G(R))
        BY <2>10, <3>1, FS_Subset
      <3>3. Cardinality(G(R)) <= 2 => Cardinality(G(S)) <= 2
        BY <3>2, FS_CardinalityType
      <3>4. G(R) = {} => G(S) = {}
        BY <3>1
      <3>5. \A T : GhostDependencyRule(T)
                          = Where(Python(T) /\ Declared(T), Tiered(G(T) = {}, Cardinality(G(T)) <= 2))
        BY DEF GhostDependencyRule
      <3> HIDE DEF G
      <3>6. QED
        BY <2>1, <2>7, <3>3, <3>4, <3>5, Statuses DEF Where, Tiered
    <2>12. NotebookImports(S) = NotebookImports(R) /\ Parsed(S) = Parsed(R)
      <3>1. \A f : <<f, "broken">> \in S <=> <<f, "broken">> \in R
        BY UntouchedKinds DEF Touched
      <3>2. {b \in S : b[2] = "cell import"} = {b \in R : b[2] = "cell import"}
        BY WrittenShape DEF Touched, Wrote
      <3>3. Files(S) \cap DOMAIN Companions = Files(R) \cap DOMAIN Companions
        BY FilesAppear DEF NewFiles, Companions
      <3>4. {b \in S : b[2] = "cell import" /\ <<b[1], "broken">> \notin S}
               = {b \in R : b[2] = "cell import" /\ <<b[1], "broken">> \notin R}
        BY <3>1, <3>2
      <3>5. QED
        BY <3>1, <3>3, <3>4 DEF NotebookImports, Parsed, Notebooks
    <2>13. NoWorse(UnusedDependencyRule(R), UnusedDependencyRule(S))
      <3>1. Imports(R) \subseteq Imports(S)
        BY NamesAppear
      <3>2. QED
        BY <2>1, <2>12, <3>1, Statuses DEF UnusedDependencyRule, Where, Warned
    <2>14. NoWorse(NotebookOnlyImportRule(R), NotebookOnlyImportRule(S))
      BY <2>7, <2>9, <2>12, Statuses DEF NotebookOnlyImportRule, Where, Warned
    <2>15. NoWorse(SystemDependencyRule(R), SystemDependencyRule(S))
      <3>1. Within(S, Modules(S), "runs") = Within(R, Modules(R), "runs")
        BY CodeAppears DEF Touched
      <3>2. Dockerfile(R) \/ CondaEnv(R) => Dockerfile(S) \/ CondaEnv(S)
        BY FilesAppear DEF Dockerfile, CondaEnv
      <3>3. QED
        BY <2>1, <3>1, <3>2, Statuses DEF SystemDependencyRule, Where
    <2>16. QED
      BY <2>5, <2>6, <2>11, <2>13, <2>14, <2>15
  <1>2. /\ NoWorse(DependencyPinningRule(R), DependencyPinningRule(S))
        /\ NoWorse(LockfileRule(R), LockfileRule(S))
        /\ NoWorse(ContainerRule(R), ContainerRule(S))
        /\ NoWorse(PythonVersionRule(R), PythonVersionRule(S))
        /\ NoWorse(SystemLayerCapturedRule(R), SystemLayerCapturedRule(S))
    <2>1. /\ Dockerfile(R) => Dockerfile(S)
          /\ Devcontainer(R) => Devcontainer(S)
          /\ CondaEnv(R) => CondaEnv(S)
      BY FilesAppear DEF Dockerfile, Devcontainer, CondaEnv
    <2>2. PythonVersion(R) => PythonVersion(S)
      BY DEF PythonVersion, Wrote
    <2>3. NoWorse(DependencyPinningRule(R), DependencyPinningRule(S))
      BY Pins, Statuses DEF DependencyPinningRule, Where, Tiered
    <2>4. NoWorse(LockfileRule(R), LockfileRule(S))
      BY Pins, Statuses DEF LockfileRule, Where, Tiered
    <2>5. NoWorse(ContainerRule(R), ContainerRule(S))
      BY <2>1, Pins, Statuses DEF ContainerRule, Where, Tiered
    <2>6. NoWorse(PythonVersionRule(R), PythonVersionRule(S))
      BY <2>2, Pins, Statuses DEF PythonVersionRule, Where, Tiered
    <2>7. Uses(S, {"torch", "tensorflow", "jax", "lightning"})
            <=> Uses(R, {"torch", "tensorflow", "jax", "lightning"})
      BY FrameworksAppear
    <2>8. NoWorse(SystemLayerCapturedRule(R), SystemLayerCapturedRule(S))
      BY <2>1, <2>7, ProseGrows, Statuses DEF SystemLayerCapturedRule, Where, Tiered
    <2>9. QED
      BY <2>3, <2>4, <2>5, <2>6, <2>8
  <1>3. QED
    BY <1>1, <1>2

(* exec_.py, run.py, docs.py: a claim with a value takes the place of the    *)
(* table.                                                                    *)
LEMMA EntryRules ==
  ASSUME NEW R, NEW S, Wrote(R, S)
  PROVE  /\ NoWorse(EntrypointRule(R), EntrypointRule(S))
         /\ NoWorse(RunnerRule(R), RunnerRule(S))
         /\ NoWorse(ReproduceCommandRule(R), ReproduceCommandRule(S))
         /\ NoWorse(ClaimCommandRule(R), ClaimCommandRule(S))
         /\ RunCommands(S) = RunCommands(R)
         /\ NoWorse(ReadmeSectionsRule(R), ReadmeSectionsRule(S))
         /\ NoWorse(HyperparametersDocumentedRule(R), HyperparametersDocumentedRule(S))
         /\ (\A f \in S \ R : f[1] # "manifest.yaml")
              => NoWorse(ExpectedResultsRule(R), ExpectedResultsRule(S))
  <1>1. /\ NoWorse(EntrypointRule(R), EntrypointRule(S))
        /\ NoWorse(RunnerRule(R), RunnerRule(S))
        /\ NoWorse(ReproduceCommandRule(R), ReproduceCommandRule(S))
        /\ NoWorse(ClaimCommandRule(R), ClaimCommandRule(S))
        /\ RunCommands(S) = RunCommands(R)
    <2>1. /\ Files(R) \subseteq Files(S) /\ Modules(R) \subseteq Modules(S)
          /\ R \subseteq S /\ (Python(R) => Python(S))
      BY FilesAppear, Pins DEF Wrote
    <2>2. RunCommands(S) = RunCommands(R) /\ MakefileTargets(S) = MakefileTargets(R)
      BY UntouchedKinds DEF RunCommands, MakefileTargets, Touched
    <2>3. RunCommandsDocumented(R) => RunCommandsDocumented(S)
      BY ProseGrows DEF RunCommandsDocumented
    <2>4. NoWorse(EntrypointRule(R), EntrypointRule(S))
      BY <2>1, Statuses DEF EntrypointRule, Where, Tiered, Entrypoints, ConsoleScripts, MainGuards
    <2>5. NoWorse(RunnerRule(R), RunnerRule(S))
      BY <2>1, <2>2, <2>3, Statuses DEF RunnerRule, Where, Tiered, RunScripts
    <2>6. NoWorse(ReproduceCommandRule(R), ReproduceCommandRule(S))
      <3>1. /\ (\E c \in Claims(R) : Confirmed(R, c) /\ Says(R, c, "command"))
                 => \E c \in Claims(S) : Confirmed(S, c) /\ Says(S, c, "command")
            /\ (\E c \in Claims(R) : Says(R, c, "command")) => \E c \in Claims(S) : Says(S, c, "command")
        BY ClaimsAppear
      <3>2. QED
        BY <2>1, <2>2, <2>3, <3>1, Statuses DEF ReproduceCommandRule, Where, Tiered
    <2>7. NoWorse(ClaimCommandRule(R), ClaimCommandRule(S))
      <3>1. /\ Paper(S) <=> Paper(R)
            /\ ResultsTable(R) => ResultsTable(S)
        BY FilesAppear, ProseGrows DEF Paper, ResultsTable, NewFiles
      <3>2. CASE Claims(R) = {}
        BY <2>1, <2>2, <2>3, <3>1, <3>2, Statuses DEF ClaimCommandRule, Where, Tiered
      <3>3. CASE Claims(R) # {}
        <4>1. /\ Claims(S) = Claims(R)
              /\ {c \in Claims(S) : Confirmed(S, c)} = {c \in Claims(R) : Confirmed(R, c)}
              /\ {c \in Claims(S) : Confirmed(S, c) /\ Says(S, c, "command")}
                       = {c \in Claims(R) : Confirmed(R, c) /\ Says(R, c, "command")}
          BY <3>3, ClaimsAppear
        <4>2. \A c \in Claims(R) : Confirmed(R, c) => (Says(S, c, "command") <=> Says(R, c, "command"))
          BY <4>1
        <4>3. QED
          BY <2>1, <3>3, <4>1, <4>2, Statuses DEF ClaimCommandRule, Where, Tiered
      <3>4. QED
        BY <3>2, <3>3
    <2>8. QED
      BY <2>2, <2>4, <2>5, <2>6, <2>7
  <1>2. /\ NoWorse(ReadmeSectionsRule(R), ReadmeSectionsRule(S))
        /\ NoWorse(HyperparametersDocumentedRule(R), HyperparametersDocumentedRule(S))
        /\ (\A f \in S \ R : f[1] # "manifest.yaml")
             => NoWorse(ExpectedResultsRule(R), ExpectedResultsRule(S))
    <2>1. NoWorse(ReadmeSectionsRule(R), ReadmeSectionsRule(S))
      <3> DEFINE M(T) == {s \in {"install", "usage", "hardware"} : ~ HasSection(T, s)}
                     \ (IF HardwareInline(T) THEN {"hardware"} ELSE {})
      <3>1. M(S) \subseteq M(R)
        BY ProseGrows DEF HardwareInline
      <3>2. IsFiniteSet({"install", "usage", "hardware"})
        <4>1. {"install", "usage", "hardware"} = {"install", "usage"} \cup {"hardware"}
          OBVIOUS
        <4>2. QED
          BY <4>1, Pairs, FS_AddElement
      <3>3. M(R) \subseteq {"install", "usage", "hardware"}
        OBVIOUS
      <3>4. \A T : ReadmeSectionsRule(T)
                        = Tiered(HasReadme(T) /\ M(T) = {}, HasReadme(T) /\ Cardinality(M(T)) < 3)
        BY DEF ReadmeSectionsRule
      <3> HIDE DEF M
      <3>5. Cardinality(M(R)) < 3 => Cardinality(M(S)) < 3
        <4>1. IsFiniteSet(M(R))
          BY <3>2, <3>3, FS_Subset
        <4>2. Cardinality(M(S)) <= Cardinality(M(R)) /\ IsFiniteSet(M(S))
          BY <3>1, <4>1, FS_Subset
        <4>3. QED
          BY <4>1, <4>2, FS_CardinalityType
      <3>6. M(R) = {} => M(S) = {}
        BY <3>1
      <3>7. QED
        BY <3>4, <3>5, <3>6, ProseGrows, Statuses DEF Tiered
    <2>2. NoWorse(HyperparametersDocumentedRule(R), HyperparametersDocumentedRule(S))
      <3>1. Files(R) \subseteq Files(S)
        BY FilesAppear
      <3>2. CliArgs(S) = CliArgs(R) /\ DataclassDefaults(S) = DataclassDefaults(R)
        BY CodeAppears DEF CliArgs, DataclassDefaults, Touched
      <3>3. QED
        BY <3>1, <3>2, Statuses DEF HyperparametersDocumentedRule, ConfigFiles, Materialized, Tiered
    <2>3. ASSUME \A f \in S \ R : f[1] # "manifest.yaml"
          PROVE  NoWorse(ExpectedResultsRule(R), ExpectedResultsRule(S))
      <3>1. Claims(S) = Claims(R) /\ \A c \in Claims(R) : \A q : Says(S, c, q) <=> Says(R, c, q)
        <4>1. R \subseteq S /\ \A f \in S : IsFact(f)
          BY DEF Wrote, IsRepository
        <4>2. Facts(S, "manifest.yaml", "claim") = Facts(R, "manifest.yaml", "claim")
          BY <2>3, <4>1 DEF Facts
        <4>3. Claims(S) = Claims(R)
          BY <4>2, UntouchedKinds DEF Claims, Manifest, Touched
        <4>4. ASSUME NEW c \in Claims(R), NEW q PROVE Says(S, c, q) <=> Says(R, c, q)
          <5>1. IsFact(c) /\ Len(c) = 3 /\ c[1] = "manifest.yaml"
            BY <4>1 DEF Claims, Manifest, Facts
          <5>2. Append(c, q)[1] = "manifest.yaml"
            BY <5>1, Extended
          <5>3. QED
            BY <2>3, <4>1, <5>2 DEF Says
        <4>5. QED
          BY <4>3, <4>4
      <3>2. /\ {c \in Claims(S) : Says(S, c, "value")} = {c \in Claims(R) : Says(R, c, "value")}
            /\ \A c \in Claims(R) : Confirmed(S, c) <=> Confirmed(R, c)
        BY <3>1 DEF Confirmed
      <3>3. /\ HasSection(R, "results") => HasSection(S, "results")
            /\ ResultsTable(R) => ResultsTable(S)
        BY ProseGrows DEF ResultsTable
      <3>4. QED
        BY <3>2, <3>3, Statuses DEF ExpectedResultsRule, Tiered
    <2>4. QED
      BY <2>1, <2>2, <2>3
  <1>3. QED
    BY <1>1, <1>2

(* data.py                                                                   *)
LEMMA DataRules ==
  ASSUME NEW R, NEW S, Wrote(R, S)
  PROVE  /\ NoWorse(DataProvenanceRule(R), DataProvenanceRule(S))
         /\ NoWorse(DownloadPathRule(R), DownloadPathRule(S))
         /\ NoWorse(DataIntegrityRule(R), DataIntegrityRule(S))
         /\ NoWorse(CommittedBinariesRule(R), CommittedBinariesRule(S))
         /\ NoWorse(DataFrictionRule(R), DataFrictionRule(S))
         /\ NoWorse(RawProcessedRule(R), RawProcessedRule(S))
  <1>1. /\ \A k : HasSection(R, k) => HasSection(S, k)
        /\ ScriptedData(R) => ScriptedData(S)
    BY DataStays, ProseGrows DEF ScriptedData
  <1>2. NoWorse(DataProvenanceRule(R), DataProvenanceRule(S))
    <2> DEFINE N(T) == {s \in {1, 2, 3, 4} :
                   CASE s = 1 -> Datasets(T) # {} [] s = 2 -> DatasetUrls(T)
                     [] s = 3 -> HasSection(T, "data") [] s = 4 -> DatasetLoaders(T)}
    <2>1. N(R) \subseteq N(S)
      <3> SUFFICES ASSUME NEW s \in N(R) PROVE s \in N(S)
        OBVIOUS
      <3>1. CASE s = 1
        BY <3>1, DataStays
      <3>2. CASE s = 2
        BY <3>2, DataStays
      <3>3. CASE s = 3
        BY <3>3, <1>1
      <3>4. CASE s = 4
        BY <3>4, DataStays
      <3>5. QED
        BY <3>1, <3>2, <3>3, <3>4
    <2>2. N(S) \subseteq {1, 2} \cup {3, 4} /\ IsFiniteSet({1, 2} \cup {3, 4})
      <3>1. N(S) \subseteq {1, 2, 3, 4}
        OBVIOUS
      <3>2. IsFiniteSet({1, 2} \cup {3, 4})
        <4>1. IsFiniteSet({1, 2}) /\ IsFiniteSet({3, 4})
          BY 1 # 2, 3 # 4, Pairs, Zenon
        <4>2. QED
          BY <4>1, FS_Union
      <3> HIDE DEF N
      <3>3. QED
        BY <3>1, <3>2
    <2>3. \A T : DataProvenanceRule(T)
                        = Where(DataRepo(T), Tiered(Cardinality(N(T)) >= 2 \/ Datasets(T) # {}, Cardinality(N(T)) >= 1))
      BY DEF DataProvenanceRule
    <2> HIDE DEF N
    <2>4. Cardinality(N(R)) <= Cardinality(N(S)) /\ Cardinality(N(R)) \in Nat /\ Cardinality(N(S)) \in Nat
      BY <2>1, <2>2, FS_Subset, FS_CardinalityType
    <2>5. /\ Cardinality(N(R)) >= 2 => Cardinality(N(S)) >= 2
          /\ Cardinality(N(R)) >= 1 => Cardinality(N(S)) >= 1
      BY <2>4
    <2>6. QED
      BY <2>3, <2>5, DataStays, Statuses DEF Where, Tiered
  <1>3. NoWorse(DownloadPathRule(R), DownloadPathRule(S))
    BY <1>1, DataStays, Statuses DEF DownloadPathRule, Where, Tiered
  <1>4. NoWorse(DataIntegrityRule(R), DataIntegrityRule(S))
    BY DataStays, ReferencesStay, Statuses DEF DataIntegrityRule, ChecksumFiles, Where, Tiered
  <1>5. NoWorse(CommittedBinariesRule(R), CommittedBinariesRule(S))
    BY DataStays, GapsClose DEF CommittedBinariesRule, UntrackedBinaries
  <1>6. NoWorse(DataFrictionRule(R), DataFrictionRule(S))
    BY <1>1, DataStays, ReferencesStay, Statuses DEF DataFrictionRule, Where, Tiered
  <1>7. NoWorse(RawProcessedRule(R), RawProcessedRule(S))
    <2>1. {a \in S : a[2] = "in data/"} = {a \in R : a[2] = "in data/"}
      <3>1. "in data/" \notin Touched
        BY DEF Touched
      <3>2. R \subseteq S /\ \A a \in S \ R : a[2] \in Touched
        BY WrittenShape DEF Wrote
      <3>3. QED
        BY <3>1, <3>2
    <2>2. (DataDirectory(S) <=> DataDirectory(R)) /\ (DataMarkers(S) <=> DataMarkers(R))
      BY <2>1 DEF DataDirectory, DataMarkers
    <2>3. QED
      BY <2>2, DataStays, Statuses DEF RawProcessedRule, Where
  <1>8. QED
    BY <1>2, <1>3, <1>4, <1>5, <1>6, <1>7

(* licensing.py, archival.py, portability.py, versioning.py                  *)
LEMMA ReleaseRules ==
  ASSUME NEW R, NEW S, Wrote(R, S)
  PROVE  /\ NoWorse(LicenseRule(R), LicenseRule(S))
         /\ NoWorse(CitationRule(R), CitationRule(S))
         /\ NoWorse(ThirdPartyLicensesRule(R), ThirdPartyLicensesRule(S))
         /\ NoWorse(ArchivalIdentifierRule(R), ArchivalIdentifierRule(S))
         /\ NoWorse(ArchivableAsIsRule(R), ArchivableAsIsRule(S))
         /\ NoWorse(ArchivalMetadataRule(R), ArchivalMetadataRule(S))
         /\ Undrafted(R, S) \/ (\A c \in Quotable(R) : ~ Says(R, c, "abs_path"))
              => NoWorse(AbsolutePathRule(R), AbsolutePathRule(S))
         /\ Undrafted(R, S) \/ Within(R, Unscanned, "command") = {}
              => NoWorse(LocalhostRule(R), LocalhostRule(S)) /\ NoWorse(SecretsRule(R), SecretsRule(S))
         /\ NoWorse(PrivateDataSourceRule(R), PrivateDataSourceRule(S))
         /\ NoWorse(GitRepositoryRule(R), GitRepositoryRule(S))
         /\ NoWorse(TaggedReleaseRule(R), TaggedReleaseRule(S))
         /\ NoWorse(CommitReferenceRule(R), CommitReferenceRule(S))
  <1>1. /\ NoWorse(LicenseRule(R), LicenseRule(S))
        /\ NoWorse(CitationRule(R), CitationRule(S))
        /\ NoWorse(ThirdPartyLicensesRule(R), ThirdPartyLicensesRule(S))
        /\ NoWorse(ArchivalIdentifierRule(R), ArchivalIdentifierRule(S))
        /\ NoWorse(ArchivableAsIsRule(R), ArchivableAsIsRule(S))
        /\ NoWorse(ArchivalMetadataRule(R), ArchivalMetadataRule(S))
    <2>1. NoWorse(LicenseRule(R), LicenseRule(S))
      BY FilesAppear, Statuses DEF LicenseRule, LicenseFile, Tiered
    <2>2. NoWorse(CitationRule(R), CitationRule(S))
      BY FilesAppear, ProseGrows, Statuses DEF CitationRule, CitationFile, Tiered
    <2>3. NoWorse(ThirdPartyLicensesRule(R), ThirdPartyLicensesRule(S))
      <3> DEFINE Concerned == {"torch", "tensorflow", "sklearn", "jax", "transformers", "lightning", "pandas"}
                 Licensed(T) == \E d \in Datasets(T) : Says(T, d, "license")
      <3>1. Uses(S, Concerned) <=> Uses(R, Concerned)
        BY FrameworksAppear
      <3>2. Licensed(R) => Licensed(S)
        BY ManifestAppears DEF Datasets
      <3>3. AssetLicensing(R) => AssetLicensing(S)
        BY ProseGrows DEF AssetLicensing
      <3>4. /\ Datasets(R) # {} => Datasets(S) # {}
            /\ DatasetUrls(R) => DatasetUrls(S)
            /\ RemoteReferences(S) = RemoteReferences(R)
        BY DataStays, ReferencesStay
      <3>5. QED
        BY <3>1, <3>2, <3>3, <3>4, Statuses DEF ThirdPartyLicensesRule, Where, Tiered
    <2>4. NoWorse(ArchivalIdentifierRule(R), ArchivalIdentifierRule(S))
      <3>1. Dois(S) = Dois(R) /\ (ArchivalDoi(R) => ArchivalDoi(S))
        BY UntouchedKinds, FilesAppear DEF Dois, ArchivalDoi, Touched, Wrote
      <3>2. QED
        BY <3>1, Statuses DEF ArchivalIdentifierRule, Tiered
    <2>5. NoWorse(ArchivableAsIsRule(R), ArchivableAsIsRule(S))
      <3>1. UntrackedBinaries(S) = UntrackedBinaries(R)
        BY DataStays
      <3>2. \A f : <<f, "over 200 MiB">> \in S <=> <<f, "over 200 MiB">> \in R
        BY UntouchedKinds DEF Touched
      <3>3. QED
        BY <3>1, <3>2, Statuses DEF ArchivableAsIsRule, Warned
    <2>6. NoWorse(ArchivalMetadataRule(R), ArchivalMetadataRule(S))
      <3>1. Files(S) \cap {".zenodo.json", "codemeta.json"} = Files(R) \cap {".zenodo.json", "codemeta.json"}
        BY FilesAppear DEF NewFiles
      <3>2. QED
        BY <3>1, Statuses DEF ArchivalMetadataRule, Tiered
    <2>7. QED
      BY <2>1, <2>2, <2>3, <2>4, <2>5, <2>6
  <1>2. NoWorse(PrivateDataSourceRule(R), PrivateDataSourceRule(S))
    BY ReferencesStay, Statuses DEF PrivateDataSourceRule, Warned
  <1>4. Python(R) => Python(S)
    BY Pins
  <1>5. ASSUME NEW h \in Hits, PortabilityHits(S, h) # PortabilityHits(R, h)
        PROVE  /\ ~ Undrafted(R, S)
               /\ \E c \in Quotable(R) : Says(R, c, h)
    <2>1. R \subseteq S /\ IsRepository(R)
      BY DEF Wrote
    <2>2. PICK a \in S \ R : a[2] = h \/ (Len(a) = 4 /\ a[4] = h)
      BY <1>5, <2>1 DEF PortabilityHits
    <2>3. h \notin Touched /\ h # "sha"
      BY DEF Hits, Touched
    <2>4. Len(a) = 4 /\ a[4] = h
      BY <2>2, <2>3, WrittenShape
    <2>5. a \notin SeedUtils(R)
      BY <2>4, SeedShape
    <2>6. a[1] \in DraftFiles
      BY <2>3, <2>4, <2>5, WrittenShape
    <2>7. PICK quoted \in Quoted(R) : a \in Drafts(R, quoted)
      BY <2>6 DEF Wrote
    <2>8. a[4] \in ({"value", "config"} \cup quoted) \cup ResultFiles
      BY <2>1, <2>4, <2>7, DraftShape
    <2>9. h \in quoted
      BY <2>4, <2>8 DEF Hits, ResultFiles
    <2>10. QED
      BY <2>1, <2>2, <2>6, <2>9, DraftShape DEF Undrafted
  <1>6. ASSUME Undrafted(R, S) \/ (\A c \in Quotable(R) : ~ Says(R, c, "abs_path"))
        PROVE  NoWorse(AbsolutePathRule(R), AbsolutePathRule(S))
    <2>1. PortabilityHits(S, "abs_path") = PortabilityHits(R, "abs_path")
      BY <1>5, <1>6 DEF Hits
    <2>2. QED
      BY <1>4, <2>1, Statuses DEF AbsolutePathRule, Where, Tiered
  <1>7. ASSUME Undrafted(R, S) \/ Within(R, Unscanned, "command") = {}
        PROVE  NoWorse(LocalhostRule(R), LocalhostRule(S)) /\ NoWorse(SecretsRule(R), SecretsRule(S))
    <2>1. ASSUME NEW h \in Hits, PortabilityHits(S, h) # PortabilityHits(R, h)
          PROVE  PortabilityHits(R, h) # {}
      <3>1. PICK c \in Quotable(R) : Says(R, c, h)
        BY <1>5, <2>1
      <3>2. IsRepository(R) /\ Within(R, Unscanned, "command") = {}
        BY <1>5, <1>7, <2>1 DEF Wrote
      <3>3. c \in R /\ Len(c) = 3 /\ c[1] \notin Unscanned
        <4>1. CASE c \in RunCommands(R)
          BY <3>2, <4>1 DEF RunCommands, Within
        <4>2. CASE c \notin RunCommands(R)
          <5>1. c = <<"README.md", "says", "run command">> /\ c \in R
            BY <4>2 DEF Quotable
          <5>2. QED
            BY <5>1, TripleIs DEF Unscanned
        <4>3. QED
          BY <4>1, <4>2
      <3>4. IsFact(c)
        BY <3>2, <3>3 DEF IsRepository
      <3> DEFINE g == Append(c, h)
      <3>5. g \in R /\ Len(g) = 4 /\ g[4] = h /\ g[1] = c[1]
        BY <3>1, <3>3, <3>4, Extended DEF Says
      <3> HIDE DEF g
      <3>6. g \in PortabilityHits(R, h)
        BY <3>3, <3>5 DEF PortabilityHits
      <3>7. QED
        BY <3>6
    <2>2. /\ PortabilityHits(S, "localhost") = PortabilityHits(R, "localhost")
             \/ PortabilityHits(R, "localhost") # {}
          /\ PortabilityHits(S, "secret") = PortabilityHits(R, "secret")
             \/ PortabilityHits(R, "secret") # {}
      BY <2>1 DEF Hits
    <2>3. QED
      BY <1>4, <2>2, Statuses DEF LocalhostRule, SecretsRule, Where, Warned, Tiered
  <1>3. /\ NoWorse(GitRepositoryRule(R), GitRepositoryRule(S))
        /\ NoWorse(TaggedReleaseRule(R), TaggedReleaseRule(S))
        /\ NoWorse(CommitReferenceRule(R), CommitReferenceRule(S))
    <2>1. /\ IsGit(S) <=> IsGit(R)
          /\ Tagged(S) <=> Tagged(R)
      BY DataStays, UntouchedKinds DEF Tagged, Touched
    <2>2. /\ NoWorse(GitRepositoryRule(R), GitRepositoryRule(S))
          /\ NoWorse(TaggedReleaseRule(R), TaggedReleaseRule(S))
      BY <2>1, Statuses DEF GitRepositoryRule, TaggedReleaseRule, Where, Tiered
    <2>3. NoWorse(CommitReferenceRule(R), CommitReferenceRule(S))
      <3> DEFINE citing(T, what) == {c \in Claims(T) : Confirmed(T, c) /\ Says(T, c, what)}
                 current(T) == citing(T, "HEAD")
                 stale(T) == citing(T, "old commit") \ current(T)
                 invalid(T) == citing(T, "no commit") \ (current(T) \cup stale(T))
      <3>1. /\ citing(S, "HEAD") = citing(R, "HEAD")
            /\ citing(S, "old commit") = citing(R, "old commit")
            /\ citing(S, "no commit") = citing(R, "no commit")
        BY ClaimsAppear
      <3>2. current(S) = current(R) /\ stale(S) = stale(R) /\ invalid(S) = invalid(R)
        BY <3>1
      <3>3. ReadmeSays(R, "commit") => ReadmeSays(S, "commit")
        BY ProseGrows
      <3>4. \A T : CommitReferenceRule(T) =
              IF current(T) \cup stale(T) \cup invalid(T) # {}
              THEN Tiered(stale(T) \cup invalid(T) = {}, current(T) \cup stale(T) # {})
              ELSE Tiered(ReadmeSays(T, "commit"), Tagged(T))
        BY DEF CommitReferenceRule
      <3> HIDE DEF current, stale, invalid
      <3>5. QED
        BY <2>1, <3>2, <3>3, <3>4, Statuses DEF Tiered
    <2>4. QED
      BY <2>2, <2>3
  <1>8. QED
    BY <1>1, <1>2, <1>3, <1>6, <1>7

(* checkpoint.py                                                             *)
LEMMA CheckpointRules ==
  ASSUME NEW R, NEW S, Wrote(R, S), NEW key
  PROVE  NoWorse(CheckpointRule(R, key), CheckpointRule(S, key))
  <1>1. TorchSaves(S) = TorchSaves(R)
    BY CodeAppears DEF TorchSaves, Touched
  <1>2. \A a \in TorchSaves(R) : \A q : Says(S, a, q) <=> Says(R, a, q)
    BY Qualified DEF TorchSaves, Within, Wrote, IsRepository
  <1>3. Uses(S, {"torch"}) <=> Uses(R, {"torch"})
    BY FrameworksAppear
  <1>4. {s \in TorchSaves(S) : Says(S, s, "dict") \/ Says(S, s, "state_dict")}
          = {s \in TorchSaves(R) : Says(R, s, "dict") \/ Says(R, s, "state_dict")}
    BY <1>1, <1>2
  <1>5. CheckpointRule(S, key) = CheckpointRule(R, key)
    BY <1>1, <1>2, <1>3, <1>4 DEF CheckpointRule, Where
  <1>6. CheckpointRule(R, key) \in {"pass", "partial", "unknown", "not-applicable"}
    BY DEF CheckpointRule, Where
  <1>7. QED
    BY <1>5, <1>6, Statuses

(* notebook.py, remote.py                                                    *)
LEMMA RemoteAndNotebookRules ==
  ASSUME NEW R, NEW S, Wrote(R, S)
  PROVE  /\ NoWorse(ExecutionOrderRule(R), ExecutionOrderRule(S))
         /\ NoWorse(StaleOutputRule(R), StaleOutputRule(S))
         /\ NoWorse(HiddenStateRule(R), HiddenStateRule(S))
         /\ NoWorse(PipInstallCellRule(R), PipInstallCellRule(S))
         /\ NoWorse(NotebookPathsRule(R), NotebookPathsRule(S))
         /\ NoWorse(NotebookSeedRule(R), NotebookSeedRule(S))
         /\ NoWorse(KernelMetadataRule(R), KernelMetadataRule(S))
         /\ NoWorse(NotebookScriptTwinRule(R), NotebookScriptTwinRule(S))
         /\ NoWorse(HFRevisionRule(R), HFRevisionRule(S))
         /\ NoWorse(MutableRevisionRule(R), MutableRevisionRule(S))
         /\ NoWorse(TorchHubRule(R), TorchHubRule(S))
         /\ NoWorse(RawUrlRule(R), RawUrlRule(S))
         /\ NoWorse(RemoteResolutionRule(R), RemoteResolutionRule(S))
  <1>1. /\ NoWorse(ExecutionOrderRule(R), ExecutionOrderRule(S))
        /\ NoWorse(StaleOutputRule(R), StaleOutputRule(S))
        /\ NoWorse(HiddenStateRule(R), HiddenStateRule(S))
        /\ NoWorse(PipInstallCellRule(R), PipInstallCellRule(S))
        /\ NoWorse(NotebookPathsRule(R), NotebookPathsRule(S))
        /\ NoWorse(NotebookSeedRule(R), NotebookSeedRule(S))
        /\ NoWorse(KernelMetadataRule(R), KernelMetadataRule(S))
        /\ NoWorse(NotebookScriptTwinRule(R), NotebookScriptTwinRule(S))
    <2>1. Notebooks(S) = Notebooks(R) /\ Files(R) \subseteq Files(S)
      BY FilesAppear DEF NewFiles, Notebooks, Companions
    <2>2. Parsed(S) = Parsed(R)
      BY <2>1, UntouchedKinds DEF Parsed, Touched
    <2>3. \A k : k \notin Touched => Cells(S, k) = Cells(R, k)
      BY <2>2, UntouchedKinds DEF Cells
    <2>4. /\ Disordered(S) = Disordered(R) /\ Gapped(S) = Gapped(R) /\ Executed(S) = Executed(R)
          /\ WithOutputs(S) = WithOutputs(R)
      BY <2>3 DEF Disordered, Gapped, Executed, WithOutputs, Touched
    <2>5. \A gaps, fewer : fewer \subseteq gaps => NoWorse(Warned(gaps), Warned(fewer))
      BY Statuses DEF Warned
    <2>6. /\ NoWorse(ExecutionOrderRule(R), ExecutionOrderRule(S))
          /\ NoWorse(StaleOutputRule(R), StaleOutputRule(S))
          /\ NoWorse(HiddenStateRule(R), HiddenStateRule(S))
      BY <2>4, <2>5, Statuses DEF ExecutionOrderRule, StaleOutputRule, HiddenStateRule, Where
    <2>7. /\ NoWorse(PipInstallCellRule(R), PipInstallCellRule(S))
          /\ NoWorse(NotebookPathsRule(R), NotebookPathsRule(S))
      BY <2>1, <2>3, <2>5, Statuses DEF PipInstallCellRule, NotebookPathsRule, Where, Touched
    <2>8. NoWorse(NotebookSeedRule(R), NotebookSeedRule(S))
      BY <2>3, <2>5, Statuses DEF NotebookSeedRule, Where, Touched
    <2>9. NoWorse(KernelMetadataRule(R), KernelMetadataRule(S))
      BY <2>2, <2>3, <2>5, Statuses DEF KernelMetadataRule, Where, Touched
    <2>10. NoWorse(NotebookScriptTwinRule(R), NotebookScriptTwinRule(S))
      BY <2>1, <2>4, <2>5, Statuses DEF NotebookScriptTwinRule, Where
    <2>11. QED
      BY <2>6, <2>7, <2>8, <2>9, <2>10
  <1>2. /\ NoWorse(HFRevisionRule(R), HFRevisionRule(S))
        /\ NoWorse(MutableRevisionRule(R), MutableRevisionRule(S))
        /\ NoWorse(TorchHubRule(R), TorchHubRule(S))
        /\ NoWorse(RawUrlRule(R), RawUrlRule(S))
        /\ NoWorse(RemoteResolutionRule(R), RemoteResolutionRule(S))
    <2> DEFINE torchHub == HubReferences(R, {"torch_hub"})
    <2>1. /\ Hub(R) \subseteq Within(R, Modules(R), "call")
          /\ torchHub \subseteq Within(R, Modules(R), "call")
      BY DEF Hub, HubReferences
    <2>2. \A refs : Unpinned(R, refs) \subseteq refs
      BY DEF Unpinned
    <2>3. /\ Unpinned(S, Hub(R)) \subseteq Unpinned(R, Hub(R))
          /\ {r \in Unpinned(S, Hub(R)) : Says(S, r, "mutable-ref")}
               \subseteq {r \in Unpinned(R, Hub(R)) : Says(R, r, "mutable-ref")}
      BY <2>1, ReferencesStay
    <2>4. Unpinned(S, torchHub) \subseteq Unpinned(R, torchHub)
      BY <2>1, ReferencesStay
    <2>5. Hub(S) = Hub(R) /\ HubReferences(S, {"torch_hub"}) = torchHub
      BY ReferencesStay
    <2>6. NoWorse(HFRevisionRule(R), HFRevisionRule(S))
      BY <2>2, <2>3, <2>5, GapsClose, Statuses DEF HFRevisionRule, Where
    <2>7. NoWorse(MutableRevisionRule(R), MutableRevisionRule(S))
      BY <2>3, <2>5, Statuses DEF MutableRevisionRule, Where, Warned
    <2>8. NoWorse(TorchHubRule(R), TorchHubRule(S))
      <3>1. Uses(S, {"torch"}) <=> Uses(R, {"torch"})
        BY FrameworksAppear
      <3>2. NoWorse(Shares(Unpinned(R, torchHub), torchHub), Shares(Unpinned(S, torchHub), torchHub))
        BY <2>2, <2>4, GapsClose
      <3>3. /\ TorchHubRule(R) = Where(Uses(R, {"torch"}) /\ torchHub # {},
                                      Shares(Unpinned(R, torchHub), torchHub))
            /\ TorchHubRule(S) = Where(Uses(S, {"torch"}) /\ torchHub # {},
                                      Shares(Unpinned(S, torchHub), torchHub))
        BY <2>5 DEF TorchHubRule
      <3> HIDE DEF torchHub
      <3>4. QED
        BY <3>1, <3>2, <3>3, Statuses DEF Where
    <2>9. NoWorse(RawUrlRule(R), RawUrlRule(S))
      <3>1. RawUrlRule(S) = RawUrlRule(R)
        BY ReferencesStay DEF RawUrlRule
      <3>2. RawUrlRule(R) \in {"pass", "partial", "fail", "not-applicable"}
        BY DEF RawUrlRule, Where, Shares
      <3>3. QED
        BY <3>1, <3>2, Statuses
    <2>10. NoWorse(RemoteResolutionRule(R), RemoteResolutionRule(S))
      BY Statuses DEF RemoteResolutionRule, Where
    <2>11. QED
      BY <2>6, <2>7, <2>8, <2>9, <2>10
  <1>3. QED
    BY <1>1, <1>2

(* precision.py                                                              *)
LEMMA PrecisionRules ==
  ASSUME NEW R, NEW S, Wrote(R, S)
  PROVE  /\ NoWorse(TF32Rule(R), TF32Rule(S))
         /\ NoWorse(AmpRule(R), AmpRule(S))
         /\ NoWorse(LowPrecisionCastRule(R), LowPrecisionCastRule(S))
         /\ NoWorse(MatmulPrecisionRule(R), MatmulPrecisionRule(S))
         /\ NoWorse(GpuHardwareBaselineRule(R), GpuHardwareBaselineRule(S))
  <1>1. PrecisionEvents(S) = PrecisionEvents(R)
    BY CodeAppears, UntouchedKinds DEF PrecisionEvents, Deepspeed, Touched
  <1>2. /\ PrecisionDocumented(R) => PrecisionDocumented(S)
        /\ HardwareDocumented(R) => HardwareDocumented(S)
    BY ProseGrows DEF PrecisionDocumented, HardwareDocumented
  <1>3. \A fs : Uses(R, fs) => Uses(S, fs)
    BY FrameworksAppear
  <1>4. \A kinds, before, after : (before => after) =>
          NoWorse(PrecisionRule(R, kinds, before), PrecisionRule(S, kinds, after))
    BY <1>1, <1>3, Statuses DEF PrecisionRule, Where
  <1>5. /\ NoWorse(TF32Rule(R), TF32Rule(S))
        /\ NoWorse(AmpRule(R), AmpRule(S))
        /\ NoWorse(LowPrecisionCastRule(R), LowPrecisionCastRule(S))
    BY <1>2, <1>4 DEF TF32Rule, AmpRule, LowPrecisionCastRule
  <1>6. NoWorse(MatmulPrecisionRule(R), MatmulPrecisionRule(S))
    BY <1>1, <1>2, <1>3, Statuses DEF MatmulPrecisionRule, Where
  <1>7. SlurmGpu(S) <=> SlurmGpu(R)
    BY UntouchedKinds DEF SlurmGpu, Touched
  <1>8. NoWorse(GpuHardwareBaselineRule(R), GpuHardwareBaselineRule(S))
    BY <1>1, <1>2, <1>3, <1>7, CallsAppear, Statuses DEF GpuHardwareBaselineRule, Where
  <1>9. QED
    BY <1>5, <1>6, <1>8

(* run.py, drift.py                                                          *)
LEMMA DriftRules ==
  ASSUME NEW R, NEW S, Wrote(R, S)
  PROVE  /\ NoWorse(MaterializedConfigDriftRule(R), MaterializedConfigDriftRule(S))
         /\ NoWorse(SlurmRequirementsRule(R), SlurmRequirementsRule(S))
         /\ NoWorse(HyperparameterDriftRule(R), HyperparameterDriftRule(S))
         /\ NoWorse(AmbiguousConfigRule(R), AmbiguousConfigRule(S))
         /\ NoWorse(MissingHyperparameterRule(R), MissingHyperparameterRule(S))
         /\ NoWorse(DatasetDriftRule(R), DatasetDriftRule(S))
         /\ NoWorse(HardwareClaimRule(R), HardwareClaimRule(S))
         /\ NoWorse(AblationTraceRule(R), AblationTraceRule(S))
  <1>1. R \subseteq S /\ (Python(R) => Python(S))
    BY Pins DEF Wrote
  <1>2. NoWorse(MaterializedConfigDriftRule(R), MaterializedConfigDriftRule(S))
    <2> DEFINE differing(T) == {name \in Hyperparameters :
                 ConfigValues(T, name) # {} /\ ~ RunValues(T, name) \subseteq ConfigValues(T, name)}
    <2>1. differing(S) = differing(R)
      BY ValuesStay
    <2>2. \A T : MaterializedConfigDriftRule(T) = Where(Python(T) /\ Materialized(T) # {}, Warned(differing(T)))
      BY DEF MaterializedConfigDriftRule
    <2> HIDE DEF differing
    <2>3. QED
      BY <1>1, <2>1, <2>2, ValuesStay, Statuses DEF Where, Warned
  <1>3. NoWorse(SlurmRequirementsRule(R), SlurmRequirementsRule(S))
    BY <1>1, ValuesStay, ProseGrows, Statuses DEF SlurmRequirementsRule, Where
  <1>4. NoWorse(HyperparameterDriftRule(R), HyperparameterDriftRule(S))
    <2>1. \A name \in Drifted(R) : Authorities(S, name) = Authorities(R, name)
      BY ValuesStay DEF Drifted, Stated
    <2>2. HyperparameterDriftRule(S) = HyperparameterDriftRule(R)
      BY <2>1, ValuesStay DEF HyperparameterDriftRule
    <2>3. HyperparameterDriftRule(R) \in {"pass", "partial", "fail", "unknown", "not-applicable"}
      BY DEF HyperparameterDriftRule, Where, Tiered
    <2>4. QED
      BY <2>2, <2>3, Statuses
  <1>5. NoWorse(AmbiguousConfigRule(R), AmbiguousConfigRule(S))
    <2> DEFINE resolved(T) == /\ Claims(T) # {}
                              /\ \A c \in Claims(T) :
                                   Confirmed(T, c) /\ (Says(T, c, "config") \/ Says(T, c, "run record"))
    <2>1. resolved(R) => resolved(S)
      <3> SUFFICES ASSUME resolved(R) PROVE resolved(S)
        OBVIOUS
      <3>1. Claims(S) = Claims(R)
        BY ClaimsAppear
      <3>2. /\ {c \in Claims(S) : Confirmed(S, c)} = {c \in Claims(R) : Confirmed(R, c)}
            /\ \A q : {c \in Claims(R) : Says(R, c, q)} \subseteq {c \in Claims(S) : Says(S, c, q)}
        BY ClaimsAppear
      <3>3. QED
        BY <3>1, <3>2
    <2>2. \A T : AmbiguousConfigRule(T) =
                   Where(Stated(T) # {}, IF resolved(T) THEN "pass" ELSE Warned(Ambiguous(T)))
      BY DEF AmbiguousConfigRule
    <2> HIDE DEF resolved
    <2>3. QED
      BY <2>1, <2>2, ValuesStay, Statuses DEF Where, Warned
  <1>6. NoWorse(MissingHyperparameterRule(R), MissingHyperparameterRule(S))
    BY ValuesStay, Statuses DEF MissingHyperparameterRule, Where, Warned
  <1>7. NoWorse(DatasetDriftRule(R), DatasetDriftRule(S))
    <2>1. PaperDatasets(R) \subseteq PaperDatasets(S)
      BY <1>1 DEF PaperDatasets, Facts, Values
    <2>2. LoadedDatasets(R) \subseteq LoadedDatasets(S)
      <3>1. DatasetCalls(S) = DatasetCalls(R)
        BY ReferencesStay
      <3>2. \A names : Calls(R, names) => Calls(S, names)
        BY CallsAppear
      <3>3. QED
        BY <1>1, <3>1, <3>2 DEF LoadedDatasets
    <2>3. Values(Datasets(R)) \subseteq Values(Datasets(S))
      BY ManifestAppears DEF Datasets, Values
    <2>4. Values(Within(R, ConfigFiles(R), "dataset")) \subseteq Values(Within(S, ConfigFiles(S), "dataset"))
      BY <1>1, ValuesStay DEF Within, Values
    <2>5. DatasetTokens(R) \subseteq DatasetTokens(S)
      BY <2>2, <2>3, <2>4 DEF DatasetTokens
    <2>6. QED
      BY <2>1, <2>5, Statuses DEF DatasetDriftRule, Where
  <1>8. NoWorse(HardwareClaimRule(R), HardwareClaimRule(S))
    BY <1>1, ProseGrows, ValuesStay, Statuses DEF HardwareClaimRule, PaperSays, Where
  <1>9. NoWorse(AblationTraceRule(R), AblationTraceRule(S))
    BY <1>1, EntryRules, FilesAppear, Statuses DEF AblationTraceRule, AblationTraced, PaperSays, Where
  <1>10. QED
    BY <1>2, <1>3, <1>4, <1>5, <1>6, <1>7, <1>8, <1>9

(* reconcile.py: where the manifest is drafted, the claim it states stands   *)
(* for the metric of the paper, and nobody has confirmed a log of its own.   *)
LEMMA ReconcileRules ==
  ASSUME NEW R, NEW S, Wrote(R, S)
  PROVE  /\ NoWorse(RoundingDifferenceRule(R), RoundingDifferenceRule(S))
         /\ NoWorse(MaterialDifferenceRule(R), MaterialDifferenceRule(S))
         /\ NoWorse(SingleRunRule(R), SingleRunRule(S))
         /\ NoWorse(UnbackedMetricRule(R), UnbackedMetricRule(S))
  <1>1. NoWorse(RoundingDifferenceRule(R), RoundingDifferenceRule(S))
    BY Statuses DEF RoundingDifferenceRule, Where
  <1>2. NoWorse(SingleRunRule(R), SingleRunRule(S))
    <2> DEFINE Concerned == {"torch", "tensorflow", "sklearn", "jax", "lightning", "transformers"}
               Swept(T) == (\E c \in Claims(T) : Confirmed(T, c) /\ Says(T, c, "seeds"))
                             \/ Cardinality(SeedsSwept(T)) > 1
               Reported(T) == Paper(T) \/ Claims(T) # {} \/ RunCommands(T) # {}
    <2>1. Uses(S, Concerned) <=> Uses(R, Concerned)
      BY FrameworksAppear
    <2>2. Swept(S) <=> Swept(R)
      BY ClaimsAppear, LogsStay
    <2>3. \A T : SingleRunRule(T) = Where(Uses(T, Concerned), IF Swept(T) THEN "pass"
                                          ELSE IF Reported(T) THEN "partial" ELSE "unknown")
      BY DEF SingleRunRule
    <2> HIDE DEF Concerned, Swept, Reported
    <2>4. QED
      BY <2>1, <2>2, <2>3, Statuses DEF Where
  <1>3. Reconcilable(R) => Reconcilable(S)
    BY LogsStay DEF Reconcilable
  <1> DEFINE V(T) == Values(Within(T, ResultFiles, "accuracy"))
  <1>4. V(S) = V(R)
    BY LogsStay
  <1>5. CASE /\ \A kind : Manifest(S, kind) = Manifest(R, kind)
             /\ \A kind, q : \A c \in Manifest(R, kind) : Says(S, c, q) <=> Says(R, c, q)
    <2>1. Claims(S) = Claims(R) /\ \A c \in Claims(R) : \A q : Says(S, c, q) <=> Says(R, c, q)
      BY <1>5 DEF Claims
    <2>2. Statements(S) = Statements(R)
      BY <2>1, LogsStay DEF Statements
    <2>3. ASSUME NEW s PROVE Logged(S, s) = Logged(R, s)
      <3> DEFINE own(T) == {f \in ResultFiles : s \in Claims(T) /\ Confirmed(T, s) /\ Says(T, s, f)}
                 logs(T) == IF own(T) # {} THEN own(T) ELSE ResultFiles
      <3>1. own(S) = own(R)
        BY <2>1 DEF Confirmed
      <3>2. \A T : Logged(T, s) = Values(Within(T, logs(T), "accuracy"))
        BY DEF Logged
      <3>3. logs(S) = logs(R)
        BY <3>1
      <3> HIDE DEF own, logs
      <3>4. QED
        BY <3>2, <3>3, UntouchedKinds DEF Touched
    <2>4. Backed(S) = Backed(R)
      BY <2>2, <2>3 DEF Backed
    <2>5. NoWorse(MaterialDifferenceRule(R), MaterialDifferenceRule(S))
      BY <1>3, <2>3, <2>4, Statuses DEF MaterialDifferenceRule, Where, Warned
    <2>6. NoWorse(UnbackedMetricRule(R), UnbackedMetricRule(S))
      BY <1>3, <2>2, <2>4, Statuses DEF UnbackedMetricRule, Where, Warned
    <2>7. QED
      BY <1>1, <1>2, <2>5, <2>6
  <1>6. CASE /\ \A kind : Manifest(R, kind) = {}
             /\ \A kind, q : \A c \in Manifest(S, kind) :
                 Says(S, c, q) => kind = "claim" /\ q \in DraftQualifiers
             /\ {c \in Claims(S) : Says(S, c, "value")} # {} <=> Facts(R, "paper.tex", "metric") # {}
    <2>1. Claims(R) = {} /\ \A c \in Claims(S) : ~ Confirmed(S, c)
      BY <1>6 DEF Claims, Confirmed, DraftQualifiers, Hits, ResultFiles
    <2>2. \A s : Logged(R, s) = V(R) /\ Logged(S, s) = V(R)
      <3>1. \A s : {f \in ResultFiles : s \in Claims(R) /\ Confirmed(R, s) /\ Says(R, s, f)} = {}
        BY <2>1
      <3>2. \A s : {f \in ResultFiles : s \in Claims(S) /\ Confirmed(S, s) /\ Says(S, s, f)} = {}
        BY <2>1
      <3>3. ASSUME NEW s PROVE Logged(R, s) = V(R)
        BY <3>1 DEF Logged
      <3>4. ASSUME NEW s PROVE Logged(S, s) = V(S)
        BY <3>2 DEF Logged
      <3>5. QED
        BY <1>4, <3>3, <3>4
    <2>3. Statements(R) # {} <=> Statements(S) # {}
      BY <1>6, <2>1, LogsStay DEF Statements
    <2>4. /\ Backed(R) = (IF V(R) = {} THEN {} ELSE Statements(R))
          /\ Backed(S) = (IF V(R) = {} THEN {} ELSE Statements(S))
      BY <2>2 DEF Backed
    <2> HIDE DEF V
    <2>5. NoWorse(MaterialDifferenceRule(R), MaterialDifferenceRule(S))
      BY <1>3, <2>2, <2>3, <2>4, Statuses DEF MaterialDifferenceRule, Where, Warned
    <2>6. NoWorse(UnbackedMetricRule(R), UnbackedMetricRule(S))
      BY <1>3, <2>3, <2>4, Statuses DEF UnbackedMetricRule, Where, Warned
    <2>7. QED
      BY <1>1, <1>2, <2>5, <2>6
  <1>7. QED
    BY <1>5, <1>6, ManifestAppears

(* Whatever is written, no rule falls, but for those that see imports or a   *)
(* draft come.                                                               *)
LEMMA NoRuleFalls ==
  ASSUME NEW R, NEW S, Wrote(R, S)
  PROVE  \A id \in RuleIds : Spared(R, S, id) => NoWorse(Verdict(R, id), Verdict(S, id))
  <1>1. \A id \in {"R-DET-001", "R-DET-002", "R-DET-003", "R-DET-004", "R-DET-005", "R-DET-006"} :
         NoWorse(Verdict(R, id), Verdict(S, id))
    BY DeterminismRules DEF Verdict
  <1>2. \A id \in {"R-DEP-001", "R-DEP-002", "R-DEP-011", "R-DEP-012", "R-DEP-013"} :
         NoWorse(Verdict(R, id), Verdict(S, id))
    BY DependencyRules DEF Verdict
  <1>3. \A id \in {"R-ENV-001", "R-ENV-002", "R-ENV-003", "R-ENV-004", "R-ENV-005"} :
         NoWorse(Verdict(R, id), Verdict(S, id))
    BY DependencyRules DEF Verdict
  <1>4. \A id \in {"R-EXEC-001", "R-EXEC-002", "R-EXEC-003", "R-RUN-001"} :
         NoWorse(Verdict(R, id), Verdict(S, id))
    BY EntryRules DEF Verdict
  <1>5. \A id \in {"R-DOC-001", "R-DOC-002"} :
         NoWorse(Verdict(R, id), Verdict(S, id))
    BY EntryRules DEF Verdict
  <1>6. \A id \in {"R-DATA-001", "R-DATA-002", "R-DATA-003", "R-DATA-004", "R-DATA-005",
                   "R-DATA-006"} :
         NoWorse(Verdict(R, id), Verdict(S, id))
    BY DataRules DEF Verdict
  <1>7. \A id \in {"R-LIC-001", "R-LIC-002", "R-LIC-003", "R-ARC-001", "R-ARC-002", "R-ARC-003"} :
         NoWorse(Verdict(R, id), Verdict(S, id))
    BY ReleaseRules DEF Verdict
  <1>8. \A id \in {"R-CKPT-001", "R-CKPT-002", "R-CKPT-003", "R-CKPT-004", "R-CKPT-005"} :
         NoWorse(Verdict(R, id), Verdict(S, id))
    BY CheckpointRules DEF Verdict
  <1>9. \A id \in {"R-NB-001", "R-NB-002", "R-NB-003", "R-NB-004", "R-NB-005", "R-NB-006",
                   "R-NB-007", "R-NB-008"} :
         NoWorse(Verdict(R, id), Verdict(S, id))
    BY RemoteAndNotebookRules DEF Verdict
  <1>10. \A id \in {"R-REMOTE-001", "R-REMOTE-002", "R-REMOTE-003", "R-REMOTE-004",
                    "R-REMOTE-005"} :
         NoWorse(Verdict(R, id), Verdict(S, id))
    BY RemoteAndNotebookRules DEF Verdict
  <1>11. \A id \in {"R-PORT-001", "R-PORT-002", "R-PORT-003", "R-PORT-004"} :
         Spared(R, S, id) => NoWorse(Verdict(R, id), Verdict(S, id))
    BY ReleaseRules DEF Verdict, Spared
  <1>12. \A id \in {"R-VER-001", "R-VER-002", "R-VER-003"} :
         NoWorse(Verdict(R, id), Verdict(S, id))
    BY ReleaseRules DEF Verdict
  <1>13. \A id \in {"R-PREC-001", "R-PREC-002", "R-PREC-003", "R-PREC-004", "R-PREC-005"} :
         NoWorse(Verdict(R, id), Verdict(S, id))
    BY PrecisionRules DEF Verdict
  <1>14. \A id \in {"R-RUN-002", "R-RUN-003", "R-DRIFT-001", "R-DRIFT-002", "R-DRIFT-003",
                    "R-DRIFT-004", "R-DRIFT-005", "R-DRIFT-006"} :
         NoWorse(Verdict(R, id), Verdict(S, id))
    BY DriftRules DEF Verdict
  <1>15. \A id \in {"R-RES-001", "R-RES-002", "R-RES-003", "R-RES-004"} :
         NoWorse(Verdict(R, id), Verdict(S, id))
    BY ReconcileRules DEF Verdict
  <1>16. ASSUME \A f \in S \ R : f \notin SeedUtils(R)
         PROVE  NoWorse(Verdict(R, "R-DEP-010"), Verdict(S, "R-DEP-010"))
    BY <1>16, DependencyRules, ImportsStay DEF Verdict
  <1>17. ASSUME Undrafted(R, S)
         PROVE  NoWorse(Verdict(R, "R-DOC-003"), Verdict(S, "R-DOC-003"))
    BY <1>17, EntryRules DEF Verdict, Undrafted, DraftFiles
  <1>18. QED
    BY <1>1, <1>2, <1>3, <1>4, <1>5, <1>6, <1>7, <1>8, <1>9, <1>10, <1>11, <1>12, <1>13, <1>14,
       <1>15, <1>16, <1>17 DEF RuleIds, Spared

-----------------------------------------------------------------------------
(* Each tool writes.                                                         *)

(* The file a scaffold makes and what it holds.                              *)
LEMMA ScaffoldWrites ==
  ASSUME NEW R
  PROVE  /\ Writes(R, "seeds").file = "seed_utils.py" /\ Writes(R, "seeds").holds = SeedUtils(R)
         /\ Writes(R, "citation").holds = {<<"CITATION.cff", "file">>}
         /\ Writes(R, "docker").holds = DockerImage
         /\ Writes(R, "runner").holds = {<<"reproduce.sh", "file">>}
         /\ Writes(R, "readme").holds = ReadmeSections(R)
         /\ DOMAIN RuleToScaffold = {"seeds", "citation", "docker", "runner", "readme"}
  BY DEF Writes, RuleToScaffold

(* What the tools write makes a repository of a repository.                   *)
LEMMA ScaffoldIsWriting ==
  ASSUME NEW tool, IsRepository(repo), Scaffold(tool)
  PROVE  /\ Wrote(repo, repo') /\ tool \in DOMAIN RuleToScaffold
         /\ Undrafted(repo, repo')
         /\ tool # "seeds" => \A f \in repo' \ repo : f \notin SeedUtils(repo)
  <1> DEFINE H == Writes(repo, tool).holds
  <1>1. tool \in DOMAIN RuleToScaffold
    BY ToolsAssumption DEF Scaffold
  <1>2. repo' = repo \cup H
    BY DEF Scaffold
  <1>3. /\ IsFiniteSet(H) /\ \A f \in H : IsFact(f) /\ Written(repo, f) /\ f[1] \notin DraftFiles
        /\ tool = "seeds" => H = SeedUtils(repo)
        /\ tool # "seeds" => \A f \in H : f \notin SeedUtils(repo)
    <2>1. CASE tool = "seeds"
      <3>1. H = SeedUtils(repo) /\ ~ Exists(repo, "seed_utils.py")
        BY <2>1, ScaffoldWrites DEF Scaffold
      <3> HIDE DEF H
      <3>2. QED
        BY <2>1, <3>1, SeedShape, ToolsWriteFiniteSets DEF Written, IsRepository, DraftFiles
    <2>2. CASE tool \in {"citation", "docker", "runner"}
      <3>1. H \in {DockerImage, {<<"CITATION.cff", "file">>}, {<<"reproduce.sh", "file">>}}
        BY <2>2, ScaffoldWrites
      <3>2. /\ IsFiniteSet({<<"CITATION.cff", "file">>}) /\ IsFiniteSet({<<"reproduce.sh", "file">>})
            /\ IsFiniteSet(DockerImage)
        BY FS_Singleton, ToolsWriteFiniteSets DEF IsRepository
      <3>3. H \subseteq DockerImage \cup {<<"CITATION.cff", "file">>, <<"reproduce.sh", "file">>}
        BY <3>1
      <3> HIDE DEF H
      <3>4. \A f \in H : /\ IsFact(f) /\ f[1] \in {"Dockerfile", "CITATION.cff", "reproduce.sh"}
                         /\ Written(repo, f)
        BY <3>3, FileShape DEF Written
      <3>5. \A f \in H : f \notin SeedUtils(repo)
        BY <3>4, SeedShape
      <3>6. QED
        BY <2>2, <3>1, <3>2, <3>4, <3>5 DEF DraftFiles
    <2>3. CASE tool = "readme"
      <3>1. H = ReadmeSections(repo)
        BY <2>3, ScaffoldWrites
      <3> HIDE DEF H
      <3>2. \A f \in H : f[1] = "README.md" /\ IsFact(f) /\ Written(repo, f)
        BY <3>1, SectionShape DEF Written
      <3>3. \A f \in H : f \notin SeedUtils(repo)
        BY <3>2, SeedShape
      <3>4. QED
        BY <2>3, <3>1, <3>2, <3>3, ToolsWriteFiniteSets DEF IsRepository, DraftFiles
    <2>4. QED
      BY <1>1, <2>1, <2>2, <2>3, ScaffoldWrites
  <1> HIDE DEF H
  <1>4. IsRepository(repo')
    BY <1>2, <1>3, FS_Union DEF IsRepository
  <1>5. QED
    BY <1>1, <1>2, <1>3, <1>4 DEF Wrote, Undrafted

LEMMA DraftIsWriting ==
  ASSUME IsRepository(repo), DraftManifest
  PROVE  /\ Wrote(repo, repo')
         /\ \A f \in repo' \ repo : f \notin SeedUtils(repo)
  <1>1. PICK quoted \in Quoted(repo) :
          repo' = repo \cup Drafts(repo, quoted) /\ ~ Exists(repo, "manifest.yaml")
    BY DEF DraftManifest
  <1>2. /\ IsFiniteSet(Drafts(repo, quoted))
        /\ \A f \in Drafts(repo, quoted) : IsFact(f) /\ f[1] \in DraftFiles
    BY ToolsWriteFiniteSets, DraftShape DEF IsRepository
  <1>3. IsRepository(repo')
    BY <1>1, <1>2, FS_Union DEF IsRepository
  <1>4. \A f \in repo' \ repo : f \notin SeedUtils(repo)
    BY <1>1, <1>2, SeedShape DEF DraftFiles
  <1>5. Draft(repo, quoted) \subseteq repo'
    BY <1>1 DEF Drafts
  <1>6. QED
    BY <1>1, <1>3, <1>4, <1>5 DEF Wrote, Written

LEMMA PinningIsWriting ==
  ASSUME IsRepository(repo), PinRemotes
  PROVE  /\ Wrote(repo, repo')
         /\ \A f \in repo' \ repo : f \notin SeedUtils(repo)
         /\ Undrafted(repo, repo')
  <1>1. PICK resolved, files : repo' = repo \cup Pinned(repo, resolved, files)
    BY DEF PinRemotes
  <1>2. ASSUME NEW f \in Pinned(repo, resolved, files)
        PROVE  IsFact(f) /\ Len(f) = 4 /\ f[1] \notin DraftFiles /\ Written(repo, f)
    <2>1. PICK a \in Unpinned(repo, Hub(repo)) : f = Append(a, "sha") /\ ~ Says(repo, a, "mutable-ref")
      BY <1>2 DEF Pinned
    <2>2. IsFact(a) /\ Len(a) = 3 /\ a[1] \in Modules(repo)
      BY HubShape
    <2>3. IsFact(f) /\ Len(f) = 4 /\ f[1] = a[1]
      BY <2>1, <2>2, Extended
    <2>4. f[1] \notin DraftFiles
      BY <2>2, <2>3 DEF Modules, PythonFiles, PythonNames, DraftFiles
    <2>5. QED
      BY <2>1, <2>3, <2>4 DEF Written
  <1>3. IsFiniteSet(Pinned(repo, resolved, files))
    BY ToolsWriteFiniteSets DEF IsRepository
  <1>4. IsRepository(repo')
    BY <1>1, <1>2, <1>3, FS_Union DEF IsRepository
  <1>5. \A f \in repo' \ repo : f \notin SeedUtils(repo) /\ f[1] \notin DraftFiles /\ Written(repo, f)
    BY <1>1, <1>2, SeedShape
  <1>6. QED
    BY <1>1, <1>4, <1>5 DEF Wrote, Undrafted

-----------------------------------------------------------------------------
(* A scaffold answers the rules it is chosen for.                            *)

(* seed_utils.py is a module that parses, and its calls are call sites.      *)
LEMMA SeedsWritten ==
  ASSUME NEW R, NEW S, Wrote(R, S), SeedUtils(R) \subseteq S, ~ Exists(R, "seed_utils.py")
  PROVE  /\ "random.seed" \in CallSites(S)
         /\ Uses(R, {"torch"}) => /\ "torch.use_deterministic_algorithms(True)" \in CallSites(S)
                                  /\ CudnnFlags \subseteq Assigns(S)
  <1>1. \A f \in SeedUtils(R) : f[1] = "seed_utils.py" /\ Len(f) = 3
    BY SeedShape
  <1>2. "seed_utils.py" \in Modules(S)
    <2>1. <<"seed_utils.py", "import", "random">> \in S
      BY DEF SeedUtils
    <2>2. "seed_utils.py" \in Files(S)
      <3>1. <<"seed_utils.py", "import", "random">>[1] = "seed_utils.py"
        OBVIOUS
      <3>2. QED
        BY <2>1, <3>1 DEF Files
    <2>3. <<"seed_utils.py", "syntax error">> \notin R
      <3>1. <<"seed_utils.py", "syntax error">>[1] = "seed_utils.py"
        OBVIOUS
      <3>2. QED
        BY <3>1 DEF Exists
    <2>4. <<"seed_utils.py", "syntax error">> \notin S
      BY <2>3, UntouchedKinds DEF Touched
    <2>5. QED
      BY <2>2, <2>4 DEF Modules, PythonFiles, PythonNames
  <1>3. /\ Values({f \in SeedUtils(R) : f[2] = "call"}) \subseteq CallSites(S)
        /\ Values({f \in SeedUtils(R) : f[2] = "assign"}) \subseteq Assigns(S)
    <2>1. /\ {f \in SeedUtils(R) : f[2] = "call"} \subseteq Within(S, Modules(S), "call")
          /\ {f \in SeedUtils(R) : f[2] = "assign"} \subseteq Within(S, Modules(S), "assign")
      BY <1>1, <1>2 DEF Within
    <2>2. QED
      BY <2>1 DEF Values, CallSites, Assigns
  <1>4. QED
    BY <1>3, SeedUtilsMean DEF SeedCalls

LEMMA SeedsAnswer ==
  ASSUME NEW R, NEW S, Wrote(R, S), SeedUtils(R) \subseteq S, ~ Exists(R, "seed_utils.py")
  PROVE  /\ SeedDeterminismRule(S) # "fail" /\ StrictDeterminismRule(S) # "fail"
         /\ Uses(R, {"torch"}) => CudnnFlagsRule(S) # "fail"
  <1>1. Seeded(S, "python")
    BY SeedsWritten DEF Seeded, Calls
  <1>2. SeedDeterminismRule(S) # "fail"
    BY <1>1 DEF SeedDeterminismRule, Where, Tiered
  <1>3. Uses(S, {"torch"}) <=> Uses(R, {"torch"})
    BY FrameworksAppear
  <1>4. Uses(R, {"torch"}) => StrictAlgorithms(S)
    BY SeedsWritten DEF StrictAlgorithms, Calls
  <1>5. StrictDeterminismRule(S) # "fail"
    BY <1>3, <1>4 DEF StrictDeterminismRule, Where, Tiered
  <1>6. Uses(R, {"torch"}) => CudnnFlagsRule(S) # "fail"
    BY <1>4 DEF CudnnFlagsRule, Where, Tiered
  <1>7. QED
    BY <1>2, <1>5, <1>6

LEMMA SectionsAnswer ==
  ASSUME NEW R, NEW S, S = R \cup ReadmeSections(R)
  PROVE  ReadmeSectionsRule(S) # "fail" /\ ExpectedResultsRule(S) # "fail"
  <1>1. \A key \in {"install", "usage", "hardware", "results"} : HasSection(S, key)
    BY DEF HasSection, ReadmeSections
  <1>2. HasReadme(S)
    <2>1. <<"README.md", "section", "install">> \in S
      BY <1>1 DEF HasSection
    <2>2. <<"README.md", "section", "install">>[1] = "README.md"
      OBVIOUS
    <2>3. QED
      BY <2>1, <2>2 DEF HasReadme, Exists
  <1>3. {s \in {"install", "usage", "hardware"} : ~ HasSection(S, s)} = {}
    BY <1>1
  <1>4. ReadmeSectionsRule(S) = "pass"
    BY <1>2, <1>3 DEF ReadmeSectionsRule, Tiered
  <1>5. ExpectedResultsRule(S) # "fail"
    BY <1>1 DEF ExpectedResultsRule, Tiered
  <1>6. QED
    BY <1>4, <1>5

LEMMA FilesAnswer ==
  ASSUME NEW S
  PROVE  /\ <<"CITATION.cff", "file">> \in S => CitationRule(S) # "fail"
         /\ <<"Dockerfile", "python">> \in S => ContainerRule(S) # "fail"
         /\ <<"reproduce.sh", "file">> \in S => RunnerRule(S) # "fail"
         /\ TF32Rule(S) # "fail" /\ AmpRule(S) # "fail" /\ GpuHardwareBaselineRule(S) # "fail"
  <1>1. /\ <<"CITATION.cff", "file">>[1] = "CITATION.cff"
        /\ <<"Dockerfile", "python">>[1] = "Dockerfile"
        /\ <<"reproduce.sh", "file">>[1] = "reproduce.sh"
    OBVIOUS
  <1>2. <<"CITATION.cff", "file">> \in S => CitationRule(S) # "fail"
    BY <1>1 DEF CitationRule, CitationFile, Exists, Tiered
  <1>3. <<"Dockerfile", "python">> \in S => ContainerRule(S) # "fail"
    BY <1>1 DEF ContainerRule, Dockerfile, Exists, Where, Tiered
  <1>4. <<"reproduce.sh", "file">> \in S => RunnerRule(S) # "fail"
    <2>1. <<"reproduce.sh", "file">> \in S => "reproduce.sh" \in RunScripts(S)
      BY <1>1 DEF RunScripts, Shells, Files
    <2>2. QED
      BY <2>1 DEF RunnerRule, Where, Tiered
  <1>5. TF32Rule(S) # "fail" /\ AmpRule(S) # "fail" /\ GpuHardwareBaselineRule(S) # "fail"
    BY DEF TF32Rule, AmpRule, GpuHardwareBaselineRule, PrecisionRule, Where
  <1>6. QED
    BY <1>2, <1>3, <1>4, <1>5

-----------------------------------------------------------------------------
(* Rules that read the same evidence.                                        *)

(* A locked repository has at least 99 of 100 dependencies pinned, and so    *)
(* 90.                                                                       *)
LEMMA RulesAgreeOn ==
  ASSUME NEW R, IsFiniteSet(R)
  PROVE  /\ ClaimCommandRule(R) = "pass" => ReproduceCommandRule(R) = "pass"
         /\ RawUrlRule(R) = "pass" /\ DataIntegrityRule(R) # "not-applicable"
              => DataIntegrityRule(R) = "pass"
         /\ DownloadPathRule(R) = "pass" => DataFrictionRule(R) = "pass"
         /\ LowPrecisionCastRule(R) = "pass" /\ GpuHardwareBaselineRule(R) # "not-applicable"
              => GpuHardwareBaselineRule(R) = "pass"
         /\ ExecutionOrderRule(R) = "pass" /\ HiddenStateRule(R) = "pass"
                /\ StaleOutputRule(R) # "not-applicable"
              => StaleOutputRule(R) = "pass"
         /\ HyperparameterDriftRule(R) = "unknown" =>
              MissingHyperparameterRule(R) = "partial" /\ AmbiguousConfigRule(R) # "partial"
         /\ UnbackedMetricRule(R) = "pass" => MaterialDifferenceRule(R) # "unknown"
         /\ LockfileRule(R) = "pass" /\ Declared(R) => DependencyPinningRule(R) = "pass"
  <1>1. ClaimCommandRule(R) = "pass" => ReproduceCommandRule(R) = "pass"
    BY DEF ClaimCommandRule, ReproduceCommandRule, Where, Tiered
  <1>2. RawUrlRule(R) = "pass" /\ DataIntegrityRule(R) # "not-applicable"
          => DataIntegrityRule(R) = "pass"
    BY DEF RawUrlRule, DataIntegrityRule, Where, Tiered, Shares, BoundChecksums
  <1>3. DownloadPathRule(R) = "pass" => DataFrictionRule(R) = "pass"
    BY DEF DownloadPathRule, DataFrictionRule, Where, Tiered
  <1>4. LowPrecisionCastRule(R) = "pass" /\ GpuHardwareBaselineRule(R) # "not-applicable"
          => GpuHardwareBaselineRule(R) = "pass"
    BY DEF LowPrecisionCastRule, GpuHardwareBaselineRule, PrecisionRule, Where
  <1>5. ExecutionOrderRule(R) = "pass" /\ HiddenStateRule(R) = "pass"
            /\ StaleOutputRule(R) # "not-applicable"
          => StaleOutputRule(R) = "pass"
    BY DEF ExecutionOrderRule, HiddenStateRule, StaleOutputRule, Where, Warned
  <1>6. ASSUME HyperparameterDriftRule(R) = "unknown"
        PROVE  MissingHyperparameterRule(R) = "partial" /\ AmbiguousConfigRule(R) # "partial"
    <2>1. Stated(R) # {} /\ Stated(R) = Missing(R)
      BY <1>6 DEF HyperparameterDriftRule, Where, Tiered
    <2>2. ASSUME NEW name \in Stated(R) PROVE Cardinality(ConfigValues(R, name)) = 0
      <3>1. Candidates(R, name, 2) = {}
        BY <2>1 DEF Missing, Authorities
      <3>2. ConfigValues(R, name) = {}
        BY <3>1 DEF Candidates
      <3>3. QED
        BY <3>2, FS_EmptySet
    <2>3. Ambiguous(R) = {}
      BY <2>2 DEF Ambiguous
    <2>4. QED
      BY <2>1, <2>3 DEF MissingHyperparameterRule, AmbiguousConfigRule, Where, Warned
  <1>7. UnbackedMetricRule(R) = "pass" => MaterialDifferenceRule(R) # "unknown"
    BY DEF UnbackedMetricRule, MaterialDifferenceRule, Where, Warned, Backed
  <1>8. ASSUME LockfileRule(R) = "pass", Declared(R)
        PROVE  DependencyPinningRule(R) = "pass"
    <2> DEFINE D == Dependencies(R)
               E == {d \in D : Exact(R, d)}
               B == {d \in D : Bounded(R, d)}
    <2>1. Python(R) /\ (HasLockfile(R) \/ (D # {} /\ PinnedAtLeast(R, 99)))
      BY <1>8 DEF LockfileRule, Where, Tiered
    <2>2. CASE HasLockfile(R)
      BY <1>8, <2>1, <2>2 DEF DependencyPinningRule, Where, Tiered, PinnedAtLeast
    <2>3. CASE ~ HasLockfile(R)
      <3>1. D # {} /\ 100 * Cardinality(E) + 50 * Cardinality(B) >= 99 * Cardinality(D)
        BY <2>1, <2>3 DEF PinnedAtLeast
      <3>2. Cardinality(D) \in Nat
        BY FS_Subset, FS_CardinalityType DEF Dependencies, Within
      <3>3. 99 * Cardinality(D) >= 90 * Cardinality(D)
        BY <3>2
      <3>4. IsFiniteSet(D)
        BY FS_Subset DEF Dependencies, Within
      <3>5. Cardinality(E) \in Nat /\ Cardinality(B) \in Nat
        BY <3>4, FS_Subset, FS_CardinalityType
      <3>6. 100 * Cardinality(E) + 50 * Cardinality(B) >= 90 * Cardinality(D)
        BY <3>1, <3>2, <3>3, <3>5
      <3>7. PinnedAtLeast(R, 90)
        BY <3>1, <3>6 DEF PinnedAtLeast
      <3>8. QED
        BY <1>8, <2>1, <3>1, <3>7 DEF DependencyPinningRule, Where, Tiered
    <2>4. QED
      BY <2>2, <2>3
  <1>9. QED
    BY <1>1, <1>2, <1>3, <1>4, <1>5, <1>6, <1>7, <1>8

-----------------------------------------------------------------------------
(* The theorems.                                                             *)

(* Writing harms no rule outside the exceptions.                             *)
LEMMA UnharmedUnless ==
  ASSUME Wrote(repo, repo'), NEW except,
         \A id \in RuleIds \ except : Spared(repo, repo', id)
  PROVE  Unharmed(RuleIds \ except)
  <1>1. \A id \in RuleIds : Verdicts(repo)[id] = Verdict(repo, id) /\ Verdicts(repo')[id] = Verdict(repo', id)
    BY DEF Verdicts
  <1>2. \A id \in RuleIds \ except : NoWorse(Verdict(repo, id), Verdict(repo', id))
    BY NoRuleFalls
  <1>3. QED
    BY <1>1, <1>2 DEF Unharmed

(* The type invariant: every step leaves the repository a finite set of      *)
(* facts, which is what the collectors read it as (evidence/).               *)
THEOREM TypeCorrect == Spec => []TypeOK
  <1>1. Init => TypeOK
    BY AreasAssumption DEF Init, TypeOK
  <1>2. TypeOK /\ [Next]_vars => TypeOK'
    <2> SUFFICES ASSUME TypeOK, [Next]_vars PROVE TypeOK'
      OBVIOUS
    <2>1. IsRepository(repo) /\ area \in Areas
      BY DEF TypeOK, IsRepository
    <2>2. \A f \in ((area.remedies \cup area.changes) \cup area.flaws) : IsFact(f)
      BY <2>1, AreasAssumption
    <2>3. ASSUME NEW f, IsFact(f), Add(f) PROVE TypeOK'
      <3>1. repo' = repo \cup {f} /\ area' = area
        BY <2>3 DEF Add
      <3>2. IsFiniteSet(repo \cup {f})
        BY <2>1, FS_AddElement DEF IsRepository
      <3>3. QED
        BY <2>1, <2>3, <3>1, <3>2 DEF TypeOK, IsRepository
    <2>4. ASSUME NEW f, Remove(f) PROVE TypeOK'
      <3>1. repo' \subseteq repo /\ area' = area
        BY <2>4 DEF Remove
      <3>2. IsFiniteSet(repo')
        BY <2>1, <3>1, FS_Subset DEF IsRepository
      <3>3. QED
        BY <2>1, <3>1, <3>2 DEF TypeOK, IsRepository
    <2>5. CASE Remedy
      BY <2>2, <2>3, <2>4, <2>5 DEF Remedy
    <2>6. CASE Change
      BY <2>2, <2>3, <2>4, <2>6 DEF Change
    <2>7. CASE \E tool \in Tools : Scaffold(tool)
      BY <2>1, <2>7, ScaffoldIsWriting DEF TypeOK, Wrote, IsRepository, Scaffold
    <2>8. CASE DraftManifest
      BY <2>1, <2>8, DraftIsWriting DEF TypeOK, Wrote, IsRepository, DraftManifest
    <2>9. CASE PinRemotes
      BY <2>1, <2>9, PinningIsWriting DEF TypeOK, Wrote, IsRepository, PinRemotes
    <2>10. CASE Commit
      <3> DEFINE current == {g \in repo : Len(g) = 4 /\ g[4] = "HEAD"}
                 moved == Renamed(current, "old commit")
      <3>1. repo' = (repo \ (current \cup {<<".git", "tag at HEAD">>})) \cup moved /\ area' = area
        BY <2>10 DEF Commit, Renamed
      <3>2. IsFiniteSet(current)
        BY <2>1, FS_Subset DEF IsRepository
      <3>3. ASSUME NEW g \in current PROVE IsFact([g EXCEPT ![4] = "old commit"])
        <4> DEFINE h == [g EXCEPT ![4] = "old commit"]
                   T == Range(g) \cup {"old commit"}
        <4>1. g \in Seq(Range(g)) /\ Len(g) = 4
          BY <2>1 DEF IsRepository, IsFact
        <4>2. g \in [1 .. 4 -> Range(g)]
          BY <4>1, LenProperties
        <4>3. h \in [1 .. 4 -> T]
          BY <4>2
        <4>4. h \in Seq(T)
          BY <4>3, SeqDef
        <4>5. QED
          BY <4>4, SequencesAreFacts
      <3>4. \A f \in moved : IsFact(f)
        BY <3>3 DEF Renamed
      <3> HIDE DEF current
      <3>5. IsFiniteSet(moved)
        BY <3>2, FiniteValues
      <3>6. IsFiniteSet(repo \ (current \cup {<<".git", "tag at HEAD">>}))
        BY <2>1, FS_Subset DEF IsRepository
      <3> HIDE DEF moved
      <3>7. IsFiniteSet(repo')
        BY <3>1, <3>5, <3>6, FS_Union
      <3>8. QED
        BY <2>1, <3>1, <3>4, <3>7 DEF TypeOK, IsRepository
    <2>11. CASE UNCHANGED vars
      BY <2>11 DEF TypeOK, vars
    <2>12. QED
      BY <2>5, <2>6, <2>7, <2>8, <2>9, <2>10, <2>11 DEF Next
  <1>3. QED
    BY <1>1, <1>2, PTL DEF Spec

(* No two rules contradict each other on any repository that an author and   *)
(* the tools can reach (rules/): a pass of the one with the stronger demand  *)
(* carries the other.                                                        *)
THEOREM RulesAgreeHolds == Spec => []RulesAgree
  <1>1. TypeOK => RulesAgree
    <2> SUFFICES ASSUME TypeOK PROVE RulesAgree
      OBVIOUS
    <2> DEFINE Read == {"R-RUN-001", "R-EXEC-003", "R-REMOTE-004", "R-DATA-003", "R-DATA-002",
                        "R-DATA-005", "R-PREC-003", "R-PREC-005", "R-NB-001", "R-NB-002", "R-NB-003",
                        "R-DRIFT-001", "R-DRIFT-002", "R-DRIFT-003", "R-RES-002", "R-RES-004", "R-ENV-001",
                        "R-ENV-002"}
    <2>1. \A id \in Read : Verdicts(repo)[id] = Verdict(repo, id)
      BY DEF Verdicts, RuleIds
    <2>2. /\ Verdict(repo, "R-RUN-001") = ClaimCommandRule(repo)
          /\ Verdict(repo, "R-EXEC-003") = ReproduceCommandRule(repo)
          /\ Verdict(repo, "R-REMOTE-004") = RawUrlRule(repo)
          /\ Verdict(repo, "R-DATA-003") = DataIntegrityRule(repo)
          /\ Verdict(repo, "R-DATA-002") = DownloadPathRule(repo)
          /\ Verdict(repo, "R-DATA-005") = DataFrictionRule(repo)
          /\ Verdict(repo, "R-PREC-003") = LowPrecisionCastRule(repo)
          /\ Verdict(repo, "R-PREC-005") = GpuHardwareBaselineRule(repo)
          /\ Verdict(repo, "R-NB-001") = ExecutionOrderRule(repo)
          /\ Verdict(repo, "R-NB-002") = StaleOutputRule(repo)
          /\ Verdict(repo, "R-NB-003") = HiddenStateRule(repo)
          /\ Verdict(repo, "R-DRIFT-001") = HyperparameterDriftRule(repo)
          /\ Verdict(repo, "R-DRIFT-002") = AmbiguousConfigRule(repo)
          /\ Verdict(repo, "R-DRIFT-003") = MissingHyperparameterRule(repo)
          /\ Verdict(repo, "R-RES-002") = MaterialDifferenceRule(repo)
          /\ Verdict(repo, "R-RES-004") = UnbackedMetricRule(repo)
          /\ Verdict(repo, "R-ENV-001") = DependencyPinningRule(repo)
          /\ Verdict(repo, "R-ENV-002") = LockfileRule(repo)
      BY DEF Verdict
    <2>3. IsFiniteSet(repo)
      BY DEF TypeOK
    <2>4. QED
      BY <2>1, <2>2, <2>3, RulesAgreeOn DEF RulesAgree
  <1>2. QED
    BY <1>1, TypeCorrect, PTL

(* What fixers/, manifest_builder.py and `pin-remotes --write` put into a    *)
(* repository lowers no verdict, but R-DEP-010 with seed_utils.py and, with  *)
(* a drafted manifest, R-DOC-003 and the portability rules that count what   *)
(* the quoted command holds.                                                 *)
THEOREM ToolsDoNoHarmHolds == Spec => ToolsDoNoHarm
  <1> DEFINE Quoting ==
               ({"R-DOC-003"}
                  \cup (IF \E c \in Quotable(repo) : Says(repo, c, "abs_path") THEN {"R-PORT-001"} ELSE {}))
                  \cup (IF Within(repo, Unscanned, "command") # {} THEN {"R-PORT-002", "R-PORT-004"}
                        ELSE {})
             A == /\ DraftManifest => Unharmed(RuleIds \ Quoting)
                  /\ PinRemotes => Unharmed(RuleIds)
                  /\ \A tool \in Tools :
                       Scaffold(tool) => Unharmed(RuleIds \ (IF tool = "seeds" THEN {"R-DEP-010"} ELSE {}))
  <1>1. TypeOK => A
    <2> SUFFICES ASSUME TypeOK PROVE A
      OBVIOUS
    <2>1. IsRepository(repo)
      BY DEF TypeOK, IsRepository
    <2>2. ASSUME DraftManifest PROVE Unharmed(RuleIds \ Quoting)
      <3>1. Wrote(repo, repo') /\ \A f \in repo' \ repo : f \notin SeedUtils(repo)
        BY <2>1, <2>2, DraftIsWriting
      <3>2. \A id \in RuleIds \ Quoting : Spared(repo, repo', id)
        BY <3>1 DEF Spared
      <3> HIDE DEF Quoting
      <3>3. QED
        BY <3>1, <3>2, UnharmedUnless
    <2>3. PinRemotes => Unharmed(RuleIds)
      <3>1. PinRemotes => Unharmed(RuleIds \ {})
        BY <2>1, PinningIsWriting, UnharmedUnless DEF Spared
      <3>2. RuleIds \ {} = RuleIds
        OBVIOUS
      <3>3. QED
        BY <3>1, <3>2
    <2>4. ASSUME NEW tool \in Tools, Scaffold(tool)
          PROVE  Unharmed(RuleIds \ (IF tool = "seeds" THEN {"R-DEP-010"} ELSE {}))
      BY <2>1, <2>4, ScaffoldIsWriting, UnharmedUnless DEF Spared
    <2>5. QED
      BY <2>2, <2>3, <2>4
  <1>2. TypeOK /\ [Next]_vars => [A]_vars
    BY <1>1
  <1>3. QED
    BY <1>2, TypeCorrect, PTL DEF Spec, ToolsDoNoHarm

(* After `fix --rule` has run the scaffold RULE_TO_SCAFFOLD names, the rule  *)
(* is not failed, but for the two on DataLoaders and the cuDNN flags where   *)
(* torch is not used.                                                        *)
THEOREM ScaffoldsAnswerHolds == Spec => ScaffoldsAnswerTheirRules
  <1> DEFINE A == \A tool \in Tools :
       Scaffold(tool) =>
         \A id \in RuleToScaffold[tool]
                    \ ({"R-DET-004", "R-DET-005"}
                         \cup (IF Uses(repo, {"torch"}) THEN {} ELSE {"R-DET-002"})) :
           Verdict(repo', id) # "fail"
  <1>1. TypeOK => A
    <2> SUFFICES ASSUME TypeOK, NEW tool \in Tools, Scaffold(tool),
                        NEW id \in RuleToScaffold[tool] \ {"R-DET-004", "R-DET-005"},
                        id = "R-DET-002" => Uses(repo, {"torch"})
                 PROVE  Verdict(repo', id) # "fail"
      OBVIOUS
    <2>1. Wrote(repo, repo') /\ tool \in {"seeds", "citation", "docker", "runner", "readme"}
      BY ScaffoldIsWriting, ScaffoldWrites DEF TypeOK, IsRepository
    <2>2. repo' = repo \cup Writes(repo, tool).holds
      BY DEF Scaffold
    <2>3. CASE tool = "seeds"
      <3>1. SeedUtils(repo) \subseteq repo' /\ ~ Exists(repo, "seed_utils.py")
        BY <2>2, <2>3, ScaffoldWrites DEF Scaffold
      <3>2. id \in {"R-DET-001", "R-DET-002", "R-DET-003"}
        BY <2>3 DEF RuleToScaffold
      <3>3. QED
        BY <2>1, <3>1, <3>2, SeedsAnswer DEF Verdict
    <2>4. CASE tool = "citation"
      <3>1. id = "R-LIC-002" /\ <<"CITATION.cff", "file">> \in repo'
        BY <2>2, <2>4, ScaffoldWrites DEF RuleToScaffold
      <3>2. QED
        BY <3>1, FilesAnswer DEF Verdict
    <2>5. CASE tool = "docker"
      <3>1. id = "R-ENV-003" /\ <<"Dockerfile", "python">> \in repo'
        BY <2>2, <2>5, ScaffoldWrites DEF RuleToScaffold, DockerImage
      <3>2. QED
        BY <3>1, FilesAnswer DEF Verdict
    <2>6. CASE tool = "runner"
      <3>1. id = "R-EXEC-002" /\ <<"reproduce.sh", "file">> \in repo'
        BY <2>2, <2>6, ScaffoldWrites DEF RuleToScaffold
      <3>2. QED
        BY <3>1, FilesAnswer DEF Verdict
    <2>7. CASE tool = "readme"
      <3>1. repo' = repo \cup ReadmeSections(repo)
        BY <2>2, <2>7, ScaffoldWrites
      <3>2. id \in {"R-DOC-001", "R-DOC-003", "R-PREC-001", "R-PREC-002", "R-PREC-005"}
        BY <2>7 DEF RuleToScaffold
      <3>3. QED
        BY <3>1, <3>2, SectionsAnswer, FilesAnswer DEF Verdict
    <2>8. QED
      BY <2>1, <2>3, <2>4, <2>5, <2>6, <2>7
  <1>2. TypeOK /\ [Next]_vars => [A]_vars
    BY <1>1
  <1>3. QED
    BY <1>2, TypeCorrect, PTL DEF Spec, ScaffoldsAnswerTheirRules
=============================================================================
