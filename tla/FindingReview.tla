---------------------------- MODULE FindingReview ----------------------------
(***************************************************************************)
(* The review of sampled findings (corpus/scripts/label_findings.py): the  *)
(* coordinator freezes an allocation (review_allocation.py), a primary     *)
(* reviewer decides on every finding of it and a secondary one on the      *)
(* second-review findings, each in a file of their own, the two files are  *)
(* merged, an adjudicator decides where they differ, and a report is       *)
(* printed from the merged file.                                           *)
(*                                                                         *)
(* Every command reads its files once and saves a whole file after each    *)
(* decision, without a lock: commands of several terminals overlap, also   *)
(* two on one file.  The commands that take both reviewers' files read     *)
(* each twice, once to parse and once to hash.  The merged file may be     *)
(* edited by hand, and the allocation frozen again.  Timestamps follow the *)
(* order of the steps, so no check of them can refuse here and they are    *)
(* left out; a digest is the file's contents.                              *)
(***************************************************************************)
EXTENDS Integers, FiniteSets, Sequences

CONSTANTS
  Findings,
  Frozen,     \* Frozen[v] is the v-th allocation: the findings of its population, of its
              \* second review and of its calibration
  People,
  Judgements,
  Gated,      \* the fields of a judgement that calibration compares, each by itself
  Gate(_, _), \* what a judgement says in one of them
  Agreeing, Compared,   \* the least share of agreement in calibration: 4 of 5 in the code
  Terminals,
  Desks,      \* the terminals where both reviewers' files are at hand
  Seats,      \* bound: the terminals each role's reviewer works at
  Entries,    \* bound: different decisions entered for each allocation
  Edits,      \* bound: changes to a merged file by hand
  Missing

Versions == 1 .. Len(Frozen)

ASSUME AllocationAssumption ==
  /\ Frozen \in Seq([population: SUBSET Findings, second: SUBSET Findings,
                     calibration: SUBSET Findings])
  /\ Frozen # <<>>
  /\ \A v \in Versions :
       /\ Frozen[v].second \subseteq Frozen[v].population
       /\ Frozen[v].calibration # {} /\ Frozen[v].calibration \subseteq Frozen[v].second
       /\ IsFiniteSet(Frozen[v].second)
  /\ Agreeing \in Nat /\ Compared \in Nat
  /\ Entries \in [Versions -> Nat] /\ Edits \in Nat /\ Missing \notin People
  /\ Desks \subseteq Terminals /\ Seats \in [{"primary", "secondary"} -> SUBSET Terminals]

VARIABLES
  allocation,  \* the version of the allocation in force
  file,        \* the file each role's reviewer started last
  merged,      \* the merged file for the allocation in force
  command,     \* what each terminal is doing, with what it has read
  entered,     \* for the properties: the decisions entered for the allocation in force
  edits        \* how often a merged file was changed by hand

vars == <<allocation, file, merged, command, entered, edits>>
Roles == {"primary", "secondary"}
Idle == [does |-> "nothing"]

Init ==
  /\ allocation = 1
  /\ file = [r \in Roles |-> Missing]
  /\ merged = Missing
  /\ command = [t \in Terminals |-> Idle]
  /\ entered = {}
  /\ edits = 0

(* A new allocation is frozen, once everyone has left their terminal.  The    *)
(* old files are still there.                                                *)
Reallocate ==
  /\ \A t \in Terminals : command[t] = Idle
  /\ allocation + 1 \in Versions
  /\ allocation' = allocation + 1
  /\ merged' = Missing
  /\ entered' = {}
  /\ UNCHANGED <<file, command, edits>>

----------------------------------------------------------------------------
(* One reviewer's file                                                       *)

Assigned(role, v) == IF role = "primary" THEN Frozen[v].population ELSE Frozen[v].second

NewFile(role, v, p) ==
  [role |-> role, allocation |-> v, by |-> p, declared |-> FALSE,
   decided |-> [f \in Assigned(role, v) |-> Missing]]

(* init-review-source refuses a path that exists, so a new allocation takes  *)
(* a new file.  Nobody goes back to the old one once there is a new one, and  *)
(* a role keeps its reviewer: a bound on what is looked at.                  *)
Of(v, f) == f # Missing /\ f.allocation = v

Start(role, p) ==
  /\ ~ Of(allocation, file[role])
  /\ file[role] # Missing => p = file[role].by
  /\ file' = [file EXCEPT ![role] = NewFile(role, allocation, p)]
  /\ UNCHANGED <<allocation, merged, command, entered, edits>>

Decided(payload) == {f \in DOMAIN payload.decided : payload.decided[f] # Missing}

(* The file is bound to this allocation and covers exactly its assignment.   *)
MadeFor(payload, v) ==
  /\ payload.allocation = v
  /\ DOMAIN payload.decided = Assigned(payload.role, v)

(* validate_independent_finding_review                                       *)
Valid(payload, v) ==
  /\ MadeFor(payload, v)
  /\ Decided(payload) # {} => payload.declared

Complete(payload, v) ==
  Valid(payload, v) /\ payload.declared /\ Decided(payload) = DOMAIN payload.decided

Become(t, new) == command' = [command EXCEPT ![t] = new]

(* review-source asks for the declarations before anything else and saves    *)
(* them; then the pending findings are decided one by one.  Nothing ties its *)
(* review sets, calibration and remaining, to each other or to the gate, so  *)
(* any pending finding may be next.                                          *)
Open(t, role) ==
  /\ command[t] = Idle /\ t \in Seats[role]
  /\ file[role] # Missing /\ Valid(file[role], allocation)
  /\ Become(t, [does |-> "declare", payload |-> file[role]])
  /\ UNCHANGED <<allocation, file, merged, entered, edits>>

Save(payload) ==
  file' = [file EXCEPT ![payload.role] = IF Of(payload.allocation, @) THEN payload ELSE @]

Declare(t) ==
  /\ command[t].does = "declare"
  /\ LET payload == [command[t].payload EXCEPT !.declared = TRUE]
     IN /\ Save(payload)
        /\ Become(t, [command[t] EXCEPT !.does = "decide", !.payload = payload])
  /\ UNCHANGED <<allocation, merged, entered, edits>>

Entry(role, v, f, judgement) ==
  [role |-> role, allocation |-> v, finding |-> f, judgement |-> judgement]

Decide(t, f, judgement) ==
  /\ command[t].does = "decide"
  /\ f \in DOMAIN command[t].payload.decided
  /\ command[t].payload.decided[f] = Missing
  /\ Cardinality(entered) < Entries[allocation]
  /\ LET payload == [command[t].payload EXCEPT !.decided[f] = judgement]
     IN /\ Save(payload)
        /\ Become(t, [command[t] EXCEPT !.payload = payload])
        /\ entered' = entered \cup {Entry(payload.role, payload.allocation, f, judgement)}
  /\ UNCHANGED <<allocation, merged, edits>>

(* The reviewer quits, a check refuses, or the command is killed.            *)
Stop(t) ==
  /\ command[t] # Idle
  /\ Become(t, Idle)
  /\ UNCHANGED <<allocation, file, merged, entered, edits>>

----------------------------------------------------------------------------
(* The commands on both files                                                *)

(* _finding_review_context binds the allocation; the files are parsed, and   *)
(* then read again for their digests.                                        *)
Gather(t) ==
  /\ command[t] = Idle /\ t \in Desks
  /\ \A r \in Roles : file[r] # Missing
  /\ Become(t, [does |-> "hash", allocation |-> allocation, sources |-> file])
  /\ UNCHANGED <<allocation, file, merged, entered, edits>>

Hash(t) ==
  /\ command[t].does = "hash"
  /\ Become(t, [does |-> "check", allocation |-> command[t].allocation,
                sources |-> command[t].sources,
                digests |-> [r \in Roles |->
                               IF Of(command[t].sources[r].allocation, file[r])
                               THEN file[r] ELSE command[t].sources[r]]])
  /\ UNCHANGED <<allocation, file, merged, entered, edits>>

MayMerge(sources, digests, v) ==
  /\ digests["primary"] # digests["secondary"]
  /\ sources["primary"].by # sources["secondary"].by
  /\ \A r \in Roles : Complete(sources[r], v)

(* merge_independent_finding_reviews                                         *)
Merge(sources, digests, v) ==
  [allocation |-> v,
   initial |-> [r \in Roles |-> [by |-> sources[r].by, digest |-> digests[r]]],
   reviews |-> [f \in Frozen[v].population |->
                  [r \in {r \in Roles : f \in Assigned(r, v)} |-> sources[r].decided[f]]],
   adjudicated |-> [f \in Frozen[v].population |-> Missing]]

(* merge-review-sources refuses a path that exists.                          *)
SaveMerge(t) ==
  LET c == command[t]
  IN /\ c.does = "check"
     /\ MayMerge(c.sources, c.digests, c.allocation)
     /\ c.allocation = allocation /\ merged = Missing
     /\ merged' = Merge(c.sources, c.digests, c.allocation)
     /\ Become(t, Idle)
     /\ UNCHANGED <<allocation, file, entered, edits>>

Population(m) == Frozen[m.allocation].population
Reviewers(m) == {m.initial[r].by : r \in Roles}
Differ(m, f) == \E r, s \in DOMAIN m.reviews[f] : m.reviews[f][r] # m.reviews[f][s]

\* Mutant of Bound: whoever the merged file names, its decisions are taken from it.
NamesItsSources(m, sources, digests) ==
  /\ MayMerge(sources, digests, m.allocation)
  /\ m.initial = Merge(sources, digests, m.allocation).initial

(* validate_merged_finding_review merges the sources again: only the         *)
(* adjudications may differ.                                                 *)
Bound(m, sources, digests) ==
  /\ MayMerge(sources, digests, m.allocation)
  /\ m = [Merge(sources, digests, m.allocation) EXCEPT !.adjudicated = m.adjudicated]

(* _validate_v2_entry: an adjudication needs two reviews that differ and     *)
(* someone else than the reviewers.                                          *)
Adjudicable(m) ==
  \A f \in Population(m) : m.adjudicated[f] # Missing =>
    Differ(m, f) /\ m.adjudicated[f].by \notin Reviewers(m)

ValidMerge(m, c) ==
  m.allocation = c.allocation /\ Bound(m, c.sources, c.digests) /\ Adjudicable(m)

Pending(m) == {f \in Population(m) : Differ(m, f) /\ m.adjudicated[f] = Missing}

(* adjudicate-review keeps what it read, and saves it with each decision.    *)
OpenMerged(t, p) ==
  LET c == command[t]
      m == merged
  IN /\ c.does = "check"
     /\ m # Missing /\ p \notin Reviewers(m) /\ ValidMerge(m, c)
     /\ Become(t, [does |-> "adjudicate", by |-> p, payload |-> m])
     /\ UNCHANGED <<allocation, file, merged, entered, edits>>

Adjudicate(t, f, judgement) ==
  /\ command[t].does = "adjudicate" /\ f \in Pending(command[t].payload)
  /\ LET m == [command[t].payload EXCEPT
                 !.adjudicated[f] = [by |-> command[t].by, judgement |-> judgement]]
     IN /\ merged' = IF Of(m.allocation, merged) THEN m ELSE merged
        /\ Become(t, [command[t] EXCEPT !.payload = m])
  /\ UNCHANGED <<allocation, file, entered, edits>>

(* Someone changes the merged file, or removes it to merge again.            *)
EditMerged ==
  /\ merged # Missing /\ edits < Edits /\ edits' = edits + 1
  /\ \E f \in Population(merged), judgement \in Judgements :
       \/ \E r \in DOMAIN merged.reviews[f] :
            merged' = [merged EXCEPT !.reviews[f][r] = judgement]
       \/ \E p \in People :
            merged' = [merged EXCEPT !.adjudicated[f] = [by |-> p, judgement |-> judgement]]
  /\ UNCHANGED <<allocation, file, command, entered>>

RemoveMerged ==
  /\ merged # Missing /\ edits < Edits /\ edits' = edits + 1
  /\ merged' = Missing
  /\ UNCHANGED <<allocation, file, command, entered>>

(* Exact agreement on the required share of the calibration findings.        *)
Enough(agreed, calibration) ==
  Compared * Cardinality(agreed) >= Agreeing * Cardinality(calibration)

AgreedIn(m, field) ==
  {f \in Frozen[m.allocation].calibration :
     \A r, s \in DOMAIN m.reviews[f] :
       Gate(field, m.reviews[f][r]) = Gate(field, m.reviews[f][s])}

\* Mutant of CalibrationAgrees: agreement in any one field will do.
AgreesSomewhere(m) ==
  \E field \in Gated : Enough(AgreedIn(m, field), Frozen[m.allocation].calibration)

(* _require_calibration_agreement: in each field by itself, so the findings   *)
(* two reviewers differ on may be others in one field than in the other.      *)
CalibrationAgrees(m) ==
  \A field \in Gated : Enough(AgreedIn(m, field), Frozen[m.allocation].calibration)

(* _resolved_value                                                           *)
Resolved(m, f) ==
  IF m.adjudicated[f] # Missing THEN m.adjudicated[f].judgement
  ELSE CHOOSE j \in Judgements : \A r \in DOMAIN m.reviews[f] : m.reviews[f][r] = j

(* report-review, which only prints.                                         *)
MayReport(t) ==
  LET c == command[t]
      m == merged
  IN /\ c.does = "check"
     /\ m # Missing /\ ValidMerge(m, c)
     /\ Pending(m) = {} /\ CalibrationAgrees(m)

Report(t) ==
  /\ MayReport(t)
  /\ Become(t, Idle)
  /\ UNCHANGED <<allocation, file, merged, entered, edits>>

Next ==
  \/ Reallocate \/ EditMerged \/ RemoveMerged
  \/ \E r \in Roles, p \in People : Start(r, p)
  \/ \E t \in Terminals :
       \/ Declare(t) \/ Stop(t) \/ Gather(t) \/ Hash(t) \/ SaveMerge(t) \/ Report(t)
       \/ \E r \in Roles : Open(t, r)
       \/ \E p \in People : OpenMerged(t, p)
       \/ \E f \in Findings, j \in Judgements : Decide(t, f, j) \/ Adjudicate(t, f, j)

Spec == Init /\ [][Next]_vars

----------------------------------------------------------------------------
Reports == IF \E t \in Terminals : MayReport(t) THEN {merged} ELSE {}
Entered(m, role, f, j) == Entry(role, m.allocation, f, j) \in entered

(* Every label a report counts is what its two reviewers, different people,  *)
(* entered for that very allocation, or what a third person decided where    *)
(* they differed.                                                            *)
LabelsAreTheReviewers ==
  \A m \in Reports :
    /\ m.initial["primary"].by # m.initial["secondary"].by
    /\ \A f \in Population(m) :
         IF m.adjudicated[f] = Missing
         THEN \A r \in Roles :
                f \in Assigned(r, m.allocation) => Entered(m, r, f, Resolved(m, f))
         ELSE /\ m.adjudicated[f].by \notin Reviewers(m)
              /\ \E a, b \in Judgements :
                   a # b /\ Entered(m, "primary", f, a) /\ Entered(m, "secondary", f, b)

(* No report rests on a calibration the reviewers failed: in each gated       *)
(* field they entered the same on the required share of the calibration       *)
(* findings, whichever commands and edits came between their entries and it.  *)
ReportsAreCalibrated ==
  \A m \in Reports : \A field \in Gated :
    LET calibration == Frozen[m.allocation].calibration
        agreed == {f \in calibration :
                     \E a, b \in Judgements :
                       /\ Gate(field, a) = Gate(field, b)
                       /\ Entered(m, "primary", f, a) /\ Entered(m, "secondary", f, b)}
    IN Enough(agreed, calibration)

(* What the reviewer is told on stopping, "completed reviews remain saved":  *)
(* a decision once saved in a reviewer's file stays there as it is.          *)
CompletedReviewsRemain ==
  [][\A r \in Roles : file[r] # Missing /\ Of(file[r].allocation, file'[r]) =>
       \A f \in Decided(file[r]) : file'[r].decided[f] = file[r].decided[f]]_vars

----------------------------------------------------------------------------
(* Why they hold.                                                            *)

(* The files and what is in them.                                            *)
SourceFiles(role) ==
  UNION {[role: {role}, allocation: {v}, by: People, declared: BOOLEAN,
          decided: [Assigned(role, v) -> Judgements \cup {Missing}]] : v \in Versions}
Reviewed(f, v) == {r \in Roles : f \in Assigned(r, v)}
IsMerge(m) ==
  /\ m = [allocation |-> m.allocation, initial |-> m.initial,
          reviews |-> m.reviews, adjudicated |-> m.adjudicated]
  /\ m.allocation = allocation
  /\ m.initial \in [Roles -> [by: People, digest: UNION {SourceFiles(r) : r \in Roles}]]
  /\ m.reviews = [f \in Population(m) |-> m.reviews[f]]
  /\ \A f \in Population(m) : m.reviews[f] \in [Reviewed(f, allocation) -> Judgements]
  /\ m.adjudicated \in [Population(m) -> [by: People, judgement: Judgements] \cup {Missing}]

(* What a terminal does is about the allocation in force, though the files   *)
(* it has read may be of an older one.                                       *)
Both == {s \in [Roles -> UNION {SourceFiles(r) : r \in Roles}] : \A r \in Roles : s[r].role = r}
Command(c) ==
  \/ c = Idle
  \/ /\ c.does \in {"declare", "decide"} /\ c = [does |-> c.does, payload |-> c.payload]
     /\ \E r \in Roles : c.payload \in SourceFiles(r)
     /\ c.payload.allocation = allocation
  \/ c \in [does: {"hash"}, allocation: {allocation}, sources: Both]
  \/ c \in [does: {"check"}, allocation: {allocation}, sources: Both, digests: Both]
  \/ /\ c = [does |-> "adjudicate", by |-> c.by, payload |-> c.payload]
     /\ c.by \in People /\ IsMerge(c.payload)

TypeOK ==
  /\ allocation \in Versions
  /\ \A r \in Roles : file[r] # Missing =>
       file[r] \in SourceFiles(r) /\ file[r].allocation =< allocation
  /\ file = [r \in Roles |-> file[r]]
  /\ merged # Missing => IsMerge(merged)
  /\ command = [t \in Terminals |-> command[t]] /\ \A t \in Terminals : Command(command[t])
  /\ entered \subseteq UNION {[role: {r}, allocation: {allocation},
                               finding: Assigned(r, allocation), judgement: Judgements] : r \in Roles}
  /\ IsFiniteSet(entered) /\ edits \in 0 .. Edits

(* A decision in a file for the allocation in force was entered for it.      *)
IsEntered(payload) ==
  payload.allocation = allocation => \A f \in Decided(payload) :
    Entry(payload.role, payload.allocation, f, payload.decided[f]) \in entered
ReadsEntered(c) ==
  /\ c.does \in {"declare", "decide"} => IsEntered(c.payload)
  /\ c.does \in {"hash", "check"} => \A r \in Roles : IsEntered(c.sources[r])
DecisionsEntered ==
  /\ \A r \in Roles : file[r] # Missing => IsEntered(file[r])
  /\ \A t \in Terminals : ReadsEntered(command[t])

IInv == TypeOK /\ DecisionsEntered
=============================================================================
