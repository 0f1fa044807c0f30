--------------------------- MODULE GenerateProofs ---------------------------
(* What the ledger, the artifacts and the bundle say of each other, for any  *)
(* number of generations, edits, faults and audits.                          *)
EXTENDS Generate, TLAPS

----------------------------------------------------------------------------
(* Ledgers as loaded and changed.                                            *)

(* A ledger names a run under each of its keys.                              *)
LEMMA RecordsFacts ==
  ASSUME NEW map \in Records
  PROVE  /\ DOMAIN map \subseteq Outputs
         /\ \A key \in DOMAIN map : map[key] \in Runs
         /\ \A key : At(map, key) \in Runs \cup {Missing}
BY DEF Records, At

LEMMA NoRecordsFacts == NoRecords \in Records /\ DOMAIN NoRecords = {}
BY DEF Records, NoRecords

(* With changes the record of one artifact and keeps the others.             *)
LEMMA WithFacts ==
  ASSUME NEW map \in Records, NEW key \in Outputs, NEW r \in Runs
  PROVE  /\ With(map, key, r) \in Records
         /\ DOMAIN With(map, key, r) = {key} \cup DOMAIN map
         /\ \A other \in {key} \cup DOMAIN map :
              With(map, key, r)[other] = IF other = key THEN r ELSE map[other]
<1> DEFINE updated == [k \in {key} \cup DOMAIN map |-> IF k = key THEN r ELSE map[k]]
<1>1. With(map, key, r) = updated
  BY DEF With
<1>2. {key} \cup DOMAIN map \in SUBSET Outputs
  BY RecordsFacts
<1>3. updated \in [{key} \cup DOMAIN map -> Runs]
  BY RecordsFacts
<1>4. updated \in Records
  BY <1>2, <1>3 DEF Records
<1> QED BY <1>1, <1>4

LEMMA AtWith ==
  ASSUME NEW map \in Records, NEW key \in Outputs, NEW r \in Runs, NEW other
  PROVE  At(With(map, key, r), other) = IF other = key THEN r ELSE At(map, other)
<1> DEFINE with == With(map, key, r)
<1>1. /\ DOMAIN with = {key} \cup DOMAIN map
      /\ \A o \in {key} \cup DOMAIN map : with[o] = IF o = key THEN r ELSE map[o]
  BY DEF With
<1> HIDE DEF with
<1>3. At(with, other) = IF other = key THEN r ELSE At(map, other)
  BY <1>1 DEF At
<1> QED BY <1>3 DEF with

LEMMA KeyFacts ==
  ASSUME NEW j
  PROVE  Key(j) \in Outputs /\ (j \in {"root", "docs", "print"} => Target(j) = Key(j))
BY DEF Key, Target, Outputs, Name

----------------------------------------------------------------------------
(* A run goes through the steps of its plan in order.                        *)

Following(r) ==
  CASE pc[r] = "load" -> "inspect" [] pc[r] = "inspect" -> "record"
    [] pc[r] = "record" -> (IF job[r] = "print" THEN "done" ELSE "write")
    [] pc[r] = "look" -> "make" [] pc[r] = "make" -> "fill"
    [] OTHER -> "done"

(* The job of a run that has come to a step.                                 *)
LEMMA StepOfJob ==
  ASSUME TypeOK, NEW r \in Runs, Active(r)
  PROVE  \/ job[r] \in {"root", "docs"} /\ pc[r] \in {"load", "inspect", "record", "write"}
         \/ job[r] = "print" /\ pc[r] \in {"load", "inspect", "record"}
         \/ job[r] \notin {"root", "docs", "print"} /\ pc[r] \in {"look", "make", "fill"}
BY DEF TypeOK, Plan

LEMMA ProceedsTo ==
  ASSUME TypeOK, NEW r \in Runs, Active(r), Proceed(r)
  PROVE  Goto(r, Following(r))
<1>1. CASE job[r] \in {"root", "docs"}
  <2>1. Plan(job[r]) = <<"load", "inspect", "record", "write">>
    BY <1>1 DEF Plan
  <2> QED BY <1>1, <2>1, StepOfJob DEF Proceed, Following
<1>2. CASE job[r] = "print"
  <2>1. Plan(job[r]) = <<"load", "inspect", "record">>
    BY <1>2 DEF Plan
  <2>2. pc[r] \in {"load", "inspect", "record"}
    BY <1>2, StepOfJob
  <2> DEFINE plan == Plan(job[r])
             i == CHOOSE k \in DOMAIN plan : plan[k] = pc[r]
  <2>3. i = CASE pc[r] = "load" -> 1 [] pc[r] = "inspect" -> 2 [] OTHER -> 3
    BY <2>1, <2>2
  <2>4. (IF i < Len(plan) THEN plan[i + 1] ELSE "done") = Following(r)
    BY <1>2, <2>1, <2>2, <2>3 DEF Following
  <2> QED BY <2>4 DEF Proceed
<1>3. CASE job[r] \notin {"root", "docs", "print"}
  <2>1. Plan(job[r]) = <<"look", "make", "fill">>
    BY <1>3 DEF Plan
  <2> QED BY <1>3, <2>1, StepOfJob DEF Proceed, Following
<1> QED BY <1>1, <1>2, <1>3

Steps == {"load", "inspect", "record", "write", "look", "make", "fill"}

(* A job and a step of its plan.                                             *)
Works(j, s) ==
  \/ j \in {"root", "docs"} /\ s \in {"load", "inspect", "record", "write"}
  \/ j = "print" /\ s \in {"load", "inspect", "record"}
  \/ j \notin {"root", "docs", "print"} /\ s \in {"look", "make", "fill"}

LEMMA WorksAtStep ==
  ASSUME NEW j, NEW s, Works(j, s)
  PROVE  \E i \in DOMAIN Plan(j) : s = Plan(j)[i]
<1>1. CASE j \in {"root", "docs"}
  <2>1. Plan(j) = <<"load", "inspect", "record", "write">>
    BY <1>1 DEF Plan
  <2>2. \E i \in 1 .. 4 : s = Plan(j)[i]
    BY <1>1, <2>1 DEF Works
  <2> QED BY <2>1, <2>2
<1>2. CASE j = "print"
  <2>1. Plan(j) = <<"load", "inspect", "record">>
    BY <1>2 DEF Plan
  <2>2. \E i \in 1 .. 3 : s = Plan(j)[i]
    BY <1>2, <2>1 DEF Works
  <2> QED BY <2>1, <2>2
<1>3. CASE j \notin {"root", "docs", "print"}
  <2>1. Plan(j) = <<"look", "make", "fill">>
    BY <1>3 DEF Plan
  <2>2. \E i \in 1 .. 3 : s = Plan(j)[i]
    BY <1>3, <2>1 DEF Works
  <2> QED BY <2>1, <2>2
<1> QED BY <1>1, <1>2, <1>3

(* A step of a run moves this run only: it begins with the first step of its *)
(* plan, goes on to a later one, or ends.                                    *)
LEMMA Moves ==
  ASSUME TypeOK, NEW r \in Runs, Run(r)
  PROVE  /\ \E to \in (Ended \ {"new"}) \cup Steps : Goto(r, to) /\ (to \in Steps => Works(job'[r], to))
         /\ IF pc[r] = "new"
            THEN Begin(r) /\ \E j \in Jobs : job' = [job EXCEPT ![r] = j]
            ELSE Active(r) /\ UNCHANGED <<job, audit>>
<1>1. CASE Begin(r)
  <2>1. PICK j \in Jobs : job' = [job EXCEPT ![r] = j] /\ Goto(r, Head(Plan(j)))
    BY <1>1 DEF Begin
  <2>2. Head(Plan(j)) \in Steps /\ Works(j, Head(Plan(j)))
    BY DEF Plan, Works, Steps
  <2>3. job'[r] = j /\ pc[r] = "new"
    BY <1>1, <2>1 DEF Begin, TypeOK
  <2> QED BY <1>1, <2>1, <2>2, <2>3
<1>2. CASE Active(r) /\ Proceed(r) /\ UNCHANGED <<job, audit>>
  <2>1. Goto(r, Following(r))
    BY <1>2, ProceedsTo
  <2>2. /\ Following(r) \in (Ended \ {"new"}) \cup Steps
        /\ Following(r) \in Steps => Works(job[r], Following(r))
    BY <1>2, StepOfJob DEF Following, Works, Ended, Steps
  <2> QED BY <1>2, <2>1, <2>2 DEF Active, Ended
<1>3. CASE Active(r) /\ UNCHANGED <<job, audit>> /\ \E to \in Ended \ {"new"} : Goto(r, to)
  BY <1>3 DEF Active, Ended, Steps
<1>4. CASE Active(r) /\ UNCHANGED <<pc, job, audit>>
  <2>1. Goto(r, pc[r]) /\ pc[r] \in Steps /\ Works(job[r], pc[r])
    BY <1>4, StepOfJob DEF Goto, TypeOK, Works, Steps
  <2> QED BY <1>4, <2>1 DEF Active, Ended
<1>5. CASE Load(r) \/ Inspect(r) \/ Record(r) \/ Write(r) \/ Look(r) \/ MakeDirectory(r)
  BY <1>2, <1>5
  DEF Load, Inspect, Record, Write, Look, MakeDirectory, Active, Ended, Forget, runVars
<1>6. CASE RecordRefused(r) \/ LookRefused(r) \/ FillRefused(r) \/ WriteFails(r) \/ Kill(r)
  BY <1>3, <1>6
  DEF RecordRefused, LookRefused, FillRefused, WriteFails, Kill, Active, Ended, Forget
<1>7. CASE Fill(r)
  <2>1. Active(r) /\ UNCHANGED <<job, audit>> /\ (Proceed(r) \/ UNCHANGED pc)
    BY <1>7 DEF Fill, Active, Ended, Forget
  <2> QED BY <1>2, <1>4, <2>1
<1> QED BY <1>1, <1>5, <1>6, <1>7 DEF Run

----------------------------------------------------------------------------
(* Every step keeps the shape of the state.                                  *)

LEMMA InitType == Init => TypeOK
<1> SUFFICES ASSUME Init PROVE TypeOK
  OBVIOUS
<1>1. NoAudit \in [at : {"none", "artifact", "ledger", "judged"}, of : Artifacts, text : Texts,
                   found : Records, verdict : {"none", "unrecorded", "clean", "changed", "refused"}]
  BY NoRecordsFacts DEF NoAudit, Artifacts, Outputs, Name, Texts
<1>2. records \in [Runs -> Records] /\ ledger \in Records
  BY NoRecordsFacts DEF Init
<1>3. step \in [Runs -> DOMAIN Bundle]
  BY DEF Init, Bundle
<1>4. faults \in 0 .. MaxFaults /\ edits \in 0 .. MaxEdits
  BY GenerateAssumption DEF Init
<1>5. \A r \in Runs : ~ Active(r)
  BY DEF Init, Active, Ended
<1> QED BY <1>1, <1>2, <1>3, <1>4, <1>5 DEF Init, TypeOK, Texts, Ended

(* Where the runs are, and at what.                                          *)
LEMMA PcType ==
  ASSUME TypeOK, NEW r \in Runs, Run(r)
  PROVE  /\ pc' \in [Runs -> Ended \cup Steps]
         /\ \A q \in Runs : Active(q)' => \E i \in DOMAIN Plan(job'[q]) : pc'[q] = Plan(job'[q])[i]
         /\ job' \in [Runs -> Jobs \cup {"none"}]
<1>1. PICK to \in (Ended \ {"new"}) \cup Steps :
        Goto(r, to) /\ (to \in Steps => Works(job'[r], to))
  BY Moves
<1>2. job' \in [Runs -> Jobs \cup {"none"}] /\ \A q \in Runs \ {r} : job'[q] = job[q]
  BY Moves DEF TypeOK
<1>3. pc' = [pc EXCEPT ![r] = to] /\ pc \in [Runs -> Ended \cup Steps]
  BY <1>1 DEF Goto, TypeOK, Steps
<1>4. pc' \in [Runs -> Ended \cup Steps] /\ pc'[r] = to
  BY <1>3
<1>5. ASSUME NEW q \in Runs, Active(q)'
      PROVE  \E i \in DOMAIN Plan(job'[q]) : pc'[q] = Plan(job'[q])[i]
  <2>1. CASE q = r
    <3>1. Works(job'[r], pc'[r])
      BY <1>1, <1>4, <1>5, <2>1 DEF Active, Ended
    <3> QED BY <2>1, <3>1, WorksAtStep
  <2>2. CASE q # r
    <3>1. pc'[q] = pc[q] /\ job'[q] = job[q]
      BY <1>2, <1>3, <2>2
    <3> QED BY <1>5, <3>1 DEF TypeOK, Active
  <2> QED BY <2>1, <2>2
<1> QED BY <1>2, <1>4, <1>5

(* What a run that ends has forgotten.                                       *)
LEMMA Forgets ==
  ASSUME TypeOK, NEW r \in Runs, Forget(r)
  PROVE  /\ records' \in [Runs -> Records] /\ looked' \in [Runs -> Texts]
         /\ step' \in [Runs -> DOMAIN Bundle]
BY NoRecordsFacts DEF TypeOK, Forget, Texts, Bundle

Audits ==
  [at : {"none", "artifact", "ledger", "judged"}, of : Artifacts, text : Texts,
   found : Records, verdict : {"none", "unrecorded", "clean", "changed", "refused"}]

LEMMA RunType ==
  ASSUME TypeOK, NEW r \in Runs, Run(r)
  PROVE  TypeOK'
<1> DEFINE HeldOK == /\ records \in [Runs -> Records] /\ looked \in [Runs -> Texts]
                     /\ step \in [Runs -> DOMAIN Bundle]
           FileOK == file \in [Files -> Texts]
           RestOK == /\ ledger \in Records /\ writer \in Runs \cup {Missing}
                     /\ directory \in BOOLEAN /\ litter \in BOOLEAN
                     /\ faults \in 0 .. MaxFaults /\ edits \in 0 .. MaxEdits
                     /\ disturbed \subseteq Artifacts
           AuditOK == audit \in Audits
<1>1. HeldOK /\ FileOK /\ RestOK /\ AuditOK
  BY DEF TypeOK, Audits
<1>2. NoAudit \in Audits
  BY NoRecordsFacts DEF NoAudit, Audits, Artifacts, Outputs, Name, Texts
<1>3. (HeldOK /\ FileOK /\ RestOK /\ AuditOK)'
  <2>1. CASE Begin(r)
    BY <1>1, <1>2, <2>1 DEF Begin, diskVars
  <2>2. CASE Load(r)
    BY <1>1, <2>2 DEF Load, diskVars
  <2>3. CASE Inspect(r)
    BY <1>1, <2>3 DEF Inspect, diskVars, Texts
  <2>4. CASE Record(r)
    <3>1. Updated(r) \in Records
      BY <1>1, KeyFacts, WithFacts DEF Updated
    <3>2. Target(job[r]) \in Artifacts
      BY DEF Target, Artifacts, Outputs
    <3>3. HeldOK' BY <2>4, Forgets DEF Record
    <3> QED BY <1>1, <2>4, <3>1, <3>2, <3>3 DEF Record
  <2>5. CASE RecordRefused(r) \/ LookRefused(r) \/ FillRefused(r)
    <3>1. HeldOK' BY <2>5, Forgets DEF RecordRefused, LookRefused, FillRefused
    <3> QED BY <1>1, <2>5, <3>1 DEF RecordRefused, LookRefused, FillRefused, diskVars
  <2>6. CASE Write(r)
    <3>1. HeldOK' BY <2>6, Forgets DEF Write
    <3>2. r \in Texts BY DEF Texts
    <3> QED BY <1>1, <2>6, <3>1, <3>2 DEF Write
  <2>7. CASE Look(r) \/ MakeDirectory(r)
    BY <1>1, <2>7 DEF Look, MakeDirectory, runVars, diskVars
  <2>8. CASE Fill(r)
    <3>1. r \in Texts /\ "bundle/appendix" \in Artifacts BY DEF Texts, Artifacts
    <3>2. HeldOK'
      <4>1. CASE Last(r)
        BY <2>8, <4>1, Forgets DEF Fill
      <4>2. CASE ~ Last(r)
        <5>1. step[r] \in 1 .. 5 /\ step[r] # 5
          BY <1>1, <4>2 DEF Last, Bundle
        <5>2. step[r] + 1 \in DOMAIN Bundle
          BY <5>1 DEF Bundle
        <5>3. step' = [step EXCEPT ![r] = step[r] + 1] /\ UNCHANGED <<records, looked>>
          BY <2>8, <4>2 DEF Fill
        <5> QED BY <1>1, <5>2, <5>3
      <4> QED BY <4>1, <4>2
    <3>3. FileOK'
      BY <1>1, <2>8, <3>1 DEF Fill
    <3>4. (RestOK /\ AuditOK)'
      BY <1>1, <2>8, <3>1 DEF Fill
    <3> QED BY <3>2, <3>3, <3>4
  <2>9. CASE WriteFails(r)
    <3>1. HeldOK' BY <2>9, Forgets DEF WriteFails
    <3> QED BY <1>1, <2>9, <3>1, GenerateAssumption DEF WriteFails, diskVars
  <2>10. CASE Kill(r)
    <3>1. HeldOK' BY <2>10, Forgets DEF Kill
    <3>2. Altered \in Texts /\ "bundle/appendix" \in Artifacts BY DEF Texts, Artifacts
    <3>3. FileOK'
      BY <1>1, <2>10, <3>2 DEF Kill
    <3>4. faults' \in 0 .. MaxFaults
      BY <1>1, <2>10, GenerateAssumption DEF Kill
    <3>5. disturbed' \subseteq Artifacts /\ litter' \in BOOLEAN
      BY <1>1, <2>10, <3>2 DEF Kill
    <3>6. UNCHANGED <<ledger, writer, directory, edits, audit>>
      BY <2>10 DEF Kill
    <3> QED BY <1>1, <3>1, <3>3, <3>4, <3>5, <3>6
  <2> QED BY <2>1, <2>2, <2>3, <2>4, <2>5, <2>6, <2>7, <2>8, <2>9, <2>10 DEF Run
<1> QED BY <1>3, PcType DEF TypeOK, Steps, Audits

LEMMA OtherType ==
  ASSUME TypeOK, (\E a \in Artifacts : Edit(a) \/ AuditReads(a)) \/ AuditLoads \/ AuditJudges
  PROVE  TypeOK'
<1>1. UNCHANGED <<pc, runVars>>
  BY DEF Edit, AuditReads, AuditLoads, AuditJudges
<1>2. audit \in Audits /\ file \in [Files -> Texts] /\ ledger \in Records
  BY DEF TypeOK, Audits
<1>3. CASE \E a \in Artifacts : Edit(a)
  <2>1. PICK a \in Artifacts : Edit(a)
    BY <1>3
  <2>2. edits' \in 0 .. MaxEdits
    BY <2>1, GenerateAssumption DEF Edit, TypeOK
  <2>3. file' \in [Files -> Texts]
    BY <1>2, <2>1 DEF Edit, Texts
  <2>4. disturbed' \subseteq Artifacts
    BY <2>1 DEF Edit, TypeOK
  <2> QED BY <1>1, <2>1, <2>2, <2>3, <2>4 DEF Edit, TypeOK, runVars, Active
<1>4. CASE (\E a \in Artifacts : AuditReads(a)) \/ AuditLoads \/ AuditJudges
  <2>1. audit' \in Audits
    <3>1. CASE \E a \in Artifacts : AuditReads(a)
      <4>1. PICK a \in Artifacts : AuditReads(a)
        BY <3>1
      <4>2. a \in Files /\ file[a] \in Texts
        BY <1>2 DEF Artifacts, Files, BundleFiles, Bundle
      <4> QED BY <4>1, <4>2, NoRecordsFacts DEF AuditReads, NoAudit, Audits
    <3>2. CASE AuditLoads
      BY <1>2, <3>2 DEF AuditLoads, Audits
    <3>3. CASE AuditJudges
      <4> DEFINE verdict == IF Beside(audit.of) = Altered THEN "refused"
             ELSE Verdict(audit.text, Recorded(audit.of, Merged(audit.found, Beside(audit.of))))
      <4>1. verdict \in {"unrecorded", "clean", "changed", "refused"}
        BY DEF Verdict
      <4>2. audit' = [audit EXCEPT !.at = "judged", !.found = NoRecords, !.verdict = verdict]
        BY <3>3 DEF AuditJudges
      <4> HIDE DEF verdict
      <4> QED BY <1>2, <4>1, <4>2, NoRecordsFacts DEF Audits
    <3> QED BY <1>4, <3>1, <3>2, <3>3
  <2>2. UNCHANGED <<diskVars, faults, edits, disturbed>>
    BY <1>4 DEF AuditReads, AuditLoads, AuditJudges
  <2> QED BY <1>1, <2>1, <2>2 DEF TypeOK, runVars, diskVars, Active, Audits
<1> QED BY <1>3, <1>4

LEMMA NextType == TypeOK /\ [Next]_vars => TypeOK'
<1> SUFFICES ASSUME TypeOK, [Next]_vars PROVE TypeOK'
  OBVIOUS
<1>1. CASE UNCHANGED vars
  BY <1>1 DEF vars, runVars, diskVars, TypeOK, Active
<1>2. CASE Next
  <2>1. CASE Finished
    BY <1>1, <2>1 DEF Finished
  <2> QED BY <1>2, <2>1, RunType, OtherType DEF Next
<1> QED BY <1>1, <1>2

----------------------------------------------------------------------------
(* Runs are in turn with each other and with the audit.                      *)

(* Steps of the audit and of the author leave the runs alone.                *)
Beyond == (\E a \in Artifacts : Edit(a) \/ AuditReads(a)) \/ AuditLoads \/ AuditJudges \/ UNCHANGED vars

LEMMA NextCases ==
  ASSUME [Next]_vars
  PROVE  Beyond \/ \E r \in Runs : Run(r)
BY DEF Next, Beyond, Finished

LEMMA BeyondLeaves ==
  ASSUME Beyond
  PROVE  UNCHANGED <<pc, job, records, looked, step, ledger, writer, directory, litter>>
BY DEF Beyond, Edit, AuditReads, AuditLoads, AuditJudges, vars, runVars, diskVars

LEMMA StepRests ==
  ASSUME TypeOK, InTurn, NEW r \in Runs, Run(r)
  PROVE  /\ pc'[r] # "fill" => step'[r] = 1
         /\ \A q \in Runs \ {r} : step'[q] = step[q]
<1>1. CASE UNCHANGED step /\ pc[r] # "fill"
  BY <1>1 DEF InTurn
<1>2. CASE Forget(r)
  BY <1>2 DEF Forget, TypeOK
<1>3. CASE Fill(r) /\ ~ Last(r)
  BY <1>3 DEF Fill, TypeOK
<1> QED
  BY <1>1, <1>2, <1>3
  DEF Run, Begin, Load, Inspect, Record, RecordRefused, Write, LookRefused, Look, MakeDirectory,
      Fill, FillRefused, WriteFails, Kill, runVars

LEMMA InTurnNext ==
  ASSUME TypeOK, InTurn, [Next]_vars
  PROVE  InTurn'
<1>1. CASE Beyond
  <2>1. audit'.at # "none" => \A r \in Runs : ~ Active(r)
    <3>1. CASE \E a \in Artifacts : AuditReads(a)
      BY <3>1 DEF AuditReads, Quiet
    <3>2. CASE ~ \E a \in Artifacts : AuditReads(a)
      <4>1. audit'.at # "none" => audit.at # "none"
        BY <1>1, <3>2 DEF Beyond, Edit, AuditLoads, AuditJudges, vars
      <4> QED BY <4>1 DEF InTurn
    <3> QED BY <3>1, <3>2
  <2> QED BY <1>1, <2>1, BeyondLeaves DEF InTurn, Active
<1>2. ASSUME NEW r \in Runs, Run(r) PROVE InTurn'
  <2>1. PICK to \in (Ended \ {"new"}) \cup Steps : pc' = [pc EXCEPT ![r] = to]
    BY <1>2, Moves DEF Goto
  <2>2. /\ pc \in [Runs -> Ended \cup Steps] /\ job \in [Runs -> Jobs \cup {"none"}]
        /\ "none" \notin Jobs /\ to # "new"
    BY GenerateAssumption DEF TypeOK, Steps, Ended
  <2>3. pc'[r] = to /\ \A q \in Runs \ {r} : pc'[q] = pc[q] /\ job'[q] = job[q]
    <3>1. \A q \in Runs \ {r} : job'[q] = job[q]
      BY <1>2, <2>2, Moves
    <3> QED BY <2>1, <2>2, <3>1
  <2>4. CASE pc[r] = "new"
    <3>1. Begin(r)
      BY <1>2, <2>4, Moves
    <3>2. PICK j \in Jobs :
            /\ Quiet \/ {j} \cup {job[q] : q \in {p \in Runs : Active(p)}} \subseteq Together
            /\ job' = [job EXCEPT ![r] = j]
      BY <3>1 DEF Begin
    <3>3. job'[r] = j /\ audit'.at = "none" /\ ~ Active(r)
      BY <2>2, <2>4, <3>1, <3>2 DEF Begin, NoAudit, Active, Ended
    <3>4. \A q \in Runs : pc'[q] = "new" <=> job'[q] = "none"
      BY <2>2, <2>3, <3>3 DEF InTurn
    <3>5. ASSUME NEW p \in Runs, NEW q \in Runs, p # q, Active(p)', Active(q)'
          PROVE  job'[p] \in Together
      <4>1. CASE p = r
        <5>1. Active(q)
          BY <2>3, <3>5, <4>1 DEF Active
        <5> QED BY <3>2, <3>3, <4>1, <5>1 DEF Quiet
      <4>2. CASE p # r /\ q = r
        <5>1. Active(p) /\ job'[p] = job[p]
          BY <2>3, <3>5, <4>2 DEF Active
        <5> QED BY <3>2, <5>1 DEF Quiet
      <4>3. CASE p # r /\ q # r
        BY <2>3, <3>5, <4>3 DEF Active, InTurn
      <4> QED BY <4>1, <4>2, <4>3
    <3> QED BY <1>2, <3>3, <3>4, <3>5, <2>3, StepRests DEF InTurn
  <2>5. CASE pc[r] # "new"
    <3>1. Active(r) /\ UNCHANGED <<job, audit>>
      BY <1>2, <2>5, Moves
    <3>2. \A q \in Runs : Active(q)' => Active(q)
      BY <2>3, <3>1 DEF Active
    <3>3. \A q \in Runs : pc'[q] = "new" <=> job'[q] = "none"
      BY <2>2, <2>3, <2>5, <3>1 DEF InTurn
    <3>4. \A q \in Runs : pc'[q] # "fill" => step'[q] = 1
      BY <1>2, <2>3, StepRests DEF InTurn
    <3> QED BY <3>1, <3>2, <3>3, <3>4 DEF InTurn
  <2> QED BY <2>4, <2>5
<1> QED BY <1>1, <1>2, NextCases

----------------------------------------------------------------------------
(* Texts and records bear the name of a run of the right job.                *)

LEMMA JobsStay ==
  ASSUME TypeOK, InTurn, [Next]_vars, NEW q \in Runs, job[q] # "none"
  PROVE  job'[q] = job[q]
<1>1. CASE Beyond
  BY <1>1, BeyondLeaves
<1>2. ASSUME NEW r \in Runs, Run(r) PROVE job'[q] = job[q]
  <2>1. CASE pc[r] = "new"
    <3>1. PICK j \in Jobs : job' = [job EXCEPT ![r] = j]
      BY <1>2, <2>1, Moves
    <3>2. q # r
      BY <2>1 DEF InTurn
    <3> QED BY <3>1, <3>2 DEF TypeOK
  <2>2. CASE pc[r] # "new"
    BY <1>2, <2>2, Moves
  <2> QED BY <2>1, <2>2
<1> QED BY <1>1, <1>2, NextCases

(* The jobs of runs at work.                                                 *)
LEMMA JobOfActive ==
  ASSUME TypeOK, InTurn, NEW r \in Runs, Active(r)
  PROVE  /\ job[r] \in Jobs
         /\ pc[r] \in {"load", "inspect", "record"} => job[r] \in {"root", "docs", "print"}
         /\ pc[r] = "write" => job[r] \in {"root", "docs"}
         /\ pc[r] \in {"look", "make", "fill"} => job[r] \in {"package", "refresh"}
<1>1. job[r] \in Jobs
  BY DEF InTurn, TypeOK, Active, Ended
<1> QED BY <1>1, StepOfJob, GenerateAssumption

(* What a step does to the files: at most one of them changes, to the run's  *)
(* own text at its place in the plan, or to an altered one.                  *)
LEMMA FileSteps ==
  ASSUME TypeOK, InTurn, NEW r \in Runs, Run(r)
  PROVE  \/ UNCHANGED file
         \/ /\ Write(r) /\ job[r] \in {"root", "docs"} /\ Target(job[r]) \in Outputs
            /\ file' = [file EXCEPT ![Target(job[r])] = r]
         \/ /\ Fill(r) /\ job[r] \in {"package", "refresh"} /\ Filling(r) \in BundleFiles
            /\ file' = [file EXCEPT ![Filling(r)] = r]
         \/ /\ Kill(r) /\ pc[r] = "fill" /\ job[r] = "package" /\ Filling(r) \in BundleFiles
            /\ file[Filling(r)] = Missing
            /\ file' = [file EXCEPT ![Filling(r)] = Altered]
<1>1. pc[r] = "fill" => Filling(r) \in BundleFiles
  BY DEF Filling, BundleFiles, TypeOK
<1>2. CASE Write(r)
  <2>1. job[r] \in {"root", "docs"}
    BY <1>2, JobOfActive DEF Write, Active, Ended
  <2> QED BY <1>2, <2>1 DEF Write, Target, Outputs
<1>3. CASE Fill(r)
  BY <1>1, <1>3, JobOfActive DEF Fill, Active, Ended
<1>4. CASE Kill(r)
  BY <1>1, <1>4, JobOfActive DEF Kill, Active, Ended, Forced
<1>5. CASE ~ (Write(r) \/ Fill(r) \/ Kill(r))
  BY <1>5
  DEF Run, Begin, Load, Inspect, Record, RecordRefused, LookRefused, Look, MakeDirectory,
      FillRefused, WriteFails, diskVars
<1> QED BY <1>2, <1>3, <1>4, <1>5

LEMMA RendersFacts ==
  /\ \A f \in BundleFiles : Renders(f) = {"package", "refresh"} /\ f \notin Outputs
  /\ \A j \in {"root", "docs"} : j \in Renders(Target(j))
  /\ \A f : "none" \notin Renders(f)
BY DEF Renders, BundleFiles, Bundle, Outputs, Target

(* The ledger changes only when a run records its artifact.                  *)
LEMMA LedgerSteps ==
  ASSUME TypeOK, InTurn, NEW r \in Runs, Run(r)
  PROVE  \/ UNCHANGED ledger
         \/ /\ Record(r) /\ ledger' = With(records[r], Key(job[r]), r) /\ writer' = r
            /\ job[r] \in {"root", "docs", "print"} /\ Target(job[r]) = Key(job[r])
<1>1. CASE Record(r)
  <2>1. job[r] \in {"root", "docs", "print"}
    BY <1>1, JobOfActive DEF Record, Active, Ended
  <2> QED BY <1>1, <2>1, KeyFacts DEF Record, Updated
<1>2. CASE ~ Record(r)
  BY <1>2
  DEF Run, Begin, Load, Inspect, RecordRefused, Write, LookRefused, Look, MakeDirectory,
      Fill, FillRefused, WriteFails, Kill, diskVars
<1> QED BY <1>1, <1>2

LEMMA NamesNext ==
  ASSUME TypeOK, InTurn, NamesFollow, [Next]_vars
  PROVE  NamesFollow'
<1>1. \A q \in Runs : job[q] # "none" => job'[q] = job[q]
  BY JobsStay
<1>2. ASSUME NEW map \in Records, Owned(map) PROVE Owned(map)'
  BY <1>1, <1>2, RecordsFacts DEF Owned
<1>3. \A f \in Files : file'[f] \in Runs => job'[file'[f]] \in Renders(f)
  <2>1. ASSUME NEW f \in Files, file'[f] \in Runs, file'[f] = file[f]
        PROVE  job'[file'[f]] \in Renders(f)
    BY <1>1, <2>1, RendersFacts DEF NamesFollow
  <2>2. file \in [Files -> Texts] /\ Altered \notin Runs
    BY GenerateAssumption DEF TypeOK
  <2>3. CASE Beyond
    <3>1. \A f \in Files : file'[f] \in {file[f], Altered}
      BY <2>2, <2>3 DEF Beyond, Edit, AuditReads, AuditLoads, AuditJudges, vars, diskVars
    <3> QED BY <2>1, <2>2, <3>1
  <2>4. ASSUME NEW r \in Runs, Run(r), NEW f \in Files, file'[f] \in Runs, file'[f] # file[f]
        PROVE  job'[file'[f]] \in Renders(f)
    <3>1. file'[f] = r /\ job[r] \in Renders(f)
      BY <2>2, <2>4, FileSteps, RendersFacts
    <3> QED BY <1>1, <3>1, RendersFacts
  <2> QED BY <2>1, <2>3, <2>4, NextCases
<1>4. Owned(ledger)'
  <2>1. CASE UNCHANGED ledger
    <3>1. Owned(ledger) /\ ledger \in Records
      BY DEF NamesFollow, TypeOK
    <3> QED BY <1>2, <2>1, <3>1 DEF Owned
  <2>2. ASSUME NEW r \in Runs, Record(r), ledger' = With(records[r], Key(job[r]), r),
               job[r] \in {"root", "docs", "print"}
        PROVE  Owned(ledger)'
    <3>1. Owned(records[r]) /\ records[r] \in Records
      BY DEF NamesFollow, TypeOK
    <3>2. job'[r] = job[r]
      BY <1>1, <2>2
    <3>3. /\ DOMAIN ledger' = {Key(job[r])} \cup DOMAIN records[r]
          /\ \A other \in {Key(job[r])} \cup DOMAIN records[r] :
               ledger'[other] = IF other = Key(job[r]) THEN r ELSE records[r][other]
      <4> DEFINE map == records[r]
                 key == Key(job[r])
      <4> HIDE DEF map, key
      <4>1. /\ DOMAIN With(map, key, r) = {key} \cup DOMAIN map
            /\ \A other \in {key} \cup DOMAIN map :
                 With(map, key, r)[other] = IF other = key THEN r ELSE map[other]
        BY DEF With
      <4>2. ledger' = With(map, key, r)
        BY <2>2 DEF map, key
      <4> QED BY <4>1, <4>2, Zenon DEF map, key
    <3>4. ASSUME NEW key \in DOMAIN records[r]
          PROVE  job'[records[r][key]] = job[records[r][key]]
      BY <1>1, <3>1, <3>4, RecordsFacts DEF Owned
    <3> QED BY <2>2, <3>1, <3>2, <3>3, <3>4 DEF Owned
  <2> QED BY <2>1, <2>2, LedgerSteps, BeyondLeaves, NextCases
<1>5. ASSUME NEW q \in Runs PROVE Owned(records[q])'
  <2>1. Owned(records[q]) /\ records[q] \in Records /\ Owned(ledger) /\ ledger \in Records
    BY DEF NamesFollow, TypeOK
  <2>2. records'[q] \in {records[q], ledger, NoRecords}
    <3>1. CASE Beyond
      BY <3>1, BeyondLeaves
    <3>2. ASSUME NEW r \in Runs, Run(r) PROVE records'[q] \in {records[q], ledger, NoRecords}
      BY <3>2
      DEF Run, Begin, Load, Inspect, Record, RecordRefused, Write, LookRefused, Look, MakeDirectory,
          Fill, FillRefused, WriteFails, Kill, Forget, runVars, TypeOK
    <3> QED BY <3>1, <3>2, NextCases
  <2> QED BY <1>2, <2>1, <2>2, NoRecordsFacts DEF Owned
<1> QED BY <1>3, <1>4, <1>5 DEF NamesFollow

----------------------------------------------------------------------------
(* The audit.                                                                *)

(* While an audit is under way or its verdict stands, no run does a thing.   *)
LEMMA AuditSteps ==
  ASSUME TypeOK, InTurn, [Next]_vars
  PROVE  \/ audit'.at = "none"
         \/ Beyond /\ UNCHANGED <<job, ledger>>
<1>1. ASSUME NEW r \in Runs, Run(r) PROVE audit'.at = "none"
  <2>1. CASE pc[r] = "new"
    BY <1>1, <2>1, Moves DEF Begin, NoAudit
  <2>2. CASE pc[r] # "new"
    BY <1>1, <2>2, Moves DEF InTurn
  <2> QED BY <2>1, <2>2
<1> QED BY <1>1, NextCases, BeyondLeaves

LEMMA ArtifactsAreFiles == Artifacts \subseteq Files /\ Outputs \subseteq Artifacts
BY DEF Artifacts, Files, BundleFiles, Bundle

LEMMA AuditFreshNext ==
  ASSUME TypeOK, InTurn, NamesFollow, AuditFresh, [Next]_vars
  PROVE  AuditFresh'
<1>1. CASE audit'.at = "none"
  BY <1>1 DEF AuditFresh
<1>2. CASE Beyond /\ UNCHANGED <<job, ledger>>
  <2>1. CASE \E a \in Artifacts : Edit(a)
    <3>1. PICK a \in Artifacts : Edit(a)
      BY <2>1
    <3>2. /\ UNCHANGED audit /\ disturbed' = disturbed \cup {a}
          /\ \A f \in Files \ {a} : file'[f] = file[f]
      BY <3>1 DEF Edit, TypeOK
    <3>3. audit.of \in Files
      BY ArtifactsAreFiles DEF TypeOK
    <3> QED BY <1>2, <3>2, <3>3 DEF AuditFresh
  <2>2. CASE \E a \in Artifacts : AuditReads(a)
    <3>1. PICK a \in Artifacts : AuditReads(a)
      BY <2>2
    <3>2. /\ UNCHANGED <<file, disturbed>> /\ file[a] # Missing
          /\ audit'.at = "artifact" /\ audit'.of = a /\ audit'.text = file[a]
      BY <3>1 DEF AuditReads, NoAudit, diskVars
    <3>3. a \in Files
      BY ArtifactsAreFiles
    <3> QED BY <1>2, <3>2, <3>3 DEF AuditFresh, NamesFollow
  <2>3. CASE AuditLoads
    <3>1. /\ UNCHANGED <<file, disturbed>> /\ audit.at = "artifact"
          /\ audit'.at = "ledger" /\ audit'.of = audit.of /\ audit'.text = audit.text
          /\ audit'.found = ledger
      BY <2>3 DEF AuditLoads, diskVars, TypeOK
    <3> QED BY <1>2, <3>1 DEF AuditFresh
  <2>4. CASE AuditJudges
    <3>1. /\ UNCHANGED <<file, disturbed>> /\ audit.at = "ledger"
          /\ audit'.at = "judged" /\ audit'.of = audit.of /\ audit'.text = audit.text
      BY <2>4 DEF AuditJudges, diskVars, TypeOK
    <3> QED BY <1>2, <3>1 DEF AuditFresh
  <2>5. CASE UNCHANGED vars
    BY <2>5 DEF vars, runVars, diskVars, AuditFresh
  <2> QED BY <1>2, <2>1, <2>2, <2>3, <2>4, <2>5 DEF Beyond
<1> QED BY <1>1, <1>2, AuditSteps

(* What an audit finds recorded is a run or nothing.                         *)
LEMMA RecordedIsRun ==
  ASSUME TypeOK, NEW a \in Artifacts, NEW found \in Records
  PROVE  Recorded(a, Merged(found, Beside(a))) \in Runs \cup {Missing}
<1>1. Name \in Outputs
  BY DEF Name, Outputs
<1>2. Merged(found, Beside(a)) \in Records
  BY <1>1, WithFacts DEF Merged
<1> QED BY <1>2, RecordsFacts DEF Recorded

(* The step with which the audit gives its verdict.                          *)
LEMMA Judged ==
  ASSUME TypeOK, AuditJudges
  PROVE  /\ audit'.at = "judged" /\ audit'.of = audit.of /\ audit'.text = audit.text
         /\ audit'.verdict = IF Beside(audit.of) = Altered THEN "refused"
              ELSE Verdict(audit.text, Recorded(audit.of, Merged(audit.found, Beside(audit.of))))
         /\ audit.at = "ledger" /\ audit.found \in Records /\ audit.of \in Artifacts
         /\ UNCHANGED <<file, ledger, job, disturbed>>
BY DEF AuditJudges, TypeOK, diskVars, runVars

(* A step that neither ends nor gives the verdict of an audit leaves what    *)
(* was judged as it was.                                                     *)
LEMMA VerdictStays ==
  ASSUME TypeOK, InTurn, [Next]_vars, audit'.at = "judged", ~ AuditJudges
  PROVE  UNCHANGED <<audit, job, ledger>> /\ disturbed \subseteq disturbed'
<1>1. Beyond /\ UNCHANGED <<job, ledger>>
  BY AuditSteps
<1>2. ~ AuditLoads /\ ~ \E a \in Artifacts : AuditReads(a)
  BY DEF AuditLoads, AuditReads, NoAudit, TypeOK
<1> QED BY <1>1, <1>2 DEF Beyond, Edit, vars

LEMMA CleanNext ==
  ASSUME TypeOK, InTurn, AuditFresh, CleanMeansGenerated, [Next]_vars
  PROVE  CleanMeansGenerated'
<1> SUFFICES ASSUME audit'.at = "judged", audit'.verdict = "clean"
             PROVE  CleanMeansGenerated'
  BY DEF CleanMeansGenerated
<1>1. CASE AuditJudges
  <2> DEFINE record == Recorded(audit.of, Merged(audit.found, Beside(audit.of)))
  <2>1. Verdict(audit.text, record) = "clean"
    BY <1>1, Judged
  <2>2. record \in Runs \cup {Missing}
    BY <1>1, Judged, RecordedIsRun
  <2> HIDE DEF record
  <2>3. audit.text \in Runs
    <3>1. audit.text # Missing
      BY <1>1, Judged DEF AuditFresh
    <3>2. record # Missing
      BY <2>1, <3>1 DEF Verdict
    <3>3. record = audit.text
      BY <2>1, <3>2 DEF Verdict
    <3> QED BY <2>2, <3>2, <3>3
  <2>4. job[audit.text] \in Renders(audit.of)
    BY <1>1, <2>3, Judged DEF AuditFresh
  <2> QED BY <1>1, <2>3, <2>4, Judged DEF CleanMeansGenerated, Renders
<1>2. CASE ~ AuditJudges
  BY <1>2, VerdictStays DEF CleanMeansGenerated
<1> QED BY <1>1, <1>2

----------------------------------------------------------------------------
(* Ledgers in hand agree with the ledger on disk.                            *)

(* A step of a run touches what this run holds and nothing another holds.    *)
LEMMA Others ==
  ASSUME TypeOK, NEW r \in Runs, Run(r), NEW q \in Runs, q # r
  PROVE  pc'[q] = pc[q] /\ job'[q] = job[q] /\ records'[q] = records[q] /\ step'[q] = step[q]
<1>1. pc'[q] = pc[q] /\ job'[q] = job[q]
  BY Moves DEF Goto, TypeOK
<1>2. records'[q] = records[q] /\ step'[q] = step[q]
  BY DEF Run, Begin, Load, Inspect, Record, RecordRefused, Write, LookRefused, Look, MakeDirectory,
         Fill, FillRefused, WriteFails, Kill, Forget, runVars, TypeOK
<1> QED BY <1>1, <1>2

(* Where a run stands after its own step.                                    *)
LEMMA Arrivals ==
  ASSUME TypeOK, NEW r \in Runs, Run(r)
  PROVE  /\ pc'[r] = "inspect" => Load(r)
         /\ pc'[r] = "record" => Inspect(r)
         /\ pc'[r] = "write" => Record(r) /\ job[r] \in {"root", "docs"}
         /\ pc'[r] = "fill" => \/ MakeDirectory(r)
                               \/ Fill(r) /\ ~ Last(r)
<1> USE DEF Active, Ended
<1>1. CASE Begin(r)
  <2>1. PICK j \in Jobs : Goto(r, Head(Plan(j)))
    BY <1>1 DEF Begin
  <2>2. Head(Plan(j)) \in {"load", "look"}
    BY DEF Plan
  <2> QED BY <2>1, <2>2 DEF Goto, TypeOK
<1>2. CASE RecordRefused(r) \/ LookRefused(r) \/ FillRefused(r) \/ WriteFails(r) \/ Kill(r)
  BY <1>2 DEF RecordRefused, LookRefused, FillRefused, WriteFails, Kill, Goto, TypeOK
<1>3. CASE Load(r) \/ Inspect(r) \/ Record(r) \/ Write(r) \/ Look(r) \/ MakeDirectory(r)
           \/ (Fill(r) /\ Last(r))
  <2>1. Active(r) /\ Proceed(r)
    BY <1>3 DEF Load, Inspect, Record, Write, Look, MakeDirectory, Fill
  <2>2. pc'[r] = Following(r)
    BY <2>1, ProceedsTo DEF Goto, TypeOK
  <2>3. /\ pc[r] = "load" => Load(r)
        /\ pc[r] = "inspect" => Inspect(r)
        /\ pc[r] = "record" => Record(r)
        /\ pc[r] = "make" => MakeDirectory(r)
        /\ pc[r] \in Steps
    BY <1>3 DEF Load, Inspect, Record, Write, Look, MakeDirectory, Fill, Steps
  <2> QED BY <2>1, <2>2, <2>3, StepOfJob DEF Following, Steps
<1>4. CASE Fill(r) /\ ~ Last(r)
  BY <1>4 DEF Fill
<1> QED BY <1>1, <1>2, <1>3, <1>4 DEF Run

LEMMA LoadedNext ==
  ASSUME TypeOK, InTurn, SameKey, LoadedIsCurrent, [Next]_vars
  PROVE  LoadedIsCurrent'
<1>1. CASE Beyond
  BY <1>1, BeyondLeaves DEF LoadedIsCurrent
<1>2. ASSUME NEW r \in Runs, Run(r), NEW q \in Runs, pc'[q] \in {"inspect", "record"},
             NEW key \in Outputs, key # Key(job'[q])
      PROVE  At(records'[q], key) = At(ledger', key)
  <2>1. CASE q = r
    <3>1. CASE Load(r)
      BY <2>1, <3>1 DEF Load, diskVars, TypeOK
    <3>2. CASE Inspect(r)
      BY <1>2, <2>1, <3>2 DEF Inspect, diskVars, LoadedIsCurrent
    <3> QED BY <1>2, <2>1, <3>1, <3>2, Arrivals
  <2>2. CASE q # r
    <3>1. At(records'[q], key) = At(ledger, key)
      BY <1>2, <2>2, Others DEF LoadedIsCurrent
    <3>2. CASE UNCHANGED ledger
      BY <3>1, <3>2
    <3>3. CASE Record(r) /\ ledger' = With(records[r], Key(job[r]), r)
      <4>1. Active(r) /\ pc[r] = "record" /\ Active(q) /\ pc[q] = pc'[q] /\ job[q] = job'[q]
        BY <1>2, <2>2, <3>3, Others DEF Record, Active, Ended
      <4>2. job[r] \in Together /\ job[q] \in Together
        BY <2>2, <4>1 DEF InTurn
      <4>3. {job[r], job[q]} \subseteq {"root", "docs", "print"}
        BY <1>2, <4>1, JobOfActive
      <4>4. Key(job[q]) = Key(job[r])
        BY <4>2, <4>3 DEF SameKey
      <4>5. At(records[r], key) = At(ledger, key)
        BY <1>2, <4>1, <4>4 DEF LoadedIsCurrent
      <4>6. records[r] \in Records /\ Key(job[r]) \in Outputs
        BY KeyFacts DEF TypeOK
      <4>7. At(ledger', key) = At(records[r], key)
        BY <1>2, <3>3, <4>1, <4>4, <4>6, AtWith
      <4> QED BY <3>1, <4>5, <4>7
    <3> QED BY <1>2, <3>2, <3>3, LedgerSteps
  <2> QED BY <2>1, <2>2
<1> QED BY <1>1, <1>2, NextCases DEF LoadedIsCurrent

----------------------------------------------------------------------------
(* Texts on disk have their records.                                         *)

LEMMA AloneSameKey ==
  ASSUME WritersAlone
  PROVE  SameKey
<1>1. \A j \in Together \ {"package", "refresh"} : j = "print"
  BY GenerateAssumption DEF WritersAlone
<1> QED BY <1>1 DEF SameKey

(* A text and its record, as TextsRecorded wants them.                       *)
HasRecord(o) ==
  /\ file[o] \in Runs => At(ledger, o) # Missing
  /\ file[o] # Missing /\ o \notin disturbed =>
       file[o] \in Runs /\ (At(ledger, o) = file[o] \/ Printed(At(ledger, o)))

LEMMA RecordStays ==
  ASSUME TypeOK, InTurn, NamesFollow, [Next]_vars, NEW o \in Outputs, HasRecord(o),
         file'[o] = file[o], At(ledger', o) = At(ledger, o), o \in disturbed => o \in disturbed'
  PROVE  HasRecord(o)'
<1>1. Printed(At(ledger, o)) => job'[At(ledger, o)] = "print"
  BY JobsStay DEF Printed
<1> QED BY <1>1 DEF HasRecord, Printed

(* While a run has an artifact to write, no other does anything but begin.   *)
LEMMA WriterIsAlone ==
  ASSUME TypeOK, InTurn, WritersAlone, NEW q \in Runs, pc[q] = "write",
         NEW r \in Runs, r # q, Run(r)
  PROVE  Begin(r)
<1>1. Active(q) /\ job[q] \in {"root", "docs"}
  BY JobOfActive DEF Active, Ended
<1>2. ~ Active(r)
  BY <1>1 DEF InTurn, WritersAlone
<1> QED BY <1>2, Moves

(* What the steps of a run take off the disturbed artifacts.                 *)
LEMMA StaysDisturbed ==
  ASSUME TypeOK, NEW r \in Runs, Run(r), NEW o \in Outputs, o \in disturbed,
         ~ (Write(r) /\ o = Target(job[r]))
  PROVE  o \in disturbed'
<1>1. o # "bundle/appendix"
  BY DEF Outputs
<1> QED
  BY <1>1
  DEF Run, Begin, Load, Inspect, Record, RecordRefused, Write, LookRefused, Look, MakeDirectory,
      Fill, FillRefused, WriteFails, Kill

LEMMA TextsNext ==
  ASSUME TypeOK, InTurn, NamesFollow, WritersAlone, LoadedIsCurrent, TextsRecorded, [Next]_vars
  PROVE  TextsRecorded'
<1>1. ASSUME NEW q \in Runs, pc'[q] = "write"
      PROVE  At(ledger', Target(job'[q])) = q /\ Target(job'[q]) \in disturbed'
  <2>1. CASE Beyond
    <3>1. disturbed \subseteq disturbed'
      BY <2>1 DEF Beyond, Edit, AuditReads, AuditLoads, AuditJudges, vars
    <3> QED BY <1>1, <2>1, <3>1, BeyondLeaves DEF TextsRecorded
  <2>2. ASSUME NEW r \in Runs, Run(r), r # q
        PROVE  At(ledger', Target(job'[q])) = q /\ Target(job'[q]) \in disturbed'
    <3>1. pc[q] = "write" /\ job'[q] = job[q]
      BY <1>1, <2>2, Others
    <3>2. Begin(r)
      BY <2>2, <3>1, WriterIsAlone
    <3> QED BY <3>1, <3>2 DEF Begin, diskVars, TextsRecorded
  <2>3. CASE Run(q)
    <3>1. Record(q) /\ job[q] \in {"root", "docs"}
      BY <1>1, <2>3, Arrivals
    <3>2. ledger' = With(records[q], Key(job[q]), q) /\ job' = job
      BY <3>1 DEF Record, Updated, Forget
    <3>3. records[q] \in Records /\ Key(job[q]) \in Outputs /\ Target(job[q]) = Key(job[q])
      BY <3>1, KeyFacts DEF TypeOK
    <3>4. At(ledger', Key(job[q])) = q
      BY <3>2, <3>3, AtWith
    <3>5. Target(job[q]) \in disturbed'
      BY <3>1 DEF Record
    <3> QED BY <3>2, <3>3, <3>4, <3>5
  <2> QED BY <2>1, <2>2, <2>3, NextCases
<1>2. ASSUME NEW o \in Outputs PROVE HasRecord(o)'
  <2>1. HasRecord(o) /\ o \in Files /\ file \in [Files -> Texts] /\ Altered \notin Runs
    BY ArtifactsAreFiles, GenerateAssumption DEF TextsRecorded, HasRecord, TypeOK
  <2>2. CASE Beyond
    <3>1. CASE Edit(o)
      BY <2>1, <3>1 DEF Edit, HasRecord
    <3>2. CASE ~ Edit(o)
      <4>1. file'[o] = file[o] /\ disturbed \subseteq disturbed'
        BY <2>1, <2>2, <3>2 DEF Beyond, Edit, AuditReads, AuditLoads, AuditJudges, vars, diskVars
      <4> QED BY <2>1, <2>2, <4>1, BeyondLeaves, RecordStays
    <3> QED BY <3>1, <3>2
  <2>3. ASSUME NEW r \in Runs, Run(r) PROVE HasRecord(o)'
    <3>1. CASE Write(r) /\ o = Target(job[r])
      <4>1. file'[o] = r /\ UNCHANGED ledger /\ pc[r] = "write"
        BY <2>1, <3>1 DEF Write
      <4>2. At(ledger, o) = r /\ r # Missing
        BY <3>1, <4>1, GenerateAssumption DEF TextsRecorded
      <4> QED BY <4>1, <4>2 DEF HasRecord
    <3>2. CASE ~ (Write(r) /\ o = Target(job[r]))
      <4>1. file'[o] = file[o]
        <5>1. \A f \in BundleFiles : f # o
          BY RendersFacts
        <5> QED BY <2>1, <2>3, <3>2, <5>1, FileSteps
      <4>2. o \in disturbed => o \in disturbed'
        BY <2>3, <3>2, StaysDisturbed
      <4>3. CASE UNCHANGED ledger
        BY <2>1, <4>1, <4>2, <4>3, RecordStays
      <4>4. CASE /\ Record(r) /\ ledger' = With(records[r], Key(job[r]), r)
                 /\ job[r] \in {"root", "docs", "print"} /\ Target(job[r]) = Key(job[r])
        <5>1. records[r] \in Records /\ Key(job[r]) \in Outputs
          BY KeyFacts DEF TypeOK
        <5>2. CASE o # Key(job[r])
          <6>1. At(ledger', o) = At(records[r], o)
            BY <4>4, <5>1, <5>2, AtWith
          <6>2. At(records[r], o) = At(ledger, o)
            BY <4>4, <5>2 DEF Record, LoadedIsCurrent
          <6> QED BY <2>1, <4>1, <4>2, <6>1, <6>2, RecordStays
        <5>3. CASE o = Key(job[r])
          <6>1. At(ledger', o) = r /\ r # Missing
            BY <4>4, <5>1, <5>3, AtWith, GenerateAssumption
          <6>2. o \notin disturbed' => o \notin disturbed /\ job'[r] = "print"
            BY <4>4, <5>3 DEF Record, Forget
          <6> QED BY <2>1, <4>1, <6>1, <6>2 DEF HasRecord, Printed
        <5> QED BY <5>2, <5>3
      <4> QED BY <2>3, <4>3, <4>4, LedgerSteps
    <3> QED BY <3>1, <3>2
  <2> QED BY <2>2, <2>3, NextCases
<1> QED BY <1>1, <1>2 DEF TextsRecorded, HasRecord

----------------------------------------------------------------------------
(* The bundle.                                                               *)

LEMMA BundleFacts ==
  /\ DOMAIN Bundle = 1 .. 5 /\ Len(Bundle) = 5
  /\ Bundle[1] = "checklist" /\ Bundle[4] = "ledger" /\ Bundle[5] = "rest"
  /\ \A i, j \in 1 .. 5 : Bundle[i] = Bundle[j] => i = j
  /\ \A i \in 1 .. 5 : Bundle[i] \in BundleFiles
  /\ \A a \in Artifacts : a \in BundleFiles => a = "bundle/appendix"
  /\ {"checklist", "bundle/appendix", "ledger"} \subseteq BundleFiles
  /\ BundleFiles \subseteq Files
<1> DEFINE names == {"checklist", "bundle/appendix", "manifest", "ledger", "rest"}
<1>1. DOMAIN Bundle = 1 .. 5 /\ Len(Bundle) = 5
  BY DEF Bundle
<1>2. /\ Bundle[1] = "checklist" /\ Bundle[2] = "bundle/appendix" /\ Bundle[3] = "manifest"
      /\ Bundle[4] = "ledger" /\ Bundle[5] = "rest"
  BY DEF Bundle
<1>3. \A i, j \in 1 .. 5 : Bundle[i] = Bundle[j] => i = j
  BY <1>2
<1>4. BundleFiles = names
  BY <1>1, <1>2 DEF BundleFiles
<1>5. \A a \in Artifacts : a \in names => a = "bundle/appendix"
  BY DEF Artifacts, Outputs
<1> QED BY <1>1, <1>2, <1>3, <1>4, <1>5 DEF Files

(* A run that has filled a file of the bundle, or met an edited appendix.    *)
Filled(q, f) == file[f] = q \/ (f = "bundle/appendix" /\ file[f] = Altered)

LEMMA NotMissing == Missing \notin Runs /\ Altered \notin Runs /\ Altered # Missing
BY GenerateAssumption

(* Nobody else touches what a run has filled.                                *)
LEMMA FilledStays ==
  ASSUME TypeOK, InTurn, ForcedAlone, NEW q \in Runs, pc[q] = "fill",
         NEW r \in Runs, r # q, Run(r), NEW f \in BundleFiles, Filled(q, f)
  PROVE  file'[f] = file[f]
<1>1. f \in Files /\ file \in [Files -> Texts] /\ f \notin Outputs
  BY BundleFacts, RendersFacts DEF TypeOK
<1>2. file[f] # Missing
  BY NotMissing DEF Filled
<1>3. CASE Fill(r) /\ job[r] \in {"package", "refresh"} /\ file' = [file EXCEPT ![Filling(r)] = r]
  <2>1. Active(r) /\ Active(q)
    BY <1>3 DEF Fill, Active, Ended
  <2>2. ~ Forced(r)
    BY <2>1 DEF InTurn, ForcedAlone, Forced
  <2>3. file[Filling(r)] = Missing
    BY <1>3, <2>2 DEF Fill, Opens
  <2> QED BY <1>1, <1>2, <1>3, <2>3
<1> QED BY <1>1, <1>2, <1>3, FileSteps

LEMMA FillsNext ==
  ASSUME TypeOK, InTurn, ForcedAlone, BundleFills, [Next]_vars,
         NEW q \in Runs, pc'[q] = "fill", NEW i \in DOMAIN Bundle, i < step'[q]
  PROVE  Filled(q, Bundle[i])'
<1>1. Bundle[i] \in BundleFiles /\ i \in 1 .. 5 /\ file \in [Files -> Texts] /\ Bundle[i] \in Files
  BY BundleFacts DEF TypeOK
<1>2. CASE Beyond
  <2>1. Filled(q, Bundle[i])
    BY <1>2, BeyondLeaves DEF BundleFills, Filled
  <2>2. CASE \E a \in Artifacts : Edit(a)
    <3>1. PICK a \in Artifacts : Edit(a)
      BY <2>2
    <3> QED BY <1>1, <2>1, <3>1, BundleFacts DEF Edit, Filled
  <2>3. CASE ~ \E a \in Artifacts : Edit(a)
    BY <1>2, <2>1, <2>3 DEF Beyond, AuditReads, AuditLoads, AuditJudges, vars, diskVars, Filled
  <2> QED BY <2>2, <2>3
<1>3. ASSUME NEW r \in Runs, Run(r), r # q PROVE Filled(q, Bundle[i])'
  <2>1. pc[q] = "fill" /\ step'[q] = step[q]
    BY <1>3, Others
  <2>2. Filled(q, Bundle[i])
    BY <2>1 DEF BundleFills, Filled
  <2> QED BY <1>1, <1>3, <2>1, <2>2, FilledStays DEF Filled
<1>4. CASE Run(q)
  <2>1. CASE MakeDirectory(q)
    <3>1. step'[q] = 1
      BY <2>1 DEF MakeDirectory, runVars, InTurn
    <3> QED BY <1>1, <3>1
  <2>2. CASE Fill(q) /\ ~ Last(q)
    <3>1. /\ file' = [file EXCEPT ![Bundle[step[q]]] = q] /\ step'[q] = step[q] + 1
          /\ step[q] \in 1 .. 5 /\ pc[q] = "fill"
      BY <2>2, BundleFacts DEF Fill, Filling, TypeOK
    <3>2. CASE i = step[q]
      BY <1>1, <3>1, <3>2 DEF Filled
    <3>3. CASE i # step[q]
      <4>1. i < step[q] /\ Bundle[i] # Bundle[step[q]]
        BY <1>1, <3>1, <3>3, BundleFacts
      <4>2. Filled(q, Bundle[i])
        BY <3>1, <4>1 DEF BundleFills, Filled
      <4> QED BY <1>1, <3>1, <4>1, <4>2 DEF Filled
    <3> QED BY <3>2, <3>3
  <2> QED BY <1>4, <2>1, <2>2, Arrivals
<1> QED BY <1>2, <1>3, <1>4, NextCases

(* The bundle's own ledger names the appendix beside it.                     *)
OwnLedger ==
  file["bundle/appendix"] # Missing /\ "bundle/appendix" \notin disturbed =>
    file["bundle/appendix"] \in Runs /\ file["ledger"] = file["bundle/appendix"]

LEMMA OwnLedgerNext ==
  ASSUME TypeOK, InTurn, BundleFills, [Next]_vars
  PROVE  OwnLedger'
<1> DEFINE b == "bundle/appendix"
<1>1. /\ OwnLedger /\ file \in [Files -> Texts] /\ b \in BundleFiles
      /\ b \in Files /\ "ledger" \in Files /\ "ledger" \notin Artifacts /\ "ledger" # b
  BY BundleFacts DEF TypeOK, BundleFills, OwnLedger
<1>2. CASE Beyond
  <2>1. CASE \E a \in Artifacts : Edit(a)
    <3>1. PICK a \in Artifacts : Edit(a)
      BY <2>1
    <3> QED BY <1>1, <3>1 DEF Edit, OwnLedger
  <2>2. CASE ~ \E a \in Artifacts : Edit(a)
    BY <1>1, <1>2, <2>2 DEF Beyond, AuditReads, AuditLoads, AuditJudges, vars, diskVars, OwnLedger
  <2> QED BY <2>1, <2>2
<1>3. ASSUME NEW r \in Runs, Run(r) PROVE OwnLedger'
  <2>1. CASE Fill(r) /\ Last(r)
    <3>1. pc[r] = "fill" /\ step[r] = 5 /\ file' = [file EXCEPT !["rest"] = r]
      BY <2>1, BundleFacts DEF Fill, Last, Filling
    <3>2. file'[b] = file[b] /\ file'["ledger"] = file["ledger"]
      BY <1>1, <3>1
    <3>3. CASE file[b] = r
      <4>1. file["ledger"] = r
        BY <3>1, BundleFacts DEF BundleFills
      <4> QED BY <3>2, <3>3, <4>1 DEF OwnLedger
    <3>4. CASE file[b] # r
      BY <1>1, <2>1, <3>2, <3>4 DEF Fill, OwnLedger
    <3> QED BY <3>3, <3>4
  <2>2. CASE Fill(r) /\ ~ Last(r)
    BY <2>2 DEF Fill, OwnLedger
  <2>3. CASE Kill(r)
    BY <1>1, <2>3 DEF Kill, OwnLedger
  <2>4. CASE Write(r)
    <3>1. Target(job[r]) \in Outputs
      BY DEF Target, Outputs
    <3>2. Target(job[r]) # b /\ Target(job[r]) # "ledger"
      BY <3>1 DEF Outputs
    <3> QED BY <1>1, <2>4, <3>2 DEF Write, OwnLedger
  <2>5. CASE ~ (Write(r) \/ Fill(r) \/ Kill(r))
    <3>1. UNCHANGED file /\ disturbed \subseteq disturbed'
      BY <1>3, <2>5
      DEF Run, Begin, Load, Inspect, Record, RecordRefused, LookRefused, Look, MakeDirectory,
          FillRefused, WriteFails, diskVars
    <3> QED BY <1>1, <3>1 DEF OwnLedger
  <2> QED BY <2>1, <2>2, <2>3, <2>4, <2>5
<1> QED BY <1>2, <1>3, NextCases

LEMMA BundleNext ==
  ASSUME TypeOK, InTurn, ForcedAlone, BundleFills, [Next]_vars
  PROVE  BundleFills'
BY FillsNext, OwnLedgerNext DEF BundleFills, Filled, OwnLedger

----------------------------------------------------------------------------
(* Without --force the bundle belongs to whoever created its first file.     *)

LEMMA FirstNext ==
  ASSUME TypeOK, InTurn, \A r \in Runs : job[r] # "refresh", FirstFileTells, [Next]_vars
  PROVE  FirstFileTells'
<1> DEFINE first == "checklist"
<1>1. /\ file \in [Files -> Texts] /\ BundleFiles \subseteq Files
      /\ first \in BundleFiles /\ first \notin Artifacts
      /\ \A f \in BundleFiles : f \notin Outputs
  BY BundleFacts, RendersFacts DEF TypeOK, Artifacts, Outputs
<1>2. CASE Beyond
  <2>1. CASE \E a \in Artifacts : Edit(a)
    <3>1. PICK a \in Artifacts : Edit(a)
      BY <2>1
    <3>2. \A f \in BundleFiles : file'[f] = file[f] \/ file'[f] \notin Runs
      BY <1>1, <3>1, NotMissing DEF Edit
    <3>3. file'[first] = file[first]
      BY <1>1, <3>1 DEF Edit
    <3> QED BY <1>2, <3>2, <3>3, BeyondLeaves DEF FirstFileTells
  <2>2. CASE ~ \E a \in Artifacts : Edit(a)
    <3>1. UNCHANGED file
      BY <1>2, <2>2 DEF Beyond, AuditReads, AuditLoads, AuditJudges, vars, diskVars
    <3> QED BY <1>2, <3>1, BeyondLeaves DEF FirstFileTells
  <2> QED BY <2>1, <2>2
<1>3. ASSUME NEW r \in Runs, Run(r) PROVE FirstFileTells'
  <2>1. \/ \A f \in BundleFiles : file'[f] = file[f]
        \/ /\ pc[r] = "fill" /\ Filling(r) \in BundleFiles /\ file[Filling(r)] = Missing
           /\ \/ Fill(r) /\ file' = [file EXCEPT ![Filling(r)] = r]
              \/ Kill(r) /\ file' = [file EXCEPT ![Filling(r)] = Altered]
    <3>1. CASE Fill(r) /\ file' = [file EXCEPT ![Filling(r)] = r] /\ Filling(r) \in BundleFiles
      BY <3>1 DEF Fill, Opens, Forced
    <3>2. CASE Write(r) /\ Target(job[r]) \in Outputs /\ file' = [file EXCEPT ![Target(job[r])] = r]
      BY <1>1, <3>2
    <3> QED BY <1>3, <3>1, <3>2, FileSteps
  <2>2. step[r] \in 1 .. 5 /\ (Filling(r) = first <=> step[r] = 1)
    BY BundleFacts DEF TypeOK, Filling
  <2>3. ASSUME NEW f \in BundleFiles, file'[f] \in Runs
        PROVE  file'[first] = file'[f]
    <3>1. CASE \A g \in BundleFiles : file'[g] = file[g]
      BY <1>1, <2>3, <3>1 DEF FirstFileTells
    <3>2. CASE pc[r] = "fill" /\ file[Filling(r)] = Missing /\ Filling(r) = first
      <4>1. \A g \in BundleFiles : file[g] \notin Runs
        BY <3>2, NotMissing DEF FirstFileTells
      <4> QED BY <1>1, <2>1, <2>3, <3>2, <4>1
    <3>3. CASE pc[r] = "fill" /\ file[Filling(r)] = Missing /\ Filling(r) # first
      <4>1. file[first] = r /\ file'[first] = r
        BY <1>1, <2>1, <2>2, <3>3, NotMissing DEF FirstFileTells
      <4>2. CASE f = Filling(r)
        BY <1>1, <2>1, <2>3, <3>3, <4>1, <4>2, NotMissing
      <4>3. CASE f # Filling(r)
        <5>1. file'[f] = file[f]
          BY <1>1, <2>1, <4>3
        <5> QED BY <2>3, <4>1, <5>1 DEF FirstFileTells
      <4> QED BY <4>2, <4>3
    <3> QED BY <2>1, <3>1, <3>2, <3>3
  <2>4. ASSUME NEW q \in Runs, pc'[q] = "fill", step'[q] > 1
        PROVE  file'[first] = q
    <3>1. CASE q # r
      <4>1. file[first] = q
        BY <1>3, <2>4, <3>1, Others DEF FirstFileTells
      <4> QED BY <1>1, <2>1, <4>1, NotMissing
    <3>2. CASE q = r /\ MakeDirectory(r)
      BY <2>4, <3>2 DEF MakeDirectory, runVars, InTurn
    <3>3. CASE q = r /\ Fill(r) /\ ~ Last(r)
      <4>1. file' = [file EXCEPT ![Filling(r)] = r] /\ pc[r] = "fill"
        BY <3>3 DEF Fill
      <4>2. CASE step[r] = 1
        BY <1>1, <2>2, <3>3, <4>1, <4>2
      <4>3. CASE step[r] # 1
        <5>1. file[first] = r
          BY <2>2, <4>1, <4>3 DEF FirstFileTells
        <5> QED BY <1>1, <2>2, <3>3, <4>1, <4>3, <5>1
      <4> QED BY <4>2, <4>3
    <3> QED BY <1>3, <2>4, <3>1, <3>2, <3>3, Arrivals
  <2> QED BY <2>3, <2>4 DEF FirstFileTells
<1> QED BY <1>2, <1>3, NextCases

----------------------------------------------------------------------------
(* A complaint about the artifact's own record is real.                      *)

LEMMA OwnOutput ==
  ASSUME TypeOK, NamesFollow, TextsRecorded, NEW a \in Outputs, file[a] # Missing,
         a \notin disturbed, ~ Shadowed(a)
  PROVE  file[a] \in Runs /\ Recorded(a, Merged(ledger, Beside(a))) = file[a]
<1>1. file[a] \in Runs /\ (At(ledger, a) = file[a] \/ Printed(At(ledger, a)))
  BY DEF TextsRecorded
<1>2. ~ Printed(At(ledger, a))
  <2>1. CASE a = Name
    BY <2>1 DEF Shadowed
  <2>2. CASE a # Name
    <3>1. SUFFICES ASSUME Printed(At(ledger, a)) PROVE FALSE
      OBVIOUS
    <3>2. a \in DOMAIN ledger /\ job[ledger[a]] = "print"
      BY <3>1, NotMissing DEF Printed, At
    <3> QED BY <2>2, <3>2 DEF NamesFollow, Owned, Key
  <2> QED BY <2>1, <2>2
<1>3. a \in DOMAIN ledger
  BY <1>1, <1>2, NotMissing DEF At
<1>4. Beside(a) = Missing /\ Merged(ledger, Beside(a)) = ledger
  BY NotMissing DEF Beside, Merged, Outputs
<1>5. Recorded(a, ledger) = At(ledger, a)
  BY <1>3 DEF Recorded
<1> QED BY <1>1, <1>2, <1>4, <1>5

LEMMA OwnBundle ==
  ASSUME TypeOK, BundleFills, file["bundle/appendix"] # Missing,
         "bundle/appendix" \notin disturbed, ~ Shadowed("bundle/appendix")
  PROVE  /\ file["bundle/appendix"] \in Runs /\ Beside("bundle/appendix") \in Runs
         /\ Recorded("bundle/appendix", Merged(ledger, Beside("bundle/appendix")))
              = file["bundle/appendix"]
<1> DEFINE b == "bundle/appendix"
           with == With(ledger, Name, Beside(b))
<1>1. file[b] \in Runs /\ Beside(b) = file[b] /\ Name \notin DOMAIN ledger
  BY DEF BundleFills, Beside, Shadowed
<1>2. ledger \in Records /\ Name \in Outputs /\ b \notin Outputs
  BY DEF TypeOK, Name, Outputs
<1>3. Merged(ledger, Beside(b)) = with
  BY <1>1 DEF Merged
<1>4. DOMAIN with = {Name} \cup DOMAIN ledger /\ with[Name] = Beside(b)
  <2>1. ASSUME NEW r \in Runs
        PROVE  DOMAIN With(ledger, Name, r) = {Name} \cup DOMAIN ledger /\ With(ledger, Name, r)[Name] = r
    BY <1>2 DEF With
  <2> QED BY <1>1, <2>1
<1>5. b \notin DOMAIN with
  BY <1>2, <1>4, RecordsFacts
<1> HIDE DEF with
<1>6. Recorded(b, with) = At(with, Name)
  BY <1>4, <1>5 DEF Recorded
<1> QED BY <1>1, <1>3, <1>4, <1>6 DEF At

LEMMA OwnRecordNext ==
  ASSUME TypeOK, InTurn, NamesFollow, AuditFresh, TextsRecorded, BundleFills,
         OwnRecordComplaintsAreReal, [Next]_vars
  PROVE  OwnRecordComplaintsAreReal'
<1>1. CASE AuditJudges
  <2> DEFINE a == audit.of
             record == Recorded(a, Merged(ledger, Beside(a)))
  <2> SUFFICES ASSUME ~ Shadowed(a), a \notin disturbed
               PROVE  audit'.verdict = "clean"
    BY <1>1, Judged DEF OwnRecordComplaintsAreReal, Complains, Shadowed, Printed
  <2>1. /\ audit.found = ledger /\ audit.text = file[a] /\ file[a] # Missing
        /\ a \in Artifacts
    BY <1>1, Judged DEF AuditFresh
  <2>2. file[a] \in Runs /\ record = file[a] /\ Beside(a) # Altered
    <3>1. CASE a \in Outputs
      <4>1. Beside(a) = Missing
        BY <3>1 DEF Beside, Outputs
      <4> QED BY <2>1, <3>1, <4>1, OwnOutput, NotMissing
    <3>2. CASE a = "bundle/appendix"
      BY <2>1, <3>2, OwnBundle, NotMissing
    <3> QED BY <2>1, <3>1, <3>2 DEF Artifacts
  <2>3. audit'.verdict = Verdict(file[a], record)
    BY <1>1, <2>1, <2>2, Judged
  <2> HIDE DEF a, record
  <2> QED BY <2>1, <2>2, <2>3 DEF Verdict
<1>2. CASE ~ AuditJudges
  <2>1. CASE audit'.at = "judged"
    BY <1>2, <2>1, VerdictStays
    DEF OwnRecordComplaintsAreReal, Complains, Shadowed, Printed
  <2>2. CASE audit'.at # "judged"
    BY <2>2 DEF OwnRecordComplaintsAreReal, Complains
  <2> QED BY <2>1, <2>2
<1> QED BY <1>1, <1>2

----------------------------------------------------------------------------
(* The theorems.                                                             *)

NoneForced == \A r \in Runs : job[r] # "refresh"

LEMMA NoneForcedBefore ==
  ASSUME TypeOK, InTurn, [Next]_vars, NoneForced'
  PROVE  NoneForced
BY JobsStay DEF NoneForced

LEMMA InitInvariant == Init => IInv
<1> SUFFICES ASSUME Init PROVE IInv
  OBVIOUS
<1>1. TypeOK
  BY InitType
<1>2. InTurn
  BY DEF Init, InTurn, Active, Ended, NoAudit
<1>3. NamesFollow
  BY NotMissing, NoRecordsFacts DEF Init, NamesFollow, Owned
<1>4. AuditFresh /\ CleanMeansGenerated /\ OwnRecordComplaintsAreReal
  BY DEF Init, AuditFresh, CleanMeansGenerated, OwnRecordComplaintsAreReal, Complains, NoAudit
<1>5. LoadedIsCurrent
  BY DEF Init, LoadedIsCurrent
<1>6. \A f \in Files : file[f] = Missing
  BY DEF Init
<1>7. TextsRecorded
  BY <1>6, NotMissing, ArtifactsAreFiles DEF Init, TextsRecorded
<1>8. BundleFills
  BY <1>6, BundleFacts DEF Init, BundleFills
<1>9. FirstFileTells
  BY <1>6, NotMissing, BundleFacts DEF Init, FirstFileTells
<1> QED BY <1>1, <1>2, <1>3, <1>4, <1>5, <1>7, <1>8, <1>9 DEF IInv

LEMMA NextInvariant == IInv /\ [Next]_vars => IInv'
<1> SUFFICES ASSUME IInv, [Next]_vars PROVE IInv'
  OBVIOUS
<1>1. TypeOK /\ InTurn /\ NamesFollow /\ AuditFresh /\ CleanMeansGenerated
  BY DEF IInv
<1>2. (TypeOK /\ InTurn /\ NamesFollow /\ AuditFresh /\ CleanMeansGenerated)'
  BY <1>1, NextType, InTurnNext, NamesNext, AuditFreshNext, CleanNext
<1>3. SameKey => LoadedIsCurrent'
  BY <1>1, LoadedNext DEF IInv
<1>4. WritersAlone => TextsRecorded'
  BY <1>1, AloneSameKey, TextsNext DEF IInv
<1>5. ForcedAlone => BundleFills'
  BY <1>1, BundleNext DEF IInv
<1>6. NoneForced' => FirstFileTells'
  BY <1>1, NoneForcedBefore, FirstNext DEF IInv, NoneForced
<1>7. WritersAlone /\ ForcedAlone => OwnRecordComplaintsAreReal'
  BY <1>1, OwnRecordNext DEF IInv
<1> QED BY <1>2, <1>3, <1>4, <1>5, <1>6, <1>7 DEF IInv, NoneForced, SameKey, WritersAlone, ForcedAlone

(* The inductive invariant: every part of it holds as far as commands are    *)
(* kept from overlapping in the way the part names.                          *)
THEOREM InvariantHolds == Spec => []IInv
BY InitInvariant, NextInvariant, PTL DEF Spec

(* The state keeps its shape.                                                *)
THEOREM TypeCorrect == Spec => []TypeOK
<1>1. IInv => TypeOK
  BY DEF IInv
<1> QED BY <1>1, InvariantHolds, PTL

(* A clean audit read a text some run rendered for that very artifact,       *)
(* whatever commands overlap.                                                *)
THEOREM CleanMeansGeneratedHolds == Spec => []CleanMeansGenerated
<1>1. IInv => CleanMeansGenerated
  BY DEF IInv
<1> QED BY <1>1, InvariantHolds, PTL

(* While generations into files outside the bundle run alone, no text of     *)
(* theirs is on disk before its record is.                                   *)
THEOREM RecordedBeforeWrittenHolds == WritersAlone => (Spec => []RecordedBeforeWritten)
<1> SUFFICES ASSUME WritersAlone PROVE Spec => []RecordedBeforeWritten
  OBVIOUS
<1>1. IInv => RecordedBeforeWritten
  <2> SUFFICES ASSUME IInv PROVE RecordedBeforeWritten
    OBVIOUS
  <2>1. TextsRecorded
    BY DEF IInv
  <2> QED BY <2>1, NotMissing DEF TextsRecorded, RecordedBeforeWritten
<1> QED BY <1>1, InvariantHolds, PTL

(* While forced packages run alone too, an audit that goes by the artifact's *)
(* own record complains only of what was edited or not completed.            *)
THEOREM OwnRecordComplaintsHold ==
  WritersAlone /\ ForcedAlone => (Spec => []OwnRecordComplaintsAreReal)
<1> SUFFICES ASSUME WritersAlone, ForcedAlone PROVE Spec => []OwnRecordComplaintsAreReal
  OBVIOUS
<1>1. IInv => OwnRecordComplaintsAreReal
  BY DEF IInv
<1> QED BY <1>1, InvariantHolds, PTL

(* As long as nobody forces a package, the files of the bundle are one       *)
(* run's, however packages overlap, fail or are killed.                      *)
THEOREM BundleIsOneRunsHolds == Spec => []BundleIsOneRuns
<1>1. IInv => BundleIsOneRuns
  <2> SUFFICES ASSUME IInv, NoneForced, NEW f \in BundleFiles, NEW g \in BundleFiles,
                      {file[f], file[g]} \subseteq Runs
               PROVE  file[f] = file[g]
    BY DEF BundleIsOneRuns, NoneForced
  <2>1. FirstFileTells
    BY DEF IInv, NoneForced
  <2> QED BY <2>1 DEF FirstFileTells
<1> QED BY <1>1, InvariantHolds, PTL
=============================================================================
