------------------------------ MODULE Answers ------------------------------
(***************************************************************************)
(* The answers `adduce checklist` and `adduce appendix` draft from a run's *)
(* findings (ledger.py, checklists, report/appendix.py), and what          *)
(* `adduce audit-generated` later says of the recorded entries (cli.py).   *)
(* The two sides state the policy for a "yes" independently: one over the  *)
(* findings, the other over the evidence that was written down.            *)
(*                                                                         *)
(* An item cites rules; what the cited findings saw is a function sight:   *)
(* position -> [confidence, located], confidences in hundredths.           *)
(***************************************************************************)
EXTENDS Engine

CONSTANTS
  Conflicting,  \* the rules whose finding is a conflict: R-DRIFT-*, R-RES-002
  Confidences   \* hundredths, on both sides of every threshold

ASSUME AnswersAssumption ==
  /\ Conflicting \subseteq Rules /\ "manifest" \notin Rules
  /\ Confidences \subseteq 0 .. 100

YesMin(strict) == IF strict THEN 90 ELSE 85
PartialMin == 50
DirectMin == 80

(* findings_by_rule: of the findings under one id the last.                  *)
Cited(item) ==
  {Max({i \in DOMAIN findings : findings[i].id = id}) :
     id \in {findings[i].id : i \in DOMAIN findings} \cap item}
Status(i) == findings[i].status

(* _manifest_supports: supported are the rules whose subject the confirmed   *)
(* fields of the manifest state.                                             *)
Supports(cited, supported) == cited # {} /\ \A i \in cited : findings[i].id \in supported

FromManifest ==
  [kind |-> "manifest", located |-> TRUE, confidence |-> 100,
   strength |-> "manifest_author_confirmed"]

(* evidence_from_findings: an item per location, alike but for the place.    *)
Seen(cited, sight) ==
  {[kind |-> findings[i].id, located |-> sight[i].located, confidence |-> sight[i].confidence,
    strength |-> IF sight[i].confidence >= DirectMin /\ sight[i].located
                 THEN "direct" ELSE "inferred"] :
     i \in {j \in cited : Status(j) \in {"pass", "partial"}}}
ItemsFor(cited, sight, backed) ==
  Seen(cited, sight) \cup (IF backed THEN {FromManifest} ELSE {})

\* Mutant of FirstAnswer: a pass is enough for a yes wherever it was seen.
AnswerUnlocated(scored, sight, backed, strict) ==
  LET sure(min) == \A i \in scored : sight[i].confidence >= min
  IN CASE scored = {} -> "unknown"
       [] scored # {} /\ \A i \in scored : Status(i) = "fail" -> "not_detected"
       [] scored # {} /\ \A i \in scored : Status(i) = "pass" ->
            IF backed \/ sure(YesMin(strict)) THEN "yes"
            ELSE IF sure(PartialMin) THEN "partial" ELSE "unknown"
       [] OTHER -> "partial"

FirstAnswer(scored, sight, backed, strict) ==
  LET sure(min) == \A i \in scored : sight[i].confidence >= min
      located == \A i \in scored : sight[i].located
  IN CASE scored = {} -> "unknown"
       [] scored # {} /\ \A i \in scored : Status(i) = "fail" -> "not_detected"
       [] scored # {} /\ \A i \in scored : Status(i) = "pass" ->
            IF backed \/ (located /\ sure(YesMin(strict))) THEN "yes"
            ELSE IF sure(PartialMin) THEN "partial" ELSE "unknown"
       [] OTHER -> "partial"

(* derive_answer.                                                            *)
Derived(cited, sight, backed, strict) ==
  LET scored == {i \in cited : IsAssessed(findings[i])}
      answer == FirstAnswer(scored, sight, backed, strict)
  IN IF /\ strict /\ answer \in {"yes", "partial"}
        /\ \A e \in ItemsFor(cited, sight, backed) : e.strength = "inferred"
     THEN "author_input_required" ELSE answer

(* build_entry.  A checklist item may be backed by the manifest or be the    *)
(* author's to answer, the appendix only adds what the manifest states.      *)
Entry(item, sight, case, strict) ==
  LET cited == Cited(item)
      backed == case.kind = "checklist" /\ Supports(cited, case.supported)
      states == case.kind = "appendix" /\ case.stated
      manual == case.kind = "checklist" /\ case.manual
  IN [answer |-> IF manual THEN "author_input_required"
                 ELSE Derived(cited, sight, backed, strict),
      evidence |-> (IF manual THEN {} ELSE ItemsFor(cited, sight, backed))
                     \cup (IF states THEN {FromManifest} ELSE {}),
      searched |-> item \cup (IF backed \/ states THEN {"manifest"} ELSE {}),
      missing |-> {i \in cited : Status(i) = "fail"},
      conflicts |-> {i \in cited : findings[i].id \in Conflicting /\ Status(i) \in {"partial", "fail"}}]

----------------------------------------------------------------------------
(* _validated_ledger_record, as far as an entry's answer and evidence go.    *)
Validates(entry) ==
  /\ entry.answer = "not_detected" => entry.searched # {} /\ entry.missing # {}
  /\ \A e \in entry.evidence :
       /\ e.kind \in entry.searched
       /\ e.kind = "manifest" <=> e.strength = "manifest_author_confirmed"
       /\ e.kind = "manifest" => e = FromManifest
       /\ e.strength = "direct" => e.located

(* _yes_has_strong_evidence.                                                 *)
YesIsStrong(entry, strict) ==
  /\ entry.evidence # {} /\ entry.conflicts = {}
  /\ \/ FromManifest \in entry.evidence
     \/ \A e \in entry.evidence :
          e.strength = "direct" /\ e.located /\ e.confidence >= YesMin(strict)

(* The rows R-GEN-001 and R-GEN-002 of audit-generated.                      *)
Complaints(entry, strict) ==
  {id \in {"R-GEN-001", "R-GEN-002"} :
     IF id = "R-GEN-001"
     THEN entry.answer \in {"yes", "partial"} /\ entry.evidence = {}
     ELSE entry.answer = "yes" /\ ~ YesIsStrong(entry, strict)}

----------------------------------------------------------------------------
Level(answer) == CASE answer = "yes" -> 2 [] answer = "partial" -> 1 [] OTHER -> 0

Items == (SUBSET Rules) \ {{}}
Sights(item) == [Cited(item) -> [confidence : Confidences, located : BOOLEAN]]
Cases ==
  [kind : {"checklist"}, supported : SUBSET Rules, manual : BOOLEAN]
    \cup [kind : {"appendix"}, stated : BOOLEAN]

(* What is drafted stands up to the audit: whatever the run found, however   *)
(* sure and wherever it was seen, and whatever the manifest confirms, the    *)
(* entry validates and draws no complaint of its own.  Raising the bar never *)
(* strengthens an answer.  A baseline plays no part, so runs without one are *)
(* looked at.                                                                *)
DraftsSurviveTheirAudit ==
  pc = "scored" /\ baseline = Empty =>
    \A item \in Items : \A sight \in Sights(item), case \in Cases :
      LET draft == Entry(item, sight, case, FALSE)
          strict == Entry(item, sight, case, TRUE)
      IN /\ Validates(draft) /\ Complaints(draft, FALSE) = {}
         /\ Validates(strict) /\ Complaints(strict, TRUE) = {}
         /\ Level(strict.answer) =< Level(draft.answer)
=============================================================================
