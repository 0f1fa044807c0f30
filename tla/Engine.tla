------------------------------- MODULE Engine -------------------------------
(***************************************************************************)
(* The rule loop of engine.py's run_check, and the two commands built on   *)
(* it: `adduce baseline` records what every rule answered, `adduce check   *)
(* --fail-on-regression` compares a later run with that record.            *)
(*                                                                         *)
(* The repository changes freely between two runs, so what each rule does  *)
(* is chosen when the loop reaches it.  Built-in rules may be broken; a    *)
(* rule pack's rule may raise anywhere, return something that is not its   *)
(* finding, give another id than the one it was loaded under, or return a  *)
(* finding that is its own and breaks whoever reads it.                    *)
(***************************************************************************)
EXTENDS Scoring

CONSTANTS
  Discovered,   \* the rules in the order discover_rules returns them
  Builtin,      \* the rules of BUILTIN_RULES
  Claims,       \* rule -> the ids its `id` property may answer with
  LineCounts,   \* how much source a run may parse
  Thresholds,   \* the values of --fail-under a check may be given
  NoThreshold,
  Commands,     \* which of "check", "baseline" are run
  Nobody        \* no id

ASSUME EngineAssumption ==
  /\ Discovered \in Seq(Rules)
  /\ \A i, j \in DOMAIN Discovered : Discovered[i] = Discovered[j] => i = j
  /\ {Discovered[i] : i \in DOMAIN Discovered} = Rules
  /\ Builtin \subseteq Rules
  /\ \A r \in Rules : r \in Claims[r] /\ Claims[r] \subseteq Rules
  /\ \A b \in Builtin : Claims[b] = {b}
  /\ LineCounts \subseteq Nat
  /\ Thresholds \subseteq 0 .. 100
  /\ NoThreshold \notin Thresholds
  /\ Nobody \notin Rules

Malformed == "malformed"

VARIABLES
  pc,         \* "idle", "rules", "scored", "ended", or "raised"
  at,         \* position in Discovered
  findings,
  inapplicable,   \* skipped_inapplicable
  lines,      \* analysable_lines
  baseline,   \* .adduce/baseline.json: id -> status; a missing file is empty
  exit,       \* the exit code of the check, 2 before it ends
  threshold,  \* the --fail-under it was given
  (* what really happened, for the properties *)
  done,       \* the rules the loop has passed -> the id and what they did
  recorded    \* rule -> the same, in the run the baseline comes from

loopVars == <<at, findings, inapplicable, lines>>
verdictVars == <<exit, threshold>>
vars == <<pc, loopVars, baseline, verdictVars, done, recorded>>

Empty == [id \in {} |-> "none"]

Init ==
  /\ pc = "idle"
  /\ at = 1 /\ findings = <<>> /\ inapplicable = 0 /\ lines = 0
  /\ baseline = Empty
  /\ exit = 2 /\ threshold = NoThreshold
  /\ done = Empty /\ recorded = Empty

Start ==
  /\ pc \in {"idle", "ended", "raised"}
  /\ pc' = "rules"
  /\ at' = 1 /\ findings' = <<>> /\ inapplicable' = 0
  /\ lines' \in LineCounts
  /\ exit' = 2 /\ threshold' = NoThreshold
  /\ done' = Empty
  /\ UNCHANGED <<baseline, recorded>>

----------------------------------------------------------------------------
(* One rule of the loop.  done is written down beside it.                    *)

Current == Discovered[at]
InLoop == pc = "rules" /\ at \in DOMAIN Discovered

With(r, record) == [q \in DOMAIN done \cup {r} |-> IF q = r THEN record ELSE done[q]]

Passes(id, what) ==
  /\ done' = With(Current, [id |-> id, what |-> what])
  /\ at' = at + 1
  /\ UNCHANGED <<pc, lines, baseline, verdictVars, recorded>>

File(id, status, degraded) ==
  \E suppressed \in BOOLEAN :
    findings' = Append(findings, [id |-> id, rule |-> Current, status |-> status,
                                  suppressed |-> suppressed, degraded |-> degraded])

(* _identify: the id a result is filed under, or Nobody when the rule cannot *)
(* say or says a built-in's.                                                 *)
Answers(r) == IF r \in Builtin THEN Claims[r] ELSE Claims[r] \cup {Nobody}

\* Mutant of Identity: a rule pack may give any id.
AnyIdentity(r, id) == id

Identity(r, id) == IF r \notin Builtin /\ id \in Builtin THEN Nobody ELSE id

PassOver ==
  /\ InLoop
  /\ \E id \in Answers(Current) : Identity(Current, id) = Nobody
  /\ Passes(Nobody, "passed over")
  /\ UNCHANGED <<findings, inapplicable>>

Identified(id) == \E said \in Answers(Current) : id = Identity(Current, said) /\ id # Nobody

SkipDisabled ==
  /\ InLoop
  /\ \E id \in Rules : Identified(id) /\ Passes(id, "disabled")
  /\ UNCHANGED <<findings, inapplicable>>

SkipInapplicable ==
  /\ InLoop
  /\ \E id \in Rules : Identified(id) /\ Passes(id, "inapplicable")
  /\ inapplicable' = inapplicable + 1
  /\ UNCHANGED findings

(* applies_to or evaluate raises, or what evaluate returned is no finding of *)
(* this rule.  A rule pack is contained, a built-in's defect ends the run.   *)
Contained(r) == r \notin Builtin

\* Mutant of DegradedStatus: a defect is scored as a failed check.
DegradedAsFailed == "fail"

DegradedStatus == "unknown"

Degrade ==
  /\ InLoop /\ Contained(Current)
  /\ \E id \in Rules :
       Identified(id) /\ File(id, DegradedStatus, TRUE) /\ Passes(id, "misbehaved")
  /\ UNCHANGED inapplicable

EndsTheRun(id, what) ==
  /\ pc' = "raised"
  /\ done' = With(Current, [id |-> id, what |-> what])
  /\ UNCHANGED <<loopVars, baseline, verdictVars, recorded>>
Raise == InLoop /\ ~ Contained(Current) /\ EndsTheRun(Current, "misbehaved")

(* Past the guard the loop asks whether what applies_to returned is true and  *)
(* looks for suppressions at the finding's locations: there a rule pack's     *)
(* answer ends the run as well.                                              *)
RaiseUnguarded ==
  InLoop /\ \E id \in Rules : Identified(id) /\ EndsTheRun(id, Malformed)

(* Nothing looks at a finding's status and weight before score() does.       *)
FileMalformed ==
  /\ InLoop
  /\ \E id \in Rules : Identified(id) /\ File(id, Malformed, FALSE) /\ Passes(id, Malformed)
  /\ UNCHANGED inapplicable

Evaluate ==
  /\ InLoop
  /\ \E id \in Rules, status \in Statuses :
       Identified(id) /\ File(id, status, FALSE) /\ Passes(id, status)
  /\ UNCHANGED inapplicable

(* score() reads every finding, and raises at a malformed one.               *)
WellFormed(list) == \A i \in DOMAIN list : list[i].status # Malformed
Finish ==
  /\ pc = "rules" /\ at \notin DOMAIN Discovered
  /\ pc' = IF WellFormed(findings) THEN "scored" ELSE "raised"
  /\ UNCHANGED <<loopVars, baseline, verdictVars, done, recorded>>

Card == Score(findings, lines, inapplicable)

----------------------------------------------------------------------------
(* baseline_snapshot is a dict comprehension: of the assessed findings under *)
(* an id it records the last.                                                *)
Snapshot ==
  LET filed(id) == {i \in Among(findings, IsAssessed) : findings[i].id = id}
      ids == {id \in Rules : filed(id) # {}}
  IN [id \in ids |-> findings[Max(filed(id))].status]

WriteBaseline ==
  /\ pc = "scored" /\ "baseline" \in Commands
  /\ pc' = "ended"
  /\ baseline' = Snapshot
  /\ recorded' = [r \in {q \in DOMAIN done : done[q].what \in Assessed} |-> done[r]]
  /\ UNCHANGED <<loopVars, verdictVars, done>>

(* _STATUS_ORDER.get(status, 0)                                              *)
Rank(status) ==
  CASE status = "pass" -> 3 [] status = "partial" -> 2 [] status = "fail" -> 1 [] OTHER -> 0

\* Mutant of Comparable: a check without an answer is compared.
Unhidden(finding) == ~ finding.suppressed

Comparable(finding) == ~ finding.suppressed /\ IsAssessed(finding)

Regressed(finding) ==
  /\ Comparable(finding)
  /\ finding.id \in DOMAIN baseline
  /\ Rank(finding.status) < Rank(baseline[finding.id])
Regressions == Among(findings, Regressed)

(* round(total, 1) in tenths; an exact tie may go either way.                *)
Shown(total) ==
  {t \in 0 .. 1000 : /\ 2 * t * total.den <= 20 * total.num + total.den
                     /\ 20 * total.num <= 2 * t * total.den + total.den}

\* Mutant of ThresholdVerdicts: a run without a score meets every threshold.
ZeroWithoutScore(under) ==
  IF under = NoThreshold \/ Card.total = NoTotal THEN {0}
  ELSE {IF t < 10 * under THEN 1 ELSE 0 : t \in Shown(Card.total)}

(* The exit codes --fail-under may give; without a score it fails.           *)
ThresholdVerdicts(under) ==
  IF under = NoThreshold THEN {0}
  ELSE IF Card.total = NoTotal THEN {1}
  ELSE {IF t < 10 * under THEN 1 ELSE 0 : t \in Shown(Card.total)}

Gate ==
  /\ pc = "scored" /\ "check" \in Commands
  /\ pc' = "ended"
  /\ \E under \in Thresholds \cup {NoThreshold} :
       /\ threshold' = under
       /\ exit' \in IF Regressions # {} THEN {1} ELSE ThresholdVerdicts(under)
  /\ UNCHANGED <<loopVars, baseline, done, recorded>>

Next ==
  \/ Start \/ PassOver \/ SkipDisabled \/ SkipInapplicable \/ Degrade \/ Raise
  \/ RaiseUnguarded \/ FileMalformed \/ Evaluate \/ Finish \/ WriteBaseline \/ Gate

Spec == Init /\ [][Next]_vars

----------------------------------------------------------------------------
Scored == pc \in {"scored", "ended"}

DoneRecords ==
  [id : Rules \cup {Nobody},
   what : Statuses \cup {"passed over", "disabled", "inapplicable", "misbehaved", Malformed}]
FindingRecords ==
  [id : Rules, rule : Rules, status : Statuses, suppressed : BOOLEAN, degraded : BOOLEAN]
FiledRecords ==
  [id : Rules, rule : Rules, status : Statuses \cup {Malformed}, suppressed : BOOLEAN,
   degraded : BOOLEAN]

(* The loop is at some rule, or past the last, and every finding and every   *)
(* recorded answer is of the right shape.                                    *)
TypeOK ==
  /\ pc \in {"idle", "rules", "scored", "ended", "raised"}
  /\ at \in 1 .. Len(Discovered) + 1
  /\ Len(findings) < at + 1 /\ \A i \in DOMAIN findings : findings[i] \in FiledRecords
  /\ inapplicable \in 0 .. at - 1 /\ lines \in LineCounts \cup {0}
  /\ DOMAIN baseline \subseteq Rules /\ \A id \in DOMAIN baseline : baseline[id] \in Assessed
  /\ exit \in 0 .. 2 /\ threshold \in Thresholds \cup {NoThreshold}
  /\ DOMAIN done \subseteq Rules /\ \A r \in DOMAIN done : done[r] \in DoneRecords
  /\ DOMAIN recorded \subseteq Rules /\ \A r \in DOMAIN recorded : recorded[r] \in DoneRecords

(* "One installed rule pack must not be able to discard an entire audit": a  *)
(* run ends in an exception only when a built-in rule misbehaved, which is   *)
(* adduce's own defect.  This is what _evaluate_guarded is there for and it  *)
(* does not hold: RaiseUnguarded and FileMalformed are steps of a pack.      *)
OnlyBuiltinsRaise ==
  pc = "raised" => \E b \in Builtin \cap DOMAIN done : done[b].what = "misbehaved"

(* A rule pack cannot speak for a built-in rule: what the card holds under a *)
(* built-in's id is exactly what that rule answered in this run, once, and   *)
(* nothing when the rule was disabled or did not apply.                      *)
BuiltinsSpeakForThemselves ==
  Scored =>
    \A b \in Builtin :
      LET filed == {i \in DOMAIN findings : findings[i].id = b}
      IN IF done[b].what \in Statuses
         THEN \E i \in filed : filed = {i} /\ findings[i].status = done[b].what
         ELSE filed = {}

(* The inductive invariant of the loop: how far it got, and what it filed,   *)
(* in which order, for each rule it passed.                                  *)
LoopProgress ==
  /\ pc \in {"idle", "rules", "scored", "ended", "raised"}
  /\ at \in 1 .. Len(Discovered) + 1 /\ (Scored => at = Len(Discovered) + 1)
  /\ pc = "raised" =>
       \E r \in DOMAIN done : done[r].what \in {"misbehaved", Malformed}
  /\ pc # "raised" => DOMAIN done = {Discovered[i] : i \in 1 .. at - 1}
FiledAsDone ==
  \A i \in DOMAIN findings :
    /\ findings[i].rule \in DOMAIN done
    /\ findings[i].id = done[findings[i].rule].id
    /\ done[findings[i].rule].what
         = IF findings[i].degraded THEN "misbehaved" ELSE findings[i].status
    /\ findings[i].id \in Builtin => findings[i].rule = findings[i].id
    /\ findings[i].rule \in Builtin => ~ findings[i].degraded
    /\ findings[i].degraded => findings[i].status = DegradedStatus
OneFindingEach ==
  \A i, j \in DOMAIN findings : findings[i].rule = findings[j].rule => i = j
AnswersAreFiled ==
  \A r \in DOMAIN done :
    /\ done[r].what \in Statuses => \E i \in DOMAIN findings : findings[i].rule = r
    /\ r \in Builtin => done[r].id = r

Precedes(q, r) ==
  \E i, j \in DOMAIN Discovered : i < j /\ Discovered[i] = q /\ Discovered[j] = r
FiledInOrder ==
  \A i, j \in DOMAIN findings : i < j => Precedes(findings[i].rule, findings[j].rule)

LoopInv ==
  /\ findings \in Seq(FiledRecords)
  /\ Scored => findings \in Seq(FindingRecords)
  /\ LoopProgress
  /\ FiledAsDone
  /\ OneFindingEach
  /\ FiledInOrder
  /\ AnswersAreFiled

(* The baseline holds, under each id, what was last answered under it in the *)
(* run it was taken from; and an exit code is what the card then gave.       *)
LastToAnswer(q) ==
  \A r \in DOMAIN recorded : recorded[r].id = recorded[q].id => ~ Precedes(q, r)
BaselineIsLastAnswer ==
  /\ \A q \in DOMAIN recorded :
       LastToAnswer(q) => /\ recorded[q].id \in DOMAIN baseline
                          /\ baseline[recorded[q].id] = recorded[q].what
  /\ \A id \in DOMAIN baseline :
       \E q \in DOMAIN recorded : recorded[q].id = id /\ LastToAnswer(q)
VerdictStands ==
  /\ pc # "ended" => exit = 2
  /\ exit # 2 => exit \in IF Regressions # {} THEN {1} ELSE ThresholdVerdicts(threshold)

IInv ==
  /\ TypeOK
  /\ LoopInv
  /\ BaselineIsLastAnswer
  /\ VerdictStands

Degraded == {i \in DOMAIN findings : findings[i].degraded}
Without(places) == Restrict(findings, DOMAIN findings \ places)

(* A rule pack's failure costs coverage and nothing else: with the degraded  *)
(* findings left out the total, the tier and the number of answered checks   *)
(* are the same, and fewer checks are applicable.                            *)
FailuresCostOnlyCoverage ==
  Scored =>
    LET rest == Without(Degraded)
    IN /\ Card.total = Total(rest)
       /\ Card.tier = Tier(Total(rest), lines)
       /\ Card.evaluated = Cardinality(Among(rest, IsAssessed))
       /\ Card.applicable = Cardinality(Among(rest, IsApplicable)) + Cardinality(Degraded)

(* Suppression records an exception and repairs nothing: with no finding     *)
(* suppressed the card is the same.                                          *)
SuppressionMovesNoNumber ==
  Scored =>
    Card = Score([i \in DOMAIN findings |-> [findings[i] EXCEPT !.suppressed = FALSE]],
                 lines, inapplicable)

(* The fixes are ranked by what they are worth: repairing an offered finding *)
(* and nothing else raises the total by exactly the points it is ranked by.  *)
FixBuysItsPoints ==
  Scored =>
    \A i \in FixesOffered(findings) :
      LET fixed == Total([findings EXCEPT ![i].status = "pass"])
          now == Card.total
          points == Points(findings, i)
      IN now # NoTotal =>
           fixed.num * now.den * points.den
             = now.num * fixed.den * points.den + points.num * now.den * fixed.den

(* The ratchet: a check without --fail-under fails exactly when some rule,   *)
(* not suppressed now, answered worse than what was last answered under its  *)
(* id in the run the baseline was taken from.  What a check could not        *)
(* answer, what newly applies and what was suppressed when the baseline was  *)
(* taken never fail it by themselves.                                        *)
RatchetCatchesRegressions ==
  pc = "ended" /\ exit # 2 /\ threshold = NoThreshold =>
    (exit = 1 <=>
       \E i \in DOMAIN findings, q \in DOMAIN recorded :
         /\ ~ findings[i].suppressed
         /\ LET now == done[findings[i].rule]
                then == recorded[q]
            IN /\ now.what \in Assessed /\ now.id = then.id /\ LastToAnswer(q)
               /\ Rank(now.what) < Rank(then.what))

(* A threshold is met by assessed checks only: a check that passes           *)
(* --fail-under has a score, and the rules that answered earn it (to the     *)
(* half tenth the score is shown with).                                      *)
ThresholdIsEarned ==
  pc = "ended" /\ exit = 0 /\ threshold # NoThreshold =>
    LET earned == Total(Without(Degraded))
    IN earned # NoTotal /\ 20 * earned.num + earned.den >= 20 * threshold * earned.den
=============================================================================
