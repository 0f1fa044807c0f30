------------------------------ MODULE Scoring ------------------------------
(***************************************************************************)
(* The arithmetic of scoring.py over the findings, a sequence or a part of *)
(* one.  A finding is a record [id, rule, status, suppressed, degraded];   *)
(* its category and weight are those of the rule class.  Python's floats   *)
(* are exact fractions here: a status is worth 0, 1 or 2 halves, and a     *)
(* total is a record [num, den].                                           *)
(***************************************************************************)
EXTENDS Naturals, Sequences, FiniteSetsExt

CONSTANTS
  Rules,           \* the discovered rules; a rule names its own id
  Categories,
  Category,        \* rule -> its category
  Weight,          \* rule -> its weight
  CategoryWeight,  \* category -> what the profile gives it, 0 when unnamed
  Floor            \* MINIMUM_ANALYSABLE_LINES

ASSUME ScoringAssumption ==
  /\ Category \in [Rules -> Categories]
  /\ Weight \in [Rules -> Nat]
  /\ CategoryWeight \in [Categories -> Nat]
  /\ Floor \in Nat

Assessed == {"pass", "partial", "fail"}
Applicable == Assessed \cup {"unknown"}
Statuses == Applicable \cup {"not-applicable"}

Halves(status) == CASE status = "pass" -> 2 [] status = "partial" -> 1 [] status = "fail" -> 0

IsAssessed(finding) == finding.status \in Assessed
IsApplicable(finding) == finding.status \in Applicable

InCategory(findings, c) == {i \in DOMAIN findings : Category[findings[i].rule] = c}
Among(findings, Test(_)) == {i \in DOMAIN findings : Test(findings[i])}

\* Mutant of AssessedIn: suppressed findings leave the denominators.
UnsuppressedIn(findings, c) ==
  {i \in InCategory(findings, c) : IsAssessed(findings[i]) /\ ~ findings[i].suppressed}

AssessedIn(findings, c) == InCategory(findings, c) \cap Among(findings, IsAssessed)

Possible(findings, c) ==
  SumFunction([i \in AssessedIn(findings, c) |-> Weight[findings[i].rule]])
Earned(findings, c) ==
  SumFunction([i \in AssessedIn(findings, c) |->
                 Halves(findings[i].status) * Weight[findings[i].rule]])

(* The categories that enter the total, and those kept on the card without   *)
(* any assessed weight because a check applied there and went unanswered.    *)
Surviving(findings) == {c \in Categories : Possible(findings, c) # 0}
Unanswered(findings) ==
  {c \in Categories \ Surviving(findings) :
     \E i \in InCategory(findings, c) :
       IsApplicable(findings[i]) /\ ~ IsAssessed(findings[i])}

(* CategoryScore.possible of each row.                                       *)
Rows(findings) ==
  [c \in Surviving(findings) \cup Unanswered(findings) |->
     IF c \in Surviving(findings) THEN CategoryWeight[c] ELSE 0]

WeightedPossible(findings) ==
  SumFunction([c \in Surviving(findings) |-> CategoryWeight[c]])

(* Every earned / possible over the common denominator of the categories.    *)
ProductFunction(f) == FoldFunction(LAMBDA p, q : p * q, 1, f)
Denominator(findings) ==
  2 * ProductFunction([c \in Surviving(findings) |-> Possible(findings, c)])
WeightedEarned(findings) ==
  SumFunction([c \in Surviving(findings) |->
                 CategoryWeight[c] * Earned(findings, c)
                   * (Denominator(findings) \div (2 * Possible(findings, c)))])

NoTotal == [num |-> 0, den |-> 0]
Total(findings) ==
  IF WeightedPossible(findings) = 0
  THEN NoTotal
  ELSE [num |-> 100 * WeightedEarned(findings),
        den |-> Denominator(findings) * WeightedPossible(findings)]

TierFor(total) ==
  CASE total.num >= 85 * total.den -> "Gold"
    [] total.num >= 70 * total.den /\ total.num < 85 * total.den -> "Silver"
    [] total.num >= 50 * total.den /\ total.num < 70 * total.den -> "Bronze"
    [] OTHER -> "Needs work"

Tier(total, lines) ==
  CASE total = NoTotal -> "Unrated (nothing assessed)"
    [] total # NoTotal /\ lines < Floor -> "Unrated (insufficient evidence)"
    [] OTHER -> TierFor(total)

Score(findings, lines, inapplicable) ==
  [total |-> Total(findings),
   tier |-> Tier(Total(findings), lines),
   rows |-> Rows(findings),
   evaluated |-> Cardinality(Among(findings, IsAssessed)),
   applicable |-> Cardinality(Among(findings, IsApplicable)),
   considered |-> Len(findings),
   skipped |-> inapplicable]

----------------------------------------------------------------------------
(* top_fixes: the findings it offers, and the points of the total each fix   *)
(* would buy.  The denominators are `sum(...) or 1.0` in the code.           *)

OrOne(n) == IF n = 0 THEN 1 ELSE n

Fixable(finding) ==
  ~ finding.suppressed /\ IsAssessed(finding) /\ Halves(finding.status) < 2

WeightIn(findings, is) == SumFunction([i \in is |-> Weight[findings[i].rule]])

\* Mutant of FixWeight: the denominator of the applicable checks.
FixWeightApplicable(findings, c) ==
  WeightIn(findings, InCategory(findings, c) \cap Among(findings, IsApplicable))

FixWeight(findings, c) == WeightIn(findings, AssessedIn(findings, c))

Points(findings, i) ==
  LET rows == Rows(findings)
      c == Category[findings[i].rule]
  IN [num |-> 100 * (2 - Halves(findings[i].status)) * Weight[findings[i].rule] * rows[c],
      den |-> 2 * OrOne(FixWeight(findings, c))
                * OrOne(SumFunction(rows))]

FixesOffered(findings) ==
  {i \in Among(findings, Fixable) : Category[findings[i].rule] \in DOMAIN Rows(findings)}
============================================================================
