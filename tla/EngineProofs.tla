---------------------------- MODULE EngineProofs ----------------------------
(***************************************************************************)
(* What no rule pack can do to a run of the engine, for any rules in any   *)
(* order, any ids a pack may claim and any sequence of commands.           *)
(***************************************************************************)
EXTENDS Answers, FiniteSetTheorems, TLAPS

(* A family of subsets of a finite set has a smallest member.                *)
LEMMA SmallestSubset ==
  ASSUME NEW S, IsFiniteSet(S), NEW T, T \subseteq SUBSET S, T # {}
  PROVE  \E A \in T : \A B \in T : B \subseteq A => B = A
  <1>1. IsWellFoundedOn(StrictSubsetOrdering(S), SUBSET S)
    BY FS_StrictSubsetOrderingWellFounded, FS_FiniteSubsetsOfFinite
  <1>2. \E A \in T : \A B \in T : ~ (<<B, A>> \in StrictSubsetOrdering(S))
    BY <1>1, WFMin
  <1>3. PICK A \in T : \A B \in T : ~ (<<B, A>> \in StrictSubsetOrdering(S))
    BY <1>2
  <1>4. QED
    BY <1>3 DEF StrictSubsetOrdering

(* A set of numbers has a least one, and a finite one a greatest.            *)
LEMMA LeastNumber ==
  ASSUME NEW T, T \subseteq Nat, T # {}
  PROVE  \E m \in T : \A n \in T : m <= n
  <1>1. PICK k \in T : TRUE
    OBVIOUS
  <1> DEFINE F == {1 .. n : n \in {i \in T : i <= k}}
  <1>2. IsFiniteSet(1 .. k) /\ F \subseteq SUBSET (1 .. k) /\ F # {}
    <2>1. IsFiniteSet(1 .. k)
      BY FS_Interval
    <2>2. 1 .. k \in F
      BY <1>1
    <2>3. F \subseteq SUBSET (1 .. k)
      OBVIOUS
    <2>4. QED
      BY <2>1, <2>2, <2>3
  <1>3. PICK A \in F : \A B \in F : B \subseteq A => B = A
    <2> DEFINE numbers == 1 .. k
    <2>1. IsFiniteSet(numbers) /\ F \subseteq SUBSET numbers /\ F # {}
      BY <1>2
    <2> HIDE DEF F, numbers
    <2>2. QED
      BY <2>1, SmallestSubset
  <1>4. PICK m \in T : m <= k /\ A = 1 .. m
    BY <1>3
  <1>5. ASSUME NEW n \in T, n < m PROVE FALSE
    <2>1. 1 .. n \in F /\ 1 .. n \subseteq 1 .. m
      BY <1>4, <1>5
    <2>2. 1 .. n = 1 .. m
      BY <1>3, <1>4, <2>1
    <2>3. m \in 1 .. m /\ m \notin 1 .. n
      BY <1>5
    <2>4. QED
      BY <2>2, <2>3
  <1>6. QED
    BY <1>4, <1>5

(* The greatest number of a bounded set is in it and above all the others.   *)
LEMMA MaxIsGreatest ==
  ASSUME NEW S, S \subseteq Nat, S # {}, NEW n \in Nat, \A x \in S : x <= n
  PROVE  Max(S) \in S /\ \A x \in S : x <= Max(S)
  <1> DEFINE T == {n - x : x \in S}
  <1>1. T \subseteq Nat /\ T # {}
    <2>1. \A x \in S : n - x \in Nat
      OBVIOUS
    <2>2. QED
      BY <2>1
  <1>2. PICK m \in T : \A k \in T : m <= k
    <2> HIDE DEF T
    <2>1. QED
      BY <1>1, LeastNumber
  <1>3. PICK x \in S : m = n - x
    BY <1>2
  <1>4. \A y \in S : x >= y
    <2> SUFFICES ASSUME NEW y \in S PROVE x >= y
      OBVIOUS
    <2>1. n - y \in T
      OBVIOUS
    <2>2. n - x <= n - y /\ x \in Nat /\ y \in Nat
      BY <1>2, <1>3, <2>1
    <2>3. QED
      BY <2>2
  <1>5. Max(S) \in S /\ \A y \in S : Max(S) >= y
    BY <1>4 DEF Max
  <1>6. QED
    BY <1>5

(* A list of findings, filed and fit to be scored.                           *)
LEMMA FiledOf ==
  ASSUME NEW list \in Seq(FiledRecords)
  PROVE  /\ Len(list) \in Nat /\ DOMAIN list = 1 .. Len(list)
         /\ \A i \in DOMAIN list : list[i] \in FiledRecords /\ list[i].id \in Rules
         /\ WellFormed(list) => list \in Seq(FindingRecords)
  <1>1. \A i \in DOMAIN list : list[i] \in FiledRecords
    OBVIOUS
  <1>2. /\ \A f \in FiledRecords : f.id \in Rules
        /\ \A f \in FiledRecords : f.status # Malformed => f \in FindingRecords
    BY DEF FiledRecords, FindingRecords
  <1>3. WellFormed(list) => \A i \in DOMAIN list : list[i] \in FindingRecords
    BY <1>1, <1>2 DEF WellFormed
  <1>4. QED
    BY <1>1, <1>2, <1>3
LEMMA FindingsOf ==
  ASSUME NEW list \in Seq(FindingRecords)
  PROVE  /\ Len(list) \in Nat /\ DOMAIN list = 1 .. Len(list)
         /\ \A i \in DOMAIN list :
              /\ list[i] \in FindingRecords /\ list[i].id \in Rules /\ list[i].rule \in Rules
              /\ list[i].status \in Statuses
  <1>1. \A i \in DOMAIN list : list[i] \in FindingRecords
    OBVIOUS
  <1>2. \A f \in FindingRecords : f.id \in Rules /\ f.rule \in Rules /\ f.status \in Statuses
    BY DEF FindingRecords
  <1>3. QED
    BY <1>1, <1>2

(* discover_rules returns a list of some length.                             *)
LEMMA DiscoveredLength ==
  Len(Discovered) \in Nat /\ DOMAIN Discovered = 1 .. Len(Discovered)
  BY EngineAssumption

(* The rules before a position are those up to it, without the one there.    *)
LEMMA NextRule ==
  ASSUME NEW i \in DOMAIN Discovered
  PROVE  /\ Discovered[i] \in Rules
         /\ Discovered[i] \notin {Discovered[j] : j \in 1 .. i - 1}
         /\ {Discovered[j] : j \in 1 .. (i + 1) - 1}
              = {Discovered[j] : j \in 1 .. i - 1} \cup {Discovered[i]}
         /\ i + 1 \in 1 .. Len(Discovered) + 1
  BY EngineAssumption

(* The ids a rule's results may be filed under: a built-in has its own, and  *)
(* nothing of a rule pack is filed under one.                                *)
LEMMA IdentifiedIds ==
  ASSUME NEW r \in Rules, NEW said \in Answers(r), Identity(r, said) # Nobody
  PROVE  /\ Identity(r, said) \in Rules
         /\ Identity(r, said) \in Builtin => Identity(r, said) = r
         /\ r \in Builtin => Identity(r, said) = r
  BY EngineAssumption DEF Answers, Identity

(* What every step of the loop has in common.                                *)
LEMMA LoopStep ==
  ASSUME LoopInv, InLoop, NEW id, NEW what, Passes(id, what)
  PROVE  /\ LoopProgress'
         /\ Current \in Rules /\ Current \notin DOMAIN done
         /\ DOMAIN done' = DOMAIN done \cup {Current}
         /\ done'[Current] = [id |-> id, what |-> what]
         /\ \A r \in DOMAIN done : done'[r] = done[r]
  <1>1. /\ pc = "rules" /\ pc' = "rules" /\ at \in DOMAIN Discovered /\ at' = at + 1
        /\ DOMAIN done = {Discovered[i] : i \in 1 .. at - 1}
    BY DEF InLoop, Passes, LoopInv, LoopProgress
  <1>2. /\ Current \in Rules /\ Current \notin DOMAIN done
        /\ {Discovered[i] : i \in 1 .. at' - 1} = DOMAIN done \cup {Current}
        /\ at' \in 1 .. Len(Discovered) + 1
    BY <1>1, NextRule DEF Current
  <1>3. /\ DOMAIN done' = DOMAIN done \cup {Current}
        /\ done'[Current] = [id |-> id, what |-> what]
        /\ \A r \in DOMAIN done : done'[r] = done[r]
    BY <1>2 DEF Passes, With
  <1>4. LoopProgress'
    BY <1>1, <1>2, <1>3 DEF LoopProgress, Scored
  <1>5. QED
    BY <1>2, <1>3, <1>4

(* The rules that were passed come before the one the loop is at.            *)
LEMMA DonePrecede ==
  ASSUME LoopInv, InLoop, NEW r \in DOMAIN done
  PROVE  Precedes(r, Current)
  <1>1. PICK i \in 1 .. at - 1 : r = Discovered[i]
    BY DEF LoopInv, LoopProgress, InLoop
  <1>2. i \in DOMAIN Discovered /\ i < at /\ at \in DOMAIN Discovered
    BY <1>1, EngineAssumption DEF InLoop
  <1>3. QED
    BY <1>1, <1>2 DEF Precedes, Current

(* A step of the loop that files nothing, and one that files one finding.    *)
LEMMA PassesKeep ==
  ASSUME LoopInv, InLoop, NEW id, NEW what, Passes(id, what), UNCHANGED findings,
         what \notin Statuses, Current \in Builtin => id = Current
  PROVE  LoopInv'
  <1>1. /\ LoopProgress'
        /\ Current \in Rules /\ Current \notin DOMAIN done
        /\ DOMAIN done' = DOMAIN done \cup {Current}
        /\ done'[Current] = [id |-> id, what |-> what]
        /\ \A r \in DOMAIN done : done'[r] = done[r]
    BY LoopStep
  <1>2. FiledAsDone'
    BY <1>1 DEF LoopInv, FiledAsDone
  <1>3. OneFindingEach'
    BY DEF LoopInv, OneFindingEach
  <1>6. FiledInOrder'
    BY DEF LoopInv, FiledInOrder
  <1>4. AnswersAreFiled'
    BY <1>1 DEF LoopInv, AnswersAreFiled
  <1>5. Scored' => findings' \in Seq(FindingRecords)
    BY DEF Passes, InLoop, Scored
  <1>7. QED
    BY <1>1, <1>2, <1>3, <1>4, <1>5, <1>6 DEF LoopInv

(* A step that files one finding for the current rule keeps the loop's       *)
(* invariant.                                                                *)
LEMMA FilesKeep ==
  ASSUME LoopInv, InLoop, NEW id \in Rules, NEW status \in Statuses \cup {Malformed},
         NEW degraded \in BOOLEAN, File(id, status, degraded),
         Passes(id, IF degraded THEN "misbehaved" ELSE status),
         Current \in Builtin => id = Current /\ ~ degraded,
         id \in Builtin => id = Current, degraded => status = DegradedStatus
  PROVE  LoopInv'
  <1> DEFINE what == IF degraded THEN "misbehaved" ELSE status
             last == Len(findings) + 1
  <1>1. /\ LoopProgress'
        /\ Current \in Rules /\ Current \notin DOMAIN done
        /\ DOMAIN done' = DOMAIN done \cup {Current}
        /\ done'[Current] = [id |-> id, what |-> what]
        /\ \A r \in DOMAIN done : done'[r] = done[r]
    BY LoopStep
  <1>2. PICK suppressed \in BOOLEAN :
          findings' = Append(findings, [id |-> id, rule |-> Current, status |-> status,
                                        suppressed |-> suppressed, degraded |-> degraded])
    BY DEF File
  <1> DEFINE new == [id |-> id, rule |-> Current, status |-> status,
                     suppressed |-> suppressed, degraded |-> degraded]
  <1>3. new \in FiledRecords /\ new.id = id /\ new.rule = Current /\ new.status = status
          /\ new.degraded = degraded
    BY <1>1 DEF FiledRecords
  <1> HIDE DEF new
  <1>4. /\ findings' \in Seq(FiledRecords) /\ last \in DOMAIN findings'
        /\ DOMAIN findings' = DOMAIN findings \cup {last} /\ findings'[last] = new
        /\ \A i \in DOMAIN findings : findings'[i] = findings[i] /\ i # last
    BY <1>2, <1>3 DEF LoopInv, new
  <1> HIDE DEF last
  <1>5. FiledAsDone'
    <2> SUFFICES ASSUME NEW i \in DOMAIN findings'
                 PROVE  /\ findings'[i].rule \in DOMAIN done'
                        /\ findings'[i].id = done'[findings'[i].rule].id
                        /\ done'[findings'[i].rule].what
                             = IF findings'[i].degraded THEN "misbehaved" ELSE findings'[i].status
                        /\ findings'[i].id \in Builtin => findings'[i].rule = findings'[i].id
                        /\ findings'[i].rule \in Builtin => ~ findings'[i].degraded
                        /\ findings'[i].degraded => findings'[i].status = DegradedStatus
      BY DEF FiledAsDone
    <2>1. CASE i = last
      BY <1>1, <1>3, <1>4, <2>1
    <2>2. CASE i \in DOMAIN findings
      BY <1>1, <1>4, <2>2 DEF LoopInv, FiledAsDone
    <2>3. QED
      BY <1>4, <2>1, <2>2
  <1>6. OneFindingEach'
    <2>1. \A i \in DOMAIN findings : findings[i].rule # Current
      BY <1>1 DEF LoopInv, FiledAsDone
    <2>2. QED
      BY <1>3, <1>4, <2>1 DEF LoopInv, OneFindingEach
  <1>7. AnswersAreFiled'
    <2> SUFFICES ASSUME NEW r \in DOMAIN done'
                 PROVE  /\ done'[r].what \in Statuses => \E i \in DOMAIN findings' : findings'[i].rule = r
                        /\ r \in Builtin => done'[r].id = r
      BY DEF AnswersAreFiled
    <2>1. CASE r = Current
      BY <1>1, <1>3, <1>4, <2>1
    <2>2. CASE r \in DOMAIN done
      BY <1>1, <1>4, <2>2 DEF LoopInv, AnswersAreFiled
    <2>3. QED
      BY <1>1, <2>1, <2>2
  <1>8. FiledInOrder'
    <2> SUFFICES ASSUME NEW i \in DOMAIN findings', NEW j \in DOMAIN findings', i < j
                 PROVE  Precedes(findings'[i].rule, findings'[j].rule)
      BY DEF FiledInOrder
    <2>1. i \in DOMAIN findings
      BY <1>4 DEF LoopInv, last
    <2>2. CASE j \in DOMAIN findings
      BY <1>4, <2>1, <2>2 DEF LoopInv, FiledInOrder
    <2>3. CASE j = last
      <3>1. findings[i].rule \in DOMAIN done
        BY <2>1 DEF LoopInv, FiledAsDone
      <3>2. QED
        BY <1>3, <1>4, <2>1, <2>3, <3>1, DonePrecede
    <2>4. QED
      BY <1>4, <2>2, <2>3
  <1>9. Scored' => findings' \in Seq(FindingRecords)
    BY DEF Passes, InLoop, Scored
  <1>10. QED
    BY <1>1, <1>4, <1>5, <1>6, <1>7, <1>8, <1>9 DEF LoopInv

(* Every step keeps the loop's invariant.                                    *)
LEMMA LoopNext == LoopInv /\ [Next]_vars => LoopInv'
  <1> SUFFICES ASSUME LoopInv, [Next]_vars PROVE LoopInv'
    OBVIOUS
  <1> USE DEF LoopInv
  <1>0. InLoop => Current \in Rules
    BY NextRule DEF InLoop, Current
  <1>1. CASE Start
    <2>1. findings' = <<>> /\ DOMAIN done' = {} /\ at' = 1 /\ pc' = "rules"
      BY <1>1 DEF Start, Empty
    <2>2. Len(Discovered) \in Nat
      BY EngineAssumption
    <2>3. QED
      BY <2>1, <2>2 DEF LoopProgress, FiledAsDone, OneFindingEach, FiledInOrder, AnswersAreFiled, Scored
  <1>2. CASE PassOver
    <2>1. Current \notin Builtin
      <3>1. PICK said \in Answers(Current) : Identity(Current, said) = Nobody
        BY <1>2 DEF PassOver
      <3>2. SUFFICES ASSUME Current \in Builtin PROVE FALSE
        OBVIOUS
      <3>3. said = Current /\ Identity(Current, said) = said /\ Current \in Rules
        BY <3>1, <3>2, EngineAssumption DEF Answers, Identity
      <3>4. QED
        BY <3>1, <3>3, EngineAssumption
    <2>2. QED
      BY <1>2, <2>1, PassesKeep DEF PassOver, Statuses, Applicable, Assessed
  <1>3. CASE SkipDisabled
    <2>1. PICK id \in Rules : Identified(id) /\ Passes(id, "disabled")
      BY <1>3 DEF SkipDisabled
    <2>2. Current \in Builtin => id = Current
      BY <1>0, <1>3, <2>1, IdentifiedIds DEF SkipDisabled, Identified
    <2>3. QED
      BY <1>3, <2>1, <2>2, PassesKeep DEF SkipDisabled, Statuses, Applicable, Assessed
  <1>4. CASE SkipInapplicable
    <2>1. PICK id \in Rules : Identified(id) /\ Passes(id, "inapplicable")
      BY <1>4 DEF SkipInapplicable
    <2>2. Current \in Builtin => id = Current
      BY <1>0, <1>4, <2>1, IdentifiedIds DEF SkipInapplicable, Identified
    <2>3. QED
      BY <1>4, <2>1, <2>2, PassesKeep DEF SkipInapplicable, Statuses, Applicable, Assessed
  <1>5. CASE Degrade
    <2>1. PICK id \in Rules :
            Identified(id) /\ File(id, DegradedStatus, TRUE) /\ Passes(id, "misbehaved")
      BY <1>5 DEF Degrade
    <2>2. Current \notin Builtin /\ InLoop
      BY <1>5 DEF Degrade, Contained
    <2>3. id \in Builtin => id = Current
      BY <1>0, <2>1, <2>2, IdentifiedIds DEF Identified
    <2>4. DegradedStatus \in Statuses
      BY DEF DegradedStatus, Statuses, Applicable
    <2>5. QED
      BY <2>1, <2>2, <2>3, <2>4, FilesKeep
  <1>6. CASE Raise \/ RaiseUnguarded
    <2>1. PICK id \in Rules, what \in {"misbehaved", Malformed} :
            InLoop /\ EndsTheRun(id, what) /\ (Current \in Builtin => id = Current)
      <3>1. CASE Raise
        BY <1>0, <3>1 DEF Raise
      <3>2. CASE RaiseUnguarded
        BY <1>0, <3>2, IdentifiedIds DEF RaiseUnguarded, Identified
      <3>3. QED
        BY <1>6, <3>1, <3>2
    <2>2. /\ pc' = "raised" /\ UNCHANGED <<at, findings>>
          /\ done' = With(Current, [id |-> id, what |-> what])
      BY <2>1 DEF EndsTheRun, loopVars
    <2>3. at \in DOMAIN Discovered /\ Current \in Rules /\ Current \notin DOMAIN done
      BY <2>1, NextRule DEF InLoop, Current, LoopProgress
    <2>4. /\ DOMAIN done' = DOMAIN done \cup {Current}
          /\ done'[Current] = [id |-> id, what |-> what]
          /\ \A r \in DOMAIN done : done'[r] = done[r]
      BY <2>2, <2>3 DEF With
    <2>5. LoopProgress'
      BY <2>2, <2>3, <2>4 DEF LoopProgress, Scored
    <2>6. FiledAsDone' /\ OneFindingEach' /\ FiledInOrder'
      BY <2>2, <2>3, <2>4 DEF FiledAsDone, OneFindingEach, FiledInOrder
    <2>7. AnswersAreFiled'
      BY <2>1, <2>2, <2>4 DEF AnswersAreFiled, Statuses, Applicable, Assessed, Malformed
    <2>8. QED
      BY <2>2, <2>5, <2>6, <2>7 DEF Scored
  <1>7. CASE Evaluate
    <2>1. PICK id \in Rules, status \in Statuses :
            Identified(id) /\ File(id, status, FALSE) /\ Passes(id, status)
      BY <1>7 DEF Evaluate
    <2>2. InLoop /\ (Current \in Builtin => id = Current) /\ (id \in Builtin => id = Current)
      BY <1>0, <1>7, <2>1, IdentifiedIds DEF Evaluate, Identified
    <2>3. QED
      BY <2>1, <2>2, FilesKeep
  <1>12. CASE FileMalformed
    <2>1. PICK id \in Rules :
            Identified(id) /\ File(id, Malformed, FALSE) /\ Passes(id, Malformed)
      BY <1>12 DEF FileMalformed
    <2>2. InLoop /\ (Current \in Builtin => id = Current) /\ (id \in Builtin => id = Current)
      BY <1>0, <1>12, <2>1, IdentifiedIds DEF FileMalformed, Identified
    <2>3. QED
      BY <2>1, <2>2, FilesKeep
  <1>8. CASE Finish
    <2>1. /\ pc = "rules" /\ at \notin DOMAIN Discovered /\ UNCHANGED <<at, findings, done>>
          /\ pc' = IF WellFormed(findings) THEN "scored" ELSE "raised"
      BY <1>8 DEF Finish, loopVars
    <2>2. WellFormed(findings) => findings \in Seq(FindingRecords)
      BY FiledOf
    <2>3. ~ WellFormed(findings) => \E r \in DOMAIN done : done[r].what = Malformed
      <3>1. SUFFICES ASSUME NEW i \in DOMAIN findings, findings[i].status = Malformed
                     PROVE  done[findings[i].rule].what = Malformed /\ findings[i].rule \in DOMAIN done
        BY DEF WellFormed
      <3>2. ~ findings[i].degraded
        BY <3>1 DEF FiledAsDone, DegradedStatus, Malformed
      <3>3. QED
        BY <3>1, <3>2 DEF FiledAsDone
    <2>4. LoopProgress'
      BY <2>1, <2>3, EngineAssumption DEF LoopProgress, Scored
    <2>5. FiledAsDone' /\ OneFindingEach' /\ FiledInOrder' /\ AnswersAreFiled'
      BY <2>1 DEF FiledAsDone, OneFindingEach, FiledInOrder, AnswersAreFiled
    <2>6. Scored' => WellFormed(findings)
      BY <2>1 DEF Scored
    <2>7. QED
      BY <2>1, <2>2, <2>4, <2>5, <2>6
  <1>9. CASE WriteBaseline \/ Gate
    <2>1. pc = "scored" /\ pc' = "ended" /\ UNCHANGED <<at, findings, done>>
      BY <1>9 DEF WriteBaseline, Gate, loopVars
    <2>2. QED
      BY <2>1 DEF LoopProgress, FiledAsDone, OneFindingEach, FiledInOrder, AnswersAreFiled, Scored, Current
  <1>10. CASE UNCHANGED vars
    BY <1>10 DEF vars, loopVars, LoopProgress, FiledAsDone, OneFindingEach, FiledInOrder, AnswersAreFiled,
                 Scored, Current
  <1>11. QED
    BY <1>1, <1>2, <1>3, <1>4, <1>5, <1>6, <1>7, <1>8, <1>9, <1>10, <1>12 DEF Next

----------------------------------------------------------------------------
(* Types.                                                                    *)

(* A count one higher stays within a bound one higher.                       *)
LEMMA Counting ==
  ASSUME NEW n \in Nat, NEW i \in 1 .. n, NEW k \in 0 .. i - 1, NEW l \in Nat, l < i + 1
  PROVE  /\ i + 1 \in 1 .. n + 1
         /\ k \in 0 .. (i + 1) - 1 /\ k + 1 \in 0 .. (i + 1) - 1
         /\ l < (i + 1) + 1 /\ l + 1 < (i + 1) + 1
  OBVIOUS

(* A step of the loop keeps the types, whatever it notes for the rule it     *)
(* passes.                                                                   *)
LEMMA LoopTypes ==
  ASSUME TypeOK, LoopInv, LoopInv', InLoop,
         NEW id \in Rules \cup {Nobody},
         NEW what \in Statuses \cup {"passed over", "disabled", "inapplicable", "misbehaved", Malformed},
         Passes(id, what), inapplicable' = inapplicable \/ inapplicable' = inapplicable + 1,
         Len(findings') = Len(findings) \/ Len(findings') = Len(findings) + 1
  PROVE  TypeOK'
  <1>1. /\ Current \in Rules /\ DOMAIN done' = DOMAIN done \cup {Current}
        /\ done'[Current] = [id |-> id, what |-> what]
        /\ \A r \in DOMAIN done : done'[r] = done[r]
    BY LoopStep
  <1>2. [id |-> id, what |-> what] \in DoneRecords
    BY DEF DoneRecords
  <1>3. DOMAIN done' \subseteq Rules /\ \A r \in DOMAIN done' : done'[r] \in DoneRecords
    BY <1>1, <1>2 DEF TypeOK
  <1>4. /\ at \in DOMAIN Discovered /\ at' = at + 1 /\ Len(Discovered) \in Nat
        /\ DOMAIN Discovered = 1 .. Len(Discovered) /\ pc' = pc
    BY DiscoveredLength DEF InLoop, Passes
  <1>5. UNCHANGED <<lines, baseline, exit, threshold, recorded>>
    BY DEF Passes, verdictVars
  <1>6. /\ Len(findings) \in Nat /\ DOMAIN findings' = 1 .. Len(findings')
        /\ \A i \in DOMAIN findings' : findings'[i] \in FiledRecords
    <2>1. findings \in Seq(FiledRecords) /\ findings' \in Seq(FiledRecords)
      BY DEF LoopInv
    <2>2. QED
      BY <2>1, FiledOf
  <1>7. /\ at' \in 1 .. Len(Discovered) + 1 /\ Len(findings') < at' + 1
        /\ inapplicable' \in 0 .. at' - 1
    <2>1. at \in 1 .. Len(Discovered) /\ inapplicable \in 0 .. at - 1 /\ Len(findings) < at + 1
      BY <1>4, Zenon DEF TypeOK
    <2>2. /\ at + 1 \in 1 .. Len(Discovered) + 1
          /\ inapplicable \in 0 .. (at + 1) - 1 /\ inapplicable + 1 \in 0 .. (at + 1) - 1
          /\ Len(findings) < (at + 1) + 1 /\ Len(findings) + 1 < (at + 1) + 1
      BY <1>4, <1>6, <2>1, Counting, Zenon
    <2>3. QED
      BY <1>4, <2>2, Zenon
  <1>8. QED
    BY <1>3, <1>4, <1>5, <1>6, <1>7 DEF TypeOK

(* What the baseline command records.                                        *)
LEMMA SnapshotIsLast ==
  ASSUME LoopInv
  PROVE  /\ DOMAIN Snapshot = {findings[i].id : i \in Among(findings, IsAssessed)}
         /\ \A id \in DOMAIN Snapshot :
              \E i \in DOMAIN findings :
                /\ IsAssessed(findings[i]) /\ findings[i].id = id
                /\ Snapshot[id] = findings[i].status
                /\ \A j \in DOMAIN findings :
                     IsAssessed(findings[j]) /\ findings[j].id = id => j <= i
  <1> DEFINE filed(id) == {i \in Among(findings, IsAssessed) : findings[i].id = id}
             ids == {id \in Rules : filed(id) # {}}
  <1>1. /\ findings \in Seq(FiledRecords) /\ Len(findings) \in Nat
        /\ DOMAIN findings = 1 .. Len(findings)
        /\ \A i \in DOMAIN findings : findings[i].id \in Rules
    <2>1. findings \in Seq(FiledRecords)
      BY DEF LoopInv
    <2>2. QED
      BY <2>1, FiledOf
  <1>2. Snapshot = [id \in ids |-> findings[Max(filed(id))].status]
    BY DEF Snapshot
  <1>3. ids = {findings[i].id : i \in Among(findings, IsAssessed)}
    BY <1>1 DEF Among
  <1>4. ASSUME NEW id \in ids
        PROVE  Max(filed(id)) \in filed(id) /\ \A j \in filed(id) : j <= Max(filed(id))
    <2>1. /\ filed(id) \subseteq Nat /\ filed(id) # {} /\ Len(findings) \in Nat
          /\ \A j \in filed(id) : j <= Len(findings)
      BY <1>1 DEF Among
    <2> HIDE DEF filed
    <2>2. QED
      BY <2>1, MaxIsGreatest
  <1>5. ASSUME NEW id \in ids
        PROVE  LET i == Max(filed(id))
               IN /\ i \in DOMAIN findings /\ IsAssessed(findings[i]) /\ findings[i].id = id
                  /\ \A j \in DOMAIN findings :
                       IsAssessed(findings[j]) /\ findings[j].id = id => j <= i
    BY <1>4 DEF Among
  <1> HIDE DEF filed, ids
  <1>6. QED
    BY <1>2, <1>3, <1>5

(* Every step keeps the types.                                               *)
LEMMA TypeNext == IInv /\ LoopInv' /\ [Next]_vars => TypeOK'
  <1> SUFFICES ASSUME IInv, LoopInv', [Next]_vars PROVE TypeOK'
    OBVIOUS
  <1>0. /\ TypeOK /\ LoopInv /\ Len(Discovered) \in Nat
        /\ findings \in Seq(FiledRecords)
    BY EngineAssumption DEF IInv, LoopInv
  <1> USE <1>0
  <1>1. CASE Start
    BY <1>1 DEF Start, TypeOK, Empty
  <1>2. CASE PassOver
    BY <1>2, LoopTypes DEF PassOver
  <1>3. CASE SkipDisabled
    BY <1>3, LoopTypes DEF SkipDisabled
  <1>4. CASE SkipInapplicable
    BY <1>4, LoopTypes DEF SkipInapplicable
  <1>5. ASSUME NEW id, NEW status, NEW degraded, File(id, status, degraded)
        PROVE  Len(findings') = Len(findings) + 1
    BY <1>5 DEF File
  <1>6. CASE Degrade
    BY <1>5, <1>6, LoopTypes DEF Degrade
  <1>7. CASE Evaluate
    <2>1. PICK id \in Rules, status \in Statuses : File(id, status, FALSE) /\ Passes(id, status)
      BY <1>7 DEF Evaluate
    <2>2. Len(findings') = Len(findings) + 1 /\ InLoop /\ inapplicable' = inapplicable
      BY <1>5, <1>7, <2>1 DEF Evaluate
    <2>3. QED
      BY <2>1, <2>2, LoopTypes
  <1>13. CASE FileMalformed
    <2>1. PICK id \in Rules : File(id, Malformed, FALSE) /\ Passes(id, Malformed)
      BY <1>13 DEF FileMalformed
    <2>2. Len(findings') = Len(findings) + 1 /\ InLoop /\ inapplicable' = inapplicable
      BY <1>5, <1>13, <2>1 DEF FileMalformed
    <2>3. QED
      BY <2>1, <2>2, LoopTypes
  <1>8. CASE Raise \/ RaiseUnguarded
    <2>1. InLoop /\ Current \in Rules
      BY <1>8, NextRule DEF Raise, RaiseUnguarded, InLoop, Current
    <2>2. PICK id \in Rules, what \in {"misbehaved", Malformed} : EndsTheRun(id, what)
      BY <1>8, <2>1 DEF Raise, RaiseUnguarded
    <2>3. /\ pc' = "raised" /\ UNCHANGED <<loopVars, baseline, verdictVars, recorded>>
          /\ done' = With(Current, [id |-> id, what |-> what])
      BY <2>2 DEF EndsTheRun
    <2>4. [id |-> id, what |-> what] \in DoneRecords
      BY <2>2 DEF DoneRecords
    <2>5. DOMAIN done' \subseteq Rules /\ \A r \in DOMAIN done' : done'[r] \in DoneRecords
      BY <2>1, <2>3, <2>4 DEF With, TypeOK
    <2>6. QED
      BY <2>3, <2>5 DEF TypeOK, loopVars, verdictVars
  <1>9. CASE Finish
    BY <1>9 DEF Finish, TypeOK, loopVars, verdictVars
  <1>10. CASE WriteBaseline
    <2>1. /\ pc' = "ended" /\ baseline' = Snapshot /\ UNCHANGED <<loopVars, verdictVars, done>>
          /\ recorded' = [r \in {q \in DOMAIN done : done[q].what \in Assessed} |-> done[r]]
      BY <1>10 DEF WriteBaseline
    <2>2. DOMAIN baseline' \subseteq Rules /\ \A id \in DOMAIN baseline' : baseline'[id] \in Assessed
      <3>1. \A i \in DOMAIN findings : findings[i].id \in Rules
        BY FiledOf
      <3>2. DOMAIN Snapshot \subseteq Rules
        BY <3>1, SnapshotIsLast DEF Among
      <3>3. \A id \in DOMAIN Snapshot : Snapshot[id] \in Assessed
        BY SnapshotIsLast DEF IsAssessed
      <3>4. QED
        BY <2>1, <3>2, <3>3
    <2>3. DOMAIN recorded' \subseteq Rules /\ \A r \in DOMAIN recorded' : recorded'[r] \in DoneRecords
      BY <2>1 DEF TypeOK
    <2>4. QED
      BY <2>1, <2>2, <2>3 DEF TypeOK, loopVars, verdictVars
  <1>11. CASE Gate
    <2>1. PICK under \in Thresholds \cup {NoThreshold} :
            /\ threshold' = under
            /\ exit' \in IF Regressions # {} THEN {1} ELSE ThresholdVerdicts(under)
      BY <1>11 DEF Gate
    <2>2. exit' \in 0 .. 2
      BY <2>1 DEF ThresholdVerdicts
    <2>3. QED
      BY <1>11, <2>1, <2>2 DEF Gate, TypeOK, loopVars
  <1>12. CASE UNCHANGED vars
    BY <1>12 DEF vars, loopVars, verdictVars, TypeOK
  <1>14. QED
    BY <1>1, <1>2, <1>3, <1>4, <1>6, <1>7, <1>8, <1>9, <1>10, <1>11, <1>12, <1>13 DEF Next

----------------------------------------------------------------------------
(* The baseline and the verdict.                                             *)

(* The order of the rules has no cycle.                                      *)
LEMMA PrecedesIsStrict ==
  ASSUME NEW q, NEW r, Precedes(q, r)
  PROVE  ~ Precedes(r, q)
  <1>1. \A i, j \in DOMAIN Discovered : Discovered[i] = Discovered[j] => i = j
    BY EngineAssumption
  <1>2. PICK i, j \in DOMAIN Discovered : i < j /\ Discovered[i] = q /\ Discovered[j] = r
    BY DEF Precedes
  <1>3. ASSUME NEW k \in DOMAIN Discovered, NEW l \in DOMAIN Discovered,
               k < l, Discovered[k] = r, Discovered[l] = q
        PROVE  FALSE
    <2>1. k = j /\ l = i
      BY <1>1, <1>2, <1>3
    <2>2. i \in Nat /\ j \in Nat
      BY <1>2, DiscoveredLength
    <2>3. QED
      BY <1>2, <1>3, <2>1, <2>2
  <1>4. QED
    BY <1>3 DEF Precedes

(* A rule that answered is filed with its answer, and the other way round.   *)
LEMMA AnsweredIsFiled ==
  ASSUME LoopInv, NEW r \in DOMAIN done, done[r].what \in Assessed
  PROVE  \E i \in DOMAIN findings :
           /\ findings[i].rule = r /\ findings[i].id = done[r].id
           /\ findings[i].status = done[r].what /\ IsAssessed(findings[i])
  <1>1. done[r].what \in Statuses /\ done[r].what # "misbehaved"
    BY DEF Statuses, Applicable, Assessed
  <1>2. PICK i \in DOMAIN findings : findings[i].rule = r
    BY <1>1 DEF LoopInv, AnswersAreFiled
  <1>3. findings[i].id = done[r].id /\ findings[i].status = done[r].what
    BY <1>1, <1>2 DEF LoopInv, FiledAsDone
  <1>4. QED
    BY <1>2, <1>3 DEF IsAssessed

(* And a finding that was assessed is what its rule answered.                *)
LEMMA FiledIsAnswered ==
  ASSUME LoopInv, NEW i \in DOMAIN findings, IsAssessed(findings[i])
  PROVE  /\ findings[i].rule \in DOMAIN done /\ done[findings[i].rule].id = findings[i].id
         /\ done[findings[i].rule].what = findings[i].status
         /\ done[findings[i].rule].what \in Assessed /\ ~ findings[i].degraded
  <1>1. DegradedStatus \notin Assessed
    BY DEF DegradedStatus, Assessed
  <1>2. QED
    BY <1>1 DEF IsAssessed, LoopInv, FiledAsDone

(* The baseline a run writes holds the last answer under each id.            *)
LEMMA BaselineWritten ==
  ASSUME LoopInv, WriteBaseline
  PROVE  BaselineIsLastAnswer'
  <1> DEFINE answered == {q \in DOMAIN done : done[q].what \in Assessed}
  <1>1. /\ baseline' = Snapshot /\ DOMAIN recorded' = answered
        /\ \A r \in answered : recorded'[r] = done[r]
    BY DEF WriteBaseline
  <1>2. ASSUME NEW q \in answered, LastToAnswer(q)'
        PROVE  recorded'[q].id \in DOMAIN baseline' /\ baseline'[recorded'[q].id] = recorded'[q].what
    <2>1. PICK i \in DOMAIN findings :
            /\ findings[i].rule = q /\ findings[i].id = done[q].id
            /\ findings[i].status = done[q].what /\ IsAssessed(findings[i])
      BY AnsweredIsFiled
    <2>2. recorded'[q].id \in DOMAIN Snapshot
      BY <1>1, <2>1, SnapshotIsLast DEF Among
    <2>3. PICK k \in DOMAIN findings :
            /\ IsAssessed(findings[k]) /\ findings[k].id = recorded'[q].id
            /\ Snapshot[recorded'[q].id] = findings[k].status
            /\ \A j \in DOMAIN findings :
                 IsAssessed(findings[j]) /\ findings[j].id = recorded'[q].id => j <= k
      BY <2>2, SnapshotIsLast
    <2>4. i <= k /\ i \in Nat /\ k \in Nat
      BY <1>1, <2>1, <2>3, FindingsOf DEF LoopInv
    <2>5. findings[k].rule \in answered /\ recorded'[findings[k].rule].id = recorded'[q].id
      BY <1>1, <2>3, FiledIsAnswered
    <2>6. ~ Precedes(q, findings[k].rule)
      BY <1>1, <1>2, <2>5 DEF LastToAnswer
    <2>7. ~ (i < k)
      BY <2>1, <2>3, <2>6 DEF LoopInv, FiledInOrder
    <2>8. i = k
      BY <2>4, <2>7
    <2>9. QED
      BY <1>1, <2>1, <2>2, <2>3, <2>8
  <1>3. ASSUME NEW id \in DOMAIN baseline'
        PROVE  \E q \in answered : recorded'[q].id = id /\ LastToAnswer(q)'
    <2>1. PICK k \in DOMAIN findings :
            /\ IsAssessed(findings[k]) /\ findings[k].id = id
            /\ \A j \in DOMAIN findings : IsAssessed(findings[j]) /\ findings[j].id = id => j <= k
      BY <1>1, SnapshotIsLast
    <2>0. PICK q : q = findings[k].rule
      OBVIOUS
    <2>2. q \in answered /\ recorded'[q].id = id
      BY <1>1, <2>0, <2>1, FiledIsAnswered
    <2>3. ASSUME NEW r \in answered, recorded'[r].id = id, Precedes(q, r)
          PROVE  FALSE
      <3>1. PICK j \in DOMAIN findings :
              findings[j].rule = r /\ findings[j].id = done[r].id /\ IsAssessed(findings[j])
        BY AnsweredIsFiled
      <3>2. j <= k /\ j \in Nat /\ k \in Nat
        BY <1>1, <2>1, <2>3, <3>1, FindingsOf DEF LoopInv
      <3>3. CASE j = k
        BY <2>0, <2>3, <3>1, <3>3, PrecedesIsStrict
      <3>4. CASE j < k
        BY <2>0, <2>1, <2>3, <3>1, <3>4, PrecedesIsStrict DEF LoopInv, FiledInOrder
      <3>5. QED
        BY <3>2, <3>3, <3>4
    <2>4. LastToAnswer(q)'
      BY <1>1, <2>2, <2>3 DEF LastToAnswer
    <2>5. QED
      BY <2>2, <2>4
  <1> HIDE DEF answered
  <1>4. QED
    BY <1>1, <1>2, <1>3 DEF BaselineIsLastAnswer

(* Every step keeps the baseline equal to the last answers of its run.       *)
LEMMA BaselineNext == IInv /\ [Next]_vars => BaselineIsLastAnswer'
  <1> SUFFICES ASSUME IInv, [Next]_vars PROVE BaselineIsLastAnswer'
    OBVIOUS
  <1>1. CASE WriteBaseline
    BY <1>1, BaselineWritten DEF IInv
  <1>2. CASE UNCHANGED <<baseline, recorded>>
    BY <1>2 DEF IInv, BaselineIsLastAnswer, LastToAnswer
  <1>3. QED
    BY <1>1, <1>2 DEF Next, Start, PassOver, SkipDisabled, SkipInapplicable, Degrade, Raise, RaiseUnguarded,
       FileMalformed, EndsTheRun, Evaluate, Finish, Gate, Passes, vars

(* Every step keeps the exit code that of the card it was given for.         *)
LEMMA VerdictNext == IInv /\ [Next]_vars => VerdictStands'
  <1> SUFFICES ASSUME IInv, [Next]_vars PROVE VerdictStands'
    OBVIOUS
  <1>0. VerdictStands
    BY DEF IInv
  <1>1. ASSUME UNCHANGED <<findings, lines, inapplicable, baseline>>
        PROVE  Regressions' = Regressions /\ \A under : ThresholdVerdicts(under)' = ThresholdVerdicts(under)
    <2>1. Card' = Card
      BY <1>1 DEF Card
    <2>2. Regressions' = Regressions
      BY <1>1 DEF Regressions, Among, Regressed
    <2>3. QED
      BY <2>1, <2>2 DEF ThresholdVerdicts
  <1>2. CASE Gate
    <2>1. PICK under \in Thresholds \cup {NoThreshold} :
            /\ threshold' = under
            /\ exit' \in IF Regressions # {} THEN {1} ELSE ThresholdVerdicts(under)
      BY <1>2 DEF Gate
    <2>2. pc' = "ended" /\ UNCHANGED <<findings, lines, inapplicable, baseline>>
      BY <1>2 DEF Gate, loopVars
    <2>3. QED
      BY <1>1, <2>1, <2>2 DEF VerdictStands
  <1>3. CASE UNCHANGED vars
    <2>1. UNCHANGED <<pc, exit, threshold, findings, lines, inapplicable, baseline>>
      BY <1>3 DEF vars, loopVars, verdictVars
    <2>2. QED
      BY <1>0, <1>1, <2>1 DEF VerdictStands
  <1>4. CASE exit' = 2
    BY <1>4 DEF VerdictStands
  <1>5. Next /\ ~ Gate => exit' = 2
    <2>1. pc # "ended" => exit = 2
      BY <1>0 DEF VerdictStands
    <2>2. QED
      BY <2>1 DEF Next, Start, PassOver, SkipDisabled, SkipInapplicable, Degrade, Raise, RaiseUnguarded,
         FileMalformed, EndsTheRun, Evaluate, Finish, WriteBaseline, InLoop, Passes, verdictVars
  <1>6. QED
    BY <1>2, <1>3, <1>4, <1>5

----------------------------------------------------------------------------
(* The inductive invariant: the types, the rule loop, the baseline and the   *)
(* verdict of a check.                                                       *)
THEOREM InductiveInvariant == Spec => []IInv
  <1>1. ASSUME Init PROVE IInv
    <2>1. findings = <<>> /\ DOMAIN done = {} /\ at = 1 /\ pc = "idle" /\ Len(Discovered) \in Nat
      BY <1>1, EngineAssumption DEF Init, Empty
    <2>2. LoopInv
      BY <2>1 DEF LoopInv, LoopProgress, FiledAsDone, OneFindingEach, FiledInOrder, AnswersAreFiled,
                  Scored
    <2>3. TypeOK
      BY <1>1, DiscoveredLength DEF Init, TypeOK, Empty
    <2>4. BaselineIsLastAnswer /\ VerdictStands
      BY <1>1 DEF Init, Empty, BaselineIsLastAnswer, VerdictStands
    <2>5. QED
      BY <2>2, <2>3, <2>4 DEF IInv
  <1>2. IInv /\ [Next]_vars => IInv'
    <2>1. IInv /\ [Next]_vars => LoopInv'
      BY LoopNext DEF IInv
    <2>2. QED
      BY <2>1, TypeNext, BaselineNext, VerdictNext DEF IInv
  <1>3. QED
    BY <1>1, <1>2, PTL DEF Spec

(* Every run keeps its types, whatever rule packs answer.                    *)
THEOREM TypeCorrect == Spec => []TypeOK
  <1>1. IInv => TypeOK
    BY DEF IInv
  <1>2. QED
    BY <1>1, InductiveInvariant, PTL

(* Whatever ids a rule pack claims, what stands under a built-in's id is     *)
(* what that rule answered.                                                  *)
THEOREM BuiltinsSpeakForThemselvesHolds == Spec => []BuiltinsSpeakForThemselves
  <1>1. IInv => BuiltinsSpeakForThemselves
    <2> SUFFICES ASSUME LoopInv, Scored, NEW b \in Builtin
                 PROVE  LET filed == {i \in DOMAIN findings : findings[i].id = b}
                        IN IF done[b].what \in Statuses
                           THEN \E i \in filed : filed = {i} /\ findings[i].status = done[b].what
                           ELSE filed = {}
      BY DEF IInv, BuiltinsSpeakForThemselves
    <2> DEFINE filed == {i \in DOMAIN findings : findings[i].id = b}
    <2>1. b \in DOMAIN done
      BY EngineAssumption DEF LoopInv, LoopProgress, Scored
    <2>2. \A i \in DOMAIN findings : findings[i].id = b <=> findings[i].rule = b
      BY <2>1 DEF LoopInv, FiledAsDone, AnswersAreFiled
    <2>3. \A i \in filed : findings[i].status = done[b].what /\ findings[i] \in FindingRecords
      BY <2>2 DEF LoopInv, FiledAsDone
    <2>4. CASE done[b].what \in Statuses
      <3>1. PICK i \in filed : TRUE
        BY <2>1, <2>2, <2>4 DEF LoopInv, AnswersAreFiled
      <3>2. filed = {i}
        BY <2>2, <3>1 DEF LoopInv, OneFindingEach
      <3>3. QED
        BY <2>3, <2>4, <3>2
    <2>5. CASE done[b].what \notin Statuses
      BY <2>3, <2>5 DEF FindingRecords
    <2>6. QED
      BY <2>4, <2>5
  <1>2. QED
    BY <1>1, InductiveInvariant, PTL

(* A check without --fail-under fails exactly when some rule answered worse  *)
(* than what the baseline's run last answered under its id, for any rules in *)
(* any order, whatever ids rule packs share.                                 *)
THEOREM RatchetCatchesRegressionsHolds == Spec => []RatchetCatchesRegressions
  <1>1. ASSUME IInv, exit # 2, threshold = NoThreshold
        PROVE  exit = 1 <=>
                 \E i \in DOMAIN findings, q \in DOMAIN recorded :
                   /\ ~ findings[i].suppressed
                   /\ LET now == done[findings[i].rule]
                          then == recorded[q]
                      IN /\ now.what \in Assessed /\ now.id = then.id /\ LastToAnswer(q)
                         /\ Rank(now.what) < Rank(then.what)
    <2>1. exit = 1 <=> Regressions # {}
      BY <1>1 DEF IInv, VerdictStands, ThresholdVerdicts
    <2>2. LoopInv /\ BaselineIsLastAnswer
      BY <1>1 DEF IInv
    <2>3. ASSUME NEW i \in DOMAIN findings, Regressed(findings[i])
          PROVE  \E q \in DOMAIN recorded :
                   /\ ~ findings[i].suppressed
                   /\ LET now == done[findings[i].rule]
                          then == recorded[q]
                      IN /\ now.what \in Assessed /\ now.id = then.id /\ LastToAnswer(q)
                         /\ Rank(now.what) < Rank(then.what)
      <3>1. /\ ~ findings[i].suppressed /\ IsAssessed(findings[i])
            /\ findings[i].id \in DOMAIN baseline
            /\ Rank(findings[i].status) < Rank(baseline[findings[i].id])
        BY <2>3 DEF Regressed, Comparable
      <3>2. PICK q \in DOMAIN recorded : recorded[q].id = findings[i].id /\ LastToAnswer(q)
        BY <2>2, <3>1 DEF BaselineIsLastAnswer
      <3>3. baseline[findings[i].id] = recorded[q].what
        BY <2>2, <3>2 DEF BaselineIsLastAnswer
      <3>4. QED
        BY <2>2, <3>1, <3>2, <3>3, FiledIsAnswered
    <2>4. ASSUME NEW i \in DOMAIN findings, NEW q \in DOMAIN recorded, ~ findings[i].suppressed,
                 done[findings[i].rule].what \in Assessed,
                 done[findings[i].rule].id = recorded[q].id, LastToAnswer(q),
                 Rank(done[findings[i].rule].what) < Rank(recorded[q].what)
          PROVE  Regressed(findings[i])
      <3>1. /\ findings[i].id = done[findings[i].rule].id
            /\ findings[i].status = done[findings[i].rule].what
        BY <2>2, <2>4 DEF LoopInv, FiledAsDone, Assessed
      <3>2. findings[i].id \in DOMAIN baseline /\ baseline[findings[i].id] = recorded[q].what
        BY <2>2, <2>4, <3>1 DEF BaselineIsLastAnswer
      <3>3. QED
        BY <2>4, <3>1, <3>2 DEF Regressed, Comparable, IsAssessed
    <2>5. QED
      BY <2>1, <2>3, <2>4 DEF Regressions, Among
  <1>2. IInv => RatchetCatchesRegressions
    BY <1>1 DEF RatchetCatchesRegressions
  <1>3. QED
    BY <1>2, InductiveInvariant, PTL

----------------------------------------------------------------------------
(* The drafted answers.                                                      *)

(* A draft cites only what a finding of this run showed.                     *)
LEMMA CitedAreFound ==
  ASSUME LoopInv, NEW item, NEW i \in Cited(item)
  PROVE  /\ i \in DOMAIN findings /\ findings[i].id \in item /\ findings[i].id \in Rules
         /\ findings[i].id # "manifest"
  <1> DEFINE filed(id) == {k \in DOMAIN findings : findings[k].id = id}
  <1>1. PICK id \in {findings[k].id : k \in DOMAIN findings} \cap item : i = Max(filed(id))
    BY DEF Cited
  <1>2. /\ filed(id) \subseteq Nat /\ filed(id) # {} /\ Len(findings) \in Nat
        /\ \A k \in filed(id) : k <= Len(findings)
    BY <1>1, FindingsOf DEF LoopInv
  <1>3. i \in filed(id)
    <2> HIDE DEF filed
    <2>1. QED
      BY <1>1, <1>2, MaxIsGreatest
  <1>4. i \in DOMAIN findings /\ findings[i].id = id /\ id \in item
    BY <1>1, <1>3
  <1>5. QED
    BY <1>4, FiledOf, AnswersAssumption DEF LoopInv

(* What a draft rests on.  A "yes": the confirmed manifest, or checks that   *)
(* all passed where they could be located, surely enough; a "partial": a     *)
(* check that passed, or passed in part; a "not_detected": one that failed.  *)
LEMMA DraftRests ==
  ASSUME NEW cited, NEW sight, NEW backed \in BOOLEAN, NEW strict \in BOOLEAN
  PROVE  LET answer == Derived(cited, sight, backed, strict)
         IN /\ answer = "yes" =>
                 \A i \in cited : IsAssessed(findings[i]) =>
                   /\ Status(i) = "pass"
                   /\ backed = FALSE => /\ sight[i].located
                                        /\ sight[i].confidence >= YesMin(strict)
            /\ answer \in {"yes", "partial"} => \E i \in cited : Status(i) \in {"pass", "partial"}
            /\ answer = "not_detected" => \E i \in cited : Status(i) = "fail"
  <1> DEFINE scored == {i \in cited : IsAssessed(findings[i])}
             answer == Derived(cited, sight, backed, strict)
  <1>1. answer \in {"yes", "partial", "not_detected"} =>
          answer = FirstAnswer(scored, sight, backed, strict)
    BY DEF Derived
  <1>2. ASSUME answer = "yes", NEW i \in cited, IsAssessed(findings[i])
        PROVE  /\ Status(i) = "pass"
               /\ backed = FALSE => /\ sight[i].located
                                    /\ sight[i].confidence >= YesMin(strict)
    <2>1. FirstAnswer(scored, sight, backed, strict) = "yes"
      BY <1>1, <1>2
    <2>2. /\ \A k \in scored : Status(k) = "pass"
          /\ backed \/ \A k \in scored : sight[k].located /\ sight[k].confidence >= YesMin(strict)
      BY <2>1 DEF FirstAnswer
    <2>3. QED
      BY <1>2, <2>2
  <1>3. ASSUME answer \in {"yes", "partial"}
        PROVE  \E i \in cited : Status(i) \in {"pass", "partial"}
    <2>1. FirstAnswer(scored, sight, backed, strict) \in {"yes", "partial"}
      BY <1>1, <1>3
    <2>2. PICK i \in cited : IsAssessed(findings[i]) /\ Status(i) # "fail"
      BY <2>1 DEF FirstAnswer
    <2>3. QED
      BY <2>2 DEF IsAssessed, Assessed, Status
  <1>4. ASSUME answer = "not_detected" PROVE \E i \in cited : Status(i) = "fail"
    <2>1. FirstAnswer(scored, sight, backed, strict) = "not_detected"
      BY <1>1, <1>4
    <2>2. QED
      BY <2>1 DEF FirstAnswer
  <1>5. QED
    BY <1>2, <1>3, <1>4

(* The confidence of a finding's location is a number out of a hundred.      *)
LEMMA SightsAreNumbers ==
  ASSUME NEW cited, NEW sight \in [cited -> [confidence : Confidences, located : BOOLEAN]],
         NEW i \in cited
  PROVE  sight[i].confidence \in Nat
  <1>1. sight[i] \in [confidence : Confidences, located : BOOLEAN]
    OBVIOUS
  <1>2. sight[i].confidence \in Confidences
    BY <1>1
  <1>3. sight[i].confidence \in 0 .. 100
    BY <1>2, AnswersAssumption
  <1>4. QED
    BY <1>3

(* Raising the bar never strengthens an answer.                              *)
LEMMA StrictIsNoStronger ==
  ASSUME NEW cited, NEW sight \in [cited -> [confidence : Confidences, located : BOOLEAN]],
         NEW backed \in BOOLEAN
  PROVE  Level(Derived(cited, sight, backed, TRUE)) =< Level(Derived(cited, sight, backed, FALSE))
  <1> DEFINE scored == {i \in cited : IsAssessed(findings[i])}
             lax == FirstAnswer(scored, sight, backed, FALSE)
             hard == FirstAnswer(scored, sight, backed, TRUE)
  <1>1. \A i \in scored : sight[i].confidence \in Nat
    BY SightsAreNumbers
  <1>2. /\ \A i \in scored : sight[i].confidence >= 90 => sight[i].confidence >= 85
        /\ \A i \in scored : sight[i].confidence >= 85 => sight[i].confidence >= 50
    BY <1>1
  <1>3. lax = hard \/ hard \notin {"yes", "partial"} \/ (lax = "yes" /\ hard = "partial")
    BY <1>2 DEF FirstAnswer, YesMin, PartialMin
  <1> DEFINE soft == Derived(cited, sight, backed, FALSE)
             firm == Derived(cited, sight, backed, TRUE)
  <1>4. soft = lax /\ firm \in {hard, "author_input_required"}
    BY DEF Derived
  <1> HIDE DEF lax, hard, soft, firm
  <1>5. soft = firm \/ firm \notin {"yes", "partial"} \/ (soft = "yes" /\ firm = "partial")
    BY <1>3, <1>4
  <1>6. \A a : Level(a) \in {0, 1, 2} /\ (a \notin {"yes", "partial"} => Level(a) = 0)
    BY DEF Level
  <1>7. Level("yes") = 2 /\ Level("partial") = 1
    BY DEF Level
  <1>8. Level(firm) =< Level(soft)
    <2>1. CASE soft = firm
      BY <1>6, <2>1
    <2>2. CASE firm \notin {"yes", "partial"}
      BY <1>6, <2>2
    <2>3. CASE soft = "yes" /\ firm = "partial"
      BY <1>7, <2>3
    <2>4. QED
      BY <1>5, <2>1, <2>2, <2>3
  <1>9. QED
    BY <1>8 DEF soft, firm

(* The evidence an entry writes down is what the audit of the ledger takes   *)
(* it to be.                                                                 *)
LEMMA SeenIsValid ==
  ASSUME LoopInv, NEW item, NEW sight, NEW e \in Seen(Cited(item), sight)
  PROVE  /\ e.kind \in item /\ e.kind # "manifest"
         /\ e.strength \in {"direct", "inferred"} /\ (e.strength = "direct" => e.located)
         /\ e # FromManifest
  <1>1. PICK i \in Cited(item) :
          e = [kind |-> findings[i].id, located |-> sight[i].located, confidence |-> sight[i].confidence,
               strength |-> IF sight[i].confidence >= DirectMin /\ sight[i].located
                            THEN "direct" ELSE "inferred"]
    BY DEF Seen
  <1>2. /\ e.kind = findings[i].id /\ e.located = sight[i].located
        /\ e.strength = IF sight[i].confidence >= DirectMin /\ sight[i].located
                        THEN "direct" ELSE "inferred"
    BY <1>1
  <1>3. FromManifest.kind = "manifest"
    BY DEF FromManifest
  <1>4. QED
    BY <1>2, <1>3, CitedAreFound

(* Every entry, of a checklist or of the appendix, stands up to the audit.   *)
LEMMA DraftStands ==
  ASSUME LoopInv, NEW item \in Items, NEW sight \in Sights(item), NEW case \in Cases,
         NEW strict \in BOOLEAN
  PROVE  LET entry == Entry(item, sight, case, strict)
         IN Validates(entry) /\ Complaints(entry, strict) = {}
  <1> DEFINE cited == Cited(item)
             backed == case.kind = "checklist" /\ Supports(cited, case.supported)
             states == case.kind = "appendix" /\ case.stated
             manual == case.kind = "checklist" /\ case.manual
             answer == Derived(cited, sight, backed, strict)
             entry == Entry(item, sight, case, strict)
  <1>1. /\ entry.answer = IF manual THEN "author_input_required" ELSE answer
        /\ entry.evidence = (IF manual THEN {} ELSE ItemsFor(cited, sight, backed))
                               \cup (IF states THEN {FromManifest} ELSE {})
        /\ entry.searched = item \cup (IF backed \/ states THEN {"manifest"} ELSE {})
        /\ entry.missing = {i \in cited : Status(i) = "fail"}
        /\ entry.conflicts = {i \in cited : findings[i].id \in Conflicting
                                            /\ Status(i) \in {"partial", "fail"}}
    BY DEF Entry
  <1>2. backed \in BOOLEAN
    OBVIOUS
  <1> HIDE DEF entry, answer, manual, states, backed
  <1>3. ASSUME NEW e \in entry.evidence
        PROVE  /\ e.kind \in entry.searched
               /\ e.kind = "manifest" <=> e.strength = "manifest_author_confirmed"
               /\ e.kind = "manifest" => e = FromManifest
               /\ e.strength = "direct" => e.located
    <2>1. CASE e \in Seen(cited, sight)
      BY <1>1, <2>1, SeenIsValid
    <2>2. CASE e = FromManifest /\ (backed \/ states)
      BY <1>1, <2>2 DEF FromManifest
    <2>3. e \in Seen(cited, sight) \/ (e = FromManifest /\ (backed \/ states))
      BY <1>1, <1>3 DEF ItemsFor
    <2>4. QED
      BY <2>1, <2>2, <2>3
  <1>4. ASSUME entry.answer = "not_detected"
        PROVE  entry.searched # {} /\ entry.missing # {}
    <2>1. answer = "not_detected"
      BY <1>1, <1>4
    <2>2. \E i \in cited : Status(i) = "fail"
      BY <1>2, <2>1, DraftRests DEF answer
    <2>3. QED
      BY <1>1, <2>2 DEF Items
  <1>5. Validates(entry)
    BY <1>3, <1>4 DEF Validates
  <1>6. ASSUME entry.answer \in {"yes", "partial"}
        PROVE  /\ ~ manual /\ entry.answer = answer
               /\ ItemsFor(cited, sight, backed) \subseteq entry.evidence
               /\ Seen(cited, sight) # {}
    <2>1. ~ manual /\ entry.answer = answer /\ ItemsFor(cited, sight, backed) \subseteq entry.evidence
      BY <1>1, <1>6
    <2>2. \E i \in cited : Status(i) \in {"pass", "partial"}
      <3>1. Derived(cited, sight, backed, strict) \in {"yes", "partial"}
        BY <1>6, <2>1 DEF answer
      <3> HIDE DEF cited
      <3>2. QED
        BY <1>2, <3>1, DraftRests
    <2>3. QED
      BY <2>1, <2>2 DEF Seen
  <1>7. ASSUME entry.answer = "yes" PROVE YesIsStrong(entry, strict)
    <2>1. /\ ~ manual /\ answer = "yes" /\ entry.evidence # {}
          /\ entry.evidence = ItemsFor(cited, sight, backed) \cup (IF states THEN {FromManifest} ELSE {})
      BY <1>1, <1>6, <1>7 DEF ItemsFor
    <2> DEFINE scored == {i \in cited : IsAssessed(findings[i])}
    <2>2. /\ \A i \in scored : Status(i) = "pass"
          /\ backed \/ \A i \in scored : sight[i].located /\ sight[i].confidence >= YesMin(strict)
      <3>1. Derived(cited, sight, backed, strict) = "yes"
        BY <2>1 DEF answer
      <3>2. \A i \in cited : IsAssessed(findings[i]) =>
              /\ Status(i) = "pass"
              /\ backed = FALSE => /\ sight[i].located
                                   /\ sight[i].confidence >= YesMin(strict)
        <4> HIDE DEF cited
        <4>1. QED
          BY <1>2, <3>1, DraftRests, ZenonT(60)
      <3>3. QED
        BY <1>2, <3>2
    <2>3. entry.conflicts = {}
      BY <1>1, <2>2 DEF IsAssessed, Assessed, Status
    <2>4. CASE FromManifest \in entry.evidence
      BY <2>1, <2>3, <2>4 DEF YesIsStrong
    <2>5. CASE FromManifest \notin entry.evidence
      <3>1. ~ backed /\ entry.evidence = Seen(cited, sight)
        BY <2>1, <2>5 DEF ItemsFor
      <3>2. ASSUME NEW e \in Seen(cited, sight)
            PROVE  e.strength = "direct" /\ e.located /\ e.confidence >= YesMin(strict)
        <4>1. PICK i \in cited :
                /\ Status(i) \in {"pass", "partial"}
                /\ e = [kind |-> findings[i].id, located |-> sight[i].located,
                        confidence |-> sight[i].confidence,
                        strength |-> IF sight[i].confidence >= DirectMin /\ sight[i].located
                                     THEN "direct" ELSE "inferred"]
          BY DEF Seen
        <4>2. i \in scored
          BY <4>1 DEF IsAssessed, Assessed, Status
        <4>3. sight[i].located /\ sight[i].confidence >= YesMin(strict)
          BY <2>2, <3>1, <4>2
        <4>4. sight[i].confidence \in Nat
          BY <4>1, SightsAreNumbers DEF Sights
        <4>5. sight[i].confidence >= DirectMin
          BY <4>3, <4>4 DEF DirectMin, YesMin
        <4>6. QED
          BY <4>1, <4>3, <4>5
      <3>3. QED
        BY <2>1, <2>3, <3>1, <3>2 DEF YesIsStrong
    <2>6. QED
      BY <2>4, <2>5
  <1>8. Complaints(entry, strict) = {}
    BY <1>6, <1>7 DEF Complaints, ItemsFor
  <1>9. QED
    BY <1>5, <1>8 DEF entry

(* Whatever the run found, however sure and wherever it was seen, what is    *)
(* drafted from it validates and draws no complaint of its own, and a higher *)
(* bar never strengthens an answer.                                          *)
THEOREM DraftsSurviveTheirAuditHolds == Spec => []DraftsSurviveTheirAudit
  <1>1. ASSUME LoopInv, NEW item \in Items, NEW sight \in Sights(item), NEW case \in Cases
        PROVE  Level(Entry(item, sight, case, TRUE).answer)
                 =< Level(Entry(item, sight, case, FALSE).answer)
    <2> DEFINE backed == case.kind = "checklist" /\ Supports(Cited(item), case.supported)
               manual == case.kind = "checklist" /\ case.manual
               answer(strict) == Derived(Cited(item), sight, backed, strict)
    <2>1. \A strict \in BOOLEAN :
            Entry(item, sight, case, strict).answer
              = IF manual THEN "author_input_required" ELSE answer(strict)
      BY DEF Entry
    <2>2. Level(answer(TRUE)) =< Level(answer(FALSE))
      BY StrictIsNoStronger DEF Sights
    <2>3. Level("author_input_required") =< Level("author_input_required")
      BY DEF Level
    <2> HIDE DEF answer, manual
    <2>4. CASE manual
      BY <2>1, <2>3, <2>4
    <2>5. CASE ~ manual
      BY <2>1, <2>2, <2>5, Zenon
    <2>6. QED
      BY <2>4, <2>5
  <1>2. IInv => DraftsSurviveTheirAudit
    BY <1>1, DraftStands DEF IInv, DraftsSurviveTheirAudit
  <1>3. QED
    BY <1>2, InductiveInvariant, PTL

----------------------------------------------------------------------------
(* A fold over a finite set, as a recursion over its subsets.                *)
Combine(kind, a, b) == IF kind = "sum" THEN a + b ELSE a * b
Neutral(kind) == IF kind = "sum" THEN 0 ELSE 1
Pick(s) == CHOOSE x \in s : TRUE
Step(kind, w, g, s) ==
  IF s = {} THEN Neutral(kind) ELSE Combine(kind, w[Pick(s)], g[s \ {Pick(s)}])
IsFold(kind, w, S, g) == g = [s \in SUBSET S |-> Step(kind, w, g, s)]
Value(kind, w) == IF kind = "sum" THEN SumFunction(w) ELSE ProductFunction(w)

(* The recursion of a fold over a finite set has a solution: it has one up   *)
(* to every cardinality.                                                     *)
LEMMA FoldExists ==
  ASSUME NEW kind, NEW w, NEW S, IsFiniteSet(S)
  PROVE  \E g : IsFold(kind, w, S, g)
  <1> DEFINE upTo(n, g) ==
        /\ g = [s \in SUBSET S |-> g[s]]
        /\ \A s \in SUBSET S : Cardinality(s) <= n => g[s] = Step(kind, w, g, s)
      bad == {n \in Nat : ~ \E g : upTo(n, g)}
  <1>1. \A s \in SUBSET S : IsFiniteSet(s) /\ Cardinality(s) \in Nat
    BY FS_Subset, FS_CardinalityType
  <1>2. \E g : upTo(0, g)
    <2> DEFINE h == [s \in SUBSET S |-> Neutral(kind)]
    <2>1. \A s \in SUBSET S : Cardinality(s) <= 0 => s = {}
      BY <1>1, FS_EmptySet
    <2>2. upTo(0, h)
      BY <2>1 DEF Step
    <2>3. QED
      BY <2>2
  <1>3. ASSUME NEW n \in Nat, \E g : upTo(n, g) PROVE \E g : upTo(n + 1, g)
    <2>1. PICK g : upTo(n, g)
      BY <1>3
    <2> DEFINE h == [s \in SUBSET S |-> Step(kind, w, g, s)]
    <2>2. ASSUME NEW s \in SUBSET S, Cardinality(s) <= n + 1 PROVE h[s] = Step(kind, w, h, s)
      <3>1. CASE s = {}
        BY <3>1 DEF Step
      <3>2. CASE s # {}
        <4> DEFINE r == s \ {Pick(s)}
        <4>1. r \in SUBSET S /\ Cardinality(r) <= n
          <5>1. Pick(s) \in s
            BY <3>2 DEF Pick
          <5> DEFINE x == Pick(s)
          <5> HIDE DEF x
          <5>2. x \in s
            BY <5>1 DEF x
          <5>3. s \ {x} \in SUBSET S /\ Cardinality(s \ {x}) = Cardinality(s) - 1
            BY <1>1, <5>2, FS_RemoveElement
          <5>4. QED
            BY <1>1, <2>2, <5>3 DEF x
        <4>2. h[r] = g[r]
          BY <2>1, <4>1
        <4>3. QED
          BY <4>2 DEF Step
      <3>3. QED
        BY <3>1, <3>2
    <2>3. upTo(n + 1, h)
      BY <2>2
    <2> HIDE DEF upTo, h
    <2>4. QED
      BY <2>3
  <1>4. bad = {}
    <2> SUFFICES ASSUME bad # {} PROVE FALSE
      OBVIOUS
    <2> HIDE DEF upTo
    <2>1. PICK m \in bad : \A n \in bad : m <= n
      BY LeastNumber
    <2>2. m # 0 /\ m - 1 \in Nat /\ m - 1 \notin bad
      BY <1>2, <2>1
    <2>3. QED
      BY <1>3, <2>1, <2>2
  <1>5. PICK g : upTo(Cardinality(S), g)
    <2> HIDE DEF upTo
    <2>1. QED
      BY <1>1, <1>4
  <1>6. \A s \in SUBSET S : Cardinality(s) <= Cardinality(S)
    BY FS_Subset
  <1>7. IsFold(kind, w, S, g)
    BY <1>5, <1>6 DEF IsFold
  <1>8. QED
    BY <1>7

(* The sum and the product are those recursions, started at 0 and at 1.      *)
LEMMA ValueIsFold ==
  ASSUME NEW kind \in {"sum", "product"}, NEW w, IsFiniteSet(DOMAIN w)
  PROVE  \E g : IsFold(kind, w, DOMAIN w, g) /\ Value(kind, w) = g[DOMAIN w]
  <1> DEFINE S == DOMAIN w
             Sum(g) == g = [s \in SUBSET S |->
                              IF s = {} THEN 0
                              ELSE w[CHOOSE x \in s : TRUE] + g[s \ {CHOOSE x \in s : TRUE}]]
             Product(g) == g = [s \in SUBSET S |->
                                  IF s = {} THEN 1
                                  ELSE w[CHOOSE x \in s : TRUE] * g[s \ {CHOOSE x \in s : TRUE}]]
  <1>1. CASE kind = "sum"
    <2>1. PICK g : IsFold("sum", w, S, g)
      BY FoldExists
    <2>2. Sum(g)
      BY <2>1 DEF IsFold, Step, Combine, Neutral, Pick
    <2>3. Sum(CHOOSE h : Sum(h))
      <3> HIDE DEF Sum
      <3>1. QED
        BY <2>2
    <2>4. SumFunction(w) = (CHOOSE h : Sum(h))[S]
      BY DEF SumFunction, SumFunctionOnSet, FoldFunctionOnSet, MapThenFoldSet
    <2>5. QED
      BY <1>1, <2>3, <2>4 DEF IsFold, Step, Combine, Neutral, Pick, Value
  <1>2. CASE kind = "product"
    <2>1. PICK g : IsFold("product", w, S, g)
      BY FoldExists
    <2>2. Product(g)
      BY <2>1 DEF IsFold, Step, Combine, Neutral, Pick
    <2>3. Product(CHOOSE h : Product(h))
      <3> HIDE DEF Product
      <3>1. QED
        BY <2>2
    <2>4. ProductFunction(w) = (CHOOSE h : Product(h))[S]
      BY DEF ProductFunction, FoldFunction, FoldFunctionOnSet, MapThenFoldSet
    <2>5. QED
      BY <1>2, <2>3, <2>4 DEF IsFold, Step, Combine, Neutral, Pick, Value
  <1>3. QED
    BY <1>1, <1>2

(* Two elements may be combined with the rest in either order.               *)
LEMMA CombineSwaps ==
  ASSUME NEW kind, NEW a \in Nat, NEW b \in Nat, NEW c \in Nat
  PROVE  Combine(kind, a, Combine(kind, b, c)) = Combine(kind, b, Combine(kind, a, c))
  <1>1. a * (b * c) = b * (a * c) /\ a + (b + c) = b + (a + c)
    OBVIOUS
  <1>2. QED
    BY <1>1 DEF Combine

(* Any element may be taken out first.                                       *)
LEMMA FoldTake ==
  ASSUME NEW kind, NEW S, IsFiniteSet(S), NEW w \in [S -> Nat], NEW g, IsFold(kind, w, S, g)
  PROVE  \A s \in SUBSET S :
           /\ g[s] \in Nat
           /\ \A x \in s : g[s] = Combine(kind, w[x], g[s \ {x}])
  <1> DEFINE good(s) == g[s] \in Nat /\ \A x \in s : g[s] = Combine(kind, w[x], g[s \ {x}])
             bad == {s \in SUBSET S : ~ good(s)}
  <1>1. SUFFICES ASSUME bad # {} PROVE FALSE
    OBVIOUS
  <1>2. PICK s \in bad : \A r \in bad : r \subseteq s => r = s
    <2>1. bad \subseteq SUBSET S
      OBVIOUS
    <2> HIDE DEF bad
    <2>2. QED
      BY <1>1, <2>1, SmallestSubset
  <1>3. \A r \in SUBSET S : r \subseteq s /\ r # s => good(r)
    BY <1>2
  <1>4. CASE s = {}
    BY <1>2, <1>4 DEF IsFold, Step, Neutral
  <1>5. CASE s # {}
    <2> DEFINE c == Pick(s)
    <2>1. c \in s /\ g[s] = Combine(kind, w[c], g[s \ {c}]) /\ w[c] \in Nat
      BY <1>2, <1>5 DEF IsFold, Step, Pick
    <2> HIDE DEF c
    <2>2. s \ {c} \in SUBSET S /\ s \ {c} \subseteq s /\ s \ {c} # s
      BY <1>2, <2>1
    <2>3. g[s \ {c}] \in Nat
      BY <1>3, <2>2
    <2>4. g[s] \in Nat
      <3>1. w[c] * g[s \ {c}] \in Nat /\ w[c] + g[s \ {c}] \in Nat
        BY <2>1, <2>3
      <3>2. QED
        BY <2>1, <3>1 DEF Combine
    <2>5. ASSUME NEW x \in s PROVE g[s] = Combine(kind, w[x], g[s \ {x}])
      <3>1. CASE x = c
        BY <2>1, <3>1
      <3>2. CASE x # c
        <4> DEFINE r == (s \ {c}) \ {x}
        <4>1. r = (s \ {x}) \ {c} /\ r \in SUBSET S /\ r \subseteq s /\ r # s /\ x \in s \ {c} /\ c \in s \ {x}
          BY <1>2, <2>1, <3>2
        <4>2. s \ {x} \in SUBSET S /\ s \ {x} \subseteq s /\ s \ {x} # s
          BY <1>2
        <4>3. g[s \ {c}] = Combine(kind, w[x], g[r])
          BY <1>3, <2>2, <4>1
        <4>4. g[s \ {x}] = Combine(kind, w[c], g[r]) /\ g[r] \in Nat
          BY <1>3, <4>1, <4>2
        <4>5. w[x] \in Nat
          BY <1>2
        <4>6. QED
          <5>1. Combine(kind, w[c], Combine(kind, w[x], g[r]))
                  = Combine(kind, w[x], Combine(kind, w[c], g[r]))
            BY <2>1, <4>4, <4>5, CombineSwaps, Zenon
          <5>2. QED
            BY <2>1, <4>3, <4>4, <5>1, Zenon
      <3>3. QED
        BY <3>1, <3>2
    <2>6. QED
      BY <1>2, <2>4, <2>5
  <1>6. QED
    BY <1>4, <1>5

(* A fold over part of the elements is the fold of that part.                *)
LEMMA FoldUnique ==
  ASSUME NEW kind, NEW S, IsFiniteSet(S), NEW R, R \subseteq S, NEW w, NEW v, NEW g, NEW h,
         IsFold(kind, w, S, g), IsFold(kind, v, R, h), \A x \in R : w[x] = v[x]
  PROVE  g[R] = h[R]
  <1> DEFINE bad == {s \in SUBSET R : g[s] # h[s]}
  <1>1. SUFFICES ASSUME bad # {} PROVE FALSE
    OBVIOUS
  <1>2. PICK s \in bad : \A r \in bad : r \subseteq s => r = s
    <2>1. bad \subseteq SUBSET S
      OBVIOUS
    <2> HIDE DEF bad
    <2>2. QED
      BY <1>1, <2>1, SmallestSubset
  <1>3. s \in SUBSET S /\ s \in SUBSET R
    BY <1>2
  <1>4. CASE s = {}
    BY <1>2, <1>3, <1>4 DEF IsFold, Step
  <1>5. CASE s # {}
    <2> DEFINE c == Pick(s)
    <2>1. /\ c \in s /\ g[s] = Combine(kind, w[c], g[s \ {c}])
          /\ h[s] = Combine(kind, v[c], h[s \ {c}])
      BY <1>3, <1>5 DEF IsFold, Step, Pick
    <2> HIDE DEF c
    <2>2. s \ {c} \in SUBSET R /\ s \ {c} \subseteq s /\ s \ {c} # s
      BY <1>3, <2>1
    <2>3. g[s \ {c}] = h[s \ {c}]
      BY <1>2, <2>2
    <2>4. QED
      BY <1>2, <1>3, <2>1, <2>3
  <1>6. QED
    BY <1>4, <1>5

(* One element taken out and the rest summed, or multiplied.                 *)
LEMMA ValueTake ==
  ASSUME NEW kind \in {"sum", "product"}, NEW S, IsFiniteSet(S), NEW w \in [S -> Nat]
  PROVE  /\ Value(kind, w) \in Nat
         /\ \A x \in S : LET rest == [y \in S \ {x} |-> w[y]]
                         IN /\ Value(kind, w) = Combine(kind, w[x], Value(kind, rest))
                            /\ Value(kind, rest) \in Nat
  <1>1. PICK g : IsFold(kind, w, S, g) /\ Value(kind, w) = g[S]
    BY ValueIsFold
  <1>2. /\ g[S] \in Nat
        /\ \A x \in S : g[S] = Combine(kind, w[x], g[S \ {x}]) /\ g[S \ {x}] \in Nat
    <2>1. S \in SUBSET S /\ \A x \in S : S \ {x} \in SUBSET S
      OBVIOUS
    <2>2. QED
      BY <1>1, <2>1, FoldTake
  <1>3. ASSUME NEW x \in S PROVE Value(kind, [y \in S \ {x} |-> w[y]]) = g[S \ {x}]
    <2> DEFINE R == S \ {x}
               rest == [y \in R |-> w[y]]
    <2>1. IsFiniteSet(R) /\ R \subseteq S /\ DOMAIN rest = R /\ \A y \in R : w[y] = rest[y]
      BY FS_Subset
    <2> HIDE DEF R, rest
    <2>2. PICK h : IsFold(kind, rest, R, h) /\ Value(kind, rest) = h[R]
      BY <2>1, ValueIsFold
    <2>3. g[R] = h[R]
      BY <1>1, <2>1, <2>2, FoldUnique
    <2>4. QED
      BY <2>2, <2>3 DEF R, rest
  <1>4. QED
    BY <1>1, <1>2, <1>3

(* The same of sums and of products in particular; an empty sum is 0, and no *)
(* element is more than the sum.                                             *)
LEMMA SumTake ==
  ASSUME NEW S, IsFiniteSet(S), NEW w \in [S -> Nat]
  PROVE  /\ SumFunction(w) \in Nat
         /\ \A x \in S : LET rest == [y \in S \ {x} |-> w[y]]
                         IN /\ SumFunction(w) = w[x] + SumFunction(rest)
                            /\ SumFunction(rest) \in Nat
         /\ ProductFunction(w) \in Nat
         /\ \A x \in S : LET rest == [y \in S \ {x} |-> w[y]]
                         IN /\ ProductFunction(w) = w[x] * ProductFunction(rest)
                            /\ ProductFunction(rest) \in Nat
         /\ S = {} => SumFunction(w) = 0
         /\ \A x \in S : w[x] <= SumFunction(w)
  <1>1. S = {} => SumFunction(w) = 0
    <2>1. PICK g : IsFold("sum", w, S, g) /\ Value("sum", w) = g[S]
      BY ValueIsFold
    <2>2. QED
      BY <2>1 DEF IsFold, Step, Neutral, Value
  <1>2. /\ Value("sum", w) \in Nat
        /\ \A x \in S : LET rest == [y \in S \ {x} |-> w[y]]
                        IN /\ Value("sum", w) = Combine("sum", w[x], Value("sum", rest))
                           /\ Value("sum", rest) \in Nat
    BY ValueTake
  <1>3. /\ Value("product", w) \in Nat
        /\ \A x \in S : LET rest == [y \in S \ {x} |-> w[y]]
                        IN /\ Value("product", w) = Combine("product", w[x], Value("product", rest))
                           /\ Value("product", rest) \in Nat
    BY ValueTake
  <1>4. ASSUME NEW x \in S PROVE w[x] <= SumFunction(w)
    <2> DEFINE rest == SumFunction([y \in S \ {x} |-> w[y]])
    <2>1. SumFunction(w) = w[x] + rest /\ rest \in Nat /\ w[x] \in Nat
      BY <1>2 DEF Value, Combine
    <2> HIDE DEF rest
    <2>2. QED
      BY <2>1
  <1>5. QED
    BY <1>1, <1>2, <1>3, <1>4 DEF Value, Combine

(* When one element changes the sum changes by as much.                      *)
LEMMA SumChange ==
  ASSUME NEW S, IsFiniteSet(S), NEW w \in [S -> Nat], NEW v \in [S -> Nat], NEW x \in S,
         \A y \in S \ {x} : v[y] = w[y]
  PROVE  SumFunction(v) + w[x] = SumFunction(w) + v[x]
  <1> DEFINE rest(u) == [y \in S \ {x} |-> u[y]]
  <1>1. rest(w) = rest(v)
    OBVIOUS
  <1>2. ASSUME NEW u \in [S -> Nat]
        PROVE  /\ SumFunction(u) = u[x] + SumFunction(rest(u))
               /\ SumFunction(rest(u)) \in Nat
    BY SumTake
  <1> HIDE DEF rest
  <1>3. w[x] \in Nat /\ v[x] \in Nat
    OBVIOUS
  <1>4. /\ SumFunction(w) = w[x] + SumFunction(rest(w))
        /\ SumFunction(v) = v[x] + SumFunction(rest(w))
        /\ SumFunction(rest(w)) \in Nat
    BY <1>1, <1>2, Zenon
  <1>5. QED
    BY <1>3, <1>4

(* Elements that are 0 count for nothing.                                    *)
LEMMA SumSupport ==
  ASSUME NEW S, IsFiniteSet(S), NEW w \in [S -> Nat], NEW T, T \subseteq S,
         \A x \in S \ T : w[x] = 0
  PROVE  SumFunction(w) = SumFunction([x \in T |-> w[x]])
  <1>1. PICK g : IsFold("sum", w, S, g) /\ SumFunction(w) = g[S]
    BY ValueIsFold DEF Value
  <1> DEFINE part == [x \in T |-> w[x]]
             bad == {s \in SUBSET S : g[s] # g[s \cap T]}
  <1>2. PICK h : IsFold("sum", part, T, h) /\ SumFunction(part) = h[T]
    <2>1. IsFiniteSet(T) /\ DOMAIN part = T
      BY FS_Subset
    <2> HIDE DEF part
    <2>2. QED
      BY <2>1, ValueIsFold DEF Value
  <1>3. g[T] = h[T]
    <2>1. \A x \in T : w[x] = part[x]
      OBVIOUS
    <2> HIDE DEF part
    <2>2. QED
      BY <1>1, <1>2, <2>1, FoldUnique
  <1>4. bad = {}
    <2> SUFFICES ASSUME bad # {} PROVE FALSE
      OBVIOUS
    <2>1. PICK s \in bad : \A r \in bad : r \subseteq s => r = s
      <3>1. bad \subseteq SUBSET S
        OBVIOUS
      <3> HIDE DEF bad
      <3>2. QED
        BY <3>1, SmallestSubset
    <2>2. PICK x \in s : x \notin T
      BY <2>1
    <2> DEFINE r == s \ {x}
    <2>3. /\ s \in SUBSET S /\ r \in SUBSET S
          /\ r \subseteq s /\ r # s /\ r \cap T = s \cap T
      BY <2>1, <2>2
    <2>4. /\ \A t \in SUBSET S : g[t] \in Nat
          /\ \A t \in SUBSET S : \A y \in t : g[t] = Combine("sum", w[y], g[t \ {y}])
      BY <1>1, FoldTake
    <2>5. g[s] = Combine("sum", w[x], g[r]) /\ g[r] \in Nat
      BY <2>2, <2>3, <2>4
    <2> HIDE DEF r
    <2>6. w[x] = 0
      BY <2>1, <2>2
    <2>7. g[s] = g[r]
      BY <2>6, <2>5 DEF Combine
    <2>8. g[r] = g[r \cap T]
      BY <2>1, <2>3
    <2>9. QED
      BY <2>1, <2>3, <2>7, <2>8
  <1>5. g[S] = g[T]
    <2>1. S \in SUBSET S /\ S \cap T = T
      OBVIOUS
    <2>2. QED
      BY <1>4, <2>1
  <1>6. QED
    BY <1>1, <1>2, <1>3, <1>5

----------------------------------------------------------------------------
(* The score.                                                                *)

(* The weights and the categories depend on which rules answered, the points *)
(* also on what they answered.                                               *)
LEMMA SamePossible ==
  ASSUME NEW a, NEW b, Among(a, IsAssessed) = Among(b, IsAssessed),
         \A i \in Among(a, IsAssessed) : a[i].rule = b[i].rule
  PROVE  /\ \A c : AssessedIn(a, c) = AssessedIn(b, c) /\ Possible(a, c) = Possible(b, c)
         /\ Surviving(a) = Surviving(b)
         /\ Denominator(a) = Denominator(b) /\ WeightedPossible(a) = WeightedPossible(b)
  <1>1. ASSUME NEW c PROVE AssessedIn(a, c) = AssessedIn(b, c)
    BY DEF AssessedIn, InCategory, Among
  <1>2. ASSUME NEW c PROVE Possible(a, c) = Possible(b, c)
    <2>1. [i \in AssessedIn(a, c) |-> Weight[a[i].rule]] = [i \in AssessedIn(b, c) |-> Weight[b[i].rule]]
      BY <1>1 DEF AssessedIn
    <2>2. QED
      BY <2>1 DEF Possible
  <1>3. Surviving(a) = Surviving(b)
    BY <1>2 DEF Surviving
  <1>4. [c \in Surviving(a) |-> Possible(a, c)] = [c \in Surviving(b) |-> Possible(b, c)]
    BY <1>2, <1>3
  <1>5. QED
    BY <1>1, <1>2, <1>3, <1>4 DEF Denominator, WeightedPossible

(* The total depends on nothing but which rules answered what: two lists     *)
(* whose assessed findings agree have the same total.                        *)
LEMMA SameTotal ==
  ASSUME NEW a, NEW b, Among(a, IsAssessed) = Among(b, IsAssessed),
         \A i \in Among(a, IsAssessed) : a[i].rule = b[i].rule /\ a[i].status = b[i].status
  PROVE  Total(a) = Total(b)
  <1>1. /\ \A c : AssessedIn(a, c) = AssessedIn(b, c) /\ Possible(a, c) = Possible(b, c)
        /\ Surviving(a) = Surviving(b)
        /\ Denominator(a) = Denominator(b) /\ WeightedPossible(a) = WeightedPossible(b)
    BY SamePossible
  <1>2. ASSUME NEW c PROVE Earned(a, c) = Earned(b, c)
    <2>1. [i \in AssessedIn(a, c) |-> Halves(a[i].status) * Weight[a[i].rule]]
            = [i \in AssessedIn(b, c) |-> Halves(b[i].status) * Weight[b[i].rule]]
      BY <1>1 DEF AssessedIn
    <2>2. QED
      BY <2>1 DEF Earned
  <1>3. [c \in Surviving(a) |-> CategoryWeight[c] * Earned(a, c) * (Denominator(a) \div (2 * Possible(a, c)))]
          = [c \in Surviving(b) |-> CategoryWeight[c] * Earned(b, c) * (Denominator(b) \div (2 * Possible(b, c)))]
    BY <1>1, <1>2
  <1>4. WeightedEarned(a) = WeightedEarned(b)
    BY <1>3 DEF WeightedEarned
  <1>5. QED
    BY <1>1, <1>4 DEF Total

(* Without the degraded findings, which hold no answer, every answer is      *)
(* still there.                                                              *)
LEMMA DegradedHoldNoAnswer ==
  ASSUME LoopInv
  PROVE  LET rest == Without(Degraded)
         IN /\ Among(rest, IsAssessed) = Among(findings, IsAssessed)
            /\ \A i \in DOMAIN rest : rest[i] = findings[i]
            /\ Among(rest, IsApplicable) = Among(findings, IsApplicable) \ Degraded
            /\ Degraded \subseteq Among(findings, IsApplicable)
            /\ Total(rest) = Total(findings)
  <1> DEFINE rest == Without(Degraded)
  <1>1. /\ DOMAIN rest = DOMAIN findings \ Degraded
        /\ \A i \in DOMAIN rest : rest[i] = findings[i]
    BY DEF Without, Restrict
  <1>2. \A i \in Degraded : i \in DOMAIN findings /\ findings[i].status = "unknown"
    BY DEF LoopInv, FiledAsDone, Degraded, DegradedStatus
  <1>3. /\ Among(rest, IsAssessed) = Among(findings, IsAssessed)
        /\ Among(rest, IsApplicable) = Among(findings, IsApplicable) \ Degraded
        /\ Degraded \subseteq Among(findings, IsApplicable)
    BY <1>1, <1>2 DEF Among, IsAssessed, IsApplicable, Applicable, Assessed
  <1>4. \A i \in Among(rest, IsAssessed) : rest[i] = findings[i]
    BY <1>1 DEF Among
  <1> HIDE DEF rest
  <1>5. Total(rest) = Total(findings)
    BY <1>3, <1>4, SameTotal
  <1>6. QED
    BY <1>1, <1>3, <1>5 DEF rest

(* Any part of the findings is finite.                                       *)
LEMMA FindingsAreFinite ==
  ASSUME LoopInv, NEW S, S \subseteq DOMAIN findings
  PROVE  IsFiniteSet(S)
  <1>1. Len(findings) \in Nat /\ DOMAIN findings = 1 .. Len(findings)
    BY FindingsOf DEF LoopInv
  <1>2. IsFiniteSet(DOMAIN findings)
    BY <1>1, FS_Interval
  <1>3. QED
    BY <1>2, FS_Subset

(* What a rule pack's failure can do to the card of run_check: the degraded  *)
(* findings are unknown, so they enter no sum, and every one of them is an   *)
(* applicable check that was not evaluated.                                  *)
THEOREM FailuresCostOnlyCoverageHolds == Spec => []FailuresCostOnlyCoverage
  <1>1. ASSUME LoopInv
        PROVE  LET rest == Without(Degraded)
               IN /\ Card.total = Total(rest)
                  /\ Card.tier = Tier(Total(rest), lines)
                  /\ Card.evaluated = Cardinality(Among(rest, IsAssessed))
                  /\ Card.applicable
                       = Cardinality(Among(rest, IsApplicable)) + Cardinality(Degraded)
    <2> DEFINE rest == Without(Degraded)
               all == Among(findings, IsApplicable)
    <2>1. /\ Card.total = Total(findings) /\ Card.tier = Tier(Total(findings), lines)
          /\ Card.evaluated = Cardinality(Among(findings, IsAssessed))
          /\ Card.applicable = Cardinality(all)
      BY DEF Card, Score
    <2>2. /\ Total(rest) = Total(findings) /\ Among(rest, IsAssessed) = Among(findings, IsAssessed)
          /\ Among(rest, IsApplicable) = all \ Degraded /\ Degraded \subseteq all
      BY <1>1, DegradedHoldNoAnswer
    <2>3. IsFiniteSet(all)
      BY <1>1, FindingsAreFinite DEF Among
    <2> HIDE DEF rest, all
    <2>4. /\ Cardinality(all \ Degraded) = Cardinality(all) - Cardinality(all \cap Degraded)
          /\ all \cap Degraded = Degraded
      BY <2>2, <2>3, FS_Difference
    <2>5. Cardinality(all) \in Nat /\ Cardinality(Degraded) \in Nat
      BY <2>2, <2>3, FS_Subset, FS_CardinalityType
    <2>6. Cardinality(all) = Cardinality(all \ Degraded) + Cardinality(Degraded)
      BY <2>4, <2>5
    <2>7. QED
      BY <2>1, <2>2, <2>6 DEF rest
  <1>2. IInv => FailuresCostOnlyCoverage
    BY <1>1 DEF IInv, FailuresCostOnlyCoverage
  <1>3. QED
    BY <1>2, InductiveInvariant, PTL

(* No arithmetic of scoring.py looks at whether a finding is suppressed.     *)
THEOREM SuppressionMovesNoNumberHolds == Spec => []SuppressionMovesNoNumber
  <1>1. ASSUME LoopInv, Scored
        PROVE  Card = Score([i \in DOMAIN findings |-> [findings[i] EXCEPT !.suppressed = FALSE]],
                            lines, inapplicable)
    <2> DEFINE open == [i \in DOMAIN findings |-> [findings[i] EXCEPT !.suppressed = FALSE]]
    <2>1. \A i \in DOMAIN findings : findings[i] \in FindingRecords
      BY <1>1, FindingsOf DEF LoopInv
    <2>2. /\ DOMAIN open = DOMAIN findings
          /\ \A i \in DOMAIN findings :
               open[i].rule = findings[i].rule /\ open[i].status = findings[i].status
      BY <2>1 DEF FindingRecords
    <2>3. Len(open) = Len(findings)
      BY <1>1, FindingsOf DEF LoopInv
    <2> HIDE DEF open
    <2>4. /\ Among(open, IsAssessed) = Among(findings, IsAssessed)
          /\ Among(open, IsApplicable) = Among(findings, IsApplicable)
      BY <2>2 DEF Among, IsAssessed, IsApplicable
    <2>5. \A i \in Among(findings, IsAssessed) :
            open[i].rule = findings[i].rule /\ open[i].status = findings[i].status
      BY <2>2 DEF Among
    <2>6. Total(open) = Total(findings) /\ Surviving(open) = Surviving(findings)
      BY <2>4, <2>5, SameTotal, SamePossible
    <2>7. Unanswered(open) = Unanswered(findings)
      BY <2>2, <2>6 DEF Unanswered, InCategory, IsApplicable, IsAssessed
    <2>8. Rows(open) = Rows(findings)
      BY <2>6, <2>7 DEF Rows
    <2>9. QED
      BY <2>3, <2>4, <2>6, <2>8 DEF Card, Score, open
  <1>2. IInv => SuppressionMovesNoNumber
    BY <1>1 DEF IInv, SuppressionMovesNoNumber
  <1>3. QED
    BY <1>2, InductiveInvariant, PTL

----------------------------------------------------------------------------
(* The sums of a category are sums of numbers over finitely many findings,   *)
(* for any list of statuses of the rules that were filed.                    *)
LEMMA PossibleIsNat ==
  ASSUME LoopInv, NEW list, DOMAIN list = DOMAIN findings,
         \A i \in DOMAIN list : list[i].rule \in Rules /\ list[i].status \in Statuses
  PROVE  /\ \A c : /\ IsFiniteSet(AssessedIn(list, c))
                   /\ [i \in AssessedIn(list, c) |-> Weight[list[i].rule]]
                        \in [AssessedIn(list, c) -> Nat]
                   /\ [i \in AssessedIn(list, c) |-> Halves(list[i].status) * Weight[list[i].rule]]
                        \in [AssessedIn(list, c) -> Nat]
                   /\ Possible(list, c) \in Nat /\ Earned(list, c) \in Nat
  <1> SUFFICES ASSUME NEW c
               PROVE  /\ IsFiniteSet(AssessedIn(list, c))
                      /\ [i \in AssessedIn(list, c) |-> Weight[list[i].rule]]
                           \in [AssessedIn(list, c) -> Nat]
                      /\ [i \in AssessedIn(list, c) |-> Halves(list[i].status) * Weight[list[i].rule]]
                           \in [AssessedIn(list, c) -> Nat]
                      /\ Possible(list, c) \in Nat /\ Earned(list, c) \in Nat
    OBVIOUS
  <1> DEFINE S == AssessedIn(list, c)
             w == [i \in S |-> Weight[list[i].rule]]
             e == [i \in S |-> Halves(list[i].status) * Weight[list[i].rule]]
  <1>1. S \subseteq DOMAIN findings
    BY DEF AssessedIn, InCategory
  <1>2. IsFiniteSet(S)
    BY <1>1, FindingsAreFinite
  <1>3. \A r \in Rules : Weight[r] \in Nat
    BY ScoringAssumption
  <1>4. w \in [S -> Nat]
    BY <1>1, <1>3
  <1>5. ASSUME NEW i \in S PROVE Halves(list[i].status) * Weight[list[i].rule] \in Nat
    <2>1. list[i].status \in Assessed
      BY <1>5 DEF AssessedIn, Among, IsAssessed
    <2>2. Halves(list[i].status) \in {0, 1, 2}
      BY <2>1 DEF Halves, Assessed
    <2>3. Weight[list[i].rule] \in Nat
      BY <1>1, <1>3, <1>5
    <2>4. QED
      BY <2>2, <2>3
  <1>6. e \in [S -> Nat]
    BY <1>5
  <1> HIDE DEF w, e, S
  <1>7. SumFunction(w) \in Nat /\ SumFunction(e) \in Nat
    BY <1>2, <1>4, <1>6, SumTake
  <1>8. QED
    BY <1>2, <1>4, <1>6, <1>7 DEF w, e, S, Possible, Earned

(* Categories that all hold a finding are finitely many, as the findings     *)
(* are.                                                                      *)
LEMMA CategoriesAreFinite ==
  ASSUME LoopInv, NEW S, \A c \in S : \E i \in DOMAIN findings : Category[findings[i].rule] = c
  PROVE  IsFiniteSet(S)
  <1> DEFINE f == [i \in DOMAIN findings |-> Category[findings[i].rule]]
             T == {f[i] : i \in DOMAIN findings}
  <1>1. f \in Surjection(DOMAIN findings, T)
    BY DEF Surjection
  <1>2. IsFiniteSet(DOMAIN findings)
    BY FindingsAreFinite
  <1>3. S \subseteq T
    OBVIOUS
  <1> HIDE DEF f, T
  <1>4. IsFiniteSet(T)
    BY <1>1, <1>2, FS_Surjection
  <1>5. QED
    BY <1>3, <1>4, FS_Subset

(* The card has finitely many rows, each for a category.                     *)
LEMMA RowsAreFinite ==
  ASSUME LoopInv, Scored
  PROVE  /\ Surviving(findings) \subseteq Categories /\ IsFiniteSet(Surviving(findings))
         /\ DOMAIN Rows(findings) \subseteq Categories /\ IsFiniteSet(DOMAIN Rows(findings))
  <1>1. ASSUME NEW c \in Surviving(findings)
        PROVE  \E i \in DOMAIN findings : Category[findings[i].rule] = c
    <2>1. Possible(findings, c) # 0
      BY <1>1 DEF Surviving
    <2>2. AssessedIn(findings, c) # {}
      <3> DEFINE S == AssessedIn(findings, c)
                 w == [i \in S |-> Weight[findings[i].rule]]
      <3>1. Possible(findings, c) = SumFunction(w)
        BY DEF Possible
      <3>2. IsFiniteSet(S) /\ w \in [S -> Nat]
        BY FindingsOf, PossibleIsNat DEF LoopInv
      <3> HIDE DEF S, w
      <3>3. QED
        BY <2>1, <3>1, <3>2, SumTake DEF S
    <2>3. QED
      BY <2>2 DEF AssessedIn, InCategory
  <1>2. ASSUME NEW c \in Unanswered(findings)
        PROVE  \E i \in DOMAIN findings : Category[findings[i].rule] = c
    BY <1>2 DEF Unanswered, InCategory
  <1>3. Surviving(findings) \subseteq Categories /\ DOMAIN Rows(findings) \subseteq Categories
    BY DEF Surviving, Unanswered, Rows
  <1>4. DOMAIN Rows(findings) = Surviving(findings) \cup Unanswered(findings)
    BY DEF Rows
  <1>5. QED
    BY <1>1, <1>2, <1>3, <1>4, CategoriesAreFinite

(* The identity behind the ranking of the fixes: k halves more of a weight W *)
(* in a category that weighs CW and holds weight P, over the product D of    *)
(* the categories' weights.                                                  *)
LEMMA PointsIdentity ==
  ASSUME NEW WE \in Nat, NEW CW \in Nat, NEW k \in Nat, NEW W \in Nat, NEW q \in Nat,
         NEW P \in Nat, NEW WP \in Nat, NEW D \in Nat, D = 2 * P * q
  PROVE  (100 * (WE + CW * k * W * q)) * (D * WP) * (2 * P * WP)
           = (100 * WE) * (D * WP) * (2 * P * WP) + (100 * k * W * CW) * (D * WP) * (D * WP)
  OBVIOUS

(* The common denominator divided by one category's weight is exactly the    *)
(* weight of the others.                                                     *)
LEMMA ExactQuotient ==
  ASSUME NEW P \in Nat, P # 0, NEW q \in Nat
  PROVE  (2 * (P * q)) \div (2 * P) = q
  OBVIOUS

(* The same in the sum over the categories: a category that earned e halves  *)
(* and now earns f, with one status of h halves made full.                   *)
LEMMA WeightedChange ==
  ASSUME NEW e \in Nat, NEW f \in Nat, NEW h \in {0, 1}, NEW W \in Nat, NEW CW \in Nat, NEW q \in Nat,
         f + h * W = e + 2 * W,
         NEW a \in Nat, NEW b \in Nat, b + CW * e * q = a + CW * f * q
  PROVE  b = a + CW * (2 - h) * W * q
  <1>1. f = e + (2 - h) * W
    OBVIOUS
  <1>2. CW * (e + (2 - h) * W) * q = CW * e * q + CW * (2 - h) * W * q
    OBVIOUS
  <1>3. QED
    BY <1>1, <1>2

(* What a fix changes: the points earned in its category.                    *)
LEMMA FixEarns ==
  ASSUME LoopInv, Scored, NEW i \in FixesOffered(findings)
  PROVE  LET F == [findings EXCEPT ![i].status = "pass"]
             c == Category[findings[i].rule]
             W == Weight[findings[i].rule]
             h == Halves(findings[i].status)
         IN /\ i \in AssessedIn(findings, c) /\ c \in Categories /\ W \in Nat /\ h \in {0, 1}
            /\ W <= Possible(findings, c)
            /\ \A d : Earned(F, d) \in Nat /\ (d # c => Earned(F, d) = Earned(findings, d))
            /\ Earned(F, c) + h * W = Earned(findings, c) + 2 * W
            /\ \A d : Possible(F, d) = Possible(findings, d)
            /\ Surviving(F) = Surviving(findings)
            /\ Denominator(F) = Denominator(findings)
            /\ WeightedPossible(F) = WeightedPossible(findings)
  <1> DEFINE F == [findings EXCEPT ![i].status = "pass"]
             c == Category[findings[i].rule]
             W == Weight[findings[i].rule]
             h == Halves(findings[i].status)
  <1>1. /\ i \in DOMAIN findings /\ IsAssessed(findings[i]) /\ h \in {0, 1}
        /\ findings[i].rule \in Rules
    <2>1. i \in DOMAIN findings /\ Fixable(findings[i])
      BY DEF FixesOffered, Among
    <2>2. h \in {0, 1}
      BY <2>1 DEF Fixable, IsAssessed, Assessed, Halves
    <2>3. QED
      BY <2>1, <2>2, FindingsOf DEF Fixable, LoopInv
  <1>2. i \in AssessedIn(findings, c) /\ c \in Categories /\ W \in Nat
    BY <1>1, ScoringAssumption DEF AssessedIn, InCategory, Among
  <1>3. /\ DOMAIN F = DOMAIN findings /\ \A j \in DOMAIN findings : j # i => F[j] = findings[j]
        /\ F[i].rule = findings[i].rule /\ F[i].status = "pass"
    <2>1. findings[i] \in FindingRecords /\ findings \in Seq(FindingRecords)
      BY <1>1 DEF LoopInv
    <2>2. [findings[i] EXCEPT !.status = "pass"].rule = findings[i].rule
          /\ [findings[i] EXCEPT !.status = "pass"].status = "pass"
      BY <2>1 DEF FindingRecords
    <2>3. /\ DOMAIN F = DOMAIN findings /\ \A j \in DOMAIN findings : j # i => F[j] = findings[j]
          /\ F[i] = [findings[i] EXCEPT !.status = "pass"]
      BY <1>1, <2>1
    <2>4. QED
      BY <2>2, <2>3
  <1> HIDE DEF F
  <1>4. \A j \in DOMAIN F : F[j].rule \in Rules /\ F[j].status \in Statuses /\ F[j].rule = findings[j].rule
    BY <1>1, <1>3, FindingsOf DEF LoopInv, Statuses, Applicable, Assessed
  <1>5. Among(F, IsAssessed) = Among(findings, IsAssessed)
    BY <1>1, <1>3 DEF Among, IsAssessed, Assessed
  <1>6. /\ \A d : AssessedIn(F, d) = AssessedIn(findings, d) /\ Possible(F, d) = Possible(findings, d)
        /\ Surviving(F) = Surviving(findings)
        /\ Denominator(F) = Denominator(findings) /\ WeightedPossible(F) = WeightedPossible(findings)
    <2>1. \A j \in Among(F, IsAssessed) : F[j].rule = findings[j].rule
      BY <1>4 DEF Among
    <2>2. QED
      BY <1>5, <2>1, SamePossible
  <1>7. \A d : Earned(F, d) \in Nat
    BY <1>3, <1>4, PossibleIsNat
  <1> DEFINE e(list, d) == [j \in AssessedIn(findings, d) |-> Halves(list[j].status) * Weight[list[j].rule]]
  <1>8. \A d : Earned(F, d) = SumFunction(e(F, d)) /\ Earned(findings, d) = SumFunction(e(findings, d))
    BY <1>6 DEF Earned
  <1>9. ASSUME NEW d, d # c PROVE Earned(F, d) = Earned(findings, d)
    <2>1. \A j \in AssessedIn(findings, d) : j # i /\ j \in DOMAIN findings
      BY <1>9 DEF AssessedIn, InCategory
    <2>2. e(F, d) = e(findings, d)
      BY <1>3, <2>1
    <2> HIDE DEF e
    <2>3. QED
      BY <1>8, <2>2
  <1>10. /\ IsFiniteSet(AssessedIn(findings, c))
         /\ e(F, c) \in [AssessedIn(findings, c) -> Nat]
         /\ e(findings, c) \in [AssessedIn(findings, c) -> Nat]
    <2>1. \A j \in DOMAIN findings : findings[j].rule \in Rules /\ findings[j].status \in Statuses
      BY FindingsOf DEF LoopInv
    <2>2. IsFiniteSet(AssessedIn(findings, c)) /\ e(findings, c) \in [AssessedIn(findings, c) -> Nat]
      BY <2>1, PossibleIsNat
    <2>3. e(F, c) \in [AssessedIn(findings, c) -> Nat]
      BY <1>3, <1>4, <1>6, PossibleIsNat
    <2>4. QED
      BY <2>2, <2>3
  <1>11. /\ \A j \in AssessedIn(findings, c) \ {i} : e(F, c)[j] = e(findings, c)[j]
         /\ e(F, c)[i] = 2 * W /\ e(findings, c)[i] = h * W
    <2>1. \A j \in AssessedIn(findings, c) : j \in DOMAIN findings
      BY DEF AssessedIn, InCategory
    <2>2. Halves("pass") = 2
      BY DEF Halves
    <2>3. QED
      BY <1>2, <1>3, <2>1, <2>2
  <1>12. Earned(F, c) + h * W = Earned(findings, c) + 2 * W
    <2> DEFINE S == AssessedIn(findings, c)
               before == e(findings, c)
               after == e(F, c)
    <2>1. /\ IsFiniteSet(S) /\ before \in [S -> Nat] /\ after \in [S -> Nat] /\ i \in S
          /\ \A j \in S \ {i} : after[j] = before[j]
          /\ after[i] = 2 * W /\ before[i] = h * W
          /\ Earned(F, c) = SumFunction(after) /\ Earned(findings, c) = SumFunction(before)
      BY <1>2, <1>8, <1>10, <1>11
    <2> HIDE DEF S, before, after
    <2>2. SumFunction(after) + before[i] = SumFunction(before) + after[i]
      BY <2>1, SumChange
    <2>3. QED
      BY <2>1, <2>2
  <1>13. W <= Possible(findings, c)
    <2> DEFINE S == AssessedIn(findings, c)
               w == [j \in S |-> Weight[findings[j].rule]]
    <2>1. /\ IsFiniteSet(S) /\ w \in [S -> Nat]
      BY FindingsOf, PossibleIsNat DEF LoopInv
    <2>2. Possible(findings, c) = SumFunction(w) /\ i \in S /\ w[i] = W
      BY <1>2 DEF Possible
    <2> HIDE DEF S, w
    <2>3. QED
      BY <2>1, <2>2, SumTake
  <1>14. QED
    BY <1>1, <1>2, <1>6, <1>7, <1>9, <1>12, <1>13 DEF F

(* The weighted sums over the categories: of a list of findings that answers *)
(* where the loop's does.                                                    *)
LEMMA Terms ==
  ASSUME LoopInv, Scored, NEW list, DOMAIN list = DOMAIN findings,
         \A i \in DOMAIN list : list[i].rule \in Rules /\ list[i].status \in Statuses,
         Surviving(list) = Surviving(findings)
  PROVE  LET term == [c \in Surviving(list) |->
                        CategoryWeight[c] * Earned(list, c)
                          * (Denominator(list) \div (2 * Possible(list, c)))]
         IN /\ Denominator(list) \in Nat
            /\ \A c \in Surviving(list) :
                 \E q \in Nat : /\ Denominator(list) = 2 * (Possible(list, c) * q)
                                /\ Denominator(list) \div (2 * Possible(list, c)) = q
                                /\ term[c] = CategoryWeight[c] * Earned(list, c) * q
            /\ term \in [Surviving(list) -> Nat]
            /\ WeightedEarned(list) \in Nat
            /\ [c \in Surviving(list) |-> CategoryWeight[c]] \in [Surviving(list) -> Nat]
            /\ WeightedPossible(list) \in Nat
  <1> DEFINE S == Surviving(list)
             possible == [c \in S |-> Possible(list, c)]
             weight == [c \in S |-> CategoryWeight[c]]
             term == [c \in S |-> CategoryWeight[c] * Earned(list, c)
                                    * (Denominator(list) \div (2 * Possible(list, c)))]
  <1>1. S \subseteq Categories /\ IsFiniteSet(S)
    BY RowsAreFinite
  <1>2. \A c \in S : Possible(list, c) \in Nat /\ Possible(list, c) # 0 /\ Earned(list, c) \in Nat
    BY PossibleIsNat DEF Surviving
  <1>3. \A c \in S : CategoryWeight[c] \in Nat
    BY <1>1, ScoringAssumption
  <1>4. possible \in [S -> Nat] /\ weight \in [S -> Nat]
    BY <1>2, <1>3
  <1>5. Denominator(list) = 2 * ProductFunction(possible) /\ WeightedPossible(list) = SumFunction(weight)
    BY DEF Denominator, WeightedPossible
  <1>6. ASSUME NEW c \in S
        PROVE  \E q \in Nat : ProductFunction(possible) = Possible(list, c) * q
    <2> DEFINE rest == [d \in S \ {c} |-> possible[d]]
    <2> HIDE DEF S
    <2>1. possible[c] = Possible(list, c)
      BY <1>6
    <2> HIDE DEF possible
    <2>2. ProductFunction(possible) = possible[c] * ProductFunction(rest) /\ ProductFunction(rest) \in Nat
      BY <1>1, <1>4, <1>6, SumTake
    <2> HIDE DEF rest
    <2>3. QED
      BY <2>1, <2>2
  <1> HIDE DEF S, possible, weight
  <1>7. ProductFunction(possible) \in Nat /\ SumFunction(weight) \in Nat
    BY <1>1, <1>4, SumTake
  <1>8. Denominator(list) \in Nat /\ WeightedPossible(list) \in Nat
    BY <1>5, <1>7
  <1>9. ASSUME NEW c \in S
        PROVE  /\ \E q \in Nat : /\ Denominator(list) = 2 * (Possible(list, c) * q)
                                 /\ Denominator(list) \div (2 * Possible(list, c)) = q
                                 /\ term[c] = CategoryWeight[c] * Earned(list, c) * q
               /\ term[c] \in Nat
    <2>1. PICK q \in Nat : ProductFunction(possible) = Possible(list, c) * q
      BY <1>6, <1>9
    <2>2. Denominator(list) = 2 * (Possible(list, c) * q)
      BY <1>5, <2>1
    <2>3. Denominator(list) \div (2 * Possible(list, c)) = q
      BY <1>2, <1>9, <2>2, ExactQuotient, Zenon
    <2>4. term[c] = CategoryWeight[c] * Earned(list, c) * q
      BY <1>9, <2>3
    <2>5. CategoryWeight[c] * Earned(list, c) * q \in Nat
      <3> DEFINE w == CategoryWeight[c]
                 e == Earned(list, c)
      <3>1. w \in Nat /\ e \in Nat
        BY <1>2, <1>3, <1>9
      <3> HIDE DEF w, e
      <3>2. w * e * q \in Nat
        BY <3>1
      <3>3. QED
        BY <3>2 DEF w, e
    <2> HIDE DEF term
    <2>6. QED
      BY <2>2, <2>3, <2>4, <2>5
  <1>10. term = [c \in S |-> term[c]]
    OBVIOUS
  <1>11. WeightedEarned(list) = SumFunction(term)
    BY DEF WeightedEarned, S
  <1>12. term \in [S -> Nat]
    <2> HIDE DEF term
    <2>1. QED
      BY <1>9, <1>10
  <1>13. SumFunction(term) \in Nat
    <2> HIDE DEF term
    <2>1. QED
      BY <1>1, <1>12, SumTake
  <1>14. \A c \in S : /\ \E q \in Nat : /\ Denominator(list) = 2 * (Possible(list, c) * q)
                                 /\ Denominator(list) \div (2 * Possible(list, c)) = q
                                 /\ term[c] = CategoryWeight[c] * Earned(list, c) * q
    BY <1>9
  <1> HIDE DEF term
  <1>15. QED
    BY <1>4, <1>8, <1>11, <1>12, <1>13, <1>14 DEF term, S, weight

(* A fix adds its own weight to the weighted sum, and nothing when nothing   *)
(* in its category weighs anything.                                          *)
LEMMA FixAdds ==
  ASSUME LoopInv, Scored, NEW i \in FixesOffered(findings)
  PROVE  LET F == [findings EXCEPT ![i].status = "pass"]
             c == Category[findings[i].rule]
             W == Weight[findings[i].rule]
             h == Halves(findings[i].status)
             P == Possible(findings, c)
         IN /\ P \in Nat /\ WeightedEarned(findings) \in Nat
            /\ P = 0 => WeightedEarned(F) = WeightedEarned(findings)
            /\ P # 0 =>
                 /\ c \in Surviving(findings) /\ CategoryWeight[c] \in Nat
                 /\ \E q \in Nat :
                      /\ Denominator(findings) = 2 * (P * q)
                      /\ WeightedEarned(F) = WeightedEarned(findings) + CategoryWeight[c] * (2 - h) * W * q
  <1> DEFINE F == [findings EXCEPT ![i].status = "pass"]
             c == Category[findings[i].rule]
             W == Weight[findings[i].rule]
             h == Halves(findings[i].status)
             P == Possible(findings, c)
             S == Surviving(findings)
             term(list) == [d \in S |-> CategoryWeight[d] * Earned(list, d)
                                          * (Denominator(list) \div (2 * Possible(list, d)))]
             before == term(findings)
             after == term(F)
  <1>1. /\ i \in AssessedIn(findings, c) /\ c \in Categories /\ W \in Nat /\ h \in {0, 1}
        /\ \A d : Earned(F, d) \in Nat /\ (d # c => Earned(F, d) = Earned(findings, d))
        /\ Earned(F, c) + h * W = Earned(findings, c) + 2 * W
        /\ \A d : Possible(F, d) = Possible(findings, d)
        /\ Surviving(F) = S
        /\ Denominator(F) = Denominator(findings)
    BY FixEarns
  <1>2. \A j \in DOMAIN findings : findings[j].rule \in Rules /\ findings[j].status \in Statuses
    BY FindingsOf DEF LoopInv
  <1>3. /\ before \in [S -> Nat] /\ WeightedEarned(findings) = SumFunction(before)
        /\ WeightedEarned(findings) \in Nat
        /\ P \in Nat /\ Earned(findings, c) \in Nat
        /\ c \in S => \E q \in Nat : /\ Denominator(findings) = 2 * (P * q)
                                     /\ before[c] = CategoryWeight[c] * Earned(findings, c) * q
                                     /\ Denominator(findings) \div (2 * P) = q
    <2>1. P \in Nat /\ Earned(findings, c) \in Nat
      BY <1>2, PossibleIsNat
    <2>2. WeightedEarned(findings) = SumFunction(before)
      BY DEF WeightedEarned
    <2>3. QED
      BY <1>2, <2>1, <2>2, Terms
  <1>4. DOMAIN F = DOMAIN findings /\ \A j \in DOMAIN F : F[j].rule \in Rules /\ F[j].status \in Statuses
    <2>1. findings \in Seq(FindingRecords) /\ i \in DOMAIN findings
      BY <1>1 DEF LoopInv, AssessedIn, InCategory
    <2>2. \A j \in DOMAIN findings : findings[j] \in FindingRecords
      BY <2>1, FindingsOf
    <2>3. F[i] = [findings[i] EXCEPT !.status = "pass"] /\ \A j \in DOMAIN findings \ {i} : F[j] = findings[j]
      BY <2>1
    <2>4. "pass" \in Statuses
      BY DEF Statuses, Applicable, Assessed
    <2>5. \A j \in DOMAIN findings : F[j] \in FindingRecords
      BY <2>1, <2>2, <2>3, <2>4 DEF FindingRecords
    <2>6. QED
      BY <2>1, <2>5 DEF FindingRecords
  <1> HIDE DEF F
  <1>5. after \in [S -> Nat] /\ WeightedEarned(F) = SumFunction(after) /\ WeightedEarned(F) \in Nat
    <2>1. WeightedEarned(F) = SumFunction(after)
      BY <1>1 DEF WeightedEarned
    <2>2. QED
      BY <1>1, <1>4, <2>1, Terms
  <1>6. IsFiniteSet(S) /\ \A d \in S \ {c} : after[d] = before[d]
    BY <1>1, RowsAreFinite
  <1>7. c \in S <=> P # 0
    BY <1>1 DEF Surviving
  <1>8. ASSUME P = 0 PROVE WeightedEarned(F) = WeightedEarned(findings)
    <2>1. after = before
      BY <1>1, <1>7, <1>8
    <2>2. QED
      BY <1>3, <1>5, <2>1
  <1>9. ASSUME P # 0
        PROVE  \E q \in Nat :
                 /\ Denominator(findings) = 2 * (P * q)
                 /\ WeightedEarned(F) = WeightedEarned(findings) + CategoryWeight[c] * (2 - h) * W * q
    <2>1. c \in S
      BY <1>7, <1>9
    <2>2. PICK q \in Nat : /\ Denominator(findings) = 2 * (P * q)
                           /\ before[c] = CategoryWeight[c] * Earned(findings, c) * q
                           /\ Denominator(findings) \div (2 * P) = q
      BY <1>3, <2>1
    <2>3. after[c] = CategoryWeight[c] * Earned(F, c) * q
      BY <1>1, <2>1, <2>2
    <2>4. CategoryWeight[c] \in Nat
      BY <1>1, ScoringAssumption
    <2> HIDE DEF before, after, S
    <2>5. SumFunction(after) + before[c] = SumFunction(before) + after[c]
      BY <1>3, <1>5, <1>6, <2>1, SumChange
    <2> DEFINE CW == CategoryWeight[c]
               e == Earned(findings, c)
               f == Earned(F, c)
               a == WeightedEarned(findings)
               b == WeightedEarned(F)
    <2>6. b + CW * e * q = a + CW * f * q
      BY <1>3, <1>5, <2>2, <2>3, <2>5
    <2>7. /\ e \in Nat /\ f \in Nat /\ h \in {0, 1} /\ W \in Nat /\ CW \in Nat
          /\ f + h * W = e + 2 * W /\ a \in Nat /\ b \in Nat
      BY <1>1, <1>3, <1>5, <2>4
    <2> HIDE DEF CW, e, f, a, b, h, W
    <2>8. b = a + CW * (2 - h) * W * q
      BY <2>6, <2>7, WeightedChange, SMTT(60)
    <2>9. QED
      BY <2>2, <2>8 DEF CW, a, b
  <1>10. CategoryWeight[c] \in Nat
    BY <1>1, ScoringAssumption
  <1>11. QED
    BY <1>3, <1>7, <1>8, <1>9, <1>10 DEF F

(* top_fixes ranks every fix by exactly what it buys, for any rules, weights *)
(* and statuses: the one status it changes moves one category's sum, by the  *)
(* weight top_fixes divides by that category's.                              *)
THEOREM FixBuysItsPointsHolds == Spec => []FixBuysItsPoints
  <1>1. ASSUME LoopInv, Scored, NEW i \in FixesOffered(findings), Total(findings) # NoTotal
        PROVE  LET fixed == Total([findings EXCEPT ![i].status = "pass"])
                   now == Total(findings)
                   points == Points(findings, i)
               IN fixed.num * now.den * points.den
                    = now.num * fixed.den * points.den + points.num * now.den * fixed.den
    <2> DEFINE F == [findings EXCEPT ![i].status = "pass"]
               c == Category[findings[i].rule]
               W == Weight[findings[i].rule]
               h == Halves(findings[i].status)
               P == Possible(findings, c)
               WP == WeightedPossible(findings)
               D == Denominator(findings)
               WE == WeightedEarned(findings)
               rows == Rows(findings)
    <2>1. /\ c \in Categories /\ W \in Nat /\ h \in {0, 1} /\ W <= P
          /\ Denominator(F) = D /\ WeightedPossible(F) = WP
      BY <1>1, FixEarns
    <2>2. \A j \in DOMAIN findings : findings[j].rule \in Rules /\ findings[j].status \in Statuses
      BY <1>1, FindingsOf DEF LoopInv
    <2>3. WP \in Nat /\ D \in Nat /\ WP # 0
      BY <1>1, <2>2, Terms DEF Total
    <2>4. /\ Total(findings).num = 100 * WE /\ Total(findings).den = D * WP
          /\ Total(F).num = 100 * WeightedEarned(F) /\ Total(F).den = D * WP
      BY <2>1, <2>3 DEF Total
    <2>5. FixWeight(findings, c) = P
      BY DEF FixWeight, WeightIn, Possible
    <2>6. SumFunction(rows) = WP
      <3> DEFINE S == DOMAIN rows
                 T == Surviving(findings)
      <3>1. IsFiniteSet(S) /\ S \subseteq Categories /\ T \subseteq S
        BY <1>1, RowsAreFinite DEF Rows
      <3>2. /\ rows = [d \in S |-> rows[d]]
            /\ \A d \in S : rows[d] = IF d \in T THEN CategoryWeight[d] ELSE 0
        BY DEF Rows
      <3>3. \A d \in S : CategoryWeight[d] \in Nat
        BY <3>1, ScoringAssumption
      <3> HIDE DEF rows, S, T
      <3>4. rows \in [S -> Nat] /\ \A d \in S \ T : rows[d] = 0
        BY <3>2, <3>3
      <3>5. SumFunction(rows) = SumFunction([d \in T |-> rows[d]])
        BY <3>1, <3>4, SumSupport
      <3>6. [d \in T |-> rows[d]] = [d \in T |-> CategoryWeight[d]]
        BY <3>1, <3>2
      <3>7. QED
        BY <3>5, <3>6 DEF T, WeightedPossible
    <2>7. c \in DOMAIN rows
      BY <1>1 DEF FixesOffered
    <2>8. rows[c] = IF P # 0 THEN CategoryWeight[c] ELSE 0
      BY <2>1, <2>7 DEF Rows, Surviving
    <2>9. /\ Points(findings, i).num = 100 * (2 - h) * W * rows[c]
          /\ Points(findings, i).den = 2 * OrOne(P) * WP
      BY <2>3, <2>5, <2>6 DEF Points, OrOne
    <2>10. /\ P \in Nat /\ WE \in Nat
           /\ P = 0 => WeightedEarned(F) = WE
           /\ P # 0 => /\ CategoryWeight[c] \in Nat
                       /\ \E q \in Nat : /\ D = 2 * (P * q)
                                         /\ WeightedEarned(F) = WE + CategoryWeight[c] * (2 - h) * W * q
      BY <1>1, FixAdds
    <2>11. CASE P = 0
      <3>1. WeightedEarned(F) = WE /\ Points(findings, i).num = 0 /\ Points(findings, i).den = 2 * WP
        <4>1. rows[c] = 0 /\ OrOne(P) = 1
          BY <2>8, <2>11 DEF OrOne
        <4>2. 100 * (2 - h) * W * 0 = 0
          BY <2>1
        <4>3. QED
          BY <2>9, <2>10, <2>11, <2>3, <4>1, <4>2
      <3>2. (100 * WE) * (D * WP) * (2 * WP)
              = (100 * WE) * (D * WP) * (2 * WP) + 0 * (D * WP) * (D * WP)
        BY <2>3, <2>10
      <3>3. QED
        BY <2>4, <3>1, <3>2, Zenon
    <2>12. CASE P # 0
      <3>1. PICK q \in Nat : /\ D = 2 * (P * q)
                             /\ WeightedEarned(F) = WE + CategoryWeight[c] * (2 - h) * W * q
        BY <2>10, <2>12
      <3> DEFINE k == 2 - h
                 CW == CategoryWeight[c]
      <3>2. rows[c] = CW /\ OrOne(P) = P
        BY <2>8, <2>12 DEF OrOne
      <3>3. k \in Nat /\ CW \in Nat
        BY <2>1, <2>10, <2>12
      <3>4. WeightedEarned(F) = WE + CW * k * W * q /\ D = 2 * P * q
        BY <2>10, <3>1
      <3> HIDE DEF k, CW, P, WP, D, WE, W
      <3>5. (100 * (WE + CW * k * W * q)) * (D * WP) * (2 * P * WP)
              = (100 * WE) * (D * WP) * (2 * P * WP) + (100 * k * W * CW) * (D * WP) * (D * WP)
        <4>1. WE \in Nat /\ W \in Nat /\ P \in Nat /\ WP \in Nat /\ D \in Nat
          BY <2>1, <2>3, <2>10
        <4>2. QED
          BY <3>3, <3>4, <4>1, PointsIdentity, SMTT(60)
      <3>6. Points(findings, i).num = 100 * k * W * CW /\ Points(findings, i).den = 2 * P * WP
        BY <2>9, <3>2 DEF k
      <3>7. QED
        BY <2>4, <3>4, <3>5, <3>6, Zenon DEF WE
    <2>13. QED
      BY <2>11, <2>12
  <1>2. Card.total = Total(findings)
    BY DEF Card, Score
  <1>3. IInv => FixBuysItsPoints
    BY <1>1, <1>2 DEF IInv, FixBuysItsPoints
  <1>4. QED
    BY <1>3, InductiveInvariant, PTL

(* A check that passes --fail-under has a score of at least the threshold,   *)
(* up to the half tenth that showing it rounds away, and rules that really   *)
(* answered earn it.                                                         *)
THEOREM ThresholdIsEarnedHolds == Spec => []ThresholdIsEarned
  <1>1. ASSUME IInv, pc = "ended", exit = 0, threshold # NoThreshold
        PROVE  LET earned == Total(Without(Degraded))
               IN earned # NoTotal /\ 20 * earned.num + earned.den >= 20 * threshold * earned.den
    <2> DEFINE T == Total(findings)
    <2>1. Card.total = T /\ Total(Without(Degraded)) = T
      BY <1>1, DegradedHoldNoAnswer DEF Card, Score, IInv
    <2>2. 0 \in ThresholdVerdicts(threshold)
      BY <1>1 DEF IInv, VerdictStands
    <2>3. T # NoTotal /\ \E t \in Shown(T) : ~ (t < 10 * threshold)
      BY <1>1, <2>1, <2>2 DEF ThresholdVerdicts
    <2>4. PICK t \in 0 .. 1000 : /\ 2 * t * T.den <= 20 * T.num + T.den /\ ~ (t < 10 * threshold)
      BY <2>3 DEF Shown
    <2>5. threshold \in Nat
      BY <1>1, EngineAssumption DEF IInv, TypeOK
    <2>6. T.num \in Nat /\ T.den \in Nat
      <3>1. \A j \in DOMAIN findings : findings[j].rule \in Rules /\ findings[j].status \in Statuses
        BY <1>1, FindingsOf DEF LoopInv, IInv, Scored
      <3>2. WeightedPossible(findings) \in Nat /\ Denominator(findings) \in Nat /\ WeightedEarned(findings) \in Nat
        BY <1>1, <3>1, Terms DEF IInv, Scored
      <3>3. /\ 100 * WeightedEarned(findings) \in Nat
            /\ Denominator(findings) * WeightedPossible(findings) \in Nat
        BY <3>2
      <3>4. QED
        BY <2>3, <3>3 DEF Total, NoTotal
    <2> DEFINE d == T.den
               n == T.num
    <2> HIDE DEF d, n, T
    <2>7. d \in Nat /\ n \in Nat /\ 2 * t * d <= 20 * n + d /\ t >= 10 * threshold
      BY <2>4, <2>5, <2>6 DEF d, n
    <2>8. 20 * threshold * d <= 2 * t * d
      <3>1. PICK k \in Nat : t = 10 * threshold + k
        BY <2>4, <2>5, <2>7
      <3>2. 2 * t * d = 20 * threshold * d + 2 * k * d /\ 2 * k * d \in Nat /\ 20 * threshold * d \in Nat
        BY <2>5, <2>7, <3>1
      <3>3. QED
        BY <3>2
    <2>9. 20 * n + d >= 20 * threshold * d
      <3>1. 2 * t * d \in Nat /\ 20 * threshold * d \in Nat
        BY <2>4, <2>5, <2>7
      <3>2. QED
        BY <2>7, <2>8, <3>1
    <2>10. QED
      BY <2>1, <2>3, <2>9 DEF d, n
  <1>2. IInv => ThresholdIsEarned
    BY <1>1 DEF ThresholdIsEarned
  <1>3. QED
    BY <1>2, InductiveInvariant, PTL
=============================================================================
