---------------------------- MODULE CorpusProofs ----------------------------
(* The corpus: a reviewer's export is what finalize-claim closed, a candidate *)
(* run rests on reviews, what validates is what was scanned, and blame is the *)
(* analyzer's.  For any claims, links, terminals, people, decisions, truths,  *)
(* repositories, runs and analyzers, and any changes to the files.            *)
EXTENDS ClaimWorkspace, ClaimReview, CorpusRun, TLAPS

----------------------------------------------------------------------------
(* ClaimWorkspace: one reviewer's document under several terminals.          *)

LEMMA WorkspaceInit == CWInit => CWIInv
BY WorkspaceAssumption, TruthAssumption DEF CWInit, CWIInv, CWTypeOK, ExportsAreFinalized

(* A command that has read a closed document writes a closed document, when  *)
(* the claim it edits is closed itself.                                      *)
LEMMA PersistKeeps ==
  ASSUME CWIInv, NEW t \in Terminals, NEW c \in Claims, NEW claim \in ClaimRecords,
         copy[t] # Missing, Persist(t, c, claim), finalized \subseteq finalized',
         finalized' \subseteq [claim : Claims, closed : ClaimRecords],
         claim.finalized # Never => [claim |-> c, closed |-> claim] \in finalized'
  PROVE  CWIInv'
<1>1. copy[t] \in Documents /\ Closed(copy[t])
  BY DEF CWIInv, CWTypeOK
<1>2. workspace' = [copy[t] EXCEPT ![c] = claim] /\ workspace' \in Documents
  BY <1>1 DEF Persist, Documents
<1>3. (workspace # Missing => Closed(workspace))'
  BY <1>1, <1>2 DEF Closed, Persist, Documents, Ordered, Complete, Recorded
<1>4. CWTypeOK'
  BY <1>2 DEF CWIInv, CWTypeOK, Persist
<1>5. ASSUME NEW u \in Terminals, copy'[u] # Missing
      PROVE  Closed(copy[u])'
  <2>1. copy'[u] = copy[u]
    BY <1>5 DEF Persist, CWIInv, CWTypeOK
  <2>2. Closed(copy[u])
    BY <1>5, <2>1 DEF CWIInv
  <2> QED BY <2>1, <2>2 DEF Closed
<1>6. ExportsAreFinalized'
  BY DEF CWIInv, ExportsAreFinalized, Persist, Complete, Recorded
<1> QED BY <1>2, <1>3, <1>4, <1>5, <1>6 DEF CWIInv

LEMMA WorkspaceNext == CWIInv /\ [CWNext]_workspaceVars => CWIInv'
<1> SUFFICES ASSUME CWIInv, [CWNext]_workspaceVars PROVE CWIInv'
  OBVIOUS
<1>1. CASE UNCHANGED workspaceVars
  BY <1>1 DEF workspaceVars, CWIInv, CWTypeOK, Closed, ExportsAreFinalized
<1>2. ASSUME NEW t \in Terminals, CreateDocument(t) PROVE CWIInv'
  <2>1. NewWorkspace \in Documents /\ \A c \in Claims : NewWorkspace[c].finalized = Never
    BY WorkspaceAssumption, TruthAssumption
    DEF NewWorkspace, NewClaim, Documents, ClaimRecords, Never
  <2> QED BY <1>2, <2>1 DEF CreateDocument, CWIInv, CWTypeOK, Closed, ExportsAreFinalized
<1>13. ASSUME NEW t \in Terminals, SeeNoWorkspace(t) PROVE CWIInv'
  BY <1>13 DEF SeeNoWorkspace, CWIInv, CWTypeOK, Closed, ExportsAreFinalized
<1>3. CASE NextSecond
  BY <1>3, WorkspaceAssumption, TruthAssumption DEF NextSecond, CWIInv, CWTypeOK, Closed, ExportsAreFinalized
<1>4. ASSUME NEW t \in Terminals, Read(t) PROVE CWIInv'
  BY <1>4 DEF Read, CWIInv, CWTypeOK, Closed, ExportsAreFinalized
<1>5. ASSUME NEW t \in Terminals, GiveUp(t) PROVE CWIInv'
  BY <1>5 DEF GiveUp, CWIInv, CWTypeOK, Closed, ExportsAreFinalized
<1>6. ASSUME NEW t \in Terminals, FinalizeReview(t) PROVE CWIInv'
  <2>1. copy[t] \in Documents /\ Closed(copy[t])
    BY <1>6 DEF FinalizeReview, CWIInv, CWTypeOK
  <2>2. ExportsAreFinalized'
    BY <1>6, <2>1 DEF FinalizeReview, ExportReady, Closed, Ordered, ExportsAreFinalized
  <2> QED BY <1>6, <2>1, <2>2 DEF FinalizeReview, CWIInv, CWTypeOK, Closed
<1>7. ASSUME NEW t \in Terminals, NEW c \in Claims, Declare(t, c) PROVE CWIInv'
  <2>1. copy[t] \in Documents /\ Closed(copy[t])
    BY <1>7 DEF Declare, CWIInv, CWTypeOK
  <2> DEFINE claim == [copy[t][c] EXCEPT !.declared = second]
  <2>2. claim \in ClaimRecords
    <3>1. copy[t][c] \in ClaimRecords /\ second \in 0 .. LastSecond
      BY <2>1, WorkspaceAssumption, TruthAssumption DEF CWIInv, CWTypeOK, Documents
    <3> QED BY <3>1 DEF ClaimRecords
  <2>3. claim.finalized = Never
    BY <1>7, <2>1 DEF Declare, Closed, Ordered, Complete, Documents, ClaimRecords
  <2> QED BY <1>7, <2>2, <2>3, PersistKeeps DEF Declare, CWIInv, CWTypeOK
<1>8. ASSUME NEW t \in Terminals, NEW c \in Claims, NEW claim \in ClaimRecords,
             copy[t] # Missing, Persist(t, c, Withdrawn(claim)), UNCHANGED finalized
      PROVE  CWIInv'
  <2>1. Withdrawn(claim) \in ClaimRecords /\ Withdrawn(claim).finalized = Never
    BY WorkspaceAssumption, TruthAssumption DEF Withdrawn, ClaimRecords, Never
  <2> QED BY <1>8, <2>1, PersistKeeps DEF CWIInv, CWTypeOK
<1>9. ASSUME NEW t \in Terminals, NEW c \in Claims, NEW f \in Fields,
             NEW decision \in Decisions, Decide(t, c, f, decision)
      PROVE  CWIInv'
  <2>1. copy[t] \in Documents
    BY <1>9 DEF Decide, CWIInv, CWTypeOK
  <2>2. [copy[t][c] EXCEPT !.decided[f] = decision, !.early = @ \ {f}] \in ClaimRecords
    BY <2>1 DEF Documents, ClaimRecords
  <2> QED BY <1>8, <1>9, <2>2 DEF Decide
<1>10. ASSUME NEW t \in Terminals, NEW c \in Claims, ClearDeclarations(t, c) PROVE CWIInv'
  <2>1. copy[t] \in Documents
    BY <1>10 DEF ClearDeclarations, CWIInv, CWTypeOK
  <2>2. copy[t][c] \in ClaimRecords /\ Never \in 0 .. LastSecond
    BY <2>1, WorkspaceAssumption, TruthAssumption DEF Documents, Never
  <2>3. [copy[t][c] EXCEPT !.declared = Never, !.early = Recorded(copy[t][c])] \in ClaimRecords
    BY <2>2 DEF ClaimRecords, Recorded
  <2> QED BY <1>8, <1>10, <2>3 DEF ClearDeclarations
<1>11. ASSUME NEW t \in Terminals, NEW c \in Claims, NEW f \in Fields, ClearDecision(t, c, f)
       PROVE  CWIInv'
  <2>1. copy[t] \in Documents
    BY <1>11 DEF ClearDecision, CWIInv, CWTypeOK
  <2>2. [copy[t][c] EXCEPT !.decided[f] = Missing, !.early = @ \ {f}] \in ClaimRecords
    BY <2>1 DEF Documents, ClaimRecords
  <2> QED BY <1>8, <1>11, <2>2 DEF ClearDecision
<1>12. ASSUME NEW t \in Terminals, NEW c \in Claims, FinalizeClaim(t, c) PROVE CWIInv'
  <2>1. copy[t] \in Documents
    BY <1>12 DEF FinalizeClaim, CWIInv, CWTypeOK
  <2> DEFINE claim == [copy[t][c] EXCEPT !.finalized = second]
  <2>2. claim \in ClaimRecords
    <3>1. copy[t][c] \in ClaimRecords /\ second \in 0 .. LastSecond
      BY <2>1, WorkspaceAssumption, TruthAssumption DEF CWIInv, CWTypeOK, Documents
    <3> QED BY <3>1 DEF ClaimRecords
  <2>3. finalized' = finalized \cup {[claim |-> c, closed |-> claim]}
    BY <1>12 DEF FinalizeClaim
  <2>4. finalized' \subseteq [claim : Claims, closed : ClaimRecords]
    BY <2>2, <2>3 DEF CWIInv, CWTypeOK
  <2> QED BY <1>12, <2>2, <2>3, <2>4, PersistKeeps DEF FinalizeClaim
<1> QED
  BY <1>1, <1>2, <1>13, <1>3, <1>4, <1>5, <1>6, <1>7, <1>9, <1>10, <1>11, <1>12
  DEF CWNext, Command

(* CWIInv is an invariant: every document is well formed and every finalized   *)
(* claim in it, or in what a terminal has read, was closed as it stands.     *)
THEOREM WorkspaceInvariantHolds == CWSpec => []CWIInv
BY WorkspaceInit, WorkspaceNext, PTL DEF CWSpec

(* An export never mixes the decisions of different finalizations.           *)
THEOREM ExportsFinalized == CWSpec => []ExportsAreFinalized
<1>1. CWIInv => ExportsAreFinalized
  BY DEF CWIInv
<1> QED BY <1>1, WorkspaceInvariantHolds, PTL

----------------------------------------------------------------------------
(* ClaimReview: the merged review and the start of a candidate run.          *)

(* The second a moment falls into.                                           *)
LEMMA SecondBounds ==
  ASSUME NEW m \in Nat
  PROVE  Second(m) \in Nat /\ Second(m) <= m /\ Second(m) = 2 * (m \div 2)
BY DEF Second

(* A decision stamped before a moment was made no later than in its second.  *)
LEMMA StampedBefore ==
  ASSUME NEW d, d.made \in Nat, Stamped(d), NEW m \in Nat, d.at < m
  PROVE  d.made \div 2 <= m \div 2
<1>1. d.at = 2 * (d.made \div 2)
  BY SecondBounds DEF Stamped
<1>2. d.made \div 2 \in Nat /\ m \div 2 \in Nat /\ m < 2 * (m \div 2) + 2
  OBVIOUS
<1> QED BY <1>1, <1>2

LEMMA ReviewInit == CRInit => CRIInv
BY SecondBounds
DEF CRInit, CRIInv, CRTypeOK, Truths, RunsRestOnReview, DecidedBeforeRun, FromTwo

(* Both properties speak of runs that started, and no review is taken back.  *)
LEMMA RunsKept ==
  ASSUME CRIInv, handed \subseteq handed', UNCHANGED started
  PROVE  RunsRestOnReview' /\ DecidedBeforeRun'
<1>1. RunsRestOnReview'
  BY DEF CRIInv, RunsRestOnReview
<1>2. DecidedBeforeRun'
  BY DEF CRIInv, DecidedBeforeRun
<1> QED BY <1>1, <1>2

LEMMA MergedKept ==
  ASSUME CRIInv, handed \subseteq handed', UNCHANGED merged
  PROVE  (merged # Missing => FromTwo(merged))'
BY DEF CRIInv, FromTwo, Reviewers

(* The later of the two stamps is not before either.                         *)
LEMMA LatestOfTwo ==
  ASSUME NEW m, NEW a \in Completed, NEW b \in Completed, a.by # b.by,
         m.reviews \in [{a.by, b.by} -> Completed],
         m.reviews[a.by] = a, m.reviews[b.by] = b
  PROVE  Latest(m) \in Nat /\ Latest(m) >= a.at /\ Latest(m) >= b.at
<1> DEFINE moments == {m.reviews[p].at : p \in Reviewers(m)}
<1>1. moments = {a.at, b.at} /\ a.at \in Nat /\ b.at \in Nat
  BY DEF Reviewers, Completed
<1>2. \E x \in moments : \A other \in moments : other <= x
  <2> HIDE DEF moments
  <2>1. CASE a.at <= b.at
    BY <1>1, <2>1
  <2>2. CASE b.at <= a.at
    BY <1>1, <2>2
  <2> QED BY <1>1, <2>1, <2>2
<1>3. Latest(m) \in moments /\ \A other \in moments : other <= Latest(m)
  BY <1>2 DEF Latest
<1> QED BY <1>1, <1>3

(* A merged file that passes the checks of a run is the merge of two reviews *)
(* as they were handed over.                                                 *)
LEMMA AcceptedRests ==
  ASSUME CRIInv, merged # Missing, NEW t \in Truths, NEW moment \in Nat,
         Accepted(merged, t), Reconstructed(merged), BeforeStart(merged, moment)
  PROVE  \E a, b \in handed :
           /\ a.by # b.by /\ a.truth = t.version /\ b.truth = t.version
           /\ a.made >= t.frozen /\ b.made >= t.frozen
           /\ \A c \in Claims :
                IF a.decided[c] = b.decided[c] THEN a.decided[c] = Verified
                ELSE LET third == merged.adjudicated[c]
                     IN /\ third # Missing /\ third.decision = Verified
                        /\ third.by \notin {a.by, b.by}
                        /\ third.at >= a.at /\ third.at >= b.at
<1>1. PICK a \in handed, b \in handed :
        /\ a.by # b.by /\ a.truth = merged.truth /\ b.truth = merged.truth
        /\ merged.sources = {a, b}
        /\ merged.reviews \in [{a.by, b.by} -> Completed]
  BY DEF CRIInv, FromTwo
<1>2. merged.reviews[a.by] = a /\ merged.reviews[b.by] = b
  BY <1>1 DEF Reconstructed
<1>3. a \in Completed /\ b \in Completed /\ Stamped(a) /\ Stamped(b)
  BY DEF CRIInv, CRTypeOK
<1>4. Reviewers(merged) = {a.by, b.by}
  BY <1>1 DEF Reviewers
<1>5. a.truth = t.version /\ b.truth = t.version
  BY <1>1 DEF Accepted
<1>6. a.made >= t.frozen /\ b.made >= t.frozen
  <2>1. a.at >= t.frozen /\ b.at >= t.frozen /\ t.frozen \in Nat
    BY <1>2, <1>4 DEF Accepted, Truths
  <2>2. a.at <= a.made /\ b.at <= b.made
    BY <1>3, SecondBounds DEF Stamped, Completed
  <2> QED BY <1>3, <2>1, <2>2 DEF Completed
<1>7. ASSUME NEW c \in Claims
      PROVE  IF a.decided[c] = b.decided[c] THEN a.decided[c] = Verified
             ELSE LET third == merged.adjudicated[c]
                  IN /\ third # Missing /\ third.decision = Verified
                     /\ third.by \notin {a.by, b.by}
                     /\ third.at >= a.at /\ third.at >= b.at
  <2>1. Resolved(merged, c)
    BY DEF Accepted
  <2>2. Disputed(merged, c) <=> a.decided[c] # b.decided[c]
    BY <1>2, <1>4 DEF Disputed
  <2>3. CASE a.decided[c] = b.decided[c]
    BY <1>2, <1>4, <2>1, <2>2, <2>3 DEF Resolved
  <2>4. CASE a.decided[c] # b.decided[c]
    <3>1. /\ merged.adjudicated[c] # Missing
          /\ merged.adjudicated[c].decision = Verified
          /\ Independent(merged.adjudicated[c], merged)
      BY <2>1, <2>2, <2>4 DEF Resolved
    <3>2. merged.adjudicated[c].at \in Nat
      BY <3>1 DEF CRIInv, FromTwo, Adjudications
    <3>3. Latest(merged) \in Nat /\ Latest(merged) >= a.at /\ Latest(merged) >= b.at
      BY <1>1, <1>2, <1>3, LatestOfTwo
    <3>4. a.at \in Nat /\ b.at \in Nat
      BY <1>3 DEF Completed
    <3> QED BY <1>4, <2>4, <3>1, <3>2, <3>3, <3>4 DEF Independent
  <2> QED BY <2>3, <2>4
<1> QED BY <1>1, <1>5, <1>6, <1>7

LEMMA AcceptedDecidedBefore ==
  ASSUME CRIInv, merged # Missing, NEW moment \in Nat, BeforeStart(merged, moment)
  PROVE  \A d \in Decisive(merged) : d.made \div 2 <= moment \div 2
<1> SUFFICES ASSUME NEW d \in Decisive(merged)
             PROVE  d.made \div 2 <= moment \div 2
  OBVIOUS
<1>1. d.made \in Nat /\ Stamped(d)
  BY DEF Decisive, CRIInv, FromTwo, Reviewers, Completed, Adjudications
<1>2. d.at < moment
  BY DEF BeforeStart
<1> QED BY <1>1, <1>2, StampedBefore

LEMMA ReviewNext == CRIInv /\ [CRNext]_reviewVars => CRIInv'
<1> SUFFICES ASSUME CRIInv, [CRNext]_reviewVars PROVE CRIInv'
  OBVIOUS
<1> USE DEF CRIInv
<1>1. CASE UNCHANGED reviewVars
  <2>1. CRTypeOK' /\ (\A r \in handed : Stamped(r))'
    BY <1>1 DEF reviewVars, CRTypeOK, Stamped
  <2> QED BY <1>1, <2>1, RunsKept, MergedKept DEF reviewVars
<1>2. CASE Tick
  <2>1. CRTypeOK' /\ (\A r \in handed : Stamped(r))'
    BY <1>2 DEF Tick, CRTypeOK, Stamped
  <2> QED BY <1>2, <2>1, RunsKept, MergedKept DEF Tick
<1>3. CASE Freeze
  <2>1. CRTypeOK' /\ (\A r \in handed : Stamped(r))'
    BY <1>3, SecondBounds DEF Freeze, CRTypeOK, Truths, Stamped
  <2> QED BY <1>3, <2>1, RunsKept, MergedKept DEF Freeze
<1>4. CASE Merge
  <2>1. PICK r1 \in handed, r2 \in handed :
          MayMerge(r1, r2, truth.version) /\ merged' = Merges(r1, r2)
    BY <1>4 DEF Merge
  <2> DEFINE m == Merges(r1, r2)
  <2>2. r1 \in Completed /\ r2 \in Completed /\ r1.by # r2.by /\ Stamped(r1) /\ Stamped(r2)
    BY <2>1 DEF MayMerge, CRTypeOK
  <2>3. /\ m.sources = {r1, r2} /\ m.truth = r1.truth
        /\ m.reviews = [p \in {r1.by, r2.by} |-> IF p = r1.by THEN r1 ELSE r2]
        /\ m.adjudicated = [c \in Claims |-> Missing]
    BY DEF Merges
  <2>4. m = [sources |-> m.sources, truth |-> m.truth, reviews |-> m.reviews,
             adjudicated |-> m.adjudicated]
    BY DEF Merges
  <2>5. m.reviews \in [{r1.by, r2.by} -> Completed]
    BY <2>2, <2>3
  <2>6. \A p \in Reviewers(m) : Stamped(m.reviews[p])
    BY <2>2, <2>3 DEF Reviewers
  <2>7. r1.truth = m.truth /\ r2.truth = m.truth
    BY <2>1, <2>3 DEF MayMerge
  <2>8. UNCHANGED <<clock, truth, handed, candidate, started>>
    BY <1>4 DEF Merge
  <2>9. FromTwo(m)
    BY <2>2, <2>3, <2>4, <2>5, <2>6, <2>7 DEF FromTwo
  <2>10. FromTwo(m)'
    BY <2>1, <2>8, <2>9 DEF FromTwo, Merges, Reviewers, Stamped, Second
  <2>11. CRTypeOK' /\ (\A r \in handed : Stamped(r))'
    BY <2>8 DEF CRTypeOK, Stamped
  <2> QED BY <2>1, <2>8, <2>9, <2>11, RunsKept DEF FromTwo, Reviewers, Stamped
<1>5. CASE BeginRun
  <2>1. CRTypeOK' /\ (\A r \in handed : Stamped(r))'
    BY <1>5 DEF BeginRun, CRTypeOK, Stamped
  <2> QED BY <1>5, <2>1, RunsKept, MergedKept DEF BeginRun
<1>6. CASE ReadTruth
  <2>1. CRTypeOK' /\ (\A r \in handed : Stamped(r))'
    BY <1>6 DEF ReadTruth, CRTypeOK, Stamped
  <2> QED BY <1>6, <2>1, RunsKept, MergedKept DEF ReadTruth
<1>7. CASE ReadReview
  <2>1. CRTypeOK' /\ (\A r \in handed : Stamped(r))'
    BY <1>7 DEF ReadReview, CRTypeOK, Stamped
  <2>2. candidate.moment \in Nat /\ candidate.truth \in Truths
    BY <1>7 DEF ReadReview, CRTypeOK
  <2>3. started' = {[moment |-> candidate.moment, truth |-> candidate.truth, review |-> merged]}
        /\ handed' = handed /\ merged' = merged
    BY <1>7 DEF ReadReview
  <2>4. RunsRestOnReview'
    BY <1>7, <2>2, <2>3, AcceptedRests DEF ReadReview, RunsRestOnReview
  <2>5. DecidedBeforeRun'
    BY <1>7, <2>2, <2>3, AcceptedDecidedBefore DEF ReadReview, DecidedBeforeRun
  <2> QED BY <2>1, <2>3, <2>4, <2>5, MergedKept
<1>8. CASE Refuse
  <2>1. CRTypeOK' /\ (\A r \in handed : Stamped(r))'
    BY <1>8 DEF Refuse, CRTypeOK, Stamped
  <2> QED BY <1>8, <2>1, RunsKept, MergedKept DEF Refuse
<1>9. ASSUME NEW p \in People, HandOver(p) PROVE CRIInv'
  <2>1. PICK decided \in Decided :
          handed' = handed \cup {[by |-> p, truth |-> truth.version, at |-> Second(clock),
                                  made |-> clock, decided |-> decided]}
    BY <1>9 DEF HandOver
  <2>2. CRTypeOK' /\ (\A r \in handed : Stamped(r))'
    BY <1>9, <2>1, SecondBounds DEF HandOver, CRTypeOK, Stamped, Completed, Truths
  <2> QED BY <1>9, <2>1, <2>2, RunsKept, MergedKept DEF HandOver
<1>10. ASSUME NEW p \in People, Adjudicate(p) PROVE CRIInv'
  <2>1. PICK c \in Claims, decision \in Decisions :
          merged' = [merged EXCEPT !.adjudicated[c] =
                       [by |-> p, at |-> Second(clock), made |-> clock, decision |-> decision]]
    BY <1>10 DEF Adjudicate
  <2> DEFINE adjudication ==
        [by |-> p, at |-> Second(clock), made |-> clock, decision |-> decision]
  <2>2. adjudication \in Adjudications /\ Stamped(adjudication)
    BY SecondBounds DEF CRTypeOK, Adjudications, Stamped
  <2>3. UNCHANGED <<clock, truth, handed, candidate, started>> /\ merged # Missing
    BY <1>10 DEF Adjudicate
  <2>4. /\ merged' = [sources |-> merged.sources, truth |-> merged.truth,
                      reviews |-> merged.reviews,
                      adjudicated |-> [merged.adjudicated EXCEPT ![c] = adjudication]]
    BY <2>1, <2>3 DEF FromTwo
  <2>5. FromTwo(merged)
    BY <2>3
  <2>6. FromTwo(merged)'
    BY <2>2, <2>3, <2>4, <2>5 DEF FromTwo, Reviewers, Stamped
  <2>7. CRTypeOK' /\ (\A r \in handed : Stamped(r))'
    BY <2>3 DEF CRTypeOK, Stamped
  <2> QED BY <2>3, <2>6, <2>7, RunsKept
<1>11. ASSUME NEW p \in People, Rewrite(p) PROVE CRIInv'
  <2>1. PICK decided \in Decided :
          merged' = [merged EXCEPT !.reviews[p].decided = decided]
    BY <1>11 DEF Rewrite
  <2>2. UNCHANGED <<clock, truth, handed, candidate, started>> /\ merged # Missing
        /\ p \in Reviewers(merged)
    BY <1>11 DEF Rewrite
  <2> DEFINE review == [merged.reviews[p] EXCEPT !.decided = decided]
  <2>3. merged.reviews[p] \in Completed /\ Stamped(merged.reviews[p])
    BY <2>2 DEF FromTwo, Reviewers
  <2>4. review \in Completed /\ Stamped(review)
    BY <2>3 DEF Completed, Stamped
  <2>5. merged' = [sources |-> merged.sources, truth |-> merged.truth,
                   reviews |-> [merged.reviews EXCEPT ![p] = review],
                   adjudicated |-> merged.adjudicated]
    BY <2>1, <2>2 DEF FromTwo
  <2>6. FromTwo(merged)
    BY <2>2
  <2>7. FromTwo(merged)'
    BY <2>2, <2>4, <2>5, <2>6 DEF FromTwo, Reviewers, Stamped
  <2>8. CRTypeOK' /\ (\A r \in handed : Stamped(r))'
    BY <2>2 DEF CRTypeOK, Stamped
  <2> QED BY <2>2, <2>7, <2>8, RunsKept
<1> QED
  BY <1>1, <1>2, <1>3, <1>4, <1>5, <1>6, <1>7, <1>8, <1>9, <1>10, <1>11 DEF CRNext

(* CRIInv is an invariant: the merged file names two people's reviews of one   *)
(* truth, and every decision bears the second it was made in.                *)
THEOREM ReviewInvariantHolds == CRSpec => []CRIInv
BY ReviewInit, ReviewNext, PTL DEF CRSpec

(* A candidate run rests on two people's own reviews of the truth it read,   *)
(* and on a third person's decision wherever they differ.                    *)
THEOREM RunsRest == CRSpec => []RunsRestOnReview
<1>1. CRIInv => RunsRestOnReview
  BY DEF CRIInv
<1> QED BY <1>1, ReviewInvariantHolds, PTL

(* No decision a candidate run rests on was made after the second it         *)
(* started in.                                                               *)
THEOREM DecidedBefore == CRSpec => []DecidedBeforeRun
<1>1. CRIInv => DecidedBeforeRun
  BY DEF CRIInv
<1> QED BY <1>1, ReviewInvariantHolds, PTL

----------------------------------------------------------------------------
(* CorpusRun: acquisition, runs, their evidence and its comparison.          *)

Good(d) == Typed(d) /\ SoFar(d) /\ Sealed(d)

Kept(d) ==
  /\ pc'[d] = pc[d] /\ at'[d] = at[d] /\ run'[d] = run[d]
  /\ dir'[d] = dir[d] /\ scanned'[d] = scanned[d]

ClonesGrow ==
  /\ clones' \in [Repos -> Nat]
  /\ \A r \in Repos : clones[r] =< clones'[r]

LEMMA InitInvariant == Init => IInv
  BY CorpusAssumption DEF Init, IInv, TypeOK, Typed, SoFar, Sealed, BlameIsTheAnalyzers,
     Working, Partial, RunTypes, DirTypes

(* What an action does not touch stays good, though clones grow.             *)
LEMMA KeptGood ==
  ASSUME IInv, NEW d \in Runs, Kept(d), ClonesGrow
  PROVE  Good(d)'
<1>1. Typed(d) /\ SoFar(d) /\ Sealed(d) /\ clones \in [Repos -> Nat]
  BY DEF IInv, TypeOK
<1>2. Typed(d)'
  BY <1>1 DEF Kept, Typed, RunTypes, DirTypes
<1>3. Sealed(d)'
  BY <1>1 DEF Kept, Sealed, Faithful
<1>4. SoFar(d)'
  <2>1. pc[d] \in Working \ {"next"} => Repo(d) \in Repos
    BY <1>1 DEF SoFar, More, Repo, Repos
  <2>2. Repo(d)' = Repo(d) /\ Passed(d)' = Passed(d) /\ (More(d)' <=> More(d))
    BY DEF Kept, Repo, Passed, More
  <2>3. pc[d] = "scan" => run[d].before =< clones'[Repo(d)]
    BY <1>1, <2>1 DEF SoFar, Typed, RunTypes, ClonesGrow, Working
  <2>4. pc[d] = "scanned" => run[d].row.bytes =< clones'[Repo(d)]
    BY <1>1, <2>1 DEF SoFar, Typed, Partial, Results, ClonesGrow, Working
  <2> QED
    BY <1>1, <2>2, <2>3, <2>4 DEF SoFar, Kept, Faithful, RowsRest
<1> QED
  BY <1>2, <1>3, <1>4 DEF Good

----------------------------------------------------------------------------
(* The repository at hand is none of those passed.                           *)
LEMMA NotPassed ==
  ASSUME NEW d \in Runs, at \in [Runs -> Nat], More(d)
  PROVE  Repo(d) \in Repos /\ Repo(d) \notin Passed(d)
  BY CorpusAssumption DEF More, Repo, Repos, Passed

(* One lemma per action: the run that acts stays good.                       *)
LEMMA BeginGood ==
  ASSUME IInv, NEW d \in Runs, Begin(d)
  PROVE  Good(d)'
  BY DEF IInv, TypeOK, Typed, SoFar, Sealed, Begin, Goto, Good, RunTypes, Partial, Working, Faithful,
         inputs

LEMMA VerifyGood ==
  ASSUME IInv, NEW d \in Runs, Verify(d)
  PROVE  Good(d)'
  BY DEF IInv, TypeOK, Typed, SoFar, Sealed, Verify, Good, RunTypes, Working, Faithful, inputs

LEMMA CreateGood ==
  ASSUME IInv, NEW d \in Runs, Create(d)
  PROVE  Good(d)'
<1>1. /\ pc'[d] = "next" /\ run'[d] = run[d] /\ scanned'[d] = scanned[d]
      /\ dir'[d] = [marker |-> "running", meta |-> Nothing, combined |-> Nothing,
                    raw |-> [r \in {} |-> Nothing]]
  BY DEF IInv, TypeOK, Create, Goto
<1>2. Typed(d)'
  BY <1>1 DEF IInv, TypeOK, Typed, Create, RunTypes, DirTypes, Partial, Working
<1>3. DOMAIN run[d].rows = {}
  BY DEF IInv, SoFar, Create
<1> QED
  BY <1>1, <1>2, <1>3 DEF Good, SoFar, Sealed, Working, Faithful, RowsRest

ResultLess(row) ==
  /\ row \in Rows /\ row.status # "succeeded"
  /\ row.status = "acquisition failed" => row.tree = 0

(* A step that only changes what the run holds in memory: its new row, or    *)
(* the bytes it found before the scan.                                       *)
LEMMA HoldsGood ==
  ASSUME IInv, NEW d \in Runs, pc[d] \in Working, pc'[d] \in Working \ {"next"}, More(d),
         NEW row, NEW before \in Nat, pc[d] # "row",
         run'[d] = [identity |-> run[d].identity, manifest |-> run[d].manifest,
                    before |-> before, row |-> row, rows |-> run[d].rows],
         at'[d] = at[d], dir'[d] = dir[d], scanned'[d] = scanned[d], clones' = clones,
         pc'[d] = "scan" => before =< clones[Repo(d)],
         pc'[d] # "scanned",
         pc'[d] = "row" => ResultLess(row)
  PROVE  Good(d)'
<1>1. Typed(d) /\ SoFar(d) /\ Sealed(d)
  BY DEF IInv, TypeOK
<1>2. Typed(d)'
  <2>1. RunTypes(d) /\ DirTypes(d) /\ Partial(scanned[d], Results)
    BY <1>1 DEF Typed, Working
  <2>2. RunTypes(d)'
    BY <2>1 DEF RunTypes
  <2>3. DirTypes(d)'
    BY <2>1 DEF DirTypes
  <2> QED
    BY <2>1, <2>2, <2>3 DEF Typed, Working
<1>3. Repo(d)' = Repo(d) /\ Passed(d)' = Passed(d) /\ More(d)'
  BY DEF Repo, Passed, More
<1>4. SoFar(d)'
  <2>1. run'[d].rows = run[d].rows /\ run'[d].row = row /\ run'[d].before = before
    OBVIOUS
  <2>2. /\ dir[d].marker = "running" /\ dir[d].meta = Nothing /\ Faithful(dir[d].raw, d)
        /\ RowsRest(run[d].rows, dir[d].raw) /\ DOMAIN dir[d].raw \subseteq Passed(d)
    BY <1>1 DEF SoFar
  <2>3. Faithful(dir[d].raw, d)' /\ RowsRest(run[d].rows, dir[d].raw)'
    BY <2>1, <2>2 DEF Faithful, RowsRest, RowRests
  <2>4. pc'[d] = "row" => row \in Rows /\ RowRests(row, Repo(d), dir[d].raw)
    BY DEF ResultLess, RowRests
  <2>5. pc'[d] \in {"scan", "row"}
    BY DEF Working
  <2> QED
    BY <1>3, <2>1, <2>2, <2>3, <2>4, <2>5 DEF SoFar, Working
<1>5. Sealed(d)'
  BY <1>1 DEF Sealed, SoFar, Faithful, Working
<1> QED
  BY <1>2, <1>4, <1>5 DEF Good

LEMMA SkipFailedGood ==
  ASSUME IInv, NEW d \in Runs, SkipFailed(d)
  PROVE  Good(d)'
<1>1. Typed(d)
  BY DEF IInv, TypeOK
<1> DEFINE row == Row("acquisition failed", 0)
<1>2. /\ run'[d] = [identity |-> run[d].identity, manifest |-> run[d].manifest,
                    before |-> run[d].before, row |-> row, rows |-> run[d].rows]
      /\ run[d].before \in Nat
  BY <1>1 DEF SkipFailed, IInv, TypeOK, Typed, RunTypes
<1>3. ResultLess(row)
  BY DEF Row, Rows, Statuses, ResultLess
<1> HIDE DEF row
<1> QED
  BY <1>2, <1>3, HoldsGood DEF SkipFailed, IInv, TypeOK, Goto, inputs, Working

LEMMA HashGood ==
  ASSUME IInv, NEW d \in Runs, Hash(d)
  PROVE  Good(d)'
<1>1. Typed(d)
  BY DEF IInv, TypeOK
<1>2. run'[d] = [identity |-> run[d].identity, manifest |-> run[d].manifest,
                 before |-> clones[Repo(d)], row |-> run[d].row, rows |-> run[d].rows]
  BY <1>1 DEF Hash, IInv, TypeOK, Typed, RunTypes
<1>3. clones[Repo(d)] \in Nat /\ clones[Repo(d)] =< clones[Repo(d)]
  BY NotPassed DEF Hash, IInv, TypeOK
<1>4. /\ pc[d] = "next" /\ pc'[d] = "scan" /\ More(d) /\ clones' = clones
      /\ at'[d] = at[d] /\ dir'[d] = dir[d] /\ scanned'[d] = scanned[d]
  BY DEF Hash, IInv, TypeOK, Goto, inputs
<1> DEFINE before == clones[Repo(d)]
           row == run[d].row
<1> HIDE DEF before, row
<1>5. /\ before \in Nat /\ before =< clones[Repo(d)]
      /\ run'[d] = [identity |-> run[d].identity, manifest |-> run[d].manifest,
                    before |-> before, row |-> row, rows |-> run[d].rows]
  BY <1>2, <1>3 DEF before, row
<1> QED
  BY <1>4, <1>5, HoldsGood DEF Working

(* A scan that fails, or whose payload is refused, leaves a row without a    *)
(* result.                                                                   *)
LEMMA NoResultGood ==
  ASSUME IInv, NEW d \in Runs, ScanFails(d) \/ RefusePayload(d)
  PROVE  Good(d)'
<1>1. Typed(d) /\ More(d)
  BY DEF IInv, TypeOK, SoFar, ScanFails, RefusePayload, Working
<1>2. run[d].before \in Nat
  BY <1>1 DEF Typed, RunTypes, ScanFails, RefusePayload
<1>3. PICK status \in {"scanner failed", "contract failed"} :
        run' = [run EXCEPT ![d].row = Row(status, run[d].before)]
  BY DEF ScanFails, RefusePayload
<1> DEFINE row == Row(status, run[d].before)
<1>4. ResultLess(row)
  BY <1>2 DEF Row, Rows, Statuses, ResultLess
<1>5. run'[d] = [identity |-> run[d].identity, manifest |-> run[d].manifest,
                 before |-> run[d].before, row |-> row, rows |-> run[d].rows]
  BY <1>1, <1>3 DEF ScanFails, RefusePayload, IInv, TypeOK, Typed, RunTypes
<1> HIDE DEF row
<1> QED
  BY <1>1, <1>2, <1>4, <1>5, HoldsGood
     DEF ScanFails, RefusePayload, IInv, TypeOK, Goto, inputs, Working

LEMMA DiesGood ==
  ASSUME IInv, NEW d \in Runs, Dies(d)
  PROVE  Good(d)'
  BY DEF IInv, TypeOK, Typed, SoFar, Sealed, Dies, Goto, Good, DirTypes, Working, Faithful, inputs

LEMMA FinalizeGood ==
  ASSUME IInv, NEW d \in Runs, Finalize(d)
  PROVE  Good(d)'
<1>1. Typed(d) /\ SoFar(d) /\ Sealed(d)
  BY DEF IInv, TypeOK
<1>2. /\ pc[d] = "finalize" /\ pc'[d] = "ended" /\ scanned'[d] = scanned[d]
      /\ dir'[d] = [marker |-> "complete", meta |-> dir[d].meta, combined |-> dir[d].combined,
                    raw |-> dir[d].raw]
  BY <1>1 DEF IInv, TypeOK, Typed, DirTypes, Finalize, Goto
<1>3. Typed(d)'
  BY <1>1, <1>2 DEF Typed, DirTypes, Working
<1> QED
  BY <1>1, <1>2, <1>3 DEF Good, SoFar, Sealed, Working, Faithful

LEMMA TamperGood ==
  ASSUME IInv, NEW d \in Runs, Tamper(d)
  PROVE  Good(d)'
<1>1. Typed(d) /\ SoFar(d) /\ Sealed(d)
  BY DEF IInv, TypeOK
<1>2. DirTypes(d) /\ pc[d] = "ended" /\ dir[d] # Nothing
  BY <1>1 DEF Typed, Tamper
<1>3. PICK q \in DOMAIN dir[d].raw, outcome \in Outcomes :
        dir' = [dir EXCEPT ![d].raw[q].outcome = outcome]
  BY DEF Tamper
<1> DEFINE raw == [dir[d].raw EXCEPT ![q] = [@ EXCEPT !.outcome = outcome]]
<1>4. dir'[d] = [marker |-> dir[d].marker, meta |-> dir[d].meta, combined |-> dir[d].combined,
                 raw |-> raw]
  BY <1>2, <1>3 DEF DirTypes, IInv, TypeOK
<1>5. Partial(raw, Results)
  BY <1>2, <1>3 DEF DirTypes, Partial, Results
<1>6. /\ pc'[d] = pc[d] /\ scanned'[d] = scanned[d]
  BY DEF Tamper
<1> HIDE DEF raw
<1>7. Typed(d)'
  BY <1>1, <1>2, <1>4, <1>5, <1>6 DEF Typed, DirTypes, Working
<1> QED
  BY <1>1, <1>2, <1>4, <1>6, <1>7 DEF Good, SoFar, Sealed, Working, Faithful
LEMMA ScanGood ==
  ASSUME IInv, NEW d \in Runs, Scan(d)
  PROVE  Good(d)'
<1>1. Typed(d) /\ SoFar(d) /\ Sealed(d) /\ More(d)
  BY DEF IInv, TypeOK, SoFar, Scan, Working
<1>2. Repo(d) \in Repos /\ Repo(d) \notin Passed(d) /\ clones[Repo(d)] \in Nat
  BY <1>1, NotPassed DEF IInv, TypeOK
<1>3. PICK outcome \in Outcomes :
        LET result == [analyzer |-> analyzer, bytes |-> clones[Repo(d)], outcome |-> outcome]
        IN /\ run' = [run EXCEPT ![d].row = result]
           /\ scanned' = [scanned EXCEPT ![d] = [r \in DOMAIN @ \cup {Repo(d)} |->
                                                   IF r = Repo(d) THEN result ELSE @[r]]]
  BY DEF Scan
<1> DEFINE result == [analyzer |-> analyzer, bytes |-> clones[Repo(d)], outcome |-> outcome]
<1>4. RunTypes(d) /\ DirTypes(d) /\ Partial(scanned[d], Results)
  BY <1>1 DEF Typed, Scan, Working
<1>5. result \in Results /\ result.bytes = clones[Repo(d)]
  BY <1>2 DEF Results, IInv, TypeOK
<1>6. /\ run'[d] = [identity |-> run[d].identity, manifest |-> run[d].manifest,
                    before |-> run[d].before, row |-> result, rows |-> run[d].rows]
      /\ scanned'[d] = [r \in DOMAIN scanned[d] \cup {Repo(d)} |->
                          IF r = Repo(d) THEN result ELSE scanned[d][r]]
  BY <1>3, <1>4 DEF RunTypes, IInv, TypeOK
<1>7. /\ pc[d] = "scan" /\ pc'[d] = "scanned" /\ clones' = clones
      /\ at'[d] = at[d] /\ dir'[d] = dir[d]
  BY DEF Scan, IInv, TypeOK, Goto, inputs
<1> HIDE DEF result
<1>8. Partial(scanned[d], Results)'
  BY <1>2, <1>4, <1>5, <1>6 DEF Partial
<1>9. Typed(d)'
  <2>1. RunTypes(d)' /\ DirTypes(d)'
    BY <1>4, <1>6, <1>7 DEF RunTypes, DirTypes
  <2> QED
    BY <1>7, <1>8, <2>1 DEF Typed, Working
<1>10. Repo(d)' = Repo(d) /\ Passed(d)' = Passed(d) /\ More(d)'
  BY <1>1, <1>7 DEF Repo, Passed, More
<1>11. SoFar(d)'
  <2>1. /\ dir[d].marker = "running" /\ dir[d].meta = Nothing /\ Faithful(dir[d].raw, d)
        /\ RowsRest(run[d].rows, dir[d].raw) /\ DOMAIN dir[d].raw \subseteq Passed(d)
        /\ run[d].before =< clones[Repo(d)]
    BY <1>1, <1>7 DEF SoFar, Working
  <2>2. Faithful(dir[d].raw, d)'
    BY <1>2, <1>6, <1>7, <2>1 DEF Faithful
  <2>3. /\ Repo(d) \in DOMAIN scanned'[d] /\ run'[d].row = scanned'[d][Repo(d)]
        /\ run'[d].before =< run'[d].row.bytes /\ run'[d].row.bytes =< clones[Repo(d)]
    BY <1>2, <1>5, <1>6, <2>1
  <2>4. RowsRest(run[d].rows, dir[d].raw)'
    <3>1. run'[d].rows = run[d].rows
      BY <1>6
    <3> QED
      BY <1>7, <2>1, <3>1 DEF RowsRest, RowRests
  <2> QED
    BY <1>7, <1>10, <2>1, <2>2, <2>3, <2>4 DEF SoFar
<1>12. Sealed(d)'
  BY <1>1, <1>7 DEF Sealed, SoFar, Working
<1> QED
  BY <1>9, <1>11, <1>12 DEF Good

LEMMA TakeGood ==
  ASSUME IInv, NEW d \in Runs, Take(d)
  PROVE  Good(d)'
<1>1. Typed(d) /\ SoFar(d) /\ Sealed(d) /\ More(d)
  BY DEF IInv, TypeOK, SoFar, Take, Working
<1>2. Repo(d) \in Repos /\ Repo(d) \notin Passed(d) /\ clones[Repo(d)] \in Nat
  BY <1>1, NotPassed DEF IInv, TypeOK
<1>3. RunTypes(d) /\ DirTypes(d) /\ Partial(scanned[d], Results)
  BY <1>1 DEF Typed, Take, Working
<1>4. /\ pc[d] = "scanned" /\ pc'[d] = "row" /\ clones' = clones
      /\ at'[d] = at[d] /\ scanned'[d] = scanned[d] /\ clones[Repo(d)] = run[d].before
  BY DEF Take, IInv, TypeOK, Goto, inputs, PayloadHolds
<1> DEFINE raw == [r \in DOMAIN dir[d].raw \cup {Repo(d)} |->
                     IF r = Repo(d) THEN run[d].row ELSE dir[d].raw[r]]
           row == Row("succeeded", run[d].before)
<1>5. /\ dir'[d] = [marker |-> dir[d].marker, meta |-> dir[d].meta, combined |-> dir[d].combined,
                    raw |-> raw]
      /\ run'[d] = [identity |-> run[d].identity, manifest |-> run[d].manifest,
                    before |-> run[d].before, row |-> row, rows |-> run[d].rows]
  BY <1>3 DEF Take, RunTypes, DirTypes, IInv, TypeOK
<1>6. row \in Rows /\ row.status = "succeeded" /\ row.tree = run[d].before
  BY <1>3 DEF Row, Rows, Statuses, RunTypes
<1>7. /\ Repo(d) \in DOMAIN scanned[d] /\ run[d].row = scanned[d][Repo(d)]
      /\ run[d].row \in Results
  BY <1>1, <1>3, <1>4 DEF SoFar, Partial
<1>8. run[d].row.bytes = run[d].before
  BY <1>1, <1>2, <1>4, <1>7 DEF SoFar, Results
<1>9. /\ Partial(raw, Results) /\ DOMAIN raw = DOMAIN dir[d].raw \cup {Repo(d)}
      /\ raw[Repo(d)] = run[d].row
      /\ \A r \in DOMAIN dir[d].raw \ {Repo(d)} : raw[r] = dir[d].raw[r]
  BY <1>2, <1>3, <1>7 DEF DirTypes, Partial
<1> HIDE DEF raw, row
<1>10. Typed(d)'
  <2>1. RunTypes(d)' /\ DirTypes(d)'
    BY <1>3, <1>5, <1>9 DEF RunTypes, DirTypes
  <2> QED
    BY <1>3, <1>4, <2>1 DEF Typed, Working
<1>11. Repo(d)' = Repo(d) /\ Passed(d)' = Passed(d) /\ More(d)'
  BY <1>1, <1>4 DEF Repo, Passed, More
<1>12. SoFar(d)'
  <2>1. /\ dir[d].marker = "running" /\ dir[d].meta = Nothing /\ Faithful(dir[d].raw, d)
        /\ RowsRest(run[d].rows, dir[d].raw) /\ DOMAIN dir[d].raw \subseteq Passed(d)
    BY <1>1, <1>4 DEF SoFar, Working
  <2>2. \A r \in DOMAIN raw : r \in DOMAIN scanned[d] /\ raw[r] = scanned[d][r]
    BY <1>2, <1>7, <1>9, <2>1 DEF Faithful
  <2>3. RowsRest(run[d].rows, raw)
    BY <1>2, <1>9, <2>1 DEF RowsRest, RowRests
  <2>4. RowRests(row, Repo(d), raw)
    BY <1>6, <1>8, <1>9 DEF RowRests
  <2>5. /\ dir'[d].raw = raw /\ dir'[d].marker = "running" /\ dir'[d].meta = Nothing
        /\ run'[d].row = row /\ run'[d].rows = run[d].rows
    BY <1>5, <2>1
  <2>6. Faithful(dir[d].raw, d)'
    BY <1>4, <2>2, <2>5 DEF Faithful
  <2>7. /\ RowsRest(run[d].rows, dir[d].raw)'
        /\ RowRests(run[d].row, Repo(d), dir[d].raw)'
    BY <1>11, <2>3, <2>4, <2>5 DEF RowsRest, RowRests
  <2>8. DOMAIN dir'[d].raw \subseteq Passed(d) \cup {Repo(d)}
    BY <1>9, <2>1, <2>5
  <2> QED
    BY <1>4, <1>6, <1>11, <2>5, <2>6, <2>7, <2>8 DEF SoFar
<1>13. Sealed(d)'
  BY <1>1, <1>4, <1>5 DEF Sealed, SoFar, Working
<1> QED
  BY <1>10, <1>12, <1>13 DEF Good

LEMMA AddRowGood ==
  ASSUME IInv, NEW d \in Runs, AddRow(d)
  PROVE  Good(d)'
<1>1. Typed(d) /\ SoFar(d) /\ Sealed(d) /\ More(d) /\ at[d] \in Nat
  BY DEF IInv, TypeOK, SoFar, AddRow, Working
<1>2. Repo(d) \in Repos
  BY <1>1, NotPassed DEF IInv, TypeOK
<1>3. RunTypes(d) /\ DirTypes(d) /\ Partial(scanned[d], Results)
  BY <1>1 DEF Typed, AddRow, Working
<1>4. /\ pc[d] = "row" /\ pc'[d] = "next" /\ at'[d] = at[d] + 1
      /\ scanned'[d] = scanned[d] /\ dir'[d] = dir[d]
  BY DEF AddRow, IInv, TypeOK, Goto, inputs
<1> DEFINE rows == [r \in DOMAIN run[d].rows \cup {Repo(d)} |->
                      IF r = Repo(d) THEN run[d].row ELSE run[d].rows[r]]
<1>5. run'[d] = [identity |-> run[d].identity, manifest |-> run[d].manifest,
                 before |-> 0, row |-> Nothing, rows |-> rows]
  BY <1>3 DEF AddRow, RunTypes, IInv, TypeOK
<1>6. run[d].row \in Rows /\ RowRests(run[d].row, Repo(d), dir[d].raw)
  BY <1>1, <1>4 DEF SoFar
<1>7. Partial(rows, Rows)
  BY <1>2, <1>3, <1>6 DEF RunTypes, Partial
<1>8. RowsRest(run[d].rows, dir[d].raw)
  BY <1>1, <1>4 DEF SoFar, Working
<1>9. RowsRest(rows, dir[d].raw)
  BY <1>6, <1>8 DEF RowsRest
<1> HIDE DEF rows
<1>10. Typed(d)'
  <2>1. RunTypes(d)' /\ DirTypes(d)'
    BY <1>3, <1>4, <1>5, <1>7 DEF RunTypes, DirTypes
  <2> QED
    BY <1>3, <1>4, <2>1 DEF Typed, Working
<1>11. Passed(d) \cup {Repo(d)} \subseteq Passed(d)'
  BY <1>1, <1>4 DEF Passed, Repo, More
<1>12. SoFar(d)'
  <2>1. /\ dir[d].marker = "running" /\ dir[d].meta = Nothing /\ Faithful(dir[d].raw, d)
        /\ DOMAIN dir[d].raw \subseteq Passed(d) \cup {Repo(d)}
    BY <1>1, <1>4 DEF SoFar, Working
  <2>2. Faithful(dir[d].raw, d)'
    BY <1>4, <2>1 DEF Faithful
  <2> QED
    BY <1>4, <1>5, <1>9, <1>11, <2>1, <2>2 DEF SoFar, Working
<1>13. Sealed(d)'
  BY <1>1, <1>4 DEF Sealed, SoFar, Working
<1> QED
  BY <1>10, <1>12, <1>13 DEF Good

LEMMA WriteEvidenceGood ==
  ASSUME IInv, NEW d \in Runs, WriteEvidence(d)
  PROVE  Good(d)'
<1>1. Typed(d) /\ SoFar(d)
  BY DEF IInv, TypeOK
<1>2. RunTypes(d) /\ DirTypes(d) /\ Partial(scanned[d], Results)
  BY <1>1 DEF Typed, WriteEvidence, Working
<1>3. /\ pc[d] = "next" /\ pc'[d] = "finalize" /\ run'[d] = run[d]
      /\ scanned'[d] = scanned[d]
  BY DEF WriteEvidence, IInv, TypeOK, Goto, inputs
<1> DEFINE meta == [identity |-> run[d].identity, manifest |-> run[d].manifest,
                    combined |-> run[d].rows, raw |-> dir[d].raw]
<1>4. dir'[d] = [marker |-> dir[d].marker, meta |-> meta, combined |-> run[d].rows,
                 raw |-> dir[d].raw]
  BY <1>2 DEF WriteEvidence, DirTypes, IInv, TypeOK
<1>5. meta.combined = run[d].rows /\ meta.raw = dir[d].raw
  OBVIOUS
<1> HIDE DEF meta
<1>6. Typed(d)'
  <2>1. RunTypes(d)' /\ DirTypes(d)'
    BY <1>2, <1>3, <1>4 DEF RunTypes, DirTypes
  <2> QED
    BY <1>2, <1>3, <2>1 DEF Typed, Working
<1>7. /\ dir[d].marker = "running" /\ Faithful(dir[d].raw, d)
      /\ RowsRest(run[d].rows, dir[d].raw)
  BY <1>1, <1>3 DEF SoFar, Working
<1>8. Sealed(d)'
  <2>1. /\ dir'[d].marker = "running" /\ dir'[d].meta = meta
        /\ dir'[d].meta.combined = run[d].rows /\ dir'[d].meta.raw = dir[d].raw
    BY <1>4, <1>5, <1>7
  <2>2. Partial(dir'[d].meta.combined, Rows) /\ Partial(dir'[d].meta.raw, Results)
    BY <1>2, <2>1 DEF RunTypes, DirTypes
  <2>3. Faithful(dir[d].meta.raw, d)'
    BY <1>3, <1>7, <2>1 DEF Faithful
  <2>4. RowsRest(dir'[d].meta.combined, dir'[d].meta.raw)
    BY <1>7, <2>1
  <2> QED
    BY <2>1, <2>2, <2>3, <2>4 DEF Sealed
<1>9. SoFar(d)'
  BY <1>3 DEF SoFar, Working
<1> QED
  BY <1>6, <1>8, <1>9 DEF Good
----------------------------------------------------------------------------
(* Verdicts: two directories that validate and differ, though no scan of     *)
(* either failed, hold different answers about the same bytes.               *)
LEMMA ValidHolds ==
  ASSUME IInv, NEW d \in Runs, Valid(d)
  PROVE  /\ pc[d] = "ended" /\ dir[d] # Nothing /\ dir[d].meta # Nothing
         /\ dir[d].combined = dir[d].meta.combined /\ dir[d].raw = dir[d].meta.raw
         /\ Partial(dir[d].combined, Rows) /\ Partial(dir[d].raw, Results)
         /\ DOMAIN dir[d].combined = Repos
         /\ Faithful(dir[d].raw, d) /\ RowsRest(dir[d].combined, dir[d].raw)
         /\ DOMAIN dir[d].raw = {r \in Repos : dir[d].combined[r].status = "succeeded"}
         /\ \A r \in Repos : RowHolds(dir[d].combined[r], dir[d].meta.manifest[r])
         /\ \A r \in DOMAIN dir[d].raw : dir[d].raw[r].analyzer = dir[d].meta.identity
<1>1. Sealed(d) /\ dir[d] # Nothing /\ dir[d].marker = "complete" /\ ContentsHold(dir[d])
  BY DEF IInv, Valid
<1>2. /\ dir[d].combined = dir[d].meta.combined /\ dir[d].raw = dir[d].meta.raw
      /\ dir[d].meta # Nothing
      /\ DOMAIN dir[d].combined = Repos
      /\ DOMAIN dir[d].raw
           = {r \in DOMAIN dir[d].combined : dir[d].combined[r].status = "succeeded"}
      /\ \A r \in Repos : RowHolds(dir[d].combined[r], dir[d].meta.manifest[r])
      /\ \A r \in {q \in DOMAIN dir[d].combined : dir[d].combined[q].status = "succeeded"} :
           dir[d].raw[r].analyzer = dir[d].meta.identity
  BY <1>1 DEF ContentsHold, ArtifactsHold
<1> QED
  BY <1>1, <1>2 DEF Sealed

LEMMA ValidIsEvidence ==
  ASSUME IInv
  PROVE  EvidenceIsWhatWasScanned
<1> SUFFICES ASSUME NEW d \in Runs, Valid(d), NEW r \in Repos
             PROVE  LET row == dir[d].combined[r]
                    IN IF dir[d].meta.manifest[r] = Failed THEN row.status = "acquisition failed"
                       ELSE row.status = "succeeded" =>
                              /\ r \in DOMAIN scanned[d] /\ dir[d].raw[r] = scanned[d][r]
                              /\ scanned[d][r].analyzer = dir[d].meta.identity
                              /\ scanned[d][r].bytes = dir[d].meta.manifest[r]
  BY DEF EvidenceIsWhatWasScanned
<1>1. RowHolds(dir[d].combined[r], dir[d].meta.manifest[r])
  BY ValidHolds
<1>2. CASE dir[d].meta.manifest[r] = Failed
  BY <1>1, <1>2 DEF RowHolds
<1>3. ASSUME dir[d].meta.manifest[r] # Failed, dir[d].combined[r].status = "succeeded"
      PROVE  /\ r \in DOMAIN scanned[d] /\ dir[d].raw[r] = scanned[d][r]
             /\ scanned[d][r].analyzer = dir[d].meta.identity
             /\ scanned[d][r].bytes = dir[d].meta.manifest[r]
  <2>1. r \in DOMAIN dir[d].raw /\ dir[d].raw[r].analyzer = dir[d].meta.identity
    BY <1>3, ValidHolds
  <2>2. r \in DOMAIN scanned[d] /\ dir[d].raw[r] = scanned[d][r]
    BY <2>1, ValidHolds DEF Faithful
  <2>3. dir[d].raw[r].bytes = dir[d].combined[r].tree
    BY <1>3, ValidHolds DEF RowsRest, RowRests
  <2>4. dir[d].combined[r].tree = dir[d].meta.manifest[r]
    BY <1>1, <1>3 DEF RowHolds
  <2> QED
    BY <2>1, <2>2, <2>3, <2>4
<1> QED
  BY <1>2, <1>3

(* Rows, results and functions are equal when their parts are.               *)
LEMMA SameRow ==
  ASSUME NEW a \in Rows, NEW b \in Rows, a.status = b.status, a.tree = b.tree
  PROVE  a = b
  BY DEF Rows

LEMMA SameResult ==
  ASSUME NEW a \in Results, NEW b \in Results,
         a.analyzer = b.analyzer, a.bytes = b.bytes, a.outcome = b.outcome
  PROVE  a = b
  BY DEF Results

LEMMA SameFunction ==
  ASSUME NEW S, NEW f, NEW g, Partial(f, S), Partial(g, S), DOMAIN f = DOMAIN g,
         \A x \in DOMAIN f : f[x] = g[x]
  PROVE  f = g
  BY DEF Partial

LEMMA BlameIsDue ==
  ASSUME IInv, NEW d \in Runs, NEW e \in Runs, Valid(d), Valid(e),
         Comparable(d, e), ~ Deterministic(d, e),
         \A r \in Repos : /\ dir[d].combined[r].status \notin {"scanner failed", "contract failed"}
                          /\ dir[e].combined[r].status \notin {"scanner failed", "contract failed"}
  PROVE  \E r \in Repos :
           /\ r \in DOMAIN scanned[d] \cap DOMAIN scanned[e]
           /\ scanned[d][r].analyzer = scanned[e][r].analyzer
           /\ scanned[d][r].bytes = scanned[e][r].bytes
           /\ scanned[d][r].outcome # scanned[e][r].outcome
<1>1. /\ dir[d].meta.identity = dir[e].meta.identity
      /\ dir[d].meta.manifest = dir[e].meta.manifest
  BY DEF Comparable
<1>2. ASSUME NEW r \in Repos
      PROVE  dir[d].combined[r] = dir[e].combined[r]
  <2>1. /\ dir[d].combined[r] \in Rows /\ dir[e].combined[r] \in Rows
    BY ValidHolds DEF Partial
  <2>2. /\ RowHolds(dir[d].combined[r], dir[d].meta.manifest[r])
        /\ RowHolds(dir[e].combined[r], dir[d].meta.manifest[r])
    BY <1>1, ValidHolds
  <2>3. /\ RowRests(dir[d].combined[r], r, dir[d].raw)
        /\ RowRests(dir[e].combined[r], r, dir[e].raw)
    BY ValidHolds DEF RowsRest
  <2>4. /\ dir[d].combined[r].status = dir[e].combined[r].status
        /\ dir[d].combined[r].tree = dir[e].combined[r].tree
    BY <2>1, <2>2, <2>3 DEF RowHolds, RowRests, Rows, Statuses
  <2> QED
    BY <2>1, <2>4, SameRow
<1>3. dir[d].combined = dir[e].combined
  <2>1. /\ Partial(dir[d].combined, Rows) /\ Partial(dir[e].combined, Rows)
        /\ DOMAIN dir[d].combined = Repos /\ DOMAIN dir[e].combined = Repos
    BY ValidHolds
  <2> QED
    BY <1>2, <2>1, SameFunction
<1>4. dir[d].raw # dir[e].raw
  BY <1>3 DEF Deterministic
<1>5. DOMAIN dir[d].raw = DOMAIN dir[e].raw
  <2>1. /\ DOMAIN dir[d].raw = {r \in Repos : dir[d].combined[r].status = "succeeded"}
        /\ DOMAIN dir[e].raw = {r \in Repos : dir[e].combined[r].status = "succeeded"}
    BY ValidHolds
  <2> QED
    BY <1>3, <2>1
<1>6. PICK r \in DOMAIN dir[d].raw : dir[d].raw[r] # dir[e].raw[r]
  <2>1. Partial(dir[d].raw, Results) /\ Partial(dir[e].raw, Results)
    BY ValidHolds
  <2> QED
    BY <1>4, <1>5, <2>1, SameFunction
<1>7. /\ r \in Repos /\ r \in DOMAIN dir[e].raw
      /\ dir[d].combined[r].status = "succeeded" /\ dir[e].combined[r].status = "succeeded"
  BY <1>3, <1>5, <1>6, ValidHolds
<1>8. /\ r \in DOMAIN scanned[d] \cap DOMAIN scanned[e]
      /\ scanned[d][r] = dir[d].raw[r] /\ scanned[e][r] = dir[e].raw[r]
  BY <1>6, <1>7, ValidHolds DEF Faithful
<1>9. /\ scanned[d][r].analyzer = scanned[e][r].analyzer
      /\ scanned[d][r].bytes = scanned[e][r].bytes
  <2>1. /\ dir[d].raw[r].analyzer = dir[e].raw[r].analyzer
    BY <1>1, <1>6, <1>7, ValidHolds
  <2>2. /\ dir[d].raw[r].bytes = dir[d].combined[r].tree
        /\ dir[e].raw[r].bytes = dir[e].combined[r].tree
    <3>1. /\ RowRests(dir[d].combined[r], r, dir[d].raw)
          /\ RowRests(dir[e].combined[r], r, dir[e].raw)
      BY <1>7, ValidHolds DEF RowsRest
    <3> QED
      BY <1>7, <3>1 DEF RowRests
  <2> QED
    BY <1>3, <1>8, <2>1, <2>2
<1>10. dir[d].raw[r] \in Results /\ dir[e].raw[r] \in Results
  BY <1>6, <1>7, ValidHolds DEF Partial
<1>11. scanned[d][r].outcome # scanned[e][r].outcome
  BY <1>6, <1>8, <1>9, <1>10, SameResult
<1> QED
  BY <1>7, <1>8, <1>9, <1>11

(* A verdict stays just: what it is about has ended.                         *)
VerdictStands == verdict # Nothing => verdict.of \subseteq {d \in Runs : pc[d] = "ended"}

Blame(d, e, r) ==
  \/ dir[d].meta.combined[r].status \in {"scanner failed", "contract failed"}
  \/ /\ r \in DOMAIN scanned[d] \cap DOMAIN scanned[e]
     /\ scanned[d][r].analyzer = scanned[e][r].analyzer
     /\ scanned[d][r].bytes = scanned[e][r].bytes
     /\ scanned[d][r].outcome # scanned[e][r].outcome

EndedKept ==
  \A d \in Runs : pc[d] = "ended" =>
    pc'[d] = "ended" /\ scanned'[d] = scanned[d] /\ dir'[d].meta = dir[d].meta

LEMMA VerdictKept ==
  ASSUME VerdictStands, BlameIsTheAnalyzers, verdict' = verdict, EndedKept
  PROVE  VerdictStands' /\ BlameIsTheAnalyzers'
<1>1. VerdictStands'
  BY DEF VerdictStands, EndedKept
<1>2. ASSUME verdict # Nothing, NEW d \in verdict.of
      PROVE  scanned'[d] = scanned[d] /\ dir'[d].meta = dir[d].meta
  BY <1>2 DEF VerdictStands, EndedKept
<1>3. ASSUME verdict # Nothing, verdict.comparable, ~ verdict.deterministic
      PROVE  \E d, e \in verdict.of, r \in Repos : Blame(d, e, r)'
  <2>1. PICK d \in verdict.of, e \in verdict.of, r \in Repos : Blame(d, e, r)
    BY <1>3 DEF BlameIsTheAnalyzers, Blame
  <2>2. Blame(d, e, r)'
    BY <1>2, <1>3, <2>1 DEF Blame
  <2> QED
    BY <2>2
<1> QED
  BY <1>1, <1>3 DEF BlameIsTheAnalyzers, Blame

LEMMA CompareKeeps ==
  ASSUME IInv, NEW d \in Runs, NEW e \in Runs, Compare(d, e)
  PROVE  VerdictStands' /\ BlameIsTheAnalyzers'
<1>1. /\ Valid(d) /\ Valid(e) /\ pc' = pc /\ dir' = dir /\ scanned' = scanned
      /\ verdict'.of = {d, e} /\ verdict'.comparable = Comparable(d, e)
      /\ verdict'.deterministic = (Comparable(d, e) /\ Deterministic(d, e))
  BY DEF Compare
<1>2. VerdictStands'
  BY <1>1, ValidHolds DEF VerdictStands
<1>3. /\ dir[d].combined = dir[d].meta.combined /\ dir[e].combined = dir[e].meta.combined
  BY <1>1, ValidHolds
<1>4. ASSUME Comparable(d, e), ~ Deterministic(d, e)
      PROVE  \E r \in Repos : Blame(d, e, r) \/ Blame(e, d, r)
  <2>1. CASE \E r \in Repos :
               \/ dir[d].combined[r].status \in {"scanner failed", "contract failed"}
               \/ dir[e].combined[r].status \in {"scanner failed", "contract failed"}
    BY <1>3, <2>1 DEF Blame
  <2>2. CASE \A r \in Repos :
               /\ dir[d].combined[r].status \notin {"scanner failed", "contract failed"}
               /\ dir[e].combined[r].status \notin {"scanner failed", "contract failed"}
    <3>1. \E r \in Repos :
            /\ r \in DOMAIN scanned[d] \cap DOMAIN scanned[e]
            /\ scanned[d][r].analyzer = scanned[e][r].analyzer
            /\ scanned[d][r].bytes = scanned[e][r].bytes
            /\ scanned[d][r].outcome # scanned[e][r].outcome
      BY <1>1, <1>4, <2>2, BlameIsDue
    <3> QED
      BY <3>1 DEF Blame
  <2> QED
    BY <2>1, <2>2
<1>5. ASSUME NEW a \in Runs, NEW b \in Runs, NEW r \in Repos, Blame(a, b, r)
      PROVE  Blame(a, b, r)'
  BY <1>1, <1>5 DEF Blame
<1>6. BlameIsTheAnalyzers'
  <2>1. verdict'.comparable /\ ~ verdict'.deterministic => Comparable(d, e) /\ ~ Deterministic(d, e)
    BY <1>1, Zenon
  <2>2. Comparable(d, e) /\ ~ Deterministic(d, e)
          => \E a, b \in verdict'.of, r \in Repos : Blame(a, b, r)'
    BY <1>1, <1>4, <1>5
  <2> QED
    BY <2>1, <2>2 DEF BlameIsTheAnalyzers, Blame
<1> QED
  BY <1>2, <1>6

----------------------------------------------------------------------------
(* Every action of a run, and of those who tamper with its files, leaves it  *)
(* good, touches no other run, and leaves alone what has ended.              *)
Acts(d) == Step(d) \/ Tamper(d)

LEMMA ActsGood ==
  ASSUME IInv, NEW d \in Runs, Acts(d)
  PROVE  Good(d)'
  BY BeginGood, VerifyGood, CreateGood, SkipFailedGood, HashGood, ScanGood, NoResultGood, TakeGood,
     AddRowGood, WriteEvidenceGood, FinalizeGood, DiesGood, TamperGood
     DEF Acts, Step

Arrays ==
  /\ clones \in [Repos -> Nat] /\ analyzer \in Analyzers
  /\ pc \in [Runs -> Working \cup {"idle", "preflight", "finalize", "ended"}]
  /\ at \in [Runs -> Nat]
  /\ DOMAIN run = Runs /\ DOMAIN dir = Runs /\ DOMAIN scanned = Runs

LEMMA ActsArrays ==
  ASSUME IInv, NEW d \in Runs, Acts(d)
  PROVE  Arrays' /\ clones' = clones /\ verdict' = verdict
<1>1. Arrays
  BY DEF IInv, TypeOK, Arrays
<1>2. UNCHANGED <<inputs, verdict>>
  BY DEF Acts, Step, Begin, Verify, Create, SkipFailed, Hash, Scan, ScanFails, Take,
     RefusePayload, AddRow, WriteEvidence, Finalize, Dies, Tamper
<1>3. \/ pc' = pc
      \/ \E label \in Working \cup {"preflight", "finalize", "ended"} : pc' = [pc EXCEPT ![d] = label]
  BY DEF Working, Goto, Acts, Step, Begin, Verify, Create, SkipFailed, Hash, Scan, ScanFails, Take,
     RefusePayload, AddRow, WriteEvidence, Finalize, Dies, Tamper
<1>4. at' = at \/ at' = [at EXCEPT ![d] = 1] \/ at' = [at EXCEPT ![d] = @ + 1]
  BY DEF Acts, Step, Begin, Verify, Create, SkipFailed, Hash, Scan, ScanFails, Take,
     RefusePayload, AddRow, WriteEvidence, Finalize, Dies, Tamper
<1>5. DOMAIN run' = Runs /\ DOMAIN dir' = Runs /\ DOMAIN scanned' = Runs
  BY <1>1 DEF Arrays, Acts, Step, Begin, Verify, Create, SkipFailed, Hash, Scan, ScanFails, Take,
     RefusePayload, AddRow, WriteEvidence, Finalize, Dies, Tamper
<1>6. pc' \in [Runs -> Working \cup {"idle", "preflight", "finalize", "ended"}] /\ at' \in [Runs -> Nat]
  BY <1>1, <1>3, <1>4 DEF Arrays
<1> QED
  BY <1>1, <1>2, <1>5, <1>6 DEF Arrays, inputs, Working

LEMMA ActsAlone ==
  ASSUME IInv, NEW d \in Runs, Acts(d), NEW e \in Runs, e # d
  PROVE  Kept(e)
<1>1. Arrays
  BY DEF IInv, TypeOK, Arrays
<1> QED
  BY <1>1 DEF Arrays, Kept, Acts, Step, Begin, Verify, Create, SkipFailed, Hash, Scan, ScanFails,
     Take, RefusePayload, AddRow, WriteEvidence, Finalize, Dies, Tamper, Goto

LEMMA ActsEnded ==
  ASSUME IInv, NEW d \in Runs, Acts(d)
  PROVE  EndedKept
<1> SUFFICES ASSUME NEW e \in Runs, pc[e] = "ended"
             PROVE  pc'[e] = "ended" /\ scanned'[e] = scanned[e] /\ dir'[e].meta = dir[e].meta
  BY DEF EndedKept
<1>1. CASE e # d
  BY <1>1, ActsAlone DEF Kept
<1>2. CASE e = d
  <2>1. Tamper(d)
    BY <1>2 DEF Acts, Step, Begin, Verify, Create, SkipFailed, Hash, Scan, ScanFails, Take,
       RefusePayload, AddRow, WriteEvidence, Finalize, Dies
  <2>2. DirTypes(d)
    BY <2>1 DEF IInv, TypeOK, Typed, Tamper
  <2>3. dir'[d].meta = dir[d].meta
    BY <2>1, <2>2 DEF Tamper, DirTypes, IInv, TypeOK
  <2> QED
    BY <1>2, <2>1, <2>3 DEF Tamper
<1> QED
  BY <1>1, <1>2

LEMMA NextInvariant == IInv /\ [Next]_vars => IInv'
<1> SUFFICES ASSUME IInv, [Next]_vars
             PROVE  IInv'
  OBVIOUS
<1>0. /\ Arrays /\ VerdictStands /\ BlameIsTheAnalyzers
  BY DEF IInv, TypeOK, Arrays, VerdictStands
<1>1. ASSUME Arrays', \A d \in Runs : Good(d)', VerdictStands', BlameIsTheAnalyzers'
      PROVE  IInv'
  BY <1>1 DEF IInv, TypeOK, Arrays, VerdictStands, Good
<1>2. ASSUME ClonesGrow, analyzer' \in Analyzers,
             UNCHANGED <<pc, at, run, dir, scanned, verdict>>
      PROVE  IInv'
  <2>1. \A d \in Runs : Kept(d)
    BY <1>2 DEF Kept
  <2>2. \A d \in Runs : Good(d)'
    BY <1>2, <2>1, KeptGood
  <2>3. EndedKept
    BY <1>2 DEF EndedKept
  <2>4. Arrays'
    BY <1>0, <1>2 DEF Arrays, ClonesGrow, Working
  <2> QED
    BY <1>0, <1>1, <1>2, <2>2, <2>3, <2>4, VerdictKept
<1>3. ASSUME NEW r \in Repos, Acquire(r) \/ ChangeClone(r)
      PROVE  IInv'
  <2>1. ClonesGrow
    BY <1>0, <1>3 DEF Arrays, Acquire, ChangeClone, ClonesGrow
  <2> QED
    BY <1>0, <1>2, <1>3, <2>1 DEF Arrays, Acquire, ChangeClone
<1>4. CASE WriteManifest \/ AcquisitionDies \/ ChangeAnalyzer \/ UNCHANGED vars
  <2>1. ClonesGrow
    BY <1>0, <1>4 DEF Arrays, WriteManifest, AcquisitionDies, ChangeAnalyzer, vars, inputs, ClonesGrow
  <2> QED
    BY <1>0, <1>2, <1>4, <2>1 DEF Arrays, WriteManifest, AcquisitionDies, ChangeAnalyzer, vars, inputs
<1>5. ASSUME NEW d \in Runs, Acts(d)
      PROVE  IInv'
  <2>1. Arrays' /\ ClonesGrow /\ verdict' = verdict
    BY <1>0, <1>5, ActsArrays DEF Arrays, ClonesGrow
  <2>2. ASSUME NEW e \in Runs
        PROVE  Good(e)'
    BY <1>5, <2>1, <2>2, ActsGood, ActsAlone, KeptGood
  <2> QED
    BY <1>0, <1>1, <1>5, <2>1, <2>2, ActsEnded, VerdictKept
<1>6. ASSUME NEW d \in Runs, NEW e \in Runs, Compare(d, e)
      PROVE  IInv'
  <2>1. UNCHANGED <<clones, analyzer, pc, at, run, dir, scanned>>
    BY <1>6 DEF Compare, inputs
  <2>2. Arrays' /\ ClonesGrow
    BY <1>0, <2>1 DEF Arrays, ClonesGrow
  <2>3. \A q \in Runs : Kept(q)
    BY <2>1 DEF Kept
  <2>4. \A q \in Runs : Good(q)'
    BY <2>2, <2>3, KeptGood
  <2> QED
    BY <1>1, <1>6, <2>2, <2>4, CompareKeeps
<1> QED
  BY <1>3, <1>4, <1>5, <1>6 DEF Next, Acts

(* The inductive invariant of clones, runs, directories and the verdict.     *)
THEOREM InvariantHolds == Spec => []IInv
<1> QED
  BY InitInvariant, NextInvariant, PTL DEF Spec

(* A directory that validates is evidence.                                   *)
THEOREM ValidIsEvidenceHolds == Spec => []EvidenceIsWhatWasScanned
<1> QED
  BY InvariantHolds, ValidIsEvidence, PTL

(* The analyzer is called nondeterministic for nothing else.                 *)
THEOREM BlameHolds == Spec => []BlameIsTheAnalyzers
<1>1. IInv => BlameIsTheAnalyzers
  BY DEF IInv
<1> QED
  BY <1>1, InvariantHolds, PTL
=============================================================================
