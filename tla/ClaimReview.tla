----------------------------- MODULE ClaimReview -----------------------------
(***************************************************************************)
(* The review a candidate run of the corpus rests on: two reviewers each   *)
(* hand over a completed review of the frozen candidate truth              *)
(* (ClaimWorkspace), the coordinator merges them (corpus/scripts/          *)
(* claim_review.py merge), an adjudicator writes into the merged file by   *)
(* hand, and run_validation.py starts a run only on an accepted review of  *)
(* the truth it reads.  The truth may be frozen again at any time, people  *)
(* may change the merged file in ways nobody asked for, and the run takes  *)
(* its starting time before it reads anything.                             *)
(*                                                                         *)
(* A decision stands for those on a claim and on all its links.  Files are *)
(* named by their bytes wherever the code binds them by SHA-256.           *)
(***************************************************************************)
EXTENDS CandidateTruth, Integers, FiniteSets

CONSTANTS
  People,
  Verified,    \* the decision that accepts
  LastMoment,  \* bound: the clock stops here
  Versions,    \* bound: how often the truth is frozen
  Reviews      \* bound: how many completed reviews are handed over

ASSUME ReviewAssumption ==
  /\ Verified \in Decisions
  /\ LastMoment \in Nat \ {0} /\ Versions \in Nat \ {0} /\ Reviews \in Nat

VARIABLES
  clock,     \* in half seconds
  truth,     \* the candidate-truth file: its version and when it was frozen
  handed,    \* the completed reviews handed to the coordinator
  merged,    \* the merged review file
  candidate, \* the candidate run being started: what it has read so far
  started    \* the candidate runs that passed every check

reviewVars == <<clock, truth, handed, merged, candidate, started>>

(* Reviews and adjudications are stamped with whole seconds, a run's         *)
(* started_at is exact.                                                      *)
Second(moment) == moment - (moment % 2)

Decided == [Claims -> Decisions]

CRInit ==
  /\ clock = 2
  /\ truth = [version |-> 1, frozen |-> 2]
  /\ handed = {}
  /\ merged = Missing
  /\ candidate = [at |-> "idle"]
  /\ started = {}

Tick ==
  /\ clock < LastMoment
  /\ clock' = clock + 1
  /\ UNCHANGED <<truth, handed, merged, candidate, started>>

Freeze ==
  /\ truth.version < Versions
  /\ truth' = [version |-> truth.version + 1, frozen |-> Second(clock)]
  /\ UNCHANGED <<clock, handed, merged, candidate, started>>

(* What ClaimWorkspace promises: decisions on every claim, finalized by one  *)
(* person at reviewed_at, on the truth its scaffold was made from, which     *)
(* finalize-review still finds.  made, the exact moment, is in no file.      *)
HandOver(p) ==
  /\ Cardinality(handed) < Reviews
  /\ \E decided \in Decided :
       handed' = handed \cup {[by |-> p, truth |-> truth.version, at |-> Second(clock),
                               made |-> clock, decided |-> decided]}
  /\ UNCHANGED <<clock, truth, merged, candidate, started>>

----------------------------------------------------------------------------
(* _single_reviewer_id and merge_independent_reviews.                        *)
Merges(r1, r2) ==
  [sources |-> {r1, r2}, truth |-> r1.truth,
   reviews |-> [p \in {r1.by, r2.by} |-> IF p = r1.by THEN r1 ELSE r2],
   adjudicated |-> [c \in Claims |-> Missing]]

MayMerge(r1, r2, version) ==
  /\ r1 # r2 /\ r1.by # r2.by
  /\ r1.truth = version /\ r2.truth = version

(* Each merge writes a new file; the coordinator goes on with the last.      *)
Merge ==
  /\ \E r1, r2 \in handed :
       MayMerge(r1, r2, truth.version) /\ merged' = Merges(r1, r2)
  /\ UNCHANGED <<clock, truth, handed, candidate, started>>

Reviewers(review) == DOMAIN review.reviews
Disputed(review, c) ==
  \E p, q \in Reviewers(review) : review.reviews[p].decided[c] # review.reviews[q].decided[c]

(* Whoever is to adjudicate a claim enters the decision by hand, with        *)
(* adjudicated_at: the model takes it that they enter the time it is.        *)
Adjudicate(p) ==
  /\ merged # Missing
  /\ \E c \in Claims, decision \in Decisions :
       merged' = [merged EXCEPT !.adjudicated[c] =
                    [by |-> p, at |-> Second(clock), made |-> clock, decision |-> decision]]
  /\ UNCHANGED <<clock, truth, handed, candidate, started>>

(* Someone changes a reviewer's decision in the merged file instead.         *)
Rewrite(p) ==
  /\ merged # Missing /\ p \in Reviewers(merged)
  /\ \E decided \in Decided :
       merged' = [merged EXCEPT !.reviews[p].decided = decided]
  /\ UNCHANGED <<clock, truth, handed, candidate, started>>

----------------------------------------------------------------------------
Latest(review) ==
  LET moments == {review.reviews[p].at : p \in Reviewers(review)}
  IN CHOOSE m \in moments : \A other \in moments : other <= m

(* _validate_adjudication                                                    *)
Independent(adjudication, review) ==
  /\ adjudication.by \notin Reviewers(review)
  /\ adjudication.at >= Latest(review)

(* An undisputed claim has no adjudication, a disputed one needs it.         *)
Resolved(review, c) ==
  IF Disputed(review, c)
  THEN /\ review.adjudicated[c] # Missing
       /\ Independent(review.adjudicated[c], review)
       /\ review.adjudicated[c].decision = Verified
  ELSE /\ review.adjudicated[c] = Missing
       /\ \A p \in Reviewers(review) : review.reviews[p].decided[c] = Verified

(* validate_review(require_complete, require_accepted) of a merged review    *)
Accepted(review, t) ==
  /\ review.truth = t.version
  /\ \A p \in Reviewers(review) : review.reviews[p].at >= t.frozen
  /\ \A c \in Claims : Resolved(review, c)

\* Mutant of Reconstructed: the merged file is taken at its word.
SourcesNamed(review) == review.sources \subseteq handed

(* verify_independent_review_sources: the merge of the files the digests     *)
(* name has the same initial reviews.                                        *)
Reconstructed(review) ==
  /\ review.sources \subseteq handed
  /\ \A r \in review.sources : review.reviews[r.by] = r

Decisive(review) ==
  {review.reviews[p] : p \in Reviewers(review)}
    \cup ({review.adjudicated[c] : c \in Claims} \ {Missing})

\* Mutant of BeforeStart: the run reads the review, so it must have been there.
AnyTime(review, moment) == TRUE

(* _latest_decision_timestamp                                                *)
BeforeStart(review, moment) == \A d \in Decisive(review) : d.at < moment

(* run_validation takes started_at, then reads the truth, then the review.   *)
BeginRun ==
  /\ candidate.at = "idle"
  /\ candidate' = [at |-> "begun", moment |-> clock]
  /\ UNCHANGED <<clock, truth, handed, merged, started>>

ReadTruth ==
  /\ candidate.at = "begun"
  /\ truth.frozen < clock
  /\ candidate' = [at |-> "bound", moment |-> candidate.moment, truth |-> truth]
  /\ UNCHANGED <<clock, truth, handed, merged, started>>

ReadReview ==
  /\ candidate.at = "bound" /\ merged # Missing
  /\ Accepted(merged, candidate.truth)
  /\ BeforeStart(merged, candidate.moment)
  /\ Reconstructed(merged)
  /\ started' = {[moment |-> candidate.moment, truth |-> candidate.truth, review |-> merged]}
  /\ candidate' = [at |-> "idle"]
  /\ UNCHANGED <<clock, truth, handed, merged>>

Refuse ==
  /\ candidate.at # "idle"
  /\ candidate' = [at |-> "idle"]
  /\ UNCHANGED <<clock, truth, handed, merged, started>>

CRNext ==
  \/ Tick \/ Freeze \/ Merge \/ BeginRun \/ ReadTruth \/ ReadReview \/ Refuse
  \/ \E p \in People : HandOver(p) \/ Adjudicate(p) \/ Rewrite(p)

CRSpec == CRInit /\ [][CRNext]_reviewVars

----------------------------------------------------------------------------
(* A candidate run rests on two people's own reviews of the very truth it    *)
(* read, each made after that truth was frozen, and every claim they differ  *)
(* on was decided by a third person who had both before them.                *)
RunsRestOnReview ==
  \A r \in started :
    \E a, b \in handed :
      /\ a.by # b.by
      /\ a.truth = r.truth.version /\ b.truth = r.truth.version
      /\ a.made >= r.truth.frozen /\ b.made >= r.truth.frozen
      /\ \A c \in Claims :
           IF a.decided[c] = b.decided[c] THEN a.decided[c] = Verified
           ELSE LET third == r.review.adjudicated[c]
                IN /\ third # Missing /\ third.decision = Verified /\ third.by \notin {a.by, b.by}
                   /\ third.at >= a.at /\ third.at >= b.at

(* No decision a run rests on was made after the second it started in,       *)
(* though the run reads the review only later.                               *)
DecidedBeforeRun ==
  \A r \in started : \A d \in Decisive(r.review) : d.made \div 2 <= r.moment \div 2

(* What validate_review_for_candidate_run refuses in so many words: a run    *)
(* that began before human review was complete.                              *)
RunsBeginAfterReview ==
  \A r \in started : \A d \in Decisive(r.review) : d.made < r.moment
----------------------------------------------------------------------------
Completed ==
  [by : People, truth : Nat, at : Nat, made : Nat, decided : Decided]
Adjudications == [by : People, at : Nat, made : Nat, decision : Decisions]
Truths == [version : Nat, frozen : Nat]

CRTypeOK ==
  /\ clock \in Nat
  /\ truth \in Truths
  /\ handed \subseteq Completed
  /\ candidate.at \in {"idle", "begun", "bound"}
  /\ candidate.at = "begun" =>
       candidate = [at |-> "begun", moment |-> candidate.moment] /\ candidate.moment \in Nat
  /\ candidate.at = "bound" => candidate.moment \in Nat /\ candidate.truth \in Truths

(* The inductive invariant: whatever was written into the merged file since, *)
(* it names two reviews of one truth that were handed over by two people,    *)
(* and every decision in it bears the second it was made in.                 *)
Stamped(d) == d.at = Second(d.made)

FromTwo(m) ==
  /\ m = [sources |-> m.sources, truth |-> m.truth, reviews |-> m.reviews,
          adjudicated |-> m.adjudicated]
  /\ \E a, b \in handed :
       /\ a.by # b.by /\ a.truth = m.truth /\ b.truth = m.truth
       /\ m.sources = {a, b}
       /\ m.reviews \in [{a.by, b.by} -> Completed]
  /\ \A p \in Reviewers(m) : Stamped(m.reviews[p])
  /\ m.adjudicated \in [Claims -> Adjudications \cup {Missing}]
  /\ \A c \in Claims : m.adjudicated[c] # Missing => Stamped(m.adjudicated[c])

CRIInv ==
  /\ CRTypeOK
  /\ \A r \in handed : Stamped(r)
  /\ merged # Missing => FromTwo(merged)
  /\ RunsRestOnReview
  /\ DecidedBeforeRun
=============================================================================
