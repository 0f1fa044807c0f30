--------------------------- MODULE ClaimWorkspace ---------------------------
(***************************************************************************)
(* One reviewer's workspace (corpus/scripts/claim_review_entry.py): the    *)
(* file a reviewer of the candidate truth declares, decides, finalizes and *)
(* exports from.  Every command reads the whole document, edits one claim  *)
(* of it and replaces the file; nothing locks it, so the commands of two   *)
(* terminals may overlap and one may overwrite what the other wrote.       *)
(* Timestamps have a resolution of one second: several commands share one. *)
(***************************************************************************)
EXTENDS CandidateTruth, Integers, FiniteSets

CONSTANTS
  Targets,     \* the links of a claim
  ClaimLevel,  \* the field of the decision on the claim itself
  Terminals,
  LastSecond,  \* bound: the clock stops here
  Closings     \* bound: how often finalize-claim may succeed

ASSUME WorkspaceAssumption ==
  /\ ClaimLevel \notin Targets
  /\ LastSecond \in Nat \ {0} /\ Closings \in Nat

VARIABLES
  second,     \* the time, as timestamps give it
  workspace,  \* the workspace file
  copy,       \* what each terminal's command has read
  creating,   \* the terminals whose init has seen that there is no workspace
  export,     \* the last completed review written; each goes to a new file
  finalized   \* the sets of decisions finalize-claim closed, for the properties

workspaceVars == <<second, workspace, copy, creating, export, finalized>>

Fields == Targets \cup {ClaimLevel}
Never == 0

(* Of recorded_at a claim keeps which decisions predate its declarations.    *)
NewClaim == [declared |-> Never, decided |-> [f \in Fields |-> Missing], early |-> {},
             finalized |-> Never]
NewWorkspace == [c \in Claims |-> NewClaim]

CWInit ==
  /\ second = 1
  /\ workspace = Missing
  /\ copy = [t \in Terminals |-> Missing]
  /\ creating = {}
  /\ export = Missing
  /\ finalized = {}

(* init refuses an existing workspace, but looks once: it then reads the     *)
(* truth and the scaffold, and replaces whatever has been written meanwhile  *)
(* by a workspace without a decision.                                        *)
SeeNoWorkspace(t) ==
  /\ workspace = Missing /\ copy[t] = Missing
  /\ creating' = creating \cup {t}
  /\ UNCHANGED <<second, workspace, copy, export, finalized>>

CreateDocument(t) ==
  /\ t \in creating
  /\ workspace' = NewWorkspace
  /\ creating' = creating \ {t}
  /\ UNCHANGED <<second, copy, export, finalized>>

----------------------------------------------------------------------------
Read(t) ==
  /\ copy[t] = Missing /\ workspace # Missing /\ t \notin creating
  /\ copy' = [copy EXCEPT ![t] = workspace]
  /\ UNCHANGED <<second, workspace, creating, export, finalized>>

(* A refused command (its truth or scaffold is not what init was given), a   *)
(* failed replacement or a kill: the file is unchanged, atomic_write_json    *)
(* having written to a temporary file beside it.                             *)
GiveUp(t) ==
  /\ copy[t] # Missing \/ t \in creating
  /\ copy' = [copy EXCEPT ![t] = Missing]
  /\ creating' = creating \ {t}
  /\ UNCHANGED <<second, workspace, export, finalized>>

(* _require_internal_ordering refuses to write what it would not read back.  *)
Recorded(claim) == {f \in Fields : claim.decided[f] # Missing}
Complete(claim) == claim.declared # Never /\ Recorded(claim) = Fields
Ordered(claim) ==
  claim.finalized # Never => Complete(claim) /\ claim.declared < claim.finalized

Persist(t, c, claim) ==
  /\ Ordered(claim)
  /\ workspace' = [copy[t] EXCEPT ![c] = claim]
  /\ copy' = [copy EXCEPT ![t] = Missing]
  /\ UNCHANGED <<second, creating, export>>

\* Mutant of Withdrawn: an edit leaves the finalization in place.
StillFinalized(claim) == claim

(* Editing a finalized claim withdraws its finalization.                     *)
Withdrawn(claim) == [claim EXCEPT !.finalized = Never]

Declare(t, c) ==
  /\ copy[t] # Missing /\ copy[t][c].declared = Never
  /\ Persist(t, c, [copy[t][c] EXCEPT !.declared = second])
  /\ UNCHANGED finalized

Decide(t, c, f, decision) ==
  /\ copy[t] # Missing /\ copy[t][c].declared # Never
  /\ Persist(t, c, Withdrawn([copy[t][c] EXCEPT !.decided[f] = decision,
                                                 !.early = @ \ {f}]))
  /\ UNCHANGED finalized

ClearDeclarations(t, c) ==
  /\ copy[t] # Missing /\ copy[t][c].declared # Never
  /\ Persist(t, c, Withdrawn([copy[t][c] EXCEPT !.declared = Never,
                                                 !.early = Recorded(copy[t][c])]))
  /\ UNCHANGED <<finalized>>

ClearDecision(t, c, f) ==
  /\ copy[t] # Missing /\ copy[t][c].decided[f] # Missing
  /\ Persist(t, c, Withdrawn([copy[t][c] EXCEPT !.decided[f] = Missing,
                                                 !.early = @ \ {f}]))
  /\ UNCHANGED <<finalized>>

FinalizeClaim(t, c) ==
  /\ copy[t] # Missing
  /\ Cardinality(finalized) < Closings
  /\ Complete(copy[t][c]) /\ copy[t][c].declared < second
  /\ LET claim == [copy[t][c] EXCEPT !.finalized = second]
     IN /\ Persist(t, c, claim)
        /\ finalized' = finalized \cup {[claim |-> c, closed |-> claim]}

\* Mutant of ExportReady: complete claims are exported, finalized or not.
CompleteOnly(document) == \A c \in Claims : Complete(document[c])

ExportReady(document) == \A c \in Claims : document[c].finalized # Never

FinalizeReview(t) ==
  /\ copy[t] # Missing
  /\ ExportReady(copy[t])
  /\ export' = copy[t]
  /\ copy' = [copy EXCEPT ![t] = Missing]
  /\ UNCHANGED <<second, workspace, creating, finalized>>

----------------------------------------------------------------------------
NextSecond ==
  /\ second < LastSecond
  /\ second' = second + 1
  /\ UNCHANGED <<workspace, copy, creating, export, finalized>>

Command(t) ==
  \/ SeeNoWorkspace(t) \/ CreateDocument(t)
  \/ Read(t) \/ GiveUp(t) \/ FinalizeReview(t)
  \/ \E c \in Claims :
       \/ Declare(t, c) \/ ClearDeclarations(t, c) \/ FinalizeClaim(t, c)
       \/ \E f \in Fields :
            \/ \E decision \in Decisions : Decide(t, c, f, decision)
            \/ ClearDecision(t, c, f)

CWNext == NextSecond \/ \E t \in Terminals : Command(t)

CWSpec == CWInit /\ [][CWNext]_workspaceVars

----------------------------------------------------------------------------
ClaimRecords ==
  [declared : 0 .. LastSecond, decided : [Fields -> Decisions \cup {Missing}],
   early : SUBSET Fields, finalized : 0 .. LastSecond]
Documents == [Claims -> ClaimRecords]

CWTypeOK ==
  /\ second \in 1 .. LastSecond
  /\ workspace \in Documents \cup {Missing}
  /\ copy \in [Terminals -> Documents \cup {Missing}]
  /\ creating \subseteq Terminals
  /\ export \in Documents \cup {Missing}
  /\ finalized \subseteq [claim : Claims, closed : ClaimRecords]

(* Every claim of a completed review is, as a whole, a set of decisions the  *)
(* reviewer closed with finalize-claim at its reviewed_at, complete and      *)
(* declared for in an earlier second: whatever two terminals overwrote of    *)
(* each other, no export mixes decisions of different finalizations.         *)
ExportsAreFinalized ==
  export # Missing =>
    \A c \in Claims :
      /\ [claim |-> c, closed |-> export[c]] \in finalized
      /\ Complete(export[c])
      /\ export[c].declared < export[c].finalized

(* What _require_declared says: the declarations of a claim precede every    *)
(* decision on it that is exported.                                          *)
DeclaredFirst ==
  export # Missing => \A c \in Claims : export[c].early = {}

(* The inductive invariant: a claim that is finalized anywhere, in the file  *)
(* or in what a terminal has read, is one that finalize-claim closed.        *)
Closed(document) ==
  \A c \in Claims :
    document[c].finalized # Never =>
      /\ [claim |-> c, closed |-> document[c]] \in finalized
      /\ Ordered(document[c])

CWIInv ==
  /\ CWTypeOK
  /\ workspace # Missing => Closed(workspace)
  /\ \A t \in Terminals : copy[t] # Missing => Closed(copy[t])
  /\ ExportsAreFinalized
=============================================================================
