------------------------- MODULE FindingReviewProofs -------------------------
(* Reported labels are the reviewers', and calibrated: for any findings,     *)
(* allocations, people, terminals and judgements, and any changes by hand.   *)
EXTENDS FindingReview, TLAPS, FiniteSetTheorems

FilesGood ==
  /\ file = [r \in Roles |-> file[r]]
  /\ \A r \in Roles : file[r] # Missing =>
       file[r] \in SourceFiles(r) /\ file[r].allocation =< allocation /\ IsEntered(file[r])
CommandsGood ==
  /\ command = [t \in Terminals |-> command[t]]
  /\ \A t \in Terminals : Command(command[t]) /\ ReadsEntered(command[t])
EnteredGood ==
  /\ entered \subseteq UNION {[role: {r}, allocation: {allocation},
                               finding: Assigned(r, allocation), judgement: Judgements] : r \in Roles}
  /\ IsFiniteSet(entered)
MergedGood == merged # Missing => IsMerge(merged)

LEMMA ReviewParts ==
  IInv <=> /\ allocation \in Versions /\ edits \in 0 .. Edits
             /\ FilesGood /\ CommandsGood /\ EnteredGood /\ MergedGood
  BY DEF IInv, TypeOK, DecisionsEntered, FilesGood, CommandsGood, EnteredGood, MergedGood

LEMMA ReviewPartsNext ==
  ASSUME allocation' \in Versions, edits' \in 0 .. Edits,
         FilesGood', CommandsGood', EnteredGood', MergedGood'
  PROVE  IInv'
  BY DEF IInv, TypeOK, DecisionsEntered, FilesGood, CommandsGood, EnteredGood, MergedGood

(* A reviewer's file, taken apart and put together.                          *)
LEMMA SourceShape ==
  ASSUME NEW role, NEW p \in SourceFiles(role)
  PROVE  /\ p.role = role /\ p.allocation \in Versions /\ p.by \in People
         /\ p.declared \in BOOLEAN
         /\ p.decided \in [Assigned(role, p.allocation) -> Judgements \cup {Missing}]
         /\ p = [role |-> role, allocation |-> p.allocation, by |-> p.by,
                 declared |-> p.declared, decided |-> p.decided]
  BY DEF SourceFiles

LEMMA SourceMade ==
  ASSUME NEW role, NEW v \in Versions, NEW p \in People, NEW b \in BOOLEAN,
         NEW d \in [Assigned(role, v) -> Judgements \cup {Missing}]
  PROVE  [role |-> role, allocation |-> v, by |-> p, declared |-> b, decided |-> d]
           \in SourceFiles(role)
  BY DEF SourceFiles

LEMMA IsEnteredGrows ==
  ASSUME NEW p, IsEntered(p), allocation' = allocation, entered \subseteq entered'
  PROVE  IsEntered(p)'
  BY DEF IsEntered

LEMMA FilesGrow ==
  ASSUME FilesGood, file' = file, allocation' = allocation, entered \subseteq entered'
  PROVE  FilesGood'
  BY IsEnteredGrows DEF FilesGood

LEMMA ReadsGrow ==
  ASSUME NEW c, Command(c), ReadsEntered(c), allocation' = allocation, entered \subseteq entered'
  PROVE  Command(c)' /\ ReadsEntered(c)'
<1>1. Command(c)'
  BY DEF Command, IsMerge
<1>2. ReadsEntered(c)'
  BY IsEnteredGrows DEF ReadsEntered
<1> QED BY <1>1, <1>2

(* A terminal turns to something it has read rightly.                        *)
LEMMA BecomeGood ==
  ASSUME CommandsGood, NEW t \in Terminals, NEW c, Become(t, c),
         allocation' = allocation, entered \subseteq entered',
         Command(c)', ReadsEntered(c)'
  PROVE  CommandsGood'
<1>1. command' = [s \in Terminals |-> IF s = t THEN c ELSE command[s]]
  BY DEF Become, CommandsGood
<1>2. command' = [s \in Terminals |-> command'[s]]
  BY <1>1
<1>3. ASSUME NEW s \in Terminals PROVE Command(command[s])' /\ ReadsEntered(command[s])'
  <2>1. CASE s = t
    <3>1. command'[s] = c
      BY <2>1, <1>1
    <3> QED BY <3>1 DEF Command, ReadsEntered, IsEntered, IsMerge
  <2>2. CASE s # t
    <3>1. command'[s] = command[s]
      BY <2>2, <1>1
    <3>2. Command(command[s]) /\ ReadsEntered(command[s])
      BY DEF CommandsGood
    <3> DEFINE k == command[s]
    <3>3. Command(k) /\ ReadsEntered(k)
      BY <3>2
    <3> QED BY <3>1, <3>2, ReadsGrow
  <2> QED BY <2>1, <2>2
<1> QED BY <1>2, <1>3 DEF CommandsGood

LEMMA IdleGood == Command(Idle)' /\ ReadsEntered(Idle)'
  BY DEF Command, ReadsEntered, Idle

LEMMA MergedKept ==
  ASSUME MergedGood, merged' = merged, allocation' = allocation
  PROVE  MergedGood'
  BY DEF MergedGood, IsMerge

LEMMA EnteredKept ==
  ASSUME EnteredGood, entered' = entered, allocation' = allocation
  PROVE  EnteredGood'
  BY DEF EnteredGood

LEMMA InitInvariant == Init => IInv
<1> SUFFICES ASSUME Init PROVE IInv
  OBVIOUS
<1>1. allocation \in Versions /\ edits \in 0 .. Edits
  BY AllocationAssumption DEF Init, Versions
<1>2. FilesGood
  BY DEF Init, FilesGood
<1>3. CommandsGood
  BY DEF Init, CommandsGood, Command, ReadsEntered, Idle
<1>4. EnteredGood
  BY FS_EmptySet DEF Init, EnteredGood
<1>5. MergedGood
  BY DEF Init, MergedGood
<1> QED BY <1>1, <1>2, <1>3, <1>4, <1>5, ReviewParts

(* One step of each action.                                                  *)
LEMMA ReallocateGood ==
  ASSUME IInv, Reallocate
  PROVE  IInv'
<1>1. allocation \in Versions /\ allocation' \in Versions /\ allocation' > allocation
  BY ReviewParts DEF Reallocate, Versions
<1>2. FilesGood'
  <2>1. file' = file /\ FilesGood
    BY ReviewParts DEF Reallocate
  <2>2. ASSUME NEW r \in Roles, file[r] # Missing
        PROVE  file[r].allocation < allocation'
    <3>1. file[r].allocation =< allocation /\ file[r].allocation \in Versions
      BY <2>1, <2>2, SourceShape DEF FilesGood
    <3> QED BY <3>1, <1>1 DEF Versions
  <2>3. ASSUME NEW r \in Roles, file[r] # Missing
        PROVE  file[r].allocation # allocation' /\ file[r].allocation =< allocation'
    BY <2>2, <2>3, <2>1, <1>1, SourceShape DEF FilesGood, Versions
  <2> QED BY <2>1, <2>3 DEF FilesGood, IsEntered
<1>3. CommandsGood'
  BY ReviewParts, IdleGood DEF Reallocate, CommandsGood
<1>4. EnteredGood' /\ MergedGood'
  BY FS_EmptySet DEF Reallocate, EnteredGood, MergedGood
<1> QED BY <1>1, <1>2, <1>3, <1>4, ReviewParts, ReviewPartsNext DEF Reallocate

LEMMA StartGood ==
  ASSUME IInv, NEW role \in Roles, NEW p \in People, Start(role, p)
  PROVE  IInv'
<1>1. /\ allocation' = allocation /\ allocation \in Versions /\ entered' = entered
      /\ merged' = merged /\ command' = command /\ edits' = edits
  BY ReviewParts DEF Start
<1>2. FilesGood'
  <2> DEFINE new == NewFile(role, allocation, p)
  <2>1. new \in SourceFiles(role)
    BY <1>1, SourceMade DEF NewFile
  <2>2. new.allocation = allocation /\ IsEntered(new)
    BY DEF NewFile, IsEntered, Decided
  <2>3. file' = [file EXCEPT ![role] = new]
    BY DEF Start
  <2> HIDE DEF new
  <2>4. FilesGood
    BY ReviewParts
  <2>5. \A r \in Roles : file'[r] = IF r = role THEN new ELSE file[r]
    BY <2>3, <2>4 DEF FilesGood
  <2>6. allocation =< allocation
    BY <1>1 DEF Versions
  <2> QED BY <1>1, <2>1, <2>2, <2>3, <2>4, <2>5, <2>6 DEF FilesGood, IsEntered
<1>3. CommandsGood'
  BY <1>1, ReviewParts, ReadsGrow DEF CommandsGood
<1> QED BY <1>1, <1>2, <1>3, ReviewParts, ReviewPartsNext, MergedKept, EnteredKept

(* A step that only turns a terminal to something it has read rightly.       *)
LEMMA TurnGood ==
  ASSUME IInv, NEW t \in Terminals, NEW c, Become(t, c), Command(c), ReadsEntered(c),
         UNCHANGED <<allocation, file, merged, entered, edits>>
  PROVE  IInv'
<1>1. Command(c)' /\ ReadsEntered(c)'
  BY ReadsGrow
<1>2. FilesGood' /\ MergedGood' /\ EnteredGood'
  BY ReviewParts, FilesGrow, MergedKept, EnteredKept
<1>3. CommandsGood'
  BY <1>1, BecomeGood, ReviewParts
<1> QED BY <1>2, <1>3, ReviewParts, ReviewPartsNext

LEMMA OpenGood ==
  ASSUME IInv, NEW t \in Terminals, NEW role \in Roles, Open(t, role)
  PROVE  IInv'
<1> DEFINE c == [does |-> "declare", payload |-> file[role]]
<1>1. file[role] \in SourceFiles(role) /\ IsEntered(file[role])
  BY ReviewParts DEF Open, FilesGood
<1>2. file[role].allocation = allocation
  BY DEF Open, Valid, MadeFor
<1>3. Command(c) /\ ReadsEntered(c)
  BY <1>1, <1>2 DEF Command, ReadsEntered
<1>4. Become(t, c) /\ UNCHANGED <<allocation, file, merged, entered, edits>>
  BY DEF Open
<1> HIDE DEF c
<1> QED BY <1>3, <1>4, TurnGood

LEMMA StopGood ==
  ASSUME IInv, NEW t \in Terminals, Stop(t)
  PROVE  IInv'
  BY TurnGood DEF Stop, Command, ReadsEntered, Idle

LEMMA ReportGood ==
  ASSUME IInv, NEW t \in Terminals, Report(t)
  PROVE  IInv'
  BY TurnGood DEF Report, Command, ReadsEntered, Idle

(* Both files, as a terminal of the coordinator reads them.                  *)
LEMMA BothMade ==
  ASSUME NEW s, s = [r \in Roles |-> s[r]], \A r \in Roles : s[r] \in SourceFiles(r)
  PROVE  s \in Both
<1>1. \A r \in Roles : s[r].role = r
  BY SourceShape
<1> QED BY <1>1 DEF Both

LEMMA BothRead ==
  ASSUME NEW s \in Both, NEW r \in Roles
  PROVE  s[r] \in SourceFiles(r) /\ s[r].role = r
<1>1. PICK role \in Roles : s[r] \in SourceFiles(role)
  BY DEF Both
<1>2. s[r].role = r
  BY DEF Both
<1> QED BY <1>1, <1>2, SourceShape

LEMMA GatherGood ==
  ASSUME IInv, NEW t \in Terminals, Gather(t)
  PROVE  IInv'
<1> DEFINE c == [does |-> "hash", allocation |-> allocation, sources |-> file]
<1>1. \A r \in Roles : file[r] \in SourceFiles(r) /\ IsEntered(file[r])
  BY ReviewParts DEF Gather, FilesGood
<1>2. file \in Both
  BY <1>1, BothMade, ReviewParts DEF FilesGood
<1>3. Command(c)
  BY <1>2 DEF Command
<1>4. ReadsEntered(c)
  BY <1>1 DEF ReadsEntered
<1>5. Become(t, c) /\ UNCHANGED <<allocation, file, merged, entered, edits>>
  BY DEF Gather
<1> HIDE DEF c
<1> QED BY <1>3, <1>4, <1>5, TurnGood

(* What a terminal holds while it does what it does.                         *)
LEMMA AtDesk ==
  ASSUME CommandsGood, NEW t \in Terminals
  PROVE  /\ command[t].does \in {"declare", "decide"} =>
              /\ command[t] = [does |-> command[t].does, payload |-> command[t].payload]
              /\ command[t].payload.role \in Roles
              /\ command[t].payload \in SourceFiles(command[t].payload.role)
              /\ command[t].payload.allocation = allocation
              /\ IsEntered(command[t].payload)
         /\ command[t].does = "hash" => command[t].sources \in Both
         /\ command[t].does = "check" => command[t].sources \in Both /\ command[t].digests \in Both
         /\ command[t].does \in {"hash", "check"} =>
              /\ command[t].allocation = allocation
              /\ \A r \in Roles : IsEntered(command[t].sources[r])
         /\ command[t].does = "adjudicate" =>
              /\ command[t] = [does |-> "adjudicate", by |-> command[t].by,
                               payload |-> command[t].payload]
              /\ command[t].by \in People /\ IsMerge(command[t].payload)
<1> DEFINE c == command[t]
<1>1. Command(c) /\ ReadsEntered(c)
  BY DEF CommandsGood
<1> HIDE DEF c
<1>2. c.does \in {"declare", "decide"} =>
        /\ c = [does |-> c.does, payload |-> c.payload]
        /\ \E r \in Roles : c.payload \in SourceFiles(r)
        /\ c.payload.allocation = allocation
  BY <1>1 DEF Command, Idle
<1>3. c.does \in {"declare", "decide"} =>
        c.payload.role \in Roles /\ c.payload \in SourceFiles(c.payload.role)
  BY <1>2, SourceShape
<1>4. /\ c.does = "hash" => c.sources \in Both
      /\ c.does = "check" => c.sources \in Both /\ c.digests \in Both
      /\ c.does \in {"hash", "check"} => c.allocation = allocation
  BY <1>1 DEF Command, Idle
<1>5. c.does = "adjudicate" =>
        /\ c = [does |-> "adjudicate", by |-> c.by, payload |-> c.payload]
        /\ c.by \in People /\ IsMerge(c.payload)
  BY <1>1 DEF Command, Idle
<1> QED BY <1>1, <1>2, <1>3, <1>4, <1>5 DEF ReadsEntered, c

(* A terminal saves a reviewer's file.                                       *)
LEMMA SaveGood ==
  ASSUME FilesGood, NEW p, p.role \in Roles, p \in SourceFiles(p.role), p.allocation = allocation,
         allocation \in Versions, allocation' = allocation, entered \subseteq entered',
         IsEntered(p)', Save(p)
  PROVE  FilesGood'
<1>1. \A r \in Roles : file'[r] = file[r] \/ (file'[r] = p /\ r = p.role)
  BY DEF Save, FilesGood
<1>2. file' = [r \in Roles |-> file'[r]]
  BY DEF Save, FilesGood
<1>3. ASSUME NEW r \in Roles, file'[r] # Missing
      PROVE  (file[r] \in SourceFiles(r) /\ file[r].allocation =< allocation /\ IsEntered(file[r]))'
  <2>1. PICK q : q = file'[r]
    OBVIOUS
  <2>2. q \in SourceFiles(r) /\ q.allocation =< allocation /\ IsEntered(q)'
    <3>1. CASE file'[r] = file[r]
      <4>1. q \in SourceFiles(r) /\ q.allocation =< allocation /\ IsEntered(q)
        BY <1>3, <2>1, <3>1 DEF FilesGood
      <4> QED BY <4>1, IsEnteredGrows
    <3>2. CASE file'[r] = p /\ r = p.role
      <4>1. allocation =< allocation
        BY DEF Versions
      <4> QED BY <4>1, <3>2, <2>1
    <3> QED BY <1>1, <3>1, <3>2
  <2>3. SourceFiles(r)' = SourceFiles(r)
    BY DEF SourceFiles, Assigned, Versions
  <2> QED BY <2>1, <2>2, <2>3
<1> QED BY <1>2, <1>3 DEF FilesGood

LEMMA DeclareGood ==
  ASSUME IInv, NEW t \in Terminals, Declare(t)
  PROVE  IInv'
<1>0. PICK q, p, c : /\ q = command[t].payload /\ p = [q EXCEPT !.declared = TRUE]
                      /\ c = [command[t] EXCEPT !.does = "decide", !.payload = p]
  OBVIOUS
<1>1. /\ allocation' = allocation /\ allocation \in Versions /\ entered' = entered
      /\ merged' = merged /\ edits' = edits /\ edits \in 0 .. Edits
      /\ FilesGood /\ CommandsGood /\ EnteredGood /\ MergedGood
  BY ReviewParts DEF Declare
<1>2. /\ command[t] = [does |-> "declare", payload |-> q]
      /\ q.role \in Roles /\ q \in SourceFiles(q.role)
      /\ q.allocation = allocation /\ IsEntered(q)
  BY <1>0, <1>1, AtDesk DEF Declare
<1>3. /\ p.role = q.role /\ p.allocation = allocation
      /\ p.decided = q.decided /\ p \in SourceFiles(p.role)
  <2>1. /\ q.allocation \in Versions /\ q.by \in People
        /\ q.decided \in [Assigned(q.role, q.allocation) -> Judgements \cup {Missing}]
        /\ q = [role |-> q.role, allocation |-> q.allocation, by |-> q.by,
                declared |-> q.declared, decided |-> q.decided]
    BY <1>2, SourceShape
  <2>2. p = [role |-> q.role, allocation |-> q.allocation, by |-> q.by,
             declared |-> TRUE, decided |-> q.decided]
    BY <1>0, <2>1
  <2>3. TRUE \in BOOLEAN
    OBVIOUS
  <2>4. p \in SourceFiles(q.role)
    BY <2>1, <2>2, <2>3, SourceMade
  <2> QED BY <1>2, <2>2, <2>4
<1>4. c = [does |-> "decide", payload |-> p]
  BY <1>0, <1>2
<1>5. Save(p) /\ Become(t, c)
  BY <1>0 DEF Declare
<1>6. IsEntered(p)
  BY <1>2, <1>3 DEF IsEntered, Decided
<1>7. IsEntered(p)'
  BY <1>1, <1>6 DEF IsEntered
<1>8. FilesGood'
  BY <1>1, <1>2, <1>3, <1>5, <1>7, SaveGood
<1>9. Command(c)' /\ ReadsEntered(c)'
  BY <1>1, <1>2, <1>3, <1>4, <1>7 DEF Command, ReadsEntered, IsEntered
<1>10. CommandsGood'
  BY <1>1, <1>5, <1>9, BecomeGood
<1> QED BY <1>1, <1>8, <1>10, MergedKept, EnteredKept, ReviewPartsNext

LEMMA DecideGood ==
  ASSUME IInv, NEW t \in Terminals, NEW f \in Findings, NEW j \in Judgements, Decide(t, f, j)
  PROVE  IInv'
<1>0. PICK q, p, c, e : /\ q = command[t].payload /\ p = [q EXCEPT !.decided[f] = j]
                         /\ c = [command[t] EXCEPT !.payload = p]
                         /\ e = Entry(q.role, allocation, f, j)
  OBVIOUS
<1>1. /\ allocation' = allocation /\ allocation \in Versions
      /\ merged' = merged /\ edits' = edits /\ edits \in 0 .. Edits
      /\ FilesGood /\ CommandsGood /\ EnteredGood /\ MergedGood
  BY ReviewParts DEF Decide
<1>2. /\ command[t] = [does |-> "decide", payload |-> q]
      /\ q.role \in Roles /\ q \in SourceFiles(q.role)
      /\ q.allocation = allocation /\ IsEntered(q)
  BY <1>0, <1>1, AtDesk DEF Decide
<1>3. /\ p.role = q.role /\ p.allocation = allocation
      /\ p.decided = [q.decided EXCEPT ![f] = j]
      /\ p \in SourceFiles(p.role)
      /\ f \in DOMAIN q.decided /\ DOMAIN q.decided = Assigned(q.role, allocation)
  <2>1. f \in DOMAIN q.decided
    BY <1>0 DEF Decide
  <2>2. /\ q.allocation \in Versions /\ q.by \in People /\ q.declared \in BOOLEAN
        /\ q.decided \in [Assigned(q.role, allocation) -> Judgements \cup {Missing}]
        /\ q = [role |-> q.role, allocation |-> q.allocation, by |-> q.by,
                declared |-> q.declared, decided |-> q.decided]
    BY <1>2, SourceShape
  <2> DEFINE d == [q.decided EXCEPT ![f] = j]
  <2>3. d \in [Assigned(q.role, allocation) -> Judgements \cup {Missing}]
    BY <2>2
  <2>4. p = [role |-> q.role, allocation |-> allocation, by |-> q.by,
             declared |-> q.declared, decided |-> d]
    BY <1>0, <2>2, <1>2
  <2>5. p \in SourceFiles(q.role)
    <3> HIDE DEF d
    <3> QED BY <2>2, <2>3, <2>4, <1>1, SourceMade
  <2> QED BY <2>1, <2>2, <2>4, <2>5
<1>4. c = [does |-> "decide", payload |-> p]
  BY <1>0, <1>2
<1>5. Save(p) /\ Become(t, c) /\ entered' = entered \cup {e}
  BY <1>0, <1>2, <1>3 DEF Decide
<1>6. e = [role |-> q.role, allocation |-> allocation, finding |-> f, judgement |-> j]
  BY <1>0 DEF Entry
<1>7. IsEntered(p)'
  <2>1. ASSUME NEW g \in Decided(p)
        PROVE  Entry(p.role, p.allocation, g, p.decided[g]) \in entered'
    <3>1. CASE g = f
      BY <3>1, <1>3, <1>5, <1>6 DEF Entry
    <3>2. CASE g # f
      <4>1. g \in Decided(q) /\ p.decided[g] = q.decided[g]
        BY <2>1, <3>2, <1>3 DEF Decided
      <4>2. Entry(q.role, q.allocation, g, q.decided[g]) \in entered
        BY <4>1, <1>2 DEF IsEntered
      <4> QED BY <4>1, <4>2, <1>2, <1>3, <1>5
    <3> QED BY <3>1, <3>2
  <2> QED BY <2>1 DEF IsEntered, Decided
<1>8. FilesGood'
  BY <1>1, <1>2, <1>3, <1>5, <1>7, SaveGood
<1>9. Command(c)' /\ ReadsEntered(c)'
  BY <1>1, <1>2, <1>3, <1>4, <1>7 DEF Command, ReadsEntered, IsEntered
<1>10. CommandsGood'
  BY <1>1, <1>5, <1>9, BecomeGood
<1>11. EnteredGood'
  <2>1. e \in [role: {q.role}, allocation: {allocation}, finding: Assigned(q.role, allocation),
               judgement: Judgements]
    BY <1>3, <1>6
  <2>2. IsFiniteSet(entered')
    BY <1>1, <1>5, FS_AddElement DEF EnteredGood
  <2> QED BY <2>1, <2>2, <1>1, <1>2, <1>5 DEF EnteredGood
<1> QED BY <1>1, <1>8, <1>10, <1>11, MergedKept, ReviewPartsNext

LEMMA HashGood ==
  ASSUME IInv, NEW t \in Terminals, Hash(t)
  PROVE  IInv'
<1>1. PICK s, d, c :
        /\ s = command[t].sources
        /\ d = [r \in Roles |-> IF Of(s[r].allocation, file[r]) THEN file[r] ELSE s[r]]
        /\ c = [does |-> "check", allocation |-> allocation, sources |-> s, digests |-> d]
  OBVIOUS
<1>2. /\ s \in Both /\ command[t].allocation = allocation
      /\ \A r \in Roles : IsEntered(s[r])
  BY <1>1, ReviewParts, AtDesk DEF Hash
<1>3. d \in Both
  <2>1. ASSUME NEW r \in Roles PROVE d[r] \in SourceFiles(r)
    <3>1. s[r] \in SourceFiles(r)
      BY <1>2, BothRead
    <3>2. file[r] # Missing => file[r] \in SourceFiles(r)
      BY ReviewParts DEF FilesGood
    <3> QED BY <1>1, <3>1, <3>2 DEF Of
  <2>2. d = [r \in Roles |-> d[r]]
    BY <1>1
  <2> QED BY <2>1, <2>2, BothMade
<1>4. Command(c)
  BY <1>1, <1>2, <1>3 DEF Command
<1>5. ReadsEntered(c)
  BY <1>1, <1>2 DEF ReadsEntered
<1>6. Become(t, c) /\ UNCHANGED <<allocation, file, merged, entered, edits>>
  BY <1>1, <1>2 DEF Hash
<1> QED BY <1>4, <1>5, <1>6, TurnGood

(* Two complete files for the allocation in force make a merged file.        *)
LEMMA CompleteDecided ==
  ASSUME NEW s \in Both, NEW r \in Roles, NEW v \in Versions, Complete(s[r], v)
  PROVE  /\ s[r].allocation = v
         /\ \A f \in Assigned(r, v) : s[r].decided[f] \in Judgements /\ f \in Decided(s[r])
<1>1. /\ s[r].allocation = v /\ s[r].role = r
      /\ Decided(s[r]) = DOMAIN s[r].decided /\ DOMAIN s[r].decided = Assigned(r, v)
  BY BothRead DEF Complete, Valid, MadeFor
<1>2. s[r].decided \in [Assigned(r, v) -> Judgements \cup {Missing}]
  BY <1>1, BothRead, SourceShape
<1> QED BY <1>1, <1>2 DEF Decided

LEMMA MergeMade ==
  ASSUME allocation \in Versions, NEW s \in Both, NEW d \in Both, MayMerge(s, d, allocation)
  PROVE  IsMerge(Merge(s, d, allocation))
<1> DEFINE m == Merge(s, d, allocation)
<1>1. m = [allocation |-> m.allocation, initial |-> m.initial,
           reviews |-> m.reviews, adjudicated |-> m.adjudicated]
      /\ m.allocation = allocation
  BY DEF Merge
<1>2. m.initial \in [Roles -> [by: People, digest: UNION {SourceFiles(r) : r \in Roles}]]
  <2>1. ASSUME NEW r \in Roles
        PROVE  s[r].by \in People /\ d[r] \in UNION {SourceFiles(q) : q \in Roles}
    <3>1. s[r] \in SourceFiles(r) /\ d[r] \in SourceFiles(r)
      BY BothRead
    <3> QED BY <3>1, SourceShape
  <2>2. m.initial = [r \in Roles |-> [by |-> s[r].by, digest |-> d[r]]]
    BY DEF Merge
  <2> HIDE DEF m
  <2> QED BY <2>1, <2>2
<1>3. m.reviews = [f \in Population(m) |-> m.reviews[f]]
  BY DEF Merge, Population
<1>4. ASSUME NEW f \in Population(m)
      PROVE  m.reviews[f] \in [Reviewed(f, allocation) -> Judgements]
  <2>1. m.reviews[f] = [r \in Reviewed(f, allocation) |-> s[r].decided[f]]
    BY DEF Merge, Reviewed, Population
  <2>2. ASSUME NEW r \in Reviewed(f, allocation) PROVE s[r].decided[f] \in Judgements
    <3>1. r \in Roles /\ f \in Assigned(r, allocation)
      BY DEF Reviewed
    <3>2. Complete(s[r], allocation)
      BY <3>1 DEF MayMerge
    <3> QED BY <3>1, <3>2, CompleteDecided
  <2> HIDE DEF m
  <2> QED BY <2>1, <2>2
<1>5. m.adjudicated \in [Population(m) -> [by: People, judgement: Judgements] \cup {Missing}]
  BY DEF Merge, Population
<1> HIDE DEF m
<1>6. IsMerge(m)
  BY <1>1, <1>2, <1>3, <1>4, <1>5 DEF IsMerge
<1> QED BY <1>6 DEF m

LEMMA SaveMergeGood ==
  ASSUME IInv, NEW t \in Terminals, SaveMerge(t)
  PROVE  IInv'
<1>1. PICK m : m = Merge(command[t].sources, command[t].digests, allocation)
  OBVIOUS
<1>2. /\ command[t].sources \in Both /\ command[t].digests \in Both
      /\ command[t].allocation = allocation
  BY ReviewParts, AtDesk DEF SaveMerge
<1>3. /\ merged' = m /\ Become(t, Idle)
      /\ UNCHANGED <<allocation, file, entered, edits>>
      /\ MayMerge(command[t].sources, command[t].digests, allocation)
  BY <1>1, <1>2 DEF SaveMerge
<1>4. IsMerge(m)
  BY <1>1, <1>2, <1>3, MergeMade, ReviewParts
<1>5. MergedGood'
  BY <1>3, <1>4 DEF MergedGood, IsMerge
<1>6. FilesGood' /\ EnteredGood'
  BY <1>3, ReviewParts, FilesGrow, EnteredKept
<1>7. CommandsGood'
  BY <1>3, ReviewParts, IdleGood, BecomeGood
<1> QED BY <1>3, <1>5, <1>6, <1>7, ReviewParts, ReviewPartsNext

LEMMA OpenMergedGood ==
  ASSUME IInv, NEW t \in Terminals, NEW p \in People, OpenMerged(t, p)
  PROVE  IInv'
<1>1. PICK c : c = [does |-> "adjudicate", by |-> p, payload |-> merged]
  OBVIOUS
<1>2. Become(t, c) /\ UNCHANGED <<allocation, file, merged, entered, edits>>
  BY <1>1 DEF OpenMerged
<1>3. IsMerge(merged)
  BY ReviewParts DEF OpenMerged, MergedGood
<1>4. Command(c) /\ ReadsEntered(c)
  BY <1>1, <1>3 DEF Command, ReadsEntered
<1> QED BY <1>2, <1>4, TurnGood

(* An adjudication entered into a merged file makes a merged file.           *)
LEMMA AdjudicatedMade ==
  ASSUME NEW m, IsMerge(m), NEW f, NEW p \in People, NEW j \in Judgements
  PROVE  IsMerge([m EXCEPT !.adjudicated[f] = [by |-> p, judgement |-> j]])
<1>1. PICK x : x = [by |-> p, judgement |-> j]
  OBVIOUS
<1> DEFINE a == [m.adjudicated EXCEPT ![f] = x]
<1>2. x \in [by: People, judgement: Judgements]
  BY <1>1
<1>3. a \in [Population(m) -> [by: People, judgement: Judgements] \cup {Missing}]
  BY <1>2 DEF IsMerge
<1>4. m = [allocation |-> m.allocation, initial |-> m.initial,
           reviews |-> m.reviews, adjudicated |-> m.adjudicated]
  BY DEF IsMerge
<1>5. [m EXCEPT !.adjudicated[f] = x]
        = [allocation |-> m.allocation, initial |-> m.initial,
           reviews |-> m.reviews, adjudicated |-> a]
  BY <1>4
<1> HIDE DEF a
<1>6. IsMerge([m EXCEPT !.adjudicated[f] = x])
  BY <1>3, <1>5 DEF IsMerge, Population
<1> QED BY <1>1, <1>6

LEMMA AdjudicateGood ==
  ASSUME IInv, NEW t \in Terminals, NEW f \in Findings, NEW j \in Judgements, Adjudicate(t, f, j)
  PROVE  IInv'
<1>1. PICK q, m, c :
        /\ q = command[t].payload
        /\ m = [q EXCEPT !.adjudicated[f] = [by |-> command[t].by, judgement |-> j]]
        /\ c = [command[t] EXCEPT !.payload = m]
  OBVIOUS
<1>2. /\ command[t] = [does |-> "adjudicate", by |-> command[t].by, payload |-> q]
      /\ command[t].by \in People /\ IsMerge(q)
  BY <1>1, ReviewParts, AtDesk DEF Adjudicate
<1>3. IsMerge(m)
  BY <1>1, <1>2, AdjudicatedMade
<1>4. /\ UNCHANGED <<allocation, file, entered, edits>> /\ Become(t, c)
      /\ merged' = m \/ merged' = merged
  BY <1>1 DEF Adjudicate
<1>5. c = [does |-> "adjudicate", by |-> command[t].by, payload |-> m]
  BY <1>1, <1>2
<1>6. Command(c) /\ ReadsEntered(c)
  BY <1>2, <1>3, <1>5 DEF Command, ReadsEntered
<1>7. Command(c)' /\ ReadsEntered(c)'
  BY <1>4, <1>6, ReadsGrow
<1>8. CommandsGood'
  BY <1>4, <1>7, ReviewParts, BecomeGood
<1>9. MergedGood'
  <2>1. IsMerge(m)'
    BY <1>3, <1>4 DEF IsMerge
  <2>2. CASE merged' = m
    BY <2>1, <2>2 DEF MergedGood, IsMerge
  <2>3. CASE merged' = merged
    BY <2>3, <1>4, ReviewParts, MergedKept
  <2> QED BY <1>4, <2>2, <2>3
<1> QED BY <1>4, <1>8, <1>9, ReviewParts, ReviewPartsNext, FilesGrow, EnteredKept

LEMMA EditMergedGood ==
  ASSUME IInv, EditMerged
  PROVE  IInv'
<1>1. /\ UNCHANGED <<allocation, file, command, entered>> /\ merged # Missing
      /\ edits' \in 0 .. Edits
  BY ReviewParts, AllocationAssumption DEF EditMerged
<1>2. IsMerge(merged)
  BY <1>1, ReviewParts DEF MergedGood
<1>3. PICK f \in Population(merged), j \in Judgements :
        \/ \E r \in DOMAIN merged.reviews[f] : merged' = [merged EXCEPT !.reviews[f][r] = j]
        \/ \E p \in People :
             merged' = [merged EXCEPT !.adjudicated[f] = [by |-> p, judgement |-> j]]
  BY DEF EditMerged
<1>4. PICK m, n : m = merged /\ n = merged'
  OBVIOUS
<1>5. IsMerge(m)
  BY <1>2, <1>4
<1>6. IsMerge(n)
  <2>1. ASSUME NEW r \in DOMAIN m.reviews[f], n = [m EXCEPT !.reviews[f][r] = j]
        PROVE  IsMerge(n)
    <3> DEFINE w == [m.reviews EXCEPT ![f][r] = j]
    <3>1. n = [allocation |-> m.allocation, initial |-> m.initial,
               reviews |-> w, adjudicated |-> m.adjudicated]
      BY <1>5, <2>1 DEF IsMerge
    <3>2. w = [g \in Population(m) |-> w[g]]
      BY <1>5 DEF IsMerge
    <3>3. ASSUME NEW g \in Population(m) PROVE w[g] \in [Reviewed(g, allocation) -> Judgements]
      <4>1. m.reviews[g] \in [Reviewed(g, allocation) -> Judgements]
        BY <1>5 DEF IsMerge
      <4>2. w[g] = IF g = f THEN [m.reviews[f] EXCEPT ![r] = j] ELSE m.reviews[g]
        BY <1>5 DEF IsMerge
      <4> HIDE DEF w
      <4> QED BY <4>1, <4>2, <2>1
    <3> HIDE DEF w
    <3> QED BY <1>5, <3>1, <3>2, <3>3 DEF IsMerge, Population
  <2>2. ASSUME NEW p \in People, n = [m EXCEPT !.adjudicated[f] = [by |-> p, judgement |-> j]]
        PROVE  IsMerge(n)
    BY <1>5, <2>2, AdjudicatedMade
  <2> QED BY <1>3, <1>4, <2>1, <2>2
<1>7. MergedGood'
  BY <1>1, <1>4, <1>6 DEF MergedGood, IsMerge
<1>8. CommandsGood'
  BY <1>1, ReviewParts, ReadsGrow DEF CommandsGood
<1> QED BY <1>1, <1>7, <1>8, ReviewParts, ReviewPartsNext, FilesGrow, EnteredKept

LEMMA RemoveMergedGood ==
  ASSUME IInv, RemoveMerged
  PROVE  IInv'
<1>1. /\ UNCHANGED <<allocation, file, command, entered>> /\ merged' = Missing
      /\ edits' \in 0 .. Edits
  BY ReviewParts, AllocationAssumption DEF RemoveMerged
<1>2. CommandsGood'
  BY <1>1, ReviewParts, ReadsGrow DEF CommandsGood
<1>3. MergedGood'
  BY <1>1 DEF MergedGood
<1> QED BY <1>1, <1>2, <1>3, ReviewParts, ReviewPartsNext, FilesGrow, EnteredKept

LEMMA NextInvariant == IInv /\ [Next]_vars => IInv'
<1> SUFFICES ASSUME IInv, [Next]_vars PROVE IInv'
  OBVIOUS
<1>1. CASE Reallocate \/ EditMerged \/ RemoveMerged
  BY <1>1, ReallocateGood, EditMergedGood, RemoveMergedGood
<1>2. ASSUME NEW r \in Roles, NEW p \in People, Start(r, p) PROVE IInv'
  BY <1>2, StartGood
<1>3. ASSUME NEW t \in Terminals,
             Declare(t) \/ Stop(t) \/ Gather(t) \/ Hash(t) \/ SaveMerge(t) \/ Report(t)
      PROVE  IInv'
  BY <1>3, DeclareGood, StopGood, GatherGood, HashGood, SaveMergeGood, ReportGood
<1>4. ASSUME NEW t \in Terminals, NEW r \in Roles, Open(t, r) PROVE IInv'
  BY <1>4, OpenGood
<1>5. ASSUME NEW t \in Terminals, NEW p \in People, OpenMerged(t, p) PROVE IInv'
  BY <1>5, OpenMergedGood
<1>6. ASSUME NEW t \in Terminals, NEW f \in Findings, NEW j \in Judgements,
             Decide(t, f, j) \/ Adjudicate(t, f, j)
      PROVE  IInv'
  BY <1>6, DecideGood, AdjudicateGood
<1>7. CASE UNCHANGED vars
  <2>1. /\ UNCHANGED <<allocation, file, merged, command, entered, edits>>
    BY <1>7 DEF vars
  <2>2. CommandsGood'
    BY <2>1, ReviewParts, ReadsGrow DEF CommandsGood
  <2> QED BY <2>1, <2>2, ReviewParts, ReviewPartsNext, FilesGrow, MergedKept, EnteredKept
<1> QED BY <1>1, <1>2, <1>3, <1>4, <1>5, <1>6, <1>7 DEF Next

(* A report's merged file is what its sources say, and they say what was     *)
(* entered.                                                                  *)
LEMMA ReportRests ==
  ASSUME IInv, NEW t \in Terminals, MayReport(t)
  PROVE  /\ merged.allocation = allocation /\ allocation \in Versions
         /\ merged.initial["primary"].by # merged.initial["secondary"].by
         /\ \A f \in Population(merged), r \in Roles : f \in Assigned(r, allocation) =>
              /\ r \in DOMAIN merged.reviews[f]
              /\ merged.reviews[f][r] \in Judgements
              /\ Entered(merged, r, f, merged.reviews[f][r])
         /\ \A f \in Population(merged) : DOMAIN merged.reviews[f] = Reviewed(f, allocation)
<1>1. PICK s, d : s = command[t].sources /\ d = command[t].digests
  OBVIOUS
<1>2. /\ s \in Both /\ d \in Both /\ command[t].allocation = allocation
      /\ \A r \in Roles : IsEntered(s[r])
  BY <1>1, ReviewParts, AtDesk DEF MayReport
<1>3. /\ merged.allocation = allocation /\ allocation \in Versions
      /\ MayMerge(s, d, allocation)
      /\ merged = [Merge(s, d, allocation) EXCEPT !.adjudicated = merged.adjudicated]
  BY <1>1, <1>2, ReviewParts DEF MayReport, ValidMerge, Bound
<1>4. /\ merged.initial = Merge(s, d, allocation).initial
      /\ merged.reviews = Merge(s, d, allocation).reviews
  BY <1>3 DEF Merge
<1>5. merged.initial["primary"].by # merged.initial["secondary"].by
  BY <1>3, <1>4 DEF Merge, MayMerge, Roles
<1>6. ASSUME NEW f \in Population(merged)
      PROVE  merged.reviews[f] = [r \in Reviewed(f, allocation) |-> s[r].decided[f]]
  BY <1>3, <1>4 DEF Merge, Reviewed, Population
<1>7. ASSUME NEW f \in Population(merged), NEW r \in Roles, f \in Assigned(r, allocation)
      PROVE  /\ r \in DOMAIN merged.reviews[f]
             /\ merged.reviews[f][r] \in Judgements
             /\ Entered(merged, r, f, merged.reviews[f][r])
  <2>1. r \in Reviewed(f, allocation)
    BY <1>7 DEF Reviewed
  <2>2. r \in DOMAIN merged.reviews[f] /\ merged.reviews[f][r] = s[r].decided[f]
    BY <2>1, <1>6
  <2>3. Complete(s[r], allocation)
    BY <1>3 DEF MayMerge
  <2>4. s[r].decided[f] \in Judgements /\ f \in Decided(s[r]) /\ s[r].allocation = allocation
    BY <1>2, <1>3, <1>7, <2>3, CompleteDecided
  <2>5. s[r].role = r
    BY <1>2, BothRead
  <2>6. Entry(r, allocation, f, s[r].decided[f]) \in entered
    BY <1>2, <2>4, <2>5 DEF IsEntered
  <2> QED BY <1>3, <2>2, <2>4, <2>6 DEF Entered
<1>8. \A f \in Population(merged) : DOMAIN merged.reviews[f] = Reviewed(f, allocation)
  BY <1>6
<1> QED BY <1>3, <1>5, <1>7, <1>8

LEMMA LabelsRest == IInv => LabelsAreTheReviewers
<1> SUFFICES ASSUME IInv, NEW m \in Reports
             PROVE  /\ m.initial["primary"].by # m.initial["secondary"].by
                    /\ \A f \in Population(m) :
                         IF m.adjudicated[f] = Missing
                         THEN \A r \in Roles :
                                f \in Assigned(r, m.allocation) => Entered(m, r, f, Resolved(m, f))
                         ELSE /\ m.adjudicated[f].by \notin Reviewers(m)
                              /\ \E a, b \in Judgements :
                                /\ a # b
                                /\ Entered(m, "primary", f, a) /\ Entered(m, "secondary", f, b)
  BY DEF LabelsAreTheReviewers
<1>1. PICK t \in Terminals : MayReport(t)
  BY DEF Reports
<1>2. m = merged
  BY DEF Reports
<1>3. /\ m.allocation = allocation
      /\ m.initial["primary"].by # m.initial["secondary"].by
      /\ \A f \in Population(m), r \in Roles : f \in Assigned(r, allocation) =>
           r \in DOMAIN m.reviews[f] /\ m.reviews[f][r] \in Judgements
             /\ Entered(m, r, f, m.reviews[f][r])
      /\ \A f \in Population(m) : DOMAIN m.reviews[f] = Reviewed(f, allocation)
  BY <1>1, <1>2, ReportRests
<1>4. ASSUME NEW f \in Population(m), m.adjudicated[f] = Missing,
             NEW r \in Roles, f \in Assigned(r, allocation)
      PROVE  Entered(m, r, f, Resolved(m, f))
  <2>1. ~ Differ(m, f)
    BY <1>1, <1>2, <1>4 DEF MayReport, Pending
  <2>2. /\ r \in DOMAIN m.reviews[f] /\ m.reviews[f][r] \in Judgements
        /\ Entered(m, r, f, m.reviews[f][r])
    BY <1>3, <1>4
  <2>3. \A q \in DOMAIN m.reviews[f] : m.reviews[f][q] = m.reviews[f][r]
    BY <2>1, <2>2 DEF Differ
  <2>4. Resolved(m, f) = m.reviews[f][r]
    BY <1>4, <2>2, <2>3 DEF Resolved
  <2> QED BY <2>2, <2>4
<1>5. ASSUME NEW f \in Population(m), m.adjudicated[f] # Missing
      PROVE  /\ m.adjudicated[f].by \notin Reviewers(m)
             /\ \E a, b \in Judgements :
                  a # b /\ Entered(m, "primary", f, a) /\ Entered(m, "secondary", f, b)
  <2>1. Differ(m, f) /\ m.adjudicated[f].by \notin Reviewers(m)
    BY <1>1, <1>2, <1>5 DEF MayReport, ValidMerge, Adjudicable
  <2>2. PICK r \in DOMAIN m.reviews[f], q \in DOMAIN m.reviews[f] :
          m.reviews[f][r] # m.reviews[f][q]
    BY <2>1 DEF Differ
  <2>3. /\ r \in Roles /\ f \in Assigned(r, allocation)
        /\ q \in Roles /\ f \in Assigned(q, allocation) /\ r # q
    BY <1>3, <2>2 DEF Reviewed
  <2>4. /\ f \in Assigned("primary", allocation) /\ f \in Assigned("secondary", allocation)
        /\ m.reviews[f]["primary"] # m.reviews[f]["secondary"]
    BY <2>2, <2>3 DEF Roles
  <2> QED BY <1>3, <2>1, <2>4 DEF Roles
<1> QED BY <1>3, <1>4, <1>5

(* More agreement is still enough.                                           *)
LEMMA EnoughGrows ==
  ASSUME NEW C, NEW A, NEW B, IsFiniteSet(C), A \subseteq B, B \subseteq C, Enough(A, C)
  PROVE  Enough(B, C)
<1>1. IsFiniteSet(A) /\ IsFiniteSet(B) /\ Cardinality(A) =< Cardinality(B)
  <2>1. IsFiniteSet(B)
    BY FS_Subset
  <2> QED BY <2>1, FS_Subset
<1>2. PICK a, b, c : a = Cardinality(A) /\ b = Cardinality(B) /\ c = Cardinality(C)
  OBVIOUS
<1>3. a \in Nat /\ b \in Nat /\ c \in Nat /\ a =< b
  BY <1>1, <1>2, FS_CardinalityType
<1>4. Agreeing \in Nat /\ Compared \in Nat
  BY AllocationAssumption
<1>5. Compared * b = Compared * a + Compared * (b - a) /\ b - a \in Nat
  BY <1>3, <1>4
<1>6. Compared * (b - a) \in Nat
  BY <1>4, <1>5
<1>7. Compared * a >= Agreeing * c
  BY <1>2 DEF Enough
<1>8. Compared * a \in Nat /\ Agreeing * c \in Nat
  BY <1>3, <1>4
<1>9. Compared * b >= Agreeing * c
  BY <1>5, <1>6, <1>7, <1>8
<1> QED BY <1>2, <1>9 DEF Enough

LEMMA CalibrationRests == IInv => ReportsAreCalibrated
<1> SUFFICES ASSUME IInv, NEW m \in Reports, NEW field \in Gated
             PROVE  LET calibration == Frozen[m.allocation].calibration
                        agreed == {f \in calibration :
                                     \E a, b \in Judgements :
                                       /\ Gate(field, a) = Gate(field, b)
                                       /\ Entered(m, "primary", f, a)
                                       /\ Entered(m, "secondary", f, b)}
                    IN Enough(agreed, calibration)
  BY DEF ReportsAreCalibrated
<1> DEFINE C == Frozen[m.allocation].calibration
           A == AgreedIn(m, field)
           B == {f \in C : \E a, b \in Judgements :
                             /\ Gate(field, a) = Gate(field, b)
                             /\ Entered(m, "primary", f, a) /\ Entered(m, "secondary", f, b)}
<1>1. PICK t \in Terminals : MayReport(t)
  BY DEF Reports
<1>2. m = merged
  BY DEF Reports
<1>3. /\ m.allocation = allocation /\ allocation \in Versions
      /\ \A f \in Population(m), r \in Roles : f \in Assigned(r, allocation) =>
           r \in DOMAIN m.reviews[f] /\ m.reviews[f][r] \in Judgements
             /\ Entered(m, r, f, m.reviews[f][r])
  BY <1>1, <1>2, ReportRests
<1>4. Enough(A, C)
  BY <1>1, <1>2 DEF MayReport, CalibrationAgrees
<1>5. /\ C \subseteq Frozen[allocation].second
      /\ Frozen[allocation].second \subseteq Population(m)
      /\ IsFiniteSet(Frozen[allocation].second)
  BY <1>3, AllocationAssumption DEF Population
<1>6. A \subseteq B
  <2> SUFFICES ASSUME NEW f \in A PROVE f \in B
    OBVIOUS
  <2>1. f \in C /\ f \in Population(m)
    BY <1>5 DEF AgreedIn
  <2>2. f \in Assigned("primary", allocation) /\ f \in Assigned("secondary", allocation)
    BY <1>3, <1>5, <2>1 DEF Assigned, Population
  <2>3. \A r \in Roles : r \in DOMAIN m.reviews[f] /\ m.reviews[f][r] \in Judgements
          /\ Entered(m, r, f, m.reviews[f][r])
    BY <1>3, <2>1, <2>2 DEF Roles
  <2>4. Gate(field, m.reviews[f]["primary"]) = Gate(field, m.reviews[f]["secondary"])
    BY <2>3 DEF Roles, AgreedIn
  <2> QED BY <2>1, <2>3, <2>4 DEF Roles
<1>7. IsFiniteSet(C) /\ B \subseteq C
  BY <1>5, FS_Subset
<1> HIDE DEF A, B, C
<1>8. Enough(B, C)
  BY <1>4, <1>6, <1>7, EnoughGrows
<1> QED BY <1>8 DEF B, C

(* What is on paper and on screen was entered for the allocation in force.   *)
THEOREM InvariantHolds == Spec => []IInv
BY InitInvariant, NextInvariant, PTL DEF Spec

(* The state keeps its shape.                                                *)
THEOREM TypeCorrect == Spec => []TypeOK
<1>1. IInv => TypeOK
  BY DEF IInv
<1> QED BY <1>1, InvariantHolds, PTL

(* Reported labels are the reviewers' or a third person's.                   *)
THEOREM LabelsHold == Spec => []LabelsAreTheReviewers
BY InvariantHolds, LabelsRest, PTL

(* A report is printed only after a calibration passed in every gated field,  *)
(* whatever share of agreement it asks for.                                  *)
THEOREM CalibrationHolds == Spec => []ReportsAreCalibrated
BY InvariantHolds, CalibrationRests, PTL

=============================================================================
