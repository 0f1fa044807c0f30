----------------------------- MODULE Reproduce ------------------------------
(***************************************************************************)
(* adduce reproduce: one command run twice, each time in its own copy of   *)
(* the repository, and the evidence of the two runs compared               *)
(* (dynamic/reproduce.py, on POSIX).                                       *)
(*                                                                         *)
(* A run's processes are the shell and one descendant, which may ignore    *)
(* SIGTERM ("deaf"), leave the session ("escaped") or write elsewhere than *)
(* to the pipe ("redirected").  stdout stands for both streams: one pipe,  *)
(* one reader thread and one descriptor number, which the second run's     *)
(* pipe is given once the first run's has been closed.                     *)
(***************************************************************************)
EXTENDS Naturals, Sequences, FiniteSets

CONSTANTS
  Values, First,  \* what a metric or an output can be, and what run 1's are
  MaxReports,     \* how many metric lines one run prints
  Nothing,        \* no metric, no output
  Old             \* the output the repository already holds

ASSUME ReproduceAssumption ==
  /\ MaxReports \in Nat /\ First \in Values /\ Nothing \notin Values /\ Old \notin Values /\ Nothing # Old

Runs == {1, 2}
Members == {"shell", "child"}
Characters == SUBSET {"deaf", "redirected"} \cup {{"escaped"}}
Kinds == {"metric", "output"}

VARIABLES
  pc, run,      \* of the main thread: its step, and the run it is in
  ending,       \* run -> how its _run_command is going to end
  interrupted,  \* where the user interrupted it
  expect,       \* the evidence that was declared
  proc,         \* run -> member -> its life
  traits,       \* run -> member -> how it behaves while it lives
  code,         \* run -> the shell's return code, 1 also when it was killed
  strayed,      \* runs of which a process left the session and kept the pipe
  printed,      \* run -> the metrics its processes wrote to the pipe
  pipe,         \* run -> what is in the pipe
  file, made,   \* run -> the output in its copy, and those it wrote itself
  number,       \* whose pipe the descriptor number stands for, 0 for none
  reader, from, \* run -> its reader thread, and the pipe it reads
  forced,       \* runs whose number was closed under the stream object
  captured,     \* run -> what its reader read
  result, agree \* run -> fingerprint; the report's verdict

procVars == <<proc, traits, code, strayed>>
dataVars == <<printed, pipe, file, made>>
pipeVars == <<number, reader, from, forced, captured>>
mainVars == <<pc, run, ending, interrupted, expect, result, agree>>
vars == <<mainVars, procVars, dataVars, pipeVars>>

NoResult == [exit |-> 1, metric |-> Nothing, output |-> Nothing]

Init ==
  /\ pc = "spawn" /\ run = 1 /\ ending = [r \in Runs |-> "return"] /\ interrupted = "never"
  /\ expect = {}
  /\ proc = [r \in Runs |-> [m \in Members |-> "none"]]
  /\ traits = [r \in Runs |-> [m \in Members |-> {}]]
  /\ code = [r \in Runs |-> 0] /\ strayed = {}
  /\ printed = [r \in Runs |-> <<>>] /\ pipe = [r \in Runs |-> <<>>]
  /\ file = [r \in Runs |-> Old] /\ made = [r \in Runs |-> {}]
  /\ number = 0
  /\ reader = [r \in Runs |-> "none"] /\ from = [r \in Runs |-> 0]
  /\ forced = {}
  /\ captured = [r \in Runs |-> <<>>]
  /\ result = [r \in Runs |-> NoResult] /\ agree = FALSE

Goto(step) == pc' = step

----------------------------------------------------------------------------
(* The processes.                                                            *)
Alive(r) == {m \in Members : proc[r][m] = "alive"}
Group(r) == {m \in Alive(r) : "escaped" \notin traits[r][m]}
Writers(r) == {m \in Alive(r) : "redirected" \notin traits[r][m]}
Readable(r) == number = r \/ \E q \in Runs : reader[q] = "reading" /\ from[q] = r

StartChild(r) ==
  /\ proc[r]["shell"] = "alive" /\ proc[r]["child"] = "none"
  /\ proc' = [proc EXCEPT ![r]["child"] = "alive"]
  /\ \E t \in Characters :
       /\ traits' = [traits EXCEPT ![r]["child"] = t]
       /\ strayed' = IF "escaped" \in t THEN strayed \cup {r} ELSE strayed
  /\ UNCHANGED <<mainVars, code, dataVars, pipeVars>>

(* Only whether the runs' values are equal matters; outputs are written or   *)
(* missing.                                                                  *)
Written(r) == IF r = 1 THEN {First} ELSE Values

Emit(r) ==
  /\ Writers(r) # {} /\ Readable(r) /\ Len(printed[r]) < MaxReports
  /\ \E v \in Written(r) :
       /\ printed' = [printed EXCEPT ![r] = Append(@, v)]
       /\ pipe' = [pipe EXCEPT ![r] = Append(@, v)]
  /\ UNCHANGED <<mainVars, procVars, file, made, pipeVars>>

Produce(r) ==
  /\ Alive(r) # {} /\ r = run
  /\ made[r] = {}
  /\ file' = [file EXCEPT ![r] = First]
  /\ made' = [made EXCEPT ![r] = {First}]
  /\ UNCHANGED <<mainVars, procVars, printed, pipe, pipeVars>>

Exit(r) ==
  /\ \E m \in Alive(r) :
       /\ proc' = [proc EXCEPT ![r][m] = "dead"]
       /\ traits' = [traits EXCEPT ![r][m] = {}]
       /\ IF m = "shell" THEN \E c \in {0, 1} : code' = [code EXCEPT ![r] = c]
                         ELSE UNCHANGED code
  /\ UNCHANGED <<mainVars, strayed, dataVars, pipeVars>>

(* _signal_process_group: those of the group that heed the signal die.       *)
Signalled(r, hit) ==
  /\ proc' = [proc EXCEPT ![r] = [m \in Members |-> IF m \in hit THEN "dead" ELSE @[m]]]
  /\ traits' = [traits EXCEPT ![r] = [m \in Members |-> IF m \in hit THEN {} ELSE @[m]]]
  /\ code' = IF "shell" \in hit THEN [code EXCEPT ![r] = 1] ELSE code
  /\ UNCHANGED strayed
Terminated(r) == Signalled(r, {m \in Group(r) : "deaf" \notin traits[r][m]})

\* Mutant of Killed: SIGTERM is sent a second time.
SignalledAgain(r) == Terminated(r)

Killed(r) == Signalled(r, Group(r))

----------------------------------------------------------------------------
(* The reader thread: _BoundedCapture.consume.                               *)
Ended(r) == reader[r] = "ended"
Stuck(r) == reader[r] = "reading" /\ pipe[from[r]] = <<>> /\ Writers(from[r]) # {}

(* A stream object whose number was closed under it closes that number again *)
(* when its reader lets go of it, whatever the number stands for by then.    *)
ReaderEnds(r) ==
  /\ reader' = [reader EXCEPT ![r] = "ended"] /\ from' = [from EXCEPT ![r] = 0]
  /\ number' = IF r \in forced THEN 0 ELSE number

(* One read returns and the next begins, on what the number now stands for.  *)
Read(r) ==
  /\ reader[r] = "reading" /\ ~ Stuck(r)
  /\ IF pipe[from[r]] = <<>>
     THEN ReaderEnds(r) /\ UNCHANGED <<captured, pipe>>
     ELSE /\ captured' = [captured EXCEPT ![r] = Append(@, Head(pipe[from[r]]))]
          /\ pipe' = [pipe EXCEPT ![from[r]] = Tail(@)]
          /\ IF number = 0
             THEN ReaderEnds(r)
             ELSE from' = [from EXCEPT ![r] = number] /\ UNCHANGED <<reader, number>>
  /\ UNCHANGED <<mainVars, procVars, printed, file, made, forced>>

----------------------------------------------------------------------------
(* The main thread: reproduce, _run_once and _run_command.                   *)
Cleared(held) == Nothing
Spawn ==
  /\ pc = "spawn" /\ Goto("wait")
  /\ file' = [file EXCEPT ![run] = Cleared(@)]
  /\ proc' = [proc EXCEPT ![run]["shell"] = "alive"]
  /\ number' = run
  /\ reader' = [reader EXCEPT ![run] = "reading"] /\ from' = [from EXCEPT ![run] = run]
  /\ UNCHANGED <<run, ending, interrupted, expect, result, agree, traits, code, strayed,
                 printed, pipe, made, forced, captured>>

(* A step that moves the main thread and may signal the group.               *)
Steps(from_, to, ends, signals) ==
  /\ pc = from_ /\ Goto(to)
  /\ ending' = [ending EXCEPT ![run] = ends]
  /\ signals
  /\ UNCHANGED <<run, expect, result, agree, dataVars, pipeVars>>

As == ending[run]
Quietly == UNCHANGED procVars
Exited == proc[run]["shell"] # "alive"

(* process.wait, and the sweep of what the shell left behind.                *)
ShellExits ==
  /\ Exited /\ UNCHANGED interrupted
  /\ \/ Group(run) = {} /\ Steps("wait", "join", As, Quietly)
     \/ Group(run) # {} /\ Steps("wait", "grace", As, Terminated(run))
GraceEnds == Steps("grace", "join", As, Killed(run)) /\ UNCHANGED interrupted

(* _terminate_timed_out_process.                                             *)
TimesOut == Steps("wait", "stop", "timeout", Terminated(run)) /\ UNCHANGED interrupted
StopEnds == Steps("stop", "join", As, Killed(run)) /\ UNCHANGED interrupted

\* Mutant of Late: the readers are joined without a timeout.
JoinsForever == FALSE

(* _join_readers.  A join gives up only while something can still write.     *)
Late == ~ Ended(run) /\ Writers(run) # {}

JoinLate == Late /\ Steps("join", "join again", As, Terminated(run)) /\ UNCHANGED interrupted
JoinLater ==
  /\ Late /\ Steps("join again", "join last", As, Killed(run)) /\ UNCHANGED interrupted

Joining == pc \in {"join", "join again", "join last"}

\* Mutant of Joined: the readers are not waited for.
AtOnce == Joining

Joined == Joining /\ Ended(run)

Leave == IF As = "raise" THEN "interrupted" ELSE "inspect"

(* A number that is closed already cannot be closed by its stream object.    *)
Close ==
  /\ Joined
  /\ Goto(IF number = run THEN Leave ELSE "error")
  /\ number' = 0
  /\ UNCHANGED <<run, ending, interrupted, expect, result, agree, procVars, dataVars,
                 reader, from, forced, captured>>
CloseUnder ==
  /\ pc = "join last" /\ Late /\ Goto("release")
  /\ number' = 0 /\ forced' = forced \cup {run}
  /\ UNCHANGED <<run, ending, interrupted, expect, result, agree, procVars, dataVars,
                 reader, from, captured>>
Return ==
  /\ Ended(run) \/ Late
  /\ Steps("release", Leave, As, Quietly) /\ UNCHANGED interrupted

(* KeyboardInterrupt, at most once, wherever the main thread waits.          *)
Interrupt ==
  /\ interrupted = "never"
  /\ \/ /\ ~ Exited /\ interrupted' = "waiting"
        /\ Steps("wait", "stop", "raise", Terminated(run))
     \/ /\ interrupted' = "late"
        /\ \/ Exited /\ Steps("wait", "join", "raise", Quietly)
           \/ Steps("grace", "join", "raise", Quietly)
           \/ Steps("stop", "join", "raise", Quietly)
           \/ /\ pc \in {"join", "join again", "join last", "release"}
              /\ Steps(pc, "interrupted", "raise", Quietly)

----------------------------------------------------------------------------
(* The fingerprint of a run and the comparison.                              *)
LastOf(seq) == IF seq = <<>> THEN Nothing ELSE seq[Len(seq)]

\* Mutant of ExitCode: a command that ran out of time keeps its code.
ReturnCode(r) == code[r]

ExitCode(r) == IF ending[r] = "timeout" THEN 1 ELSE code[r]

(* Of the processes only those that hold the pipe matter from here on.       *)
Inspect ==
  /\ pc = "inspect"
  /\ result' = [result EXCEPT ![run] =
       [exit |-> ExitCode(run), metric |-> LastOf(captured[run]), output |-> file[run]]]
  /\ captured' = [captured EXCEPT ![run] = <<>>]
  /\ proc' = [proc EXCEPT ![run] = [m \in Members |-> IF m \in Writers(run) THEN @[m] ELSE "none"]]
  /\ traits' = [traits EXCEPT ![run] = [m \in Members |-> IF m \in Writers(run) THEN @[m] ELSE {}]]
  /\ IF run = 1 THEN run' = 2 /\ Goto("spawn") ELSE Goto("compare") /\ UNCHANGED run
  /\ UNCHANGED <<ending, interrupted, expect, agree, code, strayed, dataVars,
                 number, reader, from, forced>>

Comparable(kind) ==
  /\ result[1][kind] = result[2][kind]
  /\ result[1][kind] # Nothing
EvidenceAgrees == expect' # {} /\ \A kind \in expect' : Comparable(kind)

(* The evidence was declared before the first run and matters only here.     *)
Compare ==
  /\ pc = "compare" /\ Goto("done")
  /\ expect' \in SUBSET Kinds
  /\ agree' = (result[1].exit = 0 /\ result[2].exit = 0 /\ EvidenceAgrees)
  /\ UNCHANGED <<run, ending, interrupted, result, procVars, dataVars, pipeVars>>

----------------------------------------------------------------------------
Ends == {"done", "interrupted", "error"}

Main ==
  \/ Spawn \/ ShellExits \/ GraceEnds \/ TimesOut \/ StopEnds \/ JoinLate \/ JoinLater
  \/ Close \/ CloseUnder \/ Return \/ Inspect \/ Compare
Reads(r) == pc \notin Ends /\ Read(r)
Command(r) == pc \notin Ends /\ (StartChild(r) \/ Emit(r) \/ Produce(r) \/ Exit(r))
Finished == pc \in Ends /\ UNCHANGED vars

Next ==
  \/ Main \/ Interrupt \/ Finished
  \/ \E r \in Runs : Reads(r) \/ Command(r)

(* The main thread and the readers run when they can, and every timed wait   *)
(* ends; a command need not.                                                 *)
Spec == Init /\ [][Next]_vars /\ WF_vars(Main) /\ \A r \in Runs : WF_vars(Reads(r))

----------------------------------------------------------------------------
(* Every thread is at one of its steps and every trace of a command is a     *)
(* metric or an output.                                                      *)
TypeOK ==
  /\ pc \in {"spawn", "wait", "grace", "stop", "join", "join again", "join last", "release",
             "inspect", "compare"} \cup Ends
  /\ run \in Runs /\ ending \in [Runs -> {"return", "timeout", "raise"}]
  /\ interrupted \in {"never", "waiting", "late"} /\ expect \subseteq Kinds
  /\ proc \in [Runs -> [Members -> {"none", "alive", "dead"}]]
  /\ traits \in [Runs -> [Members -> SUBSET UNION Characters]]
  /\ code \in [Runs -> {0, 1}] /\ strayed \subseteq Runs
  /\ printed \in [Runs -> Seq(Values)] /\ pipe \in [Runs -> Seq(Values)]
  /\ captured \in [Runs -> Seq(Values)]
  /\ file \in [Runs -> Values \cup {Nothing, Old}] /\ made \in [Runs -> SUBSET Values]
  /\ number \in {0} \cup Runs /\ forced \subseteq Runs
  /\ reader \in [Runs -> {"none", "reading", "ended"}]
  /\ from \in [Runs -> {0} \cup Runs] /\ \A r \in Runs : reader[r] = "reading" <=> from[r] # 0
  /\ result \in [Runs -> [exit : {0, 1}, metric : Values \cup {Nothing},
                          output : Values \cup {Nothing, Old}]]
  /\ agree \in BOOLEAN

Returned(r) == r < run \/ (r = run /\ pc \in {"inspect", "compare", "done"})

(* When a run's command has returned, whether it exited, failed or ran out   *)
(* of time, no process that stayed in its group is left to write to the      *)
(* outputs the fingerprint is made of; nor when the user interrupted a       *)
(* command that was still running.                                           *)
NothingOutlives ==
  /\ \A r \in Runs : Returned(r) => Group(r) = {}
  /\ pc = "interrupted" /\ interrupted = "waiting" => Group(run) = {}

(* While no process that left the session keeps a run's pipe, a run's        *)
(* fingerprint is taken from all that its command printed, killed or not,    *)
(* and closing its streams succeeds.                                         *)
CaptureIsWhole ==
  strayed \cap 1 .. run = {} =>
    /\ pc = "inspect" => captured[run] = printed[run]
    /\ pc # "error"

(* Agreement is earned: something was declared, both commands ended by       *)
(* themselves in time with exit code 0, and each kind of evidence has a      *)
(* value that both of them wrote in their own run.                           *)
Of(seq) == {seq[i] : i \in DOMAIN seq}
Wrote(r, kind) == IF kind = "output" THEN made[r] ELSE Of(printed[r])
AgreementIsEarned ==
  pc = "done" /\ agree =>
    /\ expect # {}
    /\ \A r \in Runs : code[r] = 0 /\ ending[r] = "return"
    /\ \A kind \in expect : Wrote(1, kind) \cap Wrote(2, kind) # {}

----------------------------------------------------------------------------
(* Why they hold: what is so wherever the main thread stands.                *)

\* A run that has not been spawned, and one whose fingerprint has been taken.
Fresh(r) == r > run \/ (r = run /\ pc = "spawn")
Inspected(r) == r < run \/ (r = run /\ pc \in {"compare", "done"})

\* No process that left the session keeps a pipe of the runs so far.
Clean == strayed \cap 1 .. run = {}

SinceJoin == {"join", "join again", "join last", "release", "inspect", "compare", "done", "interrupted"}
Capturing == {"wait", "grace", "stop", "join", "join again", "join last"}

(* From the join on nothing of the group is left, unless the interrupt came  *)
(* too late for the main thread to stop it.                                  *)
ProcessesEnd ==
  /\ \A r \in Runs : traits[r]["shell"] = {} /\ ("escaped" \in traits[r]["child"] => r \in strayed)
  /\ \A r \in Runs : Fresh(r) => \A m \in Members : proc[r][m] = "none"
  /\ \A r \in Runs : r < run => Group(r) = {}
  /\ pc \in {"join last", "release"} => Group(run) = {}
  /\ pc \in SinceJoin /\ interrupted # "late" => Group(run) = {}

(* A command ends by raising just when the user interrupted it.              *)
EndingsTell ==
  /\ interrupted # "never" <=> ending[run] = "raise"
  /\ \A r \in Runs : r < run => ending[r] # "raise"
  /\ \A r \in Runs : Fresh(r) => ending[r] = "return"
  /\ pc \in {"spawn", "wait", "inspect", "compare", "done"} => interrupted = "never"

(* The descriptor number stands for the pipe of the run the main thread is   *)
(* in, and stops doing so early only when it was closed under a reader that  *)
(* a process which left the session keeps busy.                              *)
DescriptorsFollow ==
  /\ number \in {0, run} /\ from[run] \in {0, run}
  /\ pc \in {"spawn", "release", "inspect", "compare"} => number = 0
  /\ \A r \in Runs : Fresh(r) <=> reader[r] = "none"
  /\ forced \subseteq strayed \cap 1 .. run
  /\ pc = "release" => run \in forced
  /\ \A r \in Runs : Returned(r) /\ ~ Ended(r) => r \in forced
  /\ pc \in Capturing /\ forced = {} => number = run

(* What is captured comes from the run's own pipe, and with what is still in *)
(* that pipe it is all that was printed.                                     *)
CapturesGrow ==
  /\ \A r \in Runs : Of(pipe[r]) \subseteq Of(printed[r])
  /\ Of(captured[run]) \subseteq Of(printed[run])
  /\ \A r \in Runs : Fresh(r) => captured[r] = <<>> /\ pipe[r] = <<>> /\ printed[r] = <<>>
  /\ Clean /\ ~ Inspected(run) => captured[run] \o pipe[run] = printed[run]
  /\ Clean /\ Ended(run) => pipe[run] = <<>> /\ Writers(run) = {}

(* An output that is there when its run has begun was written by that run.   *)
OutputsMade ==
  \A r \in Runs : IF Fresh(r) THEN made[r] = {} ELSE file[r] \in made[r] \cup {Nothing}

(* A fingerprint states an exit code, a metric and an output of its own run. *)
ResultsRest ==
  /\ pc \in {"compare", "done"} => run = 2
  /\ \A r \in Runs : Inspected(r) =>
       /\ result[r].exit = 0 => code[r] = 0 /\ ending[r] = "return"
       /\ \A kind \in Kinds : result[r][kind] \in Wrote(r, kind) \cup {Nothing}

IInv ==
  /\ TypeOK /\ ProcessesEnd /\ EndingsTell /\ DescriptorsFollow /\ CapturesGrow /\ OutputsMade
  /\ ResultsRest /\ (Clean => pc # "error") /\ AgreementIsEarned

(* However the commands behave, reproduce ends.                              *)
ReproduceEnds == <>(pc \in Ends)

(* What the comment on _BoundedCapture.consume says: closing the pipe        *)
(* releases the reader.                                                      *)
ReadersReleased == \A r \in Runs : Returned(r) => Ended(r)
=============================================================================
