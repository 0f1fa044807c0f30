----------------------------- MODULE AtomicFile -----------------------------
(***************************************************************************)
(* What the writers of src/adduce/safe_write.py promise about one path,    *)
(* whatever the operating system does between their system calls:          *)
(*                                                                         *)
(*   - an existing file is replaced in one step by a complete new text,    *)
(*     never emptied, truncated or half written;                           *)
(*   - a half-written file is seen only where there was none before;       *)
(*   - a call commits at most once, exactly when it reports success, and a *)
(*     call that raises SafeWriteError leaves the file as it was.          *)
(*                                                                         *)
(* Others may change the path at any time; their changes are counted, so   *)
(* that a change by a writer can never pass for one of theirs.             *)
(***************************************************************************)
EXTENDS Naturals, Sequences

CONSTANTS Writers, PayloadLength

VARIABLES file, status, edits

vars == <<file, status, edits>>

Absent     == [state |-> "absent"]
Foreign    == [state |-> "foreign"]
Partial(w) == [state |-> "partial", by |-> w]
Whole(t)   == [state |-> "whole", text |-> t]

Payload(w) == [i \in 1 .. PayloadLength |-> <<w, i>>]

(* t is somebody's text followed by, or replaced by, w's payload.            *)
Carries(t, w) ==
  /\ Len(t) >= PayloadLength
  /\ SubSeq(t, Len(t) - PayloadLength + 1, Len(t)) = Payload(w)

Init ==
  /\ file = Absent \/ (file.state = "whole" /\ \A w \in Writers : ~Carries(file.text, w))
  /\ status = [w \in Writers |-> "pending"]
  /\ edits = 0

Ends(w, from, to) ==
  /\ status[w] = from
  /\ status' = [status EXCEPT ![w] = to]
  /\ UNCHANGED edits

(* One rename: the complete text appears at once.                            *)
Commit(w) ==
  /\ Ends(w, "pending", "ok")
  /\ file'.state = "whole" /\ Carries(file'.text, w)

Refuse(w) == Ends(w, "pending", "refused") /\ UNCHANGED file

(* Exclusive creation fills the path in place, and only where there is none. *)
Begin(w) ==
  /\ Ends(w, "pending", "creating")
  /\ file = Absent /\ file' = Partial(w)

(* The path may have been taken over while it was being filled.              *)
Finish(w) ==
  /\ Ends(w, "creating", "ok")
  /\ file' = IF file = Partial(w) THEN Whole(Payload(w)) ELSE file

(* A failed creation removes the path, or leaves it if that fails as well.   *)
Abandon(w) ==
  /\ Ends(w, "creating", "refused")
  /\ file' \in {file, Absent}

Edit ==
  /\ edits' = edits + 1
  /\ UNCHANGED status
  /\ file'.state # "partial" \/ file' = file
  /\ file' # file /\ file'.state = "whole" => \A w \in Writers : ~Carries(file'.text, w)

Next == Edit \/ \E w \in Writers :
          Commit(w) \/ Refuse(w) \/ Begin(w) \/ Finish(w) \/ Abandon(w)

Spec == Init /\ [][Next]_vars
=============================================================================
