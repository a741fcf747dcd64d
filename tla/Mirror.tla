--------------------------------- MODULE Mirror ---------------------------------
(***************************************************************************)
(* What the journal promises of the target filesystem: its namespace is one *)
(* that the users' namespace was, it passes through every one of them in    *)
(* order, and the data of a file is stale there until it is brought.        *)
(***************************************************************************)
EXTENDS Sequences, SequencesExt

CONSTANTS Namespaces, Files

VARIABLES
  past,   (* the namespaces from the target's, first, to the users', last *)
  stale   (* files with data the target does not have                     *)

vars == <<past, stale>>

Init == past \in [{1} -> Namespaces] /\ stale = {}

(* A user changes the namespace. *)
Change ==
  /\ Len(past') = Len(past) + 1
  /\ Front(past') = past /\ Last(past') \in Namespaces
  /\ UNCHANGED stale

Write == \E f \in Files : stale' = stale \cup {f} /\ UNCHANGED past

(* The target goes on to the next namespace, or gets the data of a file; the
   data of a file that is removed need not be brought. *)
Advance == UNCHANGED stale /\ Len(past) > 1 /\ past' = Tail(past)
Bring == \E f \in stale : stale' = stale \ {f} /\ UNCHANGED past

Next == Change \/ Advance \/ Write \/ Bring
Spec == Init /\ [][Next]_vars

================================================================================
