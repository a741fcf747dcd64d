------------------------------ MODULE Descriptors ------------------------------
(***************************************************************************)
(* What sharing promises the users of a file: of each file at most one     *)
(* descriptor is open; a user is let in when it can do what the user asks  *)
(* for, or alone when it is opened for that; as long as there are users it *)
(* is neither closed nor replaced, by the garbage collector, by the end of *)
(* a transfer, or by an open that needs more or fails.                     *)
(***************************************************************************)
EXTENDS Naturals

CONSTANTS
  Users, Files,
  Numbers   (* the descriptor numbers *)

VARIABLES
  open,   (* the open descriptors: number, file, and 1 when it may write *)
  users   (* the users of each file, with what they asked for            *)

vars == <<open, users>>

Init == open = {} /\ users = [f \in Files |-> {}]

Of(f) == {d \in open : d.file = f}

Enter(u, f, w) == users' = [users EXCEPT ![f] = @ \cup {<<u, w>>}]

Share(u, f, w) ==
  /\ \E d \in Of(f) : w <= d.wr
  /\ Enter(u, f, w)
  /\ UNCHANGED open

Reopen(u, f, w) ==
  /\ users[f] = {}
  /\ \E n \in Numbers :
       /\ \A d \in open \ Of(f) : d.fd # n
       /\ open' = (open \ Of(f)) \cup {[fd |-> n, file |-> f, wr |-> w]}
  /\ Enter(u, f, w)

Leave(u, f, w) ==
  /\ <<u, w>> \in users[f]
  /\ users' = [users EXCEPT ![f] = @ \ {<<u, w>>}]
  /\ UNCHANGED open

(* Closing nothing is a step, too. *)
Close(S) ==
  /\ UNCHANGED users
  /\ \A f \in S : users[f] = {}
  /\ open' = {d \in open : d.file \notin S}

Next ==
  \/ \E S \in SUBSET Files : Close(S)
  \/ \E u \in Users, f \in Files, w \in {0, 1} : Share(u, f, w) \/ Reopen(u, f, w) \/ Leave(u, f, w)

Spec == Init /\ [][Next]_vars

================================================================================
