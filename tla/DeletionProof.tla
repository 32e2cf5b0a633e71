--------------------------- MODULE DeletionProof ---------------------------
(* What "forget me" promises about receipts, without the machinery: every   *)
(* deletion gets an id of its own and becomes due a receipt; a receipt is   *)
(* issued for a deletion that is due one, at most once; only a restart of   *)
(* the service forgets what was due.  Under FairSpec what is due is issued, *)
(* unless a restart comes first.                                            *)
EXTENDS Naturals, Sequences

VARIABLES
    deleted,    \* ids of the deletions made
    due,        \* those whose receipt has still to be issued
    issued,     \* the ids receipts were issued for, in order
    restarts    \* how often the service was restarted

vars == <<deleted, due, issued, restarts>>

Init == deleted = {} /\ due = {} /\ issued = <<>> /\ restarts = 0

Delete(id) ==
    /\ id \notin deleted
    /\ deleted' = deleted \cup {id}
    /\ due' = due \cup {id}
    /\ UNCHANGED <<issued, restarts>>

Issue(id) ==
    /\ id \in due
    /\ due' = due \ {id}
    /\ issued' = Append(issued, id)
    /\ UNCHANGED <<deleted, restarts>>

Restart ==
    /\ due' = {} /\ restarts' = restarts + 1
    /\ UNCHANGED <<deleted, issued>>

Next ==
    \/ \E id \in deleted' : Delete(id)
    \/ \E id \in due : Issue(id)
    \/ Restart

Spec == Init /\ [][Next]_vars

FairSpec == Spec /\ WF_vars(\E id \in due : Issue(id))
=============================================================================
