------------------------- MODULE MCVoiceprintStore -------------------------
(* A small store: two workspaces and a voiceprint of the first, so that     *)
(* every call can also be made under the wrong workspace, two calling       *)
(* threads, one subject, one clip.                                          *)
EXTENDS VoiceprintStore, TLC

CONSTANTS wsA, wsB, vpA, alice,
    MaxTrail        \* bound on the rows ever appended to the append-only tables

MCWorkspace == {wsA, wsB}
MCVid == {vpA}
MCHome == [vid \in MCVid |-> wsA]
MCEmail == {alice}
MCName == {NoName, alice}

Threads == Permutations(Caller)

\* The rows appended so far; a call that appends is made while there is room.
Logged == Len(audit) + Len(ledger) + Len(proposals) + Len(receipts) + Len(recognitions)
BoundedSpec ==
    StoreInit /\ [][StoreNext /\ (Logged < MaxTrail \/ Logged' = Logged)]_storeVars
=============================================================================
