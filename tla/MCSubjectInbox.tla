--------------------------- MODULE MCSubjectInbox ---------------------------
EXTENDS SubjectInbox, TLC

CONSTANTS p1, p2, v1, v2

\* One voiceprint enrolled under an address that is not in lower case, one minted.
MCRoster == (v1 :> [who |-> p1, form |-> "mixed"]) @@ (v2 :> NoOwner)
=============================================================================
