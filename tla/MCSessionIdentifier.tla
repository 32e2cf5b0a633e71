------------------------ MODULE MCSessionIdentifier ------------------------
(* One session, live or offline, with two local speakers, on a workspace of  *)
(* two ids, each stored or still to be minted, while another request makes   *)
(* one change to the store.  Ids are alike, and so are local speakers.  Of   *)
(* the rejections only "unknown" is explored: to votes, exemplars and locks  *)
(* "low" is the same and "ambiguous" is an "unknown" short of the gate.      *)
EXTENDS SessionIdentifier, TLC

CONSTANTS meeting, a, b, v1, v2, alice, none

Named == {none, [name |-> alice, on |-> TRUE]}

Alike == Permutations({a, b}) \cup Permutations({v1, v2})
=============================================================================
