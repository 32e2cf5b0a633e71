--------------------------- MODULE MCConsentPlane ---------------------------
(* One workspace, with a voiceprint enrolled under alice's identity and one *)
(* minted anonymous; alice and bob as the people they may belong to.  A     *)
(* voiceprint is handled independently of every other one (CacheCoherent of *)
(* the store), so races on one are all the races: each mix starts with one. *)
EXTENDS ConsentPlane

CONSTANTS ws, known, minted, alice, bob, loop, w1, w2

MCHome == [vid \in {known, minted} |-> ws]
MCIdentity == [vid \in {known, minted} |-> IF vid = known THEN alice ELSE NoEmail]
MCName == {NoName, alice, bob}
MCActor == {alice, bob, Service}
MCNameOf == [email \in {alice, bob} |-> email]
MCCaller == {loop, w1, w2}

Mix(vid, endpoints, most, restarts) ==
    [stored |-> {vid}, kinds |-> endpoints, requests |-> most, crashes |-> restarts]

Erasure == Mix(known, {"enroll", "forget", "export", "import", "rename"}, 3, 1)
OptOut == Mix(known, {"flags", "forget", "import", "identify"}, 3, 0)
Overtaking == Mix(known, {"enroll", "flags", "identify"}, 3, 0)
Handshake == Mix(minted, {"propose", "confirm", "deny", "knowledge", "recognize"}, 3, 1)
Tagged == Mix(known, {"propose", "confirm", "forget"}, 3, 0)
Subject == Mix(known, {"propose", "confirm", "flags", "forget"}, 2, 0)

AllTraffic == {Erasure, OptOut, Overtaking, Handshake, Tagged, Subject}
RevivalTraffic == {Mix(known, {"enroll", "forget"}, 2, 0)}
=============================================================================
