-------------------------- MODULE VoiceprintStore --------------------------
(***************************************************************************)
(* The voiceprint store (fpm/store/store.py): SQLite tables behind one     *)
(* threading.Lock, and the two in-memory caches that matching reads.       *)
(*                                                                         *)
(* Every write method holds the lock, commits, and then -- still holding   *)
(* the lock -- brings the caches up to date, the centroid first and the    *)
(* consent flags second.  Readers take no lock: they may look between the  *)
(* commit and either cache write.  A method that touches no cache is one   *)
(* step; upsert, delete and set_flags are a commit step followed by        *)
(* RefreshPrint and/or RefreshFlags by the lock's holder.                  *)
(*                                                                         *)
(* Abstractions.  A voiceprint row keeps the fields consent is about; its  *)
(* exemplars are the set of clips they were embedded from, and the         *)
(* centroid, always recomputed from the exemplars before an upsert, is     *)
(* represented by that set.  Encryption, timestamps, counters and the      *)
(* vocabulary table are left out.  A transaction that a crash cuts before  *)
(* its commit leaves nothing, so a method is never half-done on disk.      *)
(***************************************************************************)
EXTENDS Naturals, Sequences

CONSTANTS
    Caller,         \* threads of the process that call the store
    Workspace,
    Vid,            \* voiceprint ids
    Home,           \* the workspace an id belongs to
    Email,          \* data subjects
    Name,           \* display names, the empty one included
    Actor,          \* who the audit trail names: subjects and service callers
    Clip,           \* audio clips, the origin of an exemplar
    NoName,         \* the empty name: an anonymous voiceprint
    NoEmail,        \* the empty owner_email: an unclaimed voiceprint
    NoRow,          \* no row with this id
    NoEntry,        \* no cache entry
    Free            \* the lock is not held

Flags == [enroll : BOOLEAN, identify : BOOLEAN]
Row == [ws : Workspace, name : Name, owner : Email \cup {NoEmail},
        flags : Flags, exemplars : SUBSET Clip]

\* An id is derived from its workspace (enroll.py:25), minted at random
\* (store.py:155) or taken with its workspace from a signed export
\* (consent_api.py:343), so it belongs to one workspace.
ASSUME StoreAssumption ==
    /\ Home \in [Vid -> Workspace]
    /\ Email \subseteq Actor /\ NoEmail \notin Email
    /\ NoName \in Name
    /\ Free \notin Caller
    /\ NoRow \notin Row /\ NoEntry \notin Flags

VARIABLES
    rows,           \* table voiceprints, by primary key
    printCache,     \* _centroids: ws -> vid -> centroid
    flagCache,      \* _flags: ws -> vid -> (enroll, identify)
    lock,           \* the holder of _lock between a commit and the end of its method
    refresh,        \* the cache writes the holder has still to make
    proposals,      \* table proposals, in insertion order
    audit,          \* table binding_audit
    ledger,         \* table usage_ledger; the row id is the index
    receipts,       \* table deletion_receipts
    recognitions    \* table recognitions

tables == <<rows, proposals, audit, ledger, receipts, recognitions>>
caches == <<printCache, flagCache>>
storeVars == <<tables, caches, lock, refresh>>

Status == {"pending", "confirmed", "denied"}
LoggedEvent == {"enroll", "identify", "export", "import"}
Event == LoggedEvent \cup {"name_bind", "control", "forget"}
AuditEntry == [ws : Workspace, vid : Vid, old : Name, new : Name, actor : Actor]
LedgerEntry == [ws : Workspace, vid : Vid, event : Event, actor : Actor]
Recognition == [ws : Workspace, vid : Vid, owner : Email]
Receipt == [ws : Workspace, vid : Vid, actor : Actor, lid : Nat]
Proposal == [ws : Workspace, vid : Vid, email : Email, name : Name, status : Status]
Refresh == [ws : Workspace, vid : Vid, print : (SUBSET Clip) \cup {NoEntry},
            flags : Flags \cup {NoEntry}, stage : {"print", "flags"}]
Idle == [stage |-> "none"]

-----------------------------------------------------------------------------
(* Reads.  None of them takes the lock. *)

Stored(ws, vid) == rows[vid] # NoRow /\ rows[vid].ws = ws

get(ws, vid) == IF Stored(ws, vid) THEN rows[vid] ELSE NoRow

DefaultFlags == [enroll |-> TRUE, identify |-> TRUE]

flags(ws, vid) ==
    IF flagCache[ws][vid] = NoEntry THEN DefaultFlags ELSE flagCache[ws][vid]

identify_allowed(ws, vid) == flags(ws, vid).identify

\* What the caches should hold for an id: a projection of its row.
PrintOf(ws, vid) == IF Stored(ws, vid) THEN rows[vid].exemplars ELSE NoEntry
FlagsOf(ws, vid) == IF Stored(ws, vid) THEN rows[vid].flags ELSE NoEntry

-----------------------------------------------------------------------------
(* Write methods, called by thread c. *)

Cached == UNCHANGED <<caches, lock, refresh>>

Record(ws, vid, event, actor) ==
    [ws |-> ws, vid |-> vid, event |-> event, actor |-> actor]

upsert(c, ws, vid, vp) ==
    /\ lock = Free /\ lock' = c
    /\ rows' = [rows EXCEPT ![vid] =
                    [vp EXCEPT !.ws = IF rows[vid] = NoRow THEN ws ELSE rows[vid].ws]]
    /\ refresh' = [ws |-> ws, vid |-> vid, print |-> vp.exemplars,
                   flags |-> vp.flags, stage |-> "print"]
    /\ UNCHANGED <<proposals, audit, ledger, receipts, recognitions, caches>>

\* Mutant: the row is looked up by id alone, whatever the workspace.
set_name_AnyWorkspace(c, ws, vid, name, actor) ==
    /\ lock = Free
    /\ IF rows[vid] # NoRow
       THEN /\ rows' = [rows EXCEPT ![vid].name = name]
            /\ audit' = Append(audit, [ws |-> ws, vid |-> vid, old |-> rows[vid].name,
                                       new |-> name, actor |-> actor])
            /\ ledger' = Append(ledger, Record(ws, vid, "name_bind", actor))
       ELSE UNCHANGED <<rows, audit, ledger>>
    /\ UNCHANGED <<proposals, receipts, recognitions>> /\ Cached

set_name(c, ws, vid, name, actor) ==
    /\ lock = Free
    /\ IF Stored(ws, vid)
       THEN /\ rows' = [rows EXCEPT ![vid].name = name]
            /\ audit' = Append(audit, [ws |-> ws, vid |-> vid, old |-> rows[vid].name,
                                       new |-> name, actor |-> actor])
            /\ ledger' = Append(ledger, Record(ws, vid, "name_bind", actor))
       ELSE UNCHANGED <<rows, audit, ledger>>
    /\ UNCHANGED <<proposals, receipts, recognitions>> /\ Cached

\* Mutant: the centroid of a deleted row stays in the cache.
delete_KeepsPrint(c, ws, vid, actor) ==
    /\ lock = Free
    /\ IF Stored(ws, vid)
       THEN /\ rows' = [rows EXCEPT ![vid] = NoRow]
            /\ ledger' = Append(ledger, Record(ws, vid, "forget", actor))
       ELSE UNCHANGED <<rows, ledger>>
    /\ lock' = c
    /\ refresh' = [ws |-> ws, vid |-> vid, print |-> printCache[ws][vid],
                   flags |-> NoEntry, stage |-> "print"]
    /\ UNCHANGED <<proposals, audit, receipts, recognitions, caches>>

delete(c, ws, vid, actor) ==
    /\ lock = Free
    /\ IF Stored(ws, vid)
       THEN /\ rows' = [rows EXCEPT ![vid] = NoRow]
            /\ ledger' = Append(ledger, Record(ws, vid, "forget", actor))
       ELSE UNCHANGED <<rows, ledger>>
    /\ lock' = c
    /\ refresh' = [ws |-> ws, vid |-> vid, print |-> NoEntry,
                   flags |-> NoEntry, stage |-> "print"]
    /\ UNCHANGED <<proposals, audit, receipts, recognitions, caches>>

\* want[field] is the requested value, or "keep" when the request leaves it out.
\* One "control" row per field given.  The cache is refreshed from its own entry.
Chosen(want) == {f \in {"enroll", "identify"} : want[f] # "keep"}
Apply(old, want) ==
    LET pick(f) == IF want[f] = "keep" THEN old[f] ELSE want[f] = "on"
    IN  [enroll |-> pick("enroll"), identify |-> pick("identify")]

\* Mutants of set_flags, by what they put in the row and in the cache: a field
\* the request leaves out is switched on; the cache keeps its entry.
Flagging(c, ws, vid, want, actor, inRow, inCache) ==
    /\ lock = Free
    /\ IF Chosen(want) # {} /\ Stored(ws, vid)
       THEN /\ rows' = [rows EXCEPT ![vid].flags = inRow]
            /\ ledger' = Append(ledger, Record(ws, vid, "control", actor))
            /\ lock' = c
            /\ refresh' = [ws |-> ws, vid |-> vid, print |-> NoEntry,
                           flags |-> inCache, stage |-> "flags"]
       ELSE UNCHANGED <<rows, ledger, lock, refresh>>
    /\ UNCHANGED <<proposals, audit, receipts, recognitions, caches>>

set_flags_ResetsOthers(c, ws, vid, want, actor) ==
    LET reset == [f \in {"enroll", "identify"} |-> want[f] # "off"]
    IN  Flagging(c, ws, vid, want, actor, reset, reset)

set_flags_StaleCache(c, ws, vid, want, actor) ==
    Flagging(c, ws, vid, want, actor, Apply(rows[vid].flags, want), flags(ws, vid))

set_flags(c, ws, vid, want, actor) ==
    /\ lock = Free
    /\ IF Chosen(want) # {} /\ Stored(ws, vid)
       THEN /\ rows' = [rows EXCEPT ![vid].flags = Apply(@, want)]
            /\ LET entry == Record(ws, vid, "control", actor)
               IN  ledger' = ledger \o (IF Chosen(want) = {"enroll", "identify"}
                                        THEN <<entry, entry>> ELSE <<entry>>)
            /\ lock' = c
            /\ refresh' = [ws |-> ws, vid |-> vid, print |-> NoEntry,
                           flags |-> Apply(flags(ws, vid), want), stage |-> "flags"]
       ELSE UNCHANGED <<rows, ledger, lock, refresh>>
    /\ UNCHANGED <<proposals, audit, receipts, recognitions, caches>>

claim_owner(c, ws, vid, email) ==
    /\ lock = Free
    /\ rows' = IF Stored(ws, vid) THEN [rows EXCEPT ![vid].owner = email] ELSE rows
    /\ UNCHANGED <<proposals, audit, ledger, receipts, recognitions>> /\ Cached

\* The proposals already made for this (workspace, voiceprint, email).
Matching(ws, vid, email) ==
    {i \in DOMAIN proposals : /\ proposals[i].ws = ws
                              /\ proposals[i].vid = vid
                              /\ proposals[i].email = email}

propose(c, ws, vid, email, name) ==
    /\ lock = Free
    /\ proposals' = IF Matching(ws, vid, email) # {} THEN proposals
                    ELSE Append(proposals, [ws |-> ws, vid |-> vid, email |-> email,
                                            name |-> name, status |-> "pending"])
    /\ UNCHANGED <<rows, audit, ledger, receipts, recognitions>> /\ Cached

set_status(c, pid, status) ==
    /\ lock = Free
    /\ proposals' = [proposals EXCEPT ![pid].status = status]
    /\ UNCHANGED <<rows, audit, ledger, receipts, recognitions>> /\ Cached

add_deletion_receipt(c, receipt) ==
    /\ lock = Free
    /\ receipts' = Append(receipts, receipt)
    /\ UNCHANGED <<rows, proposals, audit, ledger, recognitions>> /\ Cached

add_recognition(c, ws, vid, owner) ==
    /\ lock = Free
    /\ recognitions' = Append(recognitions, [ws |-> ws, vid |-> vid, owner |-> owner])
    /\ UNCHANGED <<rows, proposals, audit, ledger, receipts>> /\ Cached

log_usage(c, ws, vid, event, actor) ==
    /\ lock = Free
    /\ ledger' = Append(ledger, Record(ws, vid, event, actor))
    /\ UNCHANGED <<rows, proposals, audit, receipts, recognitions>> /\ Cached

\* The tail of upsert, delete and set_flags: the holder writes the caches and
\* lets the lock go.
RefreshPrint(c) ==
    /\ lock = c /\ refresh.stage = "print"
    /\ printCache' = [printCache EXCEPT ![refresh.ws][refresh.vid] = refresh.print]
    /\ refresh' = [refresh EXCEPT !.stage = "flags"]
    /\ UNCHANGED <<tables, flagCache, lock>>

RefreshFlags(c) ==
    /\ lock = c /\ refresh.stage = "flags"
    /\ flagCache' = [flagCache EXCEPT ![refresh.ws][refresh.vid] = refresh.flags]
    /\ refresh' = Idle
    /\ lock' = Free
    /\ UNCHANGED <<tables, printCache>>

\* _load_centroids: the caches as open() builds them from the rows.
Loaded(print, flag) ==
    /\ print = [ws \in Workspace |-> [vid \in Vid |-> PrintOf(ws, vid)]]
    /\ flag = [ws \in Workspace |-> [vid \in Vid |-> FlagsOf(ws, vid)]]

\* The process dies and starts again: open() rebuilds both caches from the rows.
Reopen ==
    /\ Loaded(printCache', flagCache')
    /\ lock' = Free
    /\ refresh' = Idle
    /\ UNCHANGED tables

-----------------------------------------------------------------------------
(* The store under any callers.  An upsert writes a voiceprint whose id     *)
(* belongs to the workspace it is written under; every other call may name  *)
(* any workspace, as an API request may.                                    *)

Want == [{"enroll", "identify"} -> {"on", "off", "keep"}]

\* open() on an existing database whose trail starts empty.
StoreInit ==
    /\ rows \in {r \in [Vid -> Row \cup {NoRow}] :
                    \A vid \in Vid : r[vid] # NoRow => r[vid].ws = Home[vid]}
    /\ Loaded(printCache, flagCache)
    /\ lock = Free /\ refresh = Idle
    /\ proposals = <<>> /\ audit = <<>> /\ ledger = <<>>
    /\ receipts = <<>> /\ recognitions = <<>>

Upsert(c) == \E vid \in Vid : \E vp \in Row : upsert(c, Home[vid], vid, vp)
SetName(c) == \E ws \in Workspace, vid \in Vid, name \in Name, actor \in Actor :
                  set_name(c, ws, vid, name, actor)
Delete(c) == \E ws \in Workspace, vid \in Vid, actor \in Actor : delete(c, ws, vid, actor)
SetFlags(c) == \E ws \in Workspace, vid \in Vid, want \in Want, actor \in Actor :
                  set_flags(c, ws, vid, want, actor)
ClaimOwner(c) == \E ws \in Workspace, vid \in Vid, email \in Email :
                  claim_owner(c, ws, vid, email)
Propose(c) == \E ws \in Workspace, vid \in Vid, email \in Email, name \in Name :
                  propose(c, ws, vid, email, name)
SetStatus(c) == \E pid \in DOMAIN proposals, status \in {"confirmed", "denied"} :
                  set_status(c, pid, status)
AddReceipt(c) == \E lid \in DOMAIN ledger, vid \in Vid, actor \in Actor :
                  add_deletion_receipt(c, [ws |-> Home[vid], vid |-> vid,
                                           actor |-> actor, lid |-> lid])
AddRecognition(c) == \E ws \in Workspace, vid \in Vid, email \in Email :
                  add_recognition(c, ws, vid, email)
LogUsage(c) == \E ws \in Workspace, vid \in Vid, event \in LoggedEvent, actor \in Actor :
                  log_usage(c, ws, vid, event, actor)

StoreNext ==
    \/ \E c \in Caller :
          \/ RefreshPrint(c) \/ RefreshFlags(c)
          \/ LogUsage(c) \/ AddRecognition(c) \/ AddReceipt(c)
          \/ Propose(c) \/ SetStatus(c) \/ ClaimOwner(c) \/ SetName(c)
          \/ SetFlags(c) \/ Delete(c) \/ Upsert(c)
    \/ Reopen

StoreSpec == StoreInit /\ [][StoreNext]_storeVars

-----------------------------------------------------------------------------
(* Every variable has the shape the tables and caches have. *)
StoreTypeOK ==
    /\ rows \in [Vid -> Row \cup {NoRow}]
    /\ printCache \in [Workspace -> [Vid -> (SUBSET Clip) \cup {NoEntry}]]
    /\ flagCache \in [Workspace -> [Vid -> Flags \cup {NoEntry}]]
    /\ lock \in Caller \cup {Free}
    /\ refresh \in Refresh \cup {Idle}
    /\ proposals \in Seq(Proposal)
    /\ audit \in Seq(AuditEntry)
    /\ ledger \in Seq(LedgerEntry)
    /\ receipts \in Seq(Receipt)
    /\ recognitions \in Seq(Recognition)

(* The two caches that matching and the consent gate read say exactly what *)
(* the rows say -- for every id, forgotten ones included, and after a       *)
(* restart -- except for the one id whose method is between its commit and  *)
(* its cache writes.  A lost update of either cache, a pop that is          *)
(* forgotten, or a write under the wrong workspace would show here.         *)
CacheCoherent ==
    \A ws \in Workspace, vid \in Vid :
        \/ printCache[ws][vid] = PrintOf(ws, vid) /\ flagCache[ws][vid] = FlagsOf(ws, vid)
        \/ lock # Free /\ refresh.ws = ws /\ refresh.vid = vid

(* No call made under one workspace leaves a trace on a voiceprint of       *)
(* another: rows keep their workspace, a workspace's caches list only its   *)
(* own ids, and every name in the audit trail, every flag change and every  *)
(* erasure was made under the id's own workspace.                           *)
WorkspaceIsolation ==
    /\ \A vid \in Vid : rows[vid] # NoRow => rows[vid].ws = Home[vid]
    /\ \A ws \in Workspace, vid \in Vid : 
          (printCache[ws][vid] # NoEntry \/ flagCache[ws][vid] # NoEntry) => ws = Home[vid]
    /\ \A i \in DOMAIN audit : audit[i].ws = Home[audit[i].vid]
    /\ \A i \in DOMAIN ledger :
          ledger[i].event = "forget" => ledger[i].ws = Home[ledger[i].vid]
=============================================================================
