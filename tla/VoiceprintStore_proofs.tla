------------------------ MODULE VoiceprintStore_proofs ------------------------
(***************************************************************************)
(* Theorems of VoiceprintStore, for any callers, workspaces and ids.        *)
(*                                                                         *)
(* CacheCoherent is not inductive by itself: the cache writes of a method  *)
(* are right only because `refresh' carries what the rows say, because no  *)
(* other method can touch the rows before the lock is free, and because an *)
(* id never changes workspace.  StoreInv adds these three facts.           *)
(***************************************************************************)
EXTENDS VoiceprintStore, TLAPS

\* The consent flags of any row or cache entry, changed by a request.
LEMMA ApplyType ==
    ASSUME NEW old \in Flags, NEW want \in Want
    PROVE  Apply(old, want) \in Flags
<1>1. /\ want["enroll"] \in {"on", "off", "keep"}
      /\ want["identify"] \in {"on", "off", "keep"}
  BY DEF Want
<1>2. old.enroll \in BOOLEAN /\ old.identify \in BOOLEAN
  BY DEF Flags
<1> QED BY <1>2 DEF Apply, Flags

LEMMA DefaultType == DefaultFlags \in Flags
BY DEF DefaultFlags, Flags

LEMMA FlagsType ==
    ASSUME StoreTypeOK, NEW ws \in Workspace, NEW vid \in Vid
    PROVE  flags(ws, vid) \in Flags
BY DefaultType DEF StoreTypeOK, flags

LEMMA RecordType ==
    ASSUME NEW ws \in Workspace, NEW vid \in Vid, NEW event \in Event, NEW actor \in Actor
    PROVE  Record(ws, vid, event, actor) \in LedgerEntry
BY DEF Record, LedgerEntry

\* open() fills the caches with rows' own values.
LEMMA LoadedType ==
    ASSUME StoreTypeOK
    PROVE  /\ [ws \in Workspace |-> [vid \in Vid |-> PrintOf(ws, vid)]]
                \in [Workspace -> [Vid -> (SUBSET Clip) \cup {NoEntry}]]
           /\ [ws \in Workspace |-> [vid \in Vid |-> FlagsOf(ws, vid)]]
                \in [Workspace -> [Vid -> Flags \cup {NoEntry}]]
BY DEF StoreTypeOK, PrintOf, FlagsOf, Stored, Row

-----------------------------------------------------------------------------
(* Type correctness *)

\* Changing one field of a stored row, as the UPDATE statements do.
LEMMA RowUpdate ==
    ASSUME NEW row \in Row
    PROVE  /\ \A name \in Name : [row EXCEPT !.name = name] \in Row
           /\ \A email \in Email : [row EXCEPT !.owner = email] \in Row
           /\ \A f \in Flags : [row EXCEPT !.flags = f] \in Row
BY DEF Row

\* Table inserts keep the type of a table.
LEMMA InsertType ==
    ASSUME NEW S, NEW table \in Seq(S), NEW entry \in S
    PROVE  /\ Append(table, entry) \in Seq(S)
           /\ table \o <<entry>> \in Seq(S)
           /\ table \o <<entry, entry>> \in Seq(S)
OBVIOUS

LEMMA InitType == StoreInit => StoreTypeOK
<1> SUFFICES ASSUME StoreInit PROVE StoreTypeOK
  OBVIOUS
<1>1. rows \in [Vid -> Row \cup {NoRow}]
  BY DEF StoreInit
<1>2. /\ printCache \in [Workspace -> [Vid -> (SUBSET Clip) \cup {NoEntry}]]
      /\ flagCache \in [Workspace -> [Vid -> Flags \cup {NoEntry}]]
  BY <1>1 DEF StoreInit, Loaded, PrintOf, FlagsOf, Stored, Row
<1> QED BY <1>1, <1>2 DEF StoreInit, StoreTypeOK

LEMMA UpsertType ==
    ASSUME StoreTypeOK, NEW c \in Caller, Upsert(c)
    PROVE  StoreTypeOK'
<1>1. PICK vid \in Vid, vp \in Row : upsert(c, Home[vid], vid, vp)
  BY DEF Upsert
<1>2. Home[vid] \in Workspace
  BY StoreAssumption
<1>3. rows' \in [Vid -> Row \cup {NoRow}]
  BY <1>1, <1>2 DEF upsert, StoreTypeOK, Row
<1>4. refresh' \in Refresh
  BY <1>1, <1>2 DEF upsert, Refresh, Row
<1> QED BY <1>1, <1>3, <1>4 DEF upsert, StoreTypeOK, caches

LEMMA DeleteType ==
    ASSUME StoreTypeOK, NEW c \in Caller, Delete(c)
    PROVE  StoreTypeOK'
<1>1. PICK ws \in Workspace, vid \in Vid, actor \in Actor : delete(c, ws, vid, actor)
  BY DEF Delete
<1>2. rows' \in [Vid -> Row \cup {NoRow}]
  BY <1>1 DEF delete, StoreTypeOK
<1>3. ledger' \in Seq(LedgerEntry)
  <2>1. Record(ws, vid, "forget", actor) \in LedgerEntry
    BY RecordType DEF Event
  <2>2. ledger' = Append(ledger, Record(ws, vid, "forget", actor)) \/ ledger' = ledger
    BY <1>1 DEF delete
  <2> QED BY <2>1, <2>2, InsertType DEF StoreTypeOK
<1>4. refresh' \in Refresh
  BY <1>1 DEF delete, Refresh
<1> QED BY <1>1, <1>2, <1>3, <1>4 DEF delete, StoreTypeOK, caches

LEMMA SetFlagsType ==
    ASSUME StoreTypeOK, NEW c \in Caller, SetFlags(c)
    PROVE  StoreTypeOK'
<1>1. PICK ws \in Workspace, vid \in Vid, want \in Want, actor \in Actor :
            set_flags(c, ws, vid, want, actor)
  BY DEF SetFlags
<1>2. CASE ~(Chosen(want) # {} /\ Stored(ws, vid))
  BY <1>1, <1>2 DEF set_flags, StoreTypeOK, caches
<1>3. CASE Chosen(want) # {} /\ Stored(ws, vid)
  <2> DEFINE entry == Record(ws, vid, "control", actor)
  <2>1. rows[vid] \in Row /\ rows[vid].flags \in Flags
    BY <1>3 DEF Stored, StoreTypeOK, Row
  <2>2. rows' = [rows EXCEPT ![vid] = [rows[vid] EXCEPT !.flags = Apply(rows[vid].flags, want)]]
    BY <1>1, <1>3 DEF set_flags
  <2>3. Apply(rows[vid].flags, want) \in Flags
    BY <2>1, ApplyType
  <2>4. rows' \in [Vid -> Row \cup {NoRow}]
    BY <2>1, <2>2, <2>3, RowUpdate DEF StoreTypeOK
  <2>5. entry \in LedgerEntry
    BY RecordType DEF Event
  <2>6. ledger' = ledger \o <<entry, entry>> \/ ledger' = ledger \o <<entry>>
    BY <1>1, <1>3 DEF set_flags
  <2>7. ledger' \in Seq(LedgerEntry)
    <3> HIDE DEF entry
    <3>1. ledger \in Seq(LedgerEntry)
      BY DEF StoreTypeOK
    <3>2. /\ ledger \o <<entry>> \in Seq(LedgerEntry)
          /\ ledger \o <<entry, entry>> \in Seq(LedgerEntry)
      BY <2>5, <3>1, InsertType
    <3> QED BY <2>6, <3>2
  <2>8. refresh' \in Refresh
    <3>1. Apply(flags(ws, vid), want) \in Flags
      BY FlagsType, ApplyType
    <3> QED BY <1>1, <1>3, <3>1 DEF set_flags, Refresh
  <2> QED BY <1>1, <1>3, <2>4, <2>7, <2>8 DEF set_flags, StoreTypeOK, caches
<1> QED BY <1>2, <1>3

LEMMA SetNameType ==
    ASSUME StoreTypeOK, NEW c \in Caller, SetName(c)
    PROVE  StoreTypeOK'
<1>1. PICK ws \in Workspace, vid \in Vid, name \in Name, actor \in Actor :
            set_name(c, ws, vid, name, actor)
  BY DEF SetName
<1>2. CASE ~Stored(ws, vid)
  BY <1>1, <1>2 DEF set_name, StoreTypeOK, Cached, caches
<1>3. CASE Stored(ws, vid)
  <2>1. rows[vid] \in Row
    BY <1>3 DEF Stored, StoreTypeOK
  <2>2. rows' \in [Vid -> Row \cup {NoRow}]
    <3>1. rows' = [rows EXCEPT ![vid] = [rows[vid] EXCEPT !.name = name]]
      BY <1>1, <1>3 DEF set_name
    <3> QED BY <2>1, <3>1, RowUpdate DEF StoreTypeOK
  <2>3. audit' \in Seq(AuditEntry)
    <3> DEFINE entry == [ws |-> ws, vid |-> vid, old |-> rows[vid].name,
                         new |-> name, actor |-> actor]
    <3>1. entry \in AuditEntry
      BY <2>1 DEF Row, AuditEntry
    <3>2. audit' = Append(audit, entry)
      BY <1>1, <1>3 DEF set_name
    <3> HIDE DEF entry
    <3> QED BY <3>1, <3>2, InsertType DEF StoreTypeOK
  <2>4. ledger' \in Seq(LedgerEntry)
    <3>1. ledger' = Append(ledger, Record(ws, vid, "name_bind", actor))
      BY <1>1, <1>3 DEF set_name
    <3>2. Record(ws, vid, "name_bind", actor) \in LedgerEntry
      BY RecordType DEF Event
    <3> QED BY <3>1, <3>2, InsertType DEF StoreTypeOK
  <2> QED BY <1>1, <2>2, <2>3, <2>4 DEF set_name, StoreTypeOK, Cached, caches
<1> QED BY <1>2, <1>3

LEMMA ClaimOwnerType ==
    ASSUME StoreTypeOK, NEW c \in Caller, ClaimOwner(c)
    PROVE  StoreTypeOK'
<1>1. PICK ws \in Workspace, vid \in Vid, email \in Email : claim_owner(c, ws, vid, email)
  BY DEF ClaimOwner
<1>2. rows' \in [Vid -> Row \cup {NoRow}]
  <2>1. CASE Stored(ws, vid)
    <3>1. rows' = [rows EXCEPT ![vid] = [rows[vid] EXCEPT !.owner = email]]
      BY <1>1, <2>1 DEF claim_owner
    <3>2. rows[vid] \in Row
      BY <2>1 DEF Stored, StoreTypeOK
    <3> QED BY <3>1, <3>2, RowUpdate DEF StoreTypeOK
  <2>2. CASE ~Stored(ws, vid)
    BY <1>1, <2>2 DEF claim_owner, StoreTypeOK
  <2> QED BY <2>1, <2>2
<1> QED BY <1>1, <1>2 DEF claim_owner, StoreTypeOK, Cached, caches

LEMMA ProposeType ==
    ASSUME StoreTypeOK, NEW c \in Caller, Propose(c)
    PROVE  StoreTypeOK'
<1>1. PICK ws \in Workspace, vid \in Vid, email \in Email, name \in Name :
            propose(c, ws, vid, email, name)
  BY DEF Propose
<1>2. proposals' \in Seq(Proposal)
  <2> DEFINE proposal == [ws |-> ws, vid |-> vid, email |-> email,
                          name |-> name, status |-> "pending"]
  <2>1. proposal \in Proposal
    BY DEF Proposal, Status
  <2>2. proposals' = proposals \/ proposals' = Append(proposals, proposal)
    BY <1>1 DEF propose
  <2> HIDE DEF proposal
  <2> QED BY <2>1, <2>2, InsertType DEF StoreTypeOK
<1> QED BY <1>1, <1>2 DEF propose, StoreTypeOK, Cached, caches

LEMMA SetStatusType ==
    ASSUME StoreTypeOK, NEW c \in Caller, SetStatus(c)
    PROVE  StoreTypeOK'
<1>1. PICK pid \in DOMAIN proposals, status \in {"confirmed", "denied"} :
            set_status(c, pid, status)
  BY DEF SetStatus
<1>2. proposals' \in Seq(Proposal)
  <2>1. proposals[pid] \in Proposal
    BY DEF StoreTypeOK
  <2>2. [proposals[pid] EXCEPT !.status = status] \in Proposal
    BY <2>1 DEF Proposal, Status
  <2>3. proposals' = [proposals EXCEPT ![pid] = [proposals[pid] EXCEPT !.status = status]]
    BY <1>1 DEF set_status
  <2> QED BY <2>2, <2>3 DEF StoreTypeOK
<1> QED BY <1>1, <1>2 DEF set_status, StoreTypeOK, Cached, caches

LEMMA AppendType ==
    ASSUME StoreTypeOK, NEW c \in Caller, AddReceipt(c) \/ AddRecognition(c) \/ LogUsage(c)
    PROVE  StoreTypeOK'
<1>1. CASE AddReceipt(c)
  <2>1. PICK lid \in DOMAIN ledger, vid \in Vid, actor \in Actor :
            add_deletion_receipt(c, [ws |-> Home[vid], vid |-> vid,
                                     actor |-> actor, lid |-> lid])
    BY <1>1 DEF AddReceipt
  <2>2. Home[vid] \in Workspace /\ lid \in Nat
    BY StoreAssumption DEF StoreTypeOK
  <2>3. [ws |-> Home[vid], vid |-> vid, actor |-> actor, lid |-> lid] \in Receipt
    BY <2>2 DEF Receipt
  <2>4. receipts' \in Seq(Receipt)
    BY <2>1, <2>3, InsertType DEF add_deletion_receipt, StoreTypeOK
  <2> QED BY <2>1, <2>4 DEF add_deletion_receipt, StoreTypeOK, Cached, caches
<1>2. CASE AddRecognition(c)
  <2>1. PICK ws \in Workspace, vid \in Vid, email \in Email :
            add_recognition(c, ws, vid, email)
    BY <1>2 DEF AddRecognition
  <2>2. [ws |-> ws, vid |-> vid, owner |-> email] \in Recognition
    BY DEF Recognition
  <2>3. recognitions' \in Seq(Recognition)
    BY <2>1, <2>2, InsertType DEF add_recognition, StoreTypeOK
  <2> QED BY <2>1, <2>3 DEF add_recognition, StoreTypeOK, Cached, caches
<1>3. CASE LogUsage(c)
  <2>1. PICK ws \in Workspace, vid \in Vid, event \in LoggedEvent, actor \in Actor :
            log_usage(c, ws, vid, event, actor)
    BY <1>3 DEF LogUsage
  <2>2. ledger' \in Seq(LedgerEntry)
    <3>1. Record(ws, vid, event, actor) \in LedgerEntry
      BY RecordType DEF Event
    <3> QED BY <2>1, <3>1, InsertType DEF log_usage, StoreTypeOK
  <2> QED BY <2>1, <2>2 DEF log_usage, StoreTypeOK, Cached, caches
<1> QED BY <1>1, <1>2, <1>3

LEMMA RefreshType ==
    ASSUME StoreTypeOK, NEW c \in Caller, RefreshPrint(c) \/ RefreshFlags(c)
    PROVE  StoreTypeOK'
<1>1. refresh.stage \in {"print", "flags"} => refresh \in Refresh
  BY DEF StoreTypeOK, Idle
<1>2. CASE RefreshPrint(c)
  <2>1. printCache' \in [Workspace -> [Vid -> (SUBSET Clip) \cup {NoEntry}]]
    BY <1>1, <1>2 DEF RefreshPrint, StoreTypeOK, Refresh
  <2>2. refresh' \in Refresh
    BY <1>1, <1>2 DEF RefreshPrint, Refresh
  <2> QED BY <1>2, <2>1, <2>2 DEF RefreshPrint, StoreTypeOK, tables
<1>3. CASE RefreshFlags(c)
  <2>1. flagCache' \in [Workspace -> [Vid -> Flags \cup {NoEntry}]]
    BY <1>1, <1>3 DEF RefreshFlags, StoreTypeOK, Refresh
  <2> QED BY <1>3, <2>1 DEF RefreshFlags, StoreTypeOK, tables
<1> QED BY <1>2, <1>3

LEMMA ReopenType ==
    ASSUME StoreTypeOK, Reopen
    PROVE  StoreTypeOK'
<1>1. /\ printCache' = [ws \in Workspace |-> [vid \in Vid |-> PrintOf(ws, vid)]]
      /\ flagCache' = [ws \in Workspace |-> [vid \in Vid |-> FlagsOf(ws, vid)]]
  BY DEF Reopen, Loaded
<1> QED BY <1>1, LoadedType DEF Reopen, StoreTypeOK, tables

LEMMA StepType == StoreTypeOK /\ [StoreNext]_storeVars => StoreTypeOK'
<1> SUFFICES ASSUME StoreTypeOK, [StoreNext]_storeVars PROVE StoreTypeOK'
  OBVIOUS
<1>1. CASE UNCHANGED storeVars
  BY <1>1 DEF storeVars, tables, caches, StoreTypeOK
<1>2. CASE Reopen
  BY <1>2, ReopenType
<1>3. ASSUME NEW c \in Caller,
             \/ Upsert(c) \/ ClaimOwner(c) \/ SetStatus(c)
             \/ RefreshPrint(c) \/ RefreshFlags(c)
             \/ SetName(c) \/ Delete(c) \/ SetFlags(c) \/ Propose(c)
             \/ AddReceipt(c) \/ AddRecognition(c) \/ LogUsage(c)
      PROVE  StoreTypeOK'
  BY <1>3, UpsertType, ClaimOwnerType, SetStatusType, RefreshType, SetNameType,
     DeleteType, SetFlagsType, ProposeType, AppendType
<1> QED BY <1>1, <1>2, <1>3 DEF StoreNext

(* Every variable keeps its shape, whatever calls the store gets.           *)
THEOREM TypeCorrect == StoreSpec => []StoreTypeOK
BY InitType, StepType, PTL DEF StoreSpec

-----------------------------------------------------------------------------
(* The caches *)

\* An id stays in its workspace.
RowsAtHome == \A vid \in Vid : rows[vid] # NoRow => rows[vid].ws = Home[vid]

\* What the lock's holder still has to write is what the rows say; and what it
\* has written already is too.
RefreshTrue ==
    /\ lock = Free <=> refresh = Idle
    /\ lock # Free =>
          /\ refresh.flags = FlagsOf(refresh.ws, refresh.vid)
          /\ refresh.stage = "print" => refresh.print = PrintOf(refresh.ws, refresh.vid)
          /\ refresh.stage = "flags" =>
                printCache[refresh.ws][refresh.vid] = PrintOf(refresh.ws, refresh.vid)

StoreInv == StoreTypeOK /\ RowsAtHome /\ RefreshTrue /\ CacheCoherent

\* With the lock free the caches are exact.
LEMMA QuietCaches ==
    ASSUME StoreInv, lock = Free, NEW ws \in Workspace, NEW vid \in Vid
    PROVE  printCache[ws][vid] = PrintOf(ws, vid) /\ flagCache[ws][vid] = FlagsOf(ws, vid)
BY DEF StoreInv, CacheCoherent

LEMMA InitInv == StoreInit => StoreInv
<1> SUFFICES ASSUME StoreInit PROVE StoreInv
  OBVIOUS
<1>1. StoreTypeOK
  BY InitType
<1>2. RowsAtHome
  BY DEF StoreInit, RowsAtHome
<1>3. RefreshTrue
  BY DEF StoreInit, RefreshTrue
<1>4. CacheCoherent
  BY DEF StoreInit, Loaded, CacheCoherent
<1> QED BY <1>1, <1>2, <1>3, <1>4 DEF StoreInv

LEMMA UpsertInv ==
    ASSUME StoreInv, NEW c \in Caller, Upsert(c)
    PROVE  RowsAtHome' /\ RefreshTrue' /\ CacheCoherent'
<1>1. PICK vid \in Vid, vp \in Row : upsert(c, Home[vid], vid, vp)
  BY DEF Upsert
<1>2. Home[vid] \in Workspace
  BY StoreAssumption
<1> DEFINE new == [vp EXCEPT !.ws = Home[vid]]
<1>3. new \in Row /\ new # NoRow /\ new.ws = Home[vid]
         /\ new.exemplars = vp.exemplars /\ new.flags = vp.flags
  BY <1>2, StoreAssumption DEF Row
<1>4. rows' = [rows EXCEPT ![vid] = new]
  BY <1>1 DEF upsert, StoreInv, RowsAtHome
<1> HIDE DEF new
<1>5. rows'[vid] = new /\ \A v \in Vid \ {vid} : rows'[v] = rows[v]
  BY <1>4 DEF StoreInv, StoreTypeOK
<1>6. RowsAtHome'
  BY <1>3, <1>5 DEF StoreInv, RowsAtHome
<1>7. /\ lock = Free /\ lock' = c /\ lock' # Free
      /\ refresh' = [ws |-> Home[vid], vid |-> vid, print |-> vp.exemplars,
                     flags |-> vp.flags, stage |-> "print"]
      /\ printCache' = printCache /\ flagCache' = flagCache
  BY <1>1, StoreAssumption DEF upsert, caches
<1>8. RefreshTrue'
  BY <1>3, <1>5, <1>7 DEF RefreshTrue, Idle, FlagsOf, PrintOf, Stored
<1>9. CacheCoherent'
  <2> SUFFICES ASSUME NEW ws \in Workspace, NEW v \in Vid, ~(ws = Home[vid] /\ v = vid)
               PROVE  printCache[ws][v] = PrintOf(ws, v)' /\ flagCache[ws][v] = FlagsOf(ws, v)'
    BY <1>7 DEF CacheCoherent
  <2>1. Stored(ws, v)' <=> Stored(ws, v)
    BY <1>3, <1>5 DEF Stored, StoreInv, RowsAtHome
  <2>2. Stored(ws, v) => rows'[v] = rows[v]
    BY <1>5 DEF Stored, StoreInv, RowsAtHome
  <2> QED BY <2>1, <2>2, <1>7, QuietCaches DEF PrintOf, FlagsOf
<1> QED BY <1>6, <1>8, <1>9

LEMMA DeleteInv ==
    ASSUME StoreInv, NEW c \in Caller, Delete(c)
    PROVE  RowsAtHome' /\ RefreshTrue' /\ CacheCoherent'
<1>1. PICK ws \in Workspace, vid \in Vid, actor \in Actor : delete(c, ws, vid, actor)
  BY DEF Delete
<1>2. /\ lock = Free /\ lock' = c /\ lock' # Free
      /\ refresh' = [ws |-> ws, vid |-> vid, print |-> NoEntry,
                     flags |-> NoEntry, stage |-> "print"]
      /\ printCache' = printCache /\ flagCache' = flagCache
  BY <1>1, StoreAssumption DEF delete, caches
<1>3. /\ \A v \in Vid \ {vid} : rows'[v] = rows[v]
      /\ Stored(ws, vid) => rows'[vid] = NoRow
      /\ ~Stored(ws, vid) => rows'[vid] = rows[vid]
  BY <1>1 DEF delete, StoreInv, StoreTypeOK
<1>4. RowsAtHome'
  BY <1>3 DEF StoreInv, RowsAtHome
<1>5. ~Stored(ws, vid)'
  BY <1>3 DEF Stored
<1>6. RefreshTrue'
  BY <1>2, <1>5 DEF RefreshTrue, Idle, FlagsOf, PrintOf
<1>7. CacheCoherent'
  <2> SUFFICES ASSUME NEW w \in Workspace, NEW v \in Vid, ~(w = ws /\ v = vid)
               PROVE  printCache[w][v] = PrintOf(w, v)' /\ flagCache[w][v] = FlagsOf(w, v)'
    BY <1>2 DEF CacheCoherent
  <2>1. Stored(w, v)' <=> Stored(w, v)
    BY <1>3 DEF Stored, StoreInv, RowsAtHome
  <2>2. Stored(w, v) => rows'[v] = rows[v]
    BY <1>3 DEF Stored, StoreInv, RowsAtHome
  <2> QED BY <2>1, <2>2, <1>2, QuietCaches DEF PrintOf, FlagsOf
<1> QED BY <1>4, <1>6, <1>7

LEMMA SetFlagsInv ==
    ASSUME StoreInv, NEW c \in Caller, SetFlags(c)
    PROVE  RowsAtHome' /\ RefreshTrue' /\ CacheCoherent'
<1>1. PICK ws \in Workspace, vid \in Vid, want \in Want, actor \in Actor :
            set_flags(c, ws, vid, want, actor)
  BY DEF SetFlags
<1>2. CASE ~(Chosen(want) # {} /\ Stored(ws, vid))
  BY <1>1, <1>2 DEF set_flags, caches, StoreInv, RowsAtHome, RefreshTrue, CacheCoherent,
                    FlagsOf, PrintOf, Stored
<1>3. CASE Chosen(want) # {} /\ Stored(ws, vid)
  <2> DEFINE f == Apply(rows[vid].flags, want)
             new == [rows[vid] EXCEPT !.flags = f]
  <2>1. rows[vid] \in Row /\ rows[vid].flags \in Flags
    BY <1>3 DEF Stored, StoreInv, StoreTypeOK, Row
  <2>2. new # NoRow /\ new.ws = rows[vid].ws /\ new.flags = f
          /\ new.exemplars = rows[vid].exemplars
    <3>1. f \in Flags
      BY <2>1, ApplyType
    <3> HIDE DEF f
    <3>2. new \in Row
      BY <2>1, <3>1, RowUpdate
    <3> QED BY <2>1, <3>2, StoreAssumption DEF Row
  <2>3. rows' = [rows EXCEPT ![vid] = new]
    BY <1>1, <1>3 DEF set_flags
  <2>4. flags(ws, vid) = rows[vid].flags
    BY <1>1, <1>3, <2>1, QuietCaches, StoreAssumption DEF set_flags, flags, FlagsOf
  <2>5. /\ lock = Free /\ lock' = c /\ lock' # Free
        /\ refresh' = [ws |-> ws, vid |-> vid, print |-> NoEntry,
                       flags |-> f, stage |-> "flags"]
        /\ printCache' = printCache /\ flagCache' = flagCache
    BY <1>1, <1>3, <2>4, StoreAssumption DEF set_flags, caches
  <2> HIDE DEF f, new
  <2>6. rows'[vid] = new /\ \A v \in Vid \ {vid} : rows'[v] = rows[v]
    BY <2>3 DEF StoreInv, StoreTypeOK
  <2>7. RowsAtHome'
    BY <1>3, <2>2, <2>6 DEF StoreInv, RowsAtHome, Stored
  <2>8. \A w \in Workspace, v \in Vid :
            /\ Stored(w, v)' <=> Stored(w, v)
            /\ PrintOf(w, v)' = PrintOf(w, v)
            /\ v # vid \/ w # ws => FlagsOf(w, v)' = FlagsOf(w, v)
    BY <1>3, <2>2, <2>6 DEF Stored, PrintOf, FlagsOf
  <2>9. FlagsOf(ws, vid)' = f
    BY <1>3, <2>2, <2>6 DEF Stored, FlagsOf
  <2>10. RefreshTrue'
    BY <2>5, <2>8, <2>9, QuietCaches DEF RefreshTrue, Idle
  <2>11. CacheCoherent'
    BY <2>5, <2>8, QuietCaches DEF CacheCoherent
  <2> QED BY <2>7, <2>10, <2>11
<1> QED BY <1>2, <1>3

\* A method that touches neither the caches nor what they project.
LEMMA QuietStep ==
    ASSUME StoreInv, lock = Free, UNCHANGED <<caches, lock, refresh>>,
           \A v \in Vid : /\ rows'[v] = NoRow <=> rows[v] = NoRow
                          /\ rows[v] # NoRow => /\ rows'[v].ws = rows[v].ws
                                                /\ rows'[v].exemplars = rows[v].exemplars
                                                /\ rows'[v].flags = rows[v].flags
    PROVE  RowsAtHome' /\ RefreshTrue' /\ CacheCoherent'
<1>1. \A w \in Workspace, v \in Vid :
          PrintOf(w, v)' = PrintOf(w, v) /\ FlagsOf(w, v)' = FlagsOf(w, v)
  BY DEF Stored, PrintOf, FlagsOf
<1>2. RowsAtHome'
  BY DEF StoreInv, RowsAtHome
<1>3. RefreshTrue'
  BY DEF StoreInv, RefreshTrue
<1>4. CacheCoherent'
  BY <1>1, QuietCaches DEF CacheCoherent, caches
<1> QED BY <1>2, <1>3, <1>4

LEMMA SetNameInv ==
    ASSUME StoreInv, NEW c \in Caller, SetName(c)
    PROVE  RowsAtHome' /\ RefreshTrue' /\ CacheCoherent'
<1>1. PICK ws \in Workspace, vid \in Vid, name \in Name, actor \in Actor :
            set_name(c, ws, vid, name, actor)
  BY DEF SetName
<1>2. CASE ~Stored(ws, vid)
  BY <1>1, <1>2, QuietStep DEF set_name, Cached, caches
<1>3. CASE Stored(ws, vid)
  <2> DEFINE new == [rows[vid] EXCEPT !.name = name]
  <2>1. rows[vid] \in Row /\ new \in Row
    BY <1>3, RowUpdate DEF Stored, StoreInv, StoreTypeOK
  <2>2. /\ new # NoRow /\ rows[vid] # NoRow /\ new.ws = rows[vid].ws
        /\ new.exemplars = rows[vid].exemplars /\ new.flags = rows[vid].flags
    BY <2>1, StoreAssumption DEF Row
  <2>3. rows' = [rows EXCEPT ![vid] = new]
    BY <1>1, <1>3 DEF set_name
  <2> HIDE DEF new
  <2>4. rows'[vid] = new /\ \A v \in Vid \ {vid} : rows'[v] = rows[v]
    BY <2>3 DEF StoreInv, StoreTypeOK
  <2> QED BY <1>1, <2>2, <2>4, QuietStep DEF set_name, Cached, caches
<1> QED BY <1>2, <1>3

LEMMA ClaimOwnerInv ==
    ASSUME StoreInv, NEW c \in Caller, ClaimOwner(c)
    PROVE  RowsAtHome' /\ RefreshTrue' /\ CacheCoherent'
<1>1. PICK ws \in Workspace, vid \in Vid, email \in Email : claim_owner(c, ws, vid, email)
  BY DEF ClaimOwner
<1>2. CASE ~Stored(ws, vid)
  BY <1>1, <1>2, QuietStep DEF claim_owner, Cached, caches
<1>3. CASE Stored(ws, vid)
  <2> DEFINE new == [rows[vid] EXCEPT !.owner = email]
  <2>1. rows[vid] \in Row /\ new \in Row
    BY <1>3, RowUpdate DEF Stored, StoreInv, StoreTypeOK
  <2>2. /\ new # NoRow /\ rows[vid] # NoRow /\ new.ws = rows[vid].ws
        /\ new.exemplars = rows[vid].exemplars /\ new.flags = rows[vid].flags
    BY <2>1, StoreAssumption DEF Row
  <2>3. rows' = [rows EXCEPT ![vid] = new]
    BY <1>1, <1>3 DEF claim_owner
  <2> HIDE DEF new
  <2>4. rows'[vid] = new /\ \A v \in Vid \ {vid} : rows'[v] = rows[v]
    BY <2>3 DEF StoreInv, StoreTypeOK
  <2> QED BY <1>1, <2>2, <2>4, QuietStep DEF claim_owner, Cached, caches
<1> QED BY <1>2, <1>3

LEMMA InsertInv ==
    ASSUME StoreInv, NEW c \in Caller,
           Propose(c) \/ SetStatus(c) \/ AddReceipt(c) \/ AddRecognition(c) \/ LogUsage(c)
    PROVE  RowsAtHome' /\ RefreshTrue' /\ CacheCoherent'
<1>1. lock = Free /\ UNCHANGED <<rows, caches, lock, refresh>>
  BY DEF Propose, propose, SetStatus, set_status, AddReceipt, add_deletion_receipt,
         AddRecognition, add_recognition, LogUsage, log_usage, Cached
<1> QED BY <1>1, QuietStep

LEMMA RefreshInv ==
    ASSUME StoreInv, NEW c \in Caller, RefreshPrint(c) \/ RefreshFlags(c)
    PROVE  RowsAtHome' /\ RefreshTrue' /\ CacheCoherent'
<1>1. lock = c /\ lock # Free /\ UNCHANGED tables
  BY StoreAssumption DEF RefreshPrint, RefreshFlags
<1>2. refresh \in Refresh
  BY DEF StoreInv, StoreTypeOK, Idle, RefreshPrint, RefreshFlags
<1> DEFINE ws == refresh.ws
           vid == refresh.vid
<1>3. ws \in Workspace /\ vid \in Vid
  BY <1>2 DEF Refresh
<1> HIDE DEF ws, vid
<1>4. RowsAtHome'
  BY <1>1 DEF tables, StoreInv, RowsAtHome
<1>5. \A w \in Workspace, v \in Vid :
          PrintOf(w, v)' = PrintOf(w, v) /\ FlagsOf(w, v)' = FlagsOf(w, v)
  BY <1>1 DEF tables, PrintOf, FlagsOf, Stored
<1>6. \A w \in Workspace, v \in Vid : ~(w = ws /\ v = vid) =>
          printCache[w][v] = PrintOf(w, v) /\ flagCache[w][v] = FlagsOf(w, v)
  BY DEF StoreInv, CacheCoherent, ws, vid
<1>7. CASE RefreshPrint(c)
  <2>1. /\ refresh.stage = "print" /\ lock' = lock /\ flagCache' = flagCache
        /\ refresh' = [refresh EXCEPT !.stage = "flags"]
        /\ printCache' = [printCache EXCEPT ![ws][vid] = refresh.print]
    BY <1>7 DEF RefreshPrint, ws, vid
  <2>2. /\ refresh'.ws = ws /\ refresh'.vid = vid /\ refresh'.stage = "flags"
        /\ refresh'.flags = refresh.flags /\ refresh' # Idle
    BY <1>2, <2>1 DEF Refresh, Idle, ws, vid
  <2>3. /\ printCache'[ws][vid] = refresh.print
        /\ \A w \in Workspace, v \in Vid : ~(w = ws /\ v = vid) =>
              printCache'[w][v] = printCache[w][v]
    BY <1>3, <2>1 DEF StoreInv, StoreTypeOK
  <2>4. refresh.print = PrintOf(ws, vid) /\ refresh.flags = FlagsOf(ws, vid)
    BY <1>1, <2>1 DEF StoreInv, RefreshTrue, ws, vid
  <2>5. RefreshTrue'
    BY <1>1, <1>3, <1>5, <2>1, <2>2, <2>3, <2>4 DEF RefreshTrue
  <2>6. CacheCoherent'
    BY <1>1, <1>5, <1>6, <2>1, <2>2, <2>3 DEF CacheCoherent
  <2> QED BY <1>4, <2>5, <2>6
<1>8. CASE RefreshFlags(c)
  <2>1. /\ refresh.stage = "flags" /\ lock' = Free /\ printCache' = printCache
        /\ refresh' = Idle
        /\ flagCache' = [flagCache EXCEPT ![ws][vid] = refresh.flags]
    BY <1>8 DEF RefreshFlags, ws, vid
  <2>2. /\ flagCache'[ws][vid] = refresh.flags
        /\ \A w \in Workspace, v \in Vid : ~(w = ws /\ v = vid) =>
              flagCache'[w][v] = flagCache[w][v]
    BY <1>3, <2>1 DEF StoreInv, StoreTypeOK
  <2>3. printCache[ws][vid] = PrintOf(ws, vid) /\ refresh.flags = FlagsOf(ws, vid)
    BY <1>1, <2>1 DEF StoreInv, RefreshTrue, ws, vid
  <2>4. RefreshTrue'
    BY <2>1 DEF RefreshTrue
  <2>5. CacheCoherent'
    BY <1>5, <1>6, <2>1, <2>2, <2>3 DEF CacheCoherent
  <2> QED BY <1>4, <2>4, <2>5
<1> QED BY <1>7, <1>8

LEMMA ReopenInv ==
    ASSUME StoreInv, Reopen
    PROVE  RowsAtHome' /\ RefreshTrue' /\ CacheCoherent'
<1>1. RowsAtHome'
  BY DEF Reopen, tables, StoreInv, RowsAtHome
<1>2. RefreshTrue'
  BY DEF Reopen, RefreshTrue
<1>3. CacheCoherent'
  BY DEF Reopen, Loaded, tables, CacheCoherent, PrintOf, FlagsOf, Stored
<1> QED BY <1>1, <1>2, <1>3

LEMMA StepInv == StoreInv /\ [StoreNext]_storeVars => StoreInv'
<1> SUFFICES ASSUME StoreInv, [StoreNext]_storeVars PROVE StoreInv'
  OBVIOUS
<1>1. StoreTypeOK'
  BY StepType DEF StoreInv
<1>2. CASE UNCHANGED storeVars
  BY <1>1, <1>2 DEF storeVars, tables, caches, StoreInv, RowsAtHome, RefreshTrue,
                    CacheCoherent, PrintOf, FlagsOf, Stored
<1>3. CASE Reopen
  BY <1>1, <1>3, ReopenInv DEF StoreInv
<1>4. ASSUME NEW c \in Caller,
             \/ Upsert(c) \/ ClaimOwner(c) \/ SetStatus(c)
             \/ RefreshPrint(c) \/ RefreshFlags(c)
             \/ SetName(c) \/ Delete(c) \/ SetFlags(c) \/ Propose(c)
             \/ AddReceipt(c) \/ AddRecognition(c) \/ LogUsage(c)
      PROVE  RowsAtHome' /\ RefreshTrue' /\ CacheCoherent'
  BY <1>4, UpsertInv, ClaimOwnerInv, RefreshInv, SetNameInv, DeleteInv, SetFlagsInv, InsertInv
<1> QED BY <1>1, <1>2, <1>3, <1>4 DEF StoreNext, StoreInv

(* The caches that every match and every consent gate read are exact for     *)
(* every id, whatever the callers do and whenever the process restarts,      *)
(* except for the one id whose method has committed and not yet returned.    *)
THEOREM CachesCoherent == StoreSpec => []CacheCoherent
<1>1. StoreInv => CacheCoherent
  BY DEF StoreInv
<1> QED BY <1>1, InitInv, StepInv, PTL DEF StoreSpec

-----------------------------------------------------------------------------
(* The workspaces *)

\* What the two append-only logs say was done under the id's own workspace.
TrailsAtHome ==
    /\ \A i \in DOMAIN audit : audit[i].ws = Home[audit[i].vid]
    /\ \A i \in DOMAIN ledger :
          ledger[i].event = "forget" => ledger[i].ws = Home[ledger[i].vid]

\* What the caches hold is listed under the id's own workspace.
CachesAtHome ==
    \A ws \in Workspace, vid \in Vid :
        (printCache[ws][vid] # NoEntry \/ flagCache[ws][vid] # NoEntry) => ws = Home[vid]

LEMMA CachesStayHome ==
    ASSUME StoreInv, CachesAtHome, [StoreNext]_storeVars
    PROVE  CachesAtHome'
<1>1. \A ws \in Workspace, vid \in Vid :
          (PrintOf(ws, vid) # NoEntry \/ FlagsOf(ws, vid) # NoEntry) => ws = Home[vid]
  BY DEF StoreInv, RowsAtHome, PrintOf, FlagsOf, Stored
<1>2. CASE UNCHANGED caches
  BY <1>2 DEF caches, CachesAtHome
<1>3. CASE Reopen
  BY <1>1, <1>3 DEF Reopen, Loaded, CachesAtHome
<1>4. ASSUME NEW c \in Caller, RefreshPrint(c) \/ RefreshFlags(c)
      PROVE  CachesAtHome'
  <2>1. refresh \in Refresh /\ lock # Free
    BY <1>4, StoreAssumption DEF StoreInv, StoreTypeOK, Idle, RefreshPrint, RefreshFlags
  <2>2. refresh.ws \in Workspace /\ refresh.vid \in Vid
    BY <2>1 DEF Refresh
  <2>3. CASE RefreshPrint(c)
    <3>1. refresh.print = PrintOf(refresh.ws, refresh.vid)
      BY <2>1, <2>3 DEF RefreshPrint, StoreInv, RefreshTrue
    <3>2. \A ws \in Workspace, vid \in Vid :
              /\ flagCache'[ws][vid] = flagCache[ws][vid]
              /\ \/ printCache'[ws][vid] = printCache[ws][vid]
                 \/ ws = refresh.ws /\ vid = refresh.vid /\ printCache'[ws][vid] = refresh.print
      BY <2>2, <2>3 DEF RefreshPrint, StoreInv, StoreTypeOK
    <3> QED BY <1>1, <2>2, <3>1, <3>2 DEF CachesAtHome
  <2>4. CASE RefreshFlags(c)
    <3>1. refresh.flags = FlagsOf(refresh.ws, refresh.vid)
      BY <2>1 DEF StoreInv, RefreshTrue
    <3>2. \A ws \in Workspace, vid \in Vid :
              /\ printCache'[ws][vid] = printCache[ws][vid]
              /\ \/ flagCache'[ws][vid] = flagCache[ws][vid]
                 \/ ws = refresh.ws /\ vid = refresh.vid /\ flagCache'[ws][vid] = refresh.flags
      BY <2>2, <2>4 DEF RefreshFlags, StoreInv, StoreTypeOK
    <3> QED BY <1>1, <2>2, <3>1, <3>2 DEF CachesAtHome
  <2> QED BY <1>4, <2>3, <2>4
<1>5. ASSUME NEW c \in Caller,
             \/ Upsert(c) \/ ClaimOwner(c) \/ SetStatus(c)
             \/ SetName(c) \/ Delete(c) \/ SetFlags(c) \/ Propose(c)
             \/ AddReceipt(c) \/ AddRecognition(c) \/ LogUsage(c)
      PROVE  UNCHANGED caches
  BY <1>5 DEF Upsert, upsert, ClaimOwner, claim_owner, SetStatus, set_status, SetName, set_name,
              Delete, delete, SetFlags, set_flags, Propose, propose, AddReceipt,
              add_deletion_receipt, AddRecognition, add_recognition, LogUsage, log_usage, Cached
<1>6. CASE UNCHANGED storeVars
  BY <1>2, <1>6 DEF storeVars
<1> QED BY <1>2, <1>3, <1>4, <1>5, <1>6 DEF StoreNext

\* The rows of a table after an insert are those it had and the new one.
LEMMA InsertKeeps ==
    ASSUME NEW S, NEW table \in Seq(S), NEW entry \in S,
           NEW new \in {Append(table, entry), table \o <<entry>>, table \o <<entry, entry>>}
    PROVE  \A i \in DOMAIN new : new[i] = entry \/ (i \in DOMAIN table /\ new[i] = table[i])
<1>1. CASE new = Append(table, entry)
  BY <1>1
<1>2. CASE new = table \o <<entry>>
  BY <1>2
<1>3. CASE new = table \o <<entry, entry>>
  <2>1. <<entry, entry>> \in Seq(S) /\ Len(<<entry, entry>>) = 2
    OBVIOUS
  <2>2. \A j \in 1..2 : <<entry, entry>>[j] = entry
    OBVIOUS
  <2> QED BY <1>3, <2>1, <2>2
<1> QED BY <1>1, <1>2, <1>3

LEMMA TrailsStayHome ==
    ASSUME StoreInv, TrailsAtHome, [StoreNext]_storeVars
    PROVE  TrailsAtHome'
<1> DEFINE AtHome(entry) == entry.event = "forget" => entry.ws = Home[entry.vid]
<1>1. CASE UNCHANGED <<audit, ledger>>
  BY <1>1 DEF TrailsAtHome
<1>2. ledger \in Seq(LedgerEntry) /\ audit \in Seq(AuditEntry)
  BY DEF StoreInv, StoreTypeOK
<1>3. \A ws \in Workspace, vid \in Vid : Stored(ws, vid) => ws = Home[vid]
  BY DEF StoreInv, RowsAtHome, Stored
<1>4. ASSUME NEW entry \in LedgerEntry, AtHome(entry), UNCHANGED audit,
             \/ ledger' = Append(ledger, entry)
             \/ ledger' = ledger \o <<entry>>
             \/ ledger' = ledger \o <<entry, entry>>
      PROVE  TrailsAtHome'
  <2> DEFINE Kept(new) ==
          \A i \in DOMAIN new : new[i] = entry \/ (i \in DOMAIN ledger /\ new[i] = ledger[i])
  <2>1. /\ Kept(Append(ledger, entry))
        /\ Kept(ledger \o <<entry>>)
        /\ Kept(ledger \o <<entry, entry>>)
    BY <1>2, <1>4, InsertKeeps
  <2>2. Kept(ledger')
    <3> HIDE DEF Kept
    <3> QED BY <1>4, <2>1
  <2> QED BY <1>4, <2>2 DEF TrailsAtHome
<1>5. ASSUME NEW c \in Caller, NEW ws \in Workspace, NEW vid \in Vid, NEW name \in Name,
             NEW actor \in Actor, set_name(c, ws, vid, name, actor)
      PROVE  TrailsAtHome'
  <2>1. CASE ~Stored(ws, vid)
    BY <1>1, <1>5, <2>1 DEF set_name
  <2>2. CASE Stored(ws, vid)
    <3> DEFINE bound == [ws |-> ws, vid |-> vid, old |-> rows[vid].name,
                         new |-> name, actor |-> actor]
               entry == Record(ws, vid, "name_bind", actor)
    <3>1. audit' = Append(audit, bound) /\ ledger' = Append(ledger, entry)
      BY <1>5, <2>2 DEF set_name
    <3>2. bound.ws = Home[bound.vid] /\ entry.event # "forget"
      BY <1>3, <2>2 DEF Record
    <3> HIDE DEF bound, entry
    <3>3. \A i \in DOMAIN audit' : audit'[i].ws = Home[audit'[i].vid]
      BY <1>2, <3>1, <3>2 DEF TrailsAtHome
    <3>4. \A i \in DOMAIN ledger' :
              ledger'[i].event = "forget" => ledger'[i].ws = Home[ledger'[i].vid]
      BY <1>2, <3>1, <3>2 DEF TrailsAtHome
    <3> QED BY <3>3, <3>4 DEF TrailsAtHome
  <2> QED BY <2>1, <2>2
<1>6. ASSUME NEW c \in Caller, NEW ws \in Workspace, NEW vid \in Vid, NEW actor \in Actor,
             delete(c, ws, vid, actor)
      PROVE  TrailsAtHome'
  <2>1. CASE ~Stored(ws, vid)
    BY <1>1, <1>6, <2>1 DEF delete
  <2>2. CASE Stored(ws, vid)
    <3> DEFINE entry == Record(ws, vid, "forget", actor)
    <3>1. entry \in LedgerEntry
      BY RecordType DEF Event
    <3>2. AtHome(entry)
      BY <1>3, <2>2 DEF Record
    <3>3. UNCHANGED audit /\ ledger' = Append(ledger, entry)
      BY <1>6, <2>2 DEF delete
    <3> HIDE DEF entry, AtHome
    <3> QED BY <1>4, <3>1, <3>2, <3>3
  <2> QED BY <2>1, <2>2
<1>7. ASSUME NEW c \in Caller, NEW ws \in Workspace, NEW vid \in Vid, NEW want \in Want,
             NEW actor \in Actor, set_flags(c, ws, vid, want, actor)
      PROVE  TrailsAtHome'
  <2> DEFINE entry == Record(ws, vid, "control", actor)
  <2>1. entry \in LedgerEntry
    BY RecordType DEF Event
  <2>2. AtHome(entry)
    BY DEF Record
  <2>3. /\ UNCHANGED audit
        /\ \/ UNCHANGED ledger
           \/ ledger' = ledger \o <<entry>>
           \/ ledger' = ledger \o <<entry, entry>>
    BY <1>7 DEF set_flags
  <2> HIDE DEF entry, AtHome
  <2> QED BY <1>1, <1>4, <2>1, <2>2, <2>3
<1>8. ASSUME NEW c \in Caller, NEW ws \in Workspace, NEW vid \in Vid,
             NEW event \in LoggedEvent, NEW actor \in Actor, log_usage(c, ws, vid, event, actor)
      PROVE  TrailsAtHome'
  <2> DEFINE entry == Record(ws, vid, event, actor)
  <2>1. entry \in LedgerEntry
    BY RecordType DEF Event
  <2>2. AtHome(entry)
    BY DEF Record, LoggedEvent
  <2>3. UNCHANGED audit /\ ledger' = Append(ledger, entry)
    BY <1>8 DEF log_usage
  <2> HIDE DEF entry, AtHome
  <2> QED BY <1>4, <2>1, <2>2, <2>3
<1>9. ASSUME NEW c \in Caller,
             \/ Upsert(c) \/ ClaimOwner(c) \/ SetStatus(c) \/ Propose(c)
             \/ AddReceipt(c) \/ AddRecognition(c) \/ RefreshPrint(c) \/ RefreshFlags(c)
      PROVE  UNCHANGED <<audit, ledger>>
  BY <1>9 DEF Upsert, upsert, ClaimOwner, claim_owner, SetStatus, set_status, Propose, propose,
              AddReceipt, add_deletion_receipt, AddRecognition, add_recognition,
              RefreshPrint, RefreshFlags, tables
<1>10. CASE Reopen \/ UNCHANGED storeVars
  BY <1>1, <1>10 DEF Reopen, storeVars, tables
<1>11. ASSUME NEW c \in Caller, SetName(c) \/ Delete(c) \/ SetFlags(c) \/ LogUsage(c)
       PROVE  TrailsAtHome'
  BY <1>5, <1>6, <1>7, <1>8, <1>11 DEF SetName, Delete, SetFlags, LogUsage
<1> QED BY <1>1, <1>9, <1>10, <1>11 DEF StoreNext

(* No call made under one workspace touches a voiceprint of another: not its *)
(* row, not its cache entries, not its audit trail, not its erasure.         *)
THEOREM WorkspacesIsolated == StoreSpec => []WorkspaceIsolation
<1> DEFINE Inv == StoreInv /\ CachesAtHome /\ TrailsAtHome
<1>1. StoreInit => Inv
  <2> SUFFICES ASSUME StoreInit PROVE CachesAtHome /\ TrailsAtHome
    BY InitInv
  <2>1. TrailsAtHome
    BY DEF StoreInit, TrailsAtHome
  <2>2. CachesAtHome
    BY DEF StoreInit, Loaded, PrintOf, FlagsOf, Stored, CachesAtHome
  <2> QED BY <2>1, <2>2
<1>2. Inv /\ [StoreNext]_storeVars => Inv'
  BY StepInv, CachesStayHome, TrailsStayHome
<1>3. Inv => WorkspaceIsolation
  BY DEF StoreInv, RowsAtHome, CachesAtHome, TrailsAtHome, WorkspaceIsolation
<1> QED BY <1>1, <1>2, <1>3, PTL DEF StoreSpec
-----------------------------------------------------------------------------
(* The append-only tables *)

\* What a step does to the tables nothing is deleted from.
TrailsGrow ==
    /\ \A i \in DOMAIN ledger : i \in DOMAIN ledger' /\ ledger'[i] = ledger[i]
    /\ \A i \in DOMAIN audit : i \in DOMAIN audit' /\ audit'[i] = audit[i]
    /\ \A i \in DOMAIN receipts : i \in DOMAIN receipts' /\ receipts'[i] = receipts[i]
    /\ \A i \in DOMAIN proposals :
          /\ i \in DOMAIN proposals'
          /\ proposals'[i].ws = proposals[i].ws /\ proposals'[i].vid = proposals[i].vid
          /\ proposals'[i].email = proposals[i].email /\ proposals'[i].name = proposals[i].name

\* An insert leaves the rows of a table where they were.
LEMMA InsertGrows ==
    ASSUME NEW S, NEW table \in Seq(S), NEW e, NEW new,
           \/ new = table \/ new = Append(table, e)
           \/ new = table \o <<e>> \/ new = table \o <<e, e>>
    PROVE  \A i \in DOMAIN table : i \in DOMAIN new /\ new[i] = table[i]
<1>1. CASE new = table
  BY <1>1
<1>2. CASE new = Append(table, e)
  BY <1>2
<1>3. CASE new = table \o <<e>>
  BY <1>3
<1>4. CASE new = table \o <<e, e>>
  BY <1>4
<1> QED BY <1>1, <1>2, <1>3, <1>4

LEMMA StepGrows ==
    ASSUME StoreTypeOK, [StoreNext]_storeVars
    PROVE  TrailsGrow
<1> DEFINE Grows(old, new) == \A i \in DOMAIN old : i \in DOMAIN new /\ new[i] = old[i]
           Added(old, new) == \E e : \/ new = old \/ new = Append(old, e)
                                     \/ new = old \o <<e>> \/ new = old \o <<e, e>>
           Kept == \A i \in DOMAIN proposals :
                       /\ i \in DOMAIN proposals'
                       /\ proposals'[i].ws = proposals[i].ws
                       /\ proposals'[i].vid = proposals[i].vid
                       /\ proposals'[i].email = proposals[i].email
                       /\ proposals'[i].name = proposals[i].name
<1>1. \A S : \A old \in Seq(S) : \A new : Added(old, new) => Grows(old, new)
  BY InsertGrows
<1>2. /\ ledger \in Seq(LedgerEntry) /\ audit \in Seq(AuditEntry)
      /\ receipts \in Seq(Receipt) /\ proposals \in Seq(Proposal)
  BY DEF StoreTypeOK
<1>3. CASE UNCHANGED <<ledger, audit, receipts, proposals>>
  BY <1>3 DEF TrailsGrow
<1>4. ASSUME NEW c \in Caller,
             RefreshPrint(c) \/ RefreshFlags(c) \/ AddRecognition(c) \/ ClaimOwner(c) \/ Upsert(c)
      PROVE  UNCHANGED <<ledger, audit, receipts, proposals>>
  BY <1>4 DEF RefreshPrint, RefreshFlags, AddRecognition, add_recognition, ClaimOwner,
              claim_owner, Upsert, upsert, tables
<1>5. CASE Reopen \/ UNCHANGED storeVars
  BY <1>3, <1>5 DEF Reopen, storeVars, tables
<1>6. ASSUME NEW c \in Caller,
             SetName(c) \/ SetFlags(c) \/ Delete(c) \/ LogUsage(c) \/ AddReceipt(c)
      PROVE  /\ Added(ledger, ledger') /\ Added(audit, audit') /\ Added(receipts, receipts')
             /\ proposals' = proposals
  <2>1. CASE SetName(c)
    BY <2>1 DEF SetName, set_name
  <2>2. CASE Delete(c) \/ LogUsage(c) \/ AddReceipt(c)
    BY <2>2 DEF Delete, delete, LogUsage, log_usage, AddReceipt, add_deletion_receipt
  <2>3. CASE SetFlags(c)
    <3>1. PICK ws \in Workspace, vid \in Vid, want \in Want, actor \in Actor :
              set_flags(c, ws, vid, want, actor)
      BY <2>3 DEF SetFlags
    <3> DEFINE entry == Record(ws, vid, "control", actor)
    <3>2. /\ ledger' = ledger \/ ledger' = ledger \o <<entry, entry>>
                \/ ledger' = ledger \o <<entry>>
          /\ UNCHANGED <<audit, receipts, proposals>>
      BY <3>1 DEF set_flags
    <3> HIDE DEF entry
    <3> QED BY <3>2
  <2> QED BY <1>6, <2>1, <2>2, <2>3
<1>7. ASSUME NEW c \in Caller, Propose(c) \/ SetStatus(c)
      PROVE  UNCHANGED <<ledger, audit, receipts>> /\ Kept
  <2>1. CASE Propose(c)
    <3>1. /\ UNCHANGED <<ledger, audit, receipts>>
          /\ Added(proposals, proposals')
      BY <2>1 DEF Propose, propose
    <3>2. Grows(proposals, proposals')
      BY <1>1, <1>2, <3>1
    <3> QED BY <3>1, <3>2
  <2>2. CASE SetStatus(c)
    <3>1. PICK pid \in DOMAIN proposals, status \in {"confirmed", "denied"} :
              set_status(c, pid, status)
      BY <2>2 DEF SetStatus
    <3>2. /\ UNCHANGED <<ledger, audit, receipts>>
          /\ proposals' = [proposals EXCEPT ![pid] = [proposals[pid] EXCEPT !.status = status]]
      BY <3>1 DEF set_status
    <3>3. \A i \in DOMAIN proposals : proposals[i] \in Proposal
      BY <1>2
    <3> QED BY <1>2, <3>2, <3>3 DEF Proposal
  <2> QED BY <1>7, <2>1, <2>2
<1>8. ASSUME Added(ledger, ledger'), Added(audit, audit'), Added(receipts, receipts'),
             Kept \/ proposals' = proposals
      PROVE  TrailsGrow
  <2>1. Grows(ledger, ledger') /\ Grows(audit, audit') /\ Grows(receipts, receipts')
    BY <1>1, <1>2, <1>8
  <2> QED BY <1>8, <2>1 DEF TrailsGrow
<1> QED BY <1>3, <1>4, <1>5, <1>6, <1>7, <1>8 DEF StoreNext

(* The audit trail, the usage ledger and the receipts are append-only, and a *)
(* proposal never changes whom it tags with which name: whatever the callers *)
(* do, and across restarts, no row of them is rewritten or removed.          *)
THEOREM TrailsAppendOnly == StoreSpec => [][TrailsGrow]_storeVars
<1>1. StoreTypeOK /\ [StoreNext]_storeVars => [TrailsGrow]_storeVars
  BY StepGrows
<1> QED BY <1>1, TypeCorrect, PTL DEF StoreSpec
=============================================================================
