---------------------------- MODULE KeyBoot_proofs ----------------------------
(***************************************************************************)
(* Theorems of KeyBoot, for any ids, embedders, configured dimensions and  *)
(* number of stops, with the agent coming and going or not.                *)
(*                                                                         *)
(* What is served was checked when the process loaded the rows, and from   *)
(* then on every row is written under the process's own key.  What is      *)
(* never lost rests on a key being held only once it can be derived again: *)
(* a generated one once its file is in place.  What embeds into a row, and *)
(* what an export carries, is configured for the stamp's dimension because *)
(* nothing is served past a refused check.                                 *)
(***************************************************************************)
EXTENDS KeyBoot, TLAPS

Opened == {"meta", "load", "receipt", "receipt_file", "serving"}
Checked == {"load", "receipt", "receipt_file", "serving"}
Loaded == {"receipt", "receipt_file", "serving"}

BootTypes ==
  /\ setup \in [inTee : BOOLEAN, env : [Slots -> BOOLEAN], flaky : BOOLEAN]
  /\ config \in Deployment
  /\ disk \in [file : [Slots -> Key \cup {None}], meta : Deployment \cup {None}]
  /\ rows \in [Vids -> Row \cup {None}]
  /\ signed \subseteq Key
  /\ files \subseteq ExportFile
  /\ proc \in [phase : Phases, client : {"none", "ready", "failed"},
               key : [Slots -> Key \cup {None}], temp : Key \cup {None}]
  /\ made \in Nat

\* A key that is held can be derived again, and a file is made where none was.
KeysHeld ==
  /\ \A slot \in Slots :
       /\ proc.key[slot] # None => Derivable(slot, proc.key[slot])
       /\ proc.phase = Creating(slot) => disk.file[slot] = None /\ proc.temp # None
  /\ proc.phase \in Opened => StoreKey # None
  /\ Serving => SignKey # None

RowsRead == proc.phase \in Loaded => Readable(StoreKey)

\* Deployments configured for the stamp's dimension.
ForStamp(ds) == \A d \in ds : d.dim = disk.meta.dim

StampHolds ==
  /\ proc.phase \in Checked => disk.meta # None /\ disk.meta.dim = config.dim
  /\ disk.meta = None => files = {} /\ \A v \in Vids : rows[v] = None
  /\ \A f \in files : ForStamp(f.from)
  /\ OneDimension

BootInv == BootTypes /\ KeysHeld /\ RowsRead /\ NoKeyIsLost /\ StampHolds

LEMMA ProcessType ==
  /\ Process \in [phase : Phases, client : {"none", "ready", "failed"},
                  key : [Slots -> Key \cup {None}], temp : Key \cup {None}]
  /\ Process.phase = "down" /\ \A slot \in Slots : Process.key[slot] = None
BY DEF Process, Phases, Keyless

LEMMA InitInv == Init => BootInv
<1> SUFFICES ASSUME Init PROVE BootInv
  OBVIOUS
<1>1. BootTypes
  BY ProcessType DEF Init, BootTypes, Keyless
<1>2. KeysHeld
  BY ProcessType DEF Init, KeysHeld, Creating, Opened, Serving, Slots
<1>3. RowsRead /\ NoKeyIsLost
  BY ProcessType DEF Init, RowsRead, Loaded, NoKeyIsLost
<1>4. StampHolds
  BY ProcessType DEF Init, StampHolds, Checked, OneDimension, ForStamp
<1> QED BY <1>1, <1>2, <1>3, <1>4 DEF BootInv

\* A process that is not opening the store or serving it has nothing to keep.
LEMMA IdleProcess ==
  ASSUME BootInv, UNCHANGED <<setup, disk, rows, signed, files, made>>, config' \in Deployment,
         proc' \in [phase : {"down", "refused", "store"}, client : {"none", "ready", "failed"},
                    key : [Slots -> {None}], temp : Key \cup {None}]
  PROVE  BootInv'
<1> USE DEF BootInv
<1>1. BootTypes'
  BY DEF BootTypes, Phases
<1>2. KeysHeld'
  BY DEF BootTypes, KeysHeld, Creating, Opened, Serving, Slots
<1>3. RowsRead' /\ NoKeyIsLost'
  BY DEF RowsRead, Loaded, NoKeyIsLost, Derivable
<1>4. StampHolds'
  BY DEF StampHolds, Checked, OneDimension, ForStamp
<1> QED BY <1>1, <1>2, <1>3, <1>4

\* The process goes on with a key that can be derived in the next state; the
\* disk is as it was, or has this key where it had none.
LEMMA HoldStep ==
  ASSUME BootInv, NEW slot \in Slots, NEW k \in Key, NEW c \in {"none", "ready", "failed"},
         Hold(slot, k, c), proc.phase \in {slot, Creating(slot)},
         UNCHANGED <<setup, config, rows, signed, files>>, made' \in Nat,
         \/ disk' = disk
         \/ disk.file[slot] = None /\ disk' = [disk EXCEPT !.file[slot] = k],
         Derivable(slot, k)'
  PROVE  BootInv'
<1> USE DEF BootInv
<1>0. /\ k # None
      /\ proc'.key[slot] = k /\ \A s \in Slots \ {slot} : proc'.key[s] = proc.key[s]
      /\ proc'.phase = NextPhase(slot) /\ proc'.temp = None
  BY NoneIsNoKey DEF Hold, BootTypes
<1>s. slot = "store" \/ slot = "receipt"
  BY DEF Slots
<1>1. BootTypes'
  <2>1. proc' \in [phase : Phases, client : {"none", "ready", "failed"},
                   key : [Slots -> Key \cup {None}], temp : Key \cup {None}]
    <3>1. NextPhase(slot) \in Phases
      BY DEF NextPhase, Phases
    <3> QED BY <3>1 DEF BootTypes, Hold
  <2>2. disk' \in [file : [Slots -> Key \cup {None}], meta : Deployment \cup {None}]
    BY DEF BootTypes
  <2>3. ExportFile' = ExportFile /\ Row' = Row
    BY DEF ExportFile, Row
  <2> QED BY <2>1, <2>2, <2>3 DEF BootTypes
<1>2. \A s \in Slots, x \in Key : Derivable(s, x) => Derivable(s, x)'
  BY NoneIsNoKey DEF Derivable, BootTypes
<1>3. KeysHeld'
  <2>1. \A s \in Slots : proc'.key[s] # None => Derivable(s, proc.key[s])'
    <3> SUFFICES ASSUME NEW s \in Slots, proc'.key[s] # None
                 PROVE  Derivable(s, proc.key[s])'
      OBVIOUS
    <3>1. CASE s = slot
      <4>1. proc'.key[s] = k
        BY <1>0, <3>1
      <4> QED BY <3>1, <4>1 DEF Derivable
    <3>2. CASE s # slot
      <4>1. proc'.key[s] = proc.key[s] /\ proc.key[s] \in Key
        BY <1>0, <3>2 DEF BootTypes
      <4>2. Derivable(s, proc.key[s])
        BY <4>1 DEF KeysHeld
      <4>3. (setup.inTee = setup'.inTee) /\ (setup.env[s] = setup'.env[s]) /\ disk'.file[s] = disk.file[s]
        BY <3>2 DEF BootTypes
      <4> QED BY <4>1, <4>2, <4>3 DEF Derivable
    <3> QED BY <3>1, <3>2
  <2>2. \A s \in Slots : proc'.phase # Creating(s)
    BY <1>0 DEF Creating, NextPhase
  <2>3. proc'.key["store"] # None
    <3>1. CASE slot = "store"
      BY <1>0, <3>1
    <3>2. CASE slot = "receipt"
      <4>1. proc.phase \in Opened
        BY <3>2 DEF Opened, Creating
      <4> QED BY <1>0, <3>2, <4>1 DEF KeysHeld, Slots, StoreKey
    <3> QED BY <3>1, <3>2, <1>s
  <2>4. proc'.phase = "serving" => proc'.key["receipt"] # None
    BY <1>0 DEF NextPhase, Slots
  <2>5. (proc'.phase \in Opened => StoreKey' # None) /\ (Serving' => SignKey' # None)
    BY <2>3, <2>4 DEF Serving, StoreKey, SignKey
  <2> QED BY <2>1, <2>2, <2>5 DEF KeysHeld
<1>4. RowsRead'
  <2>1. CASE slot = "store"
    BY <1>0, <2>1 DEF RowsRead, Loaded, NextPhase
  <2>2. CASE slot = "receipt"
    <3>1. proc.phase \in Loaded /\ StoreKey' = StoreKey
      BY <1>0, <2>2 DEF Loaded, Creating, Slots, StoreKey
    <3> QED BY <3>1 DEF RowsRead, Readable
  <2> QED BY <2>1, <2>2, <1>s
<1>5. NoKeyIsLost'
  BY <1>2 DEF NoKeyIsLost, BootTypes, Row, Slots
<1>6. disk'.meta = disk.meta
  BY DEF BootTypes
<1>7. StampHolds'
  BY <1>0, <1>6 DEF StampHolds, OneDimension, ForStamp, Checked, NextPhase, Creating, Slots
<1> QED BY <1>1, <1>3, <1>4, <1>5, <1>7

LEMMA ClientType ==
  ASSUME BootInv, NEW c \in Clients
  PROVE  c \in {"none", "ready", "failed"}
BY DEF BootInv, BootTypes, Clients

\* Deriving a key, from the agent, the environment, a file, or a new one.
LEMMA DeriveKeyStep ==
  ASSUME BootInv, NEW slot \in Slots, DeriveKey(slot)
  PROVE  BootInv'
<1>1. CASE UseSealed(slot)
  <2>1. PICK c \in Clients : Sealed(c) /\ Hold(slot, SealedKey, c)
    BY <1>1 DEF UseSealed
  <2>2. SealedKey \in Key
    BY DEF SealedKey, Key
  <2>3. Derivable(slot, SealedKey)'
    BY <1>1, <2>1 DEF UseSealed, Sealed, Derivable
  <2>4. made' \in Nat
    BY <1>1 DEF UseSealed, BootInv, BootTypes
  <2> QED BY <1>1, <2>1, <2>2, <2>3, <2>4, ClientType, HoldStep DEF UseSealed
<1>2. CASE FallBack(slot)
  <2>1. PICK c \in Clients :
            \/ setup.env[slot] /\ Hold(slot, EnvKey, c)
            \/ disk.file[slot] # None /\ Hold(slot, disk.file[slot], c)
    BY <1>2 DEF FallBack
  <2>2. EnvKey \in Key /\ (disk.file[slot] # None => disk.file[slot] \in Key)
    BY DEF EnvKey, Key, BootInv, BootTypes
  <2>3. /\ UNCHANGED <<setup, config, disk, rows, signed, files>> /\ made' \in Nat
        /\ proc.phase = slot
    BY <1>2 DEF FallBack, BootInv, BootTypes
  <2>4. CASE setup.env[slot] /\ Hold(slot, EnvKey, c)
    <3>1. Derivable(slot, EnvKey)'
      BY <2>3, <2>4 DEF Derivable
    <3> QED BY <2>2, <2>3, <2>4, <3>1, ClientType, HoldStep
  <2>5. CASE disk.file[slot] # None /\ Hold(slot, disk.file[slot], c)
    <3> DEFINE k == disk.file[slot]
    <3>1. PICK x \in Key : x = disk.file[slot]
      BY <2>2, <2>5
    <3>2. Derivable(slot, x)'
      BY <2>3, <3>1 DEF Derivable
    <3> QED BY <2>3, <2>5, <3>1, <3>2, ClientType, HoldStep
  <2> QED BY <2>1, <2>4, <2>5
<1>3. CASE WriteTemp(slot)
  <2> USE DEF BootInv
  <2>1. PICK c \in Clients : proc' = [proc EXCEPT !.phase = Creating(slot), !.client = c,
                                              !.temp = FileKey(made + 1)]
    BY <1>3 DEF WriteTemp
  <2>2. FileKey(made + 1) \in Key /\ FileKey(made + 1) # None /\ made' \in Nat
    BY <1>3, NoneIsNoKey DEF WriteTemp, FileKey, Key, BootTypes
  <2>3. /\ proc'.phase = Creating(slot) /\ proc'.temp = FileKey(made + 1)
        /\ proc'.key = proc.key /\ proc.phase = slot /\ disk.file[slot] = None
        /\ UNCHANGED <<setup, config, disk, rows, signed, files>>
    BY <1>3, <2>1 DEF WriteTemp, BootTypes
  <2>4. BootTypes'
    <3>1. Creating(slot) \in Phases
      BY DEF Creating, Phases
    <3> QED BY <2>1, <2>2, <2>3, <3>1, ClientType DEF BootTypes
  <2>5. slot = "store" \/ slot = "receipt"
    BY DEF Slots
  <2>6. KeysHeld'
    <3>1. \A s \in Slots : proc'.key[s] # None => Derivable(s, proc.key[s])'
      BY <2>3 DEF KeysHeld, Derivable
    <3>2. \A s \in Slots : proc'.phase = Creating(s) => disk'.file[s] = None /\ proc'.temp # None
      BY <2>2, <2>3, <2>5 DEF Creating, Slots
    <3>3. (proc'.phase \in Opened => proc'.key["store"] # None) /\ proc'.phase # "serving"
      BY <2>3, <2>5 DEF Creating, Opened, KeysHeld, StoreKey
    <3> QED BY <3>1, <3>2, <3>3 DEF KeysHeld, StoreKey, Serving
  <2>7. RowsRead'
    BY <2>3, <2>5 DEF RowsRead, Readable, Loaded, Creating, StoreKey
  <2>8. NoKeyIsLost'
    BY <2>3 DEF NoKeyIsLost, Derivable
  <2>9. StampHolds'
    BY <2>3, <2>5 DEF StampHolds, Checked, Creating, OneDimension, ForStamp
  <2> QED BY <2>4, <2>6, <2>7, <2>8, <2>9
<1>4. CASE ReplaceFile(slot)
  <2>1. /\ disk.file[slot] = None /\ proc.temp \in Key
        /\ proc.client \in {"none", "ready", "failed"} /\ made' \in Nat
    BY <1>4 DEF ReplaceFile, BootInv, BootTypes, KeysHeld
  <2>2. disk'.file[slot] = proc.temp
    BY <1>4 DEF ReplaceFile, BootInv, BootTypes
  <2>3. PICK x \in Key : x = proc.temp
    BY <2>1
  <2>4. Derivable(slot, x)'
    BY <2>2, <2>3 DEF Derivable
  <2> QED BY <1>4, <2>1, <2>3, <2>4, HoldStep DEF ReplaceFile
<1> QED BY <1>1, <1>2, <1>3, <1>4 DEF DeriveKey

\* Steps that change where the process is and nothing it holds.
LEMMA OpenStep ==
  ASSUME BootInv, CheckMeta \/ LoadCentroids
  PROVE  BootInv'
<1> USE DEF BootInv
<1>0. /\ UNCHANGED <<setup, config, rows, signed, files, made>>
      /\ proc.phase \in {"meta", "load"}
  BY DEF CheckMeta, LoadCentroids
<1>1. CASE Refuse /\ disk' = disk
  <2>1. /\ proc' \in [phase : {"down", "refused", "store"}, client : {"none", "ready", "failed"},
                      key : [Slots -> {None}], temp : Key \cup {None}]
        /\ config' \in Deployment
    BY <1>0, <1>1 DEF Refuse, Process, Keyless, BootTypes
  <2> QED BY <1>0, <1>1, <2>1, IdleProcess
<1>2. ASSUME disk.meta = None, disk' = [disk EXCEPT !.meta = config],
             proc' = [proc EXCEPT !.phase = "load"]
      PROVE  BootInv'
  <2>1. disk'.meta = config /\ disk'.file = disk.file
    BY <1>2 DEF BootTypes
  <2>2. BootTypes'
    BY <1>0, <1>2 DEF BootTypes, Phases
  <2>3. proc'.phase = "load" /\ proc'.key = proc.key
    BY <1>2 DEF BootTypes
  <2>4. KeysHeld'
    BY <1>0, <2>1, <2>3 DEF KeysHeld, Derivable, Opened, Creating, Serving, StoreKey, Slots
  <2>5. RowsRead' /\ NoKeyIsLost'
    BY <1>0, <2>1, <2>3 DEF RowsRead, Loaded, NoKeyIsLost, Derivable
  <2>6. config # None
    BY NoneIsNoKey DEF BootTypes
  <2>7. StampHolds'
    BY <1>0, <1>2, <2>1, <2>6 DEF StampHolds, OneDimension, ForStamp
  <2> QED BY <2>2, <2>4, <2>5, <2>7
<1>3. ASSUME disk' = disk, NEW p \in {"load", "receipt"}, proc' = [proc EXCEPT !.phase = p],
             disk.meta # None /\ disk.meta.dim = config.dim,
             p = "receipt" => Readable(StoreKey)
      PROVE  BootInv'
  <2>2. BootTypes'
    BY <1>0, <1>3 DEF BootTypes, Phases
  <2>3. proc'.phase = p /\ proc'.key = proc.key
    BY <1>3 DEF BootTypes
  <2>4. KeysHeld'
    BY <1>0, <1>3, <2>3 DEF KeysHeld, Derivable, Opened, Creating, Serving, StoreKey, Slots
  <2>5. RowsRead' /\ NoKeyIsLost'
    BY <1>0, <1>3, <2>3 DEF RowsRead, Loaded, Readable, StoreKey, NoKeyIsLost, Derivable
  <2>7. StampHolds'
    BY <1>0, <1>3 DEF StampHolds, OneDimension, ForStamp
  <2> QED BY <2>2, <2>4, <2>5, <2>7
<1>4. CASE CheckMeta
  BY <1>1, <1>2, <1>3, <1>4 DEF CheckMeta
<1>5. CASE LoadCentroids
  <2>1. disk.meta # None /\ disk.meta.dim = config.dim
    BY <1>5 DEF LoadCentroids, StampHolds, Checked
  <2> QED BY <1>1, <1>3, <1>5, <2>1 DEF LoadCentroids, StoreKey
<1> QED BY <1>4, <1>5

\* Starting, stopping and redeploying leave a process that holds no key.
LEMMA LaunchStep ==
  ASSUME BootInv, Launch \/ Stop \/ \E d \in Deployment : Redeploy(d)
  PROVE  BootInv'
<1>1. CASE Launch \/ Stop
  <2>1. /\ proc' \in [phase : {"down", "refused", "store"}, client : {"none", "ready", "failed"},
                      key : [Slots -> {None}], temp : Key \cup {None}]
        /\ config' \in Deployment
        /\ UNCHANGED <<setup, disk, rows, signed, files, made>>
    BY <1>1 DEF Launch, Stop, Process, Keyless, BootInv, BootTypes
  <2> QED BY <2>1, IdleProcess
<1>2. ASSUME NEW d \in Deployment, Redeploy(d) PROVE BootInv'
  <2> USE DEF BootInv
  <2>1. /\ UNCHANGED <<setup, disk, rows, signed, files, proc, made>>
        /\ config' = d /\ proc.phase \in {"down", "refused"}
    BY <1>2 DEF Redeploy
  <2>2. BootTypes'
    BY <2>1 DEF BootTypes
  <2>3. KeysHeld'
    BY <2>1 DEF KeysHeld, Derivable, Serving, StoreKey, SignKey
  <2>4. RowsRead' /\ NoKeyIsLost'
    BY <2>1 DEF RowsRead, Readable, StoreKey, NoKeyIsLost, Derivable
  <2>5. StampHolds'
    BY <2>1 DEF StampHolds, Checked, OneDimension, ForStamp
  <2> QED BY <2>2, <2>3, <2>4, <2>5
<1> QED BY <1>1, <1>2

\* A row made of the right things: configured for the stamp's dimension, and
\* of its length unless some deployment misdeclared its own.
Fits(r) ==
  /\ ForStamp(r.from)
  /\ r.len = disk.meta.dim \/ \E d \in r.from : Misdeclared(d)

\* What a serving process writes: rows under its own key, signatures with it.
LEMMA ServeStep ==
  ASSUME BootInv, Serving, UNCHANGED <<setup, config, disk, proc, made>>,
         rows' \in [Vids -> Row \cup {None}], files' \subseteq ExportFile,
         signed' \subseteq signed \cup {SignKey},
         \A v \in Vids : rows'[v] # None =>
            rows'[v] = rows[v] \/ (rows'[v].key = StoreKey /\ Fits(rows'[v])),
         \A f \in files' : ForStamp(f.from)
  PROVE  BootInv'
<1> USE DEF BootInv
<1>1. /\ StoreKey \in Key /\ SignKey \in Key
      /\ Derivable("store", StoreKey) /\ Derivable("receipt", SignKey)
      /\ Readable(StoreKey) /\ disk.meta # None /\ disk.meta.dim = config.dim
  BY DEF Serving, StoreKey, SignKey, Slots, KeysHeld, BootTypes, Opened, RowsRead, Loaded,
         StampHolds, Checked
<1>2. BootTypes'
  <2>1. ExportFile' = ExportFile /\ Row' = Row
    BY DEF ExportFile, Row
  <2> QED BY <1>1, <2>1 DEF BootTypes
<1>3. KeysHeld'
  BY DEF KeysHeld, Derivable, Serving, StoreKey, SignKey
<1>4. RowsRead'
  BY <1>1 DEF RowsRead, Readable, StoreKey
<1>5. NoKeyIsLost'
  BY <1>1 DEF NoKeyIsLost, Derivable
<1>6. OneDimension'
  BY DEF StampHolds, OneDimension, Fits, ForStamp
<1>7. StampHolds'
  BY <1>1, <1>6 DEF StampHolds, Checked, ForStamp
<1> QED BY <1>2, <1>3, <1>4, <1>5, <1>7

LEMMA ServingStep ==
  ASSUME BootInv,
         \/ \E v \in Vids : Enroll(v) \/ Forget(v) \/ Export(v)
         \/ \E f \in files : Import(f)
  PROVE  BootInv'
<1> USE DEF BootInv
<1>0. /\ rows \in [Vids -> Row \cup {None}] /\ files \subseteq ExportFile /\ config \in Deployment
      /\ \A v \in Vids : rows[v] # None => rows[v].from \in SUBSET Deployment
      /\ \A v \in Vids : rows[v] # None => ForStamp(rows[v].from)
      /\ \A f \in files : ForStamp(f.from)
  BY DEF BootTypes, Row, StampHolds, OneDimension, ForStamp
<1>1. ASSUME Serving
      PROVE  /\ StoreKey \in Key /\ SignKey \in Key
             /\ disk.meta \in Deployment /\ disk.meta.dim = config.dim
  BY <1>1 DEF Serving, StoreKey, SignKey, Slots, KeysHeld, BootTypes, Opened, StampHolds, Checked
<1>f. ASSUME NEW v \in Vids
      PROVE  From(v) \in SUBSET Deployment /\ ForStamp(From(v))
  BY <1>0 DEF From, ForStamp
<1>2. ASSUME NEW v \in Vids, Enroll(v) PROVE BootInv'
  <2> DEFINE ds == From(v) \cup {config}
             r == [key |-> StoreKey, from |-> ds, len |-> Dim[config.model]]
  <2>1. Serving /\ UNCHANGED <<setup, config, disk, proc, made, files, signed>>
    BY <1>2 DEF Enroll
  <2>2. /\ ds \in SUBSET Deployment /\ ForStamp(ds) /\ config \in ds
        /\ Dim[config.model] \in Dims
    BY <1>0, <1>1, <1>f, <2>1, BootAssumption DEF ForStamp, Deployment
  <2>3. rows' = [rows EXCEPT ![v] = r]
    BY <1>2 DEF Enroll
  <2> HIDE DEF ds
  <2>4. r \in Row /\ r.key = StoreKey /\ Fits(r)
    <3>1. r \in Row /\ r.key = StoreKey /\ r.from = ds /\ r.len = Dim[config.model]
      BY <1>1, <2>1, <2>2 DEF Row
    <3>2. Dim[config.model] = disk.meta.dim \/ Misdeclared(config)
      BY <1>1, <2>1 DEF Misdeclared
    <3> HIDE DEF r
    <3> QED BY <2>2, <3>1, <3>2 DEF Fits
  <2> HIDE DEF r
  <2>5. /\ rows' \in [Vids -> Row \cup {None}]
        /\ rows'[v] = r /\ \A w \in Vids \ {v} : rows'[w] = rows[w]
    BY <1>0, <2>3, <2>4
  <2> QED BY <1>0, <2>1, <2>4, <2>5, ServeStep
<1>3. ASSUME NEW v \in Vids, Forget(v) PROVE BootInv'
  <2>1. /\ Serving /\ UNCHANGED <<setup, config, disk, proc, made, files>>
        /\ signed' = signed \cup {SignKey} /\ rows' = [rows EXCEPT ![v] = None]
    BY <1>3 DEF Forget
  <2>2. /\ rows' \in [Vids -> Row \cup {None}]
        /\ rows'[v] = None /\ \A w \in Vids \ {v} : rows'[w] = rows[w]
    BY <1>0, <2>1
  <2> QED BY <1>0, <2>1, <2>2, ServeStep
<1>4. ASSUME NEW v \in Vids, Export(v) PROVE BootInv'
  <2> DEFINE f == [vid |-> v, key |-> SignKey, stamp |-> disk.meta, from |-> rows[v].from]
  <2>1. /\ Serving /\ UNCHANGED <<setup, config, disk, proc, made, rows>>
        /\ signed' = signed \cup {SignKey} /\ files' = files \cup {f} /\ rows[v] # None
    BY <1>4 DEF Export
  <2>2. f \in ExportFile /\ f.from = rows[v].from
    BY <1>0, <1>1, <2>1 DEF ExportFile
  <2> HIDE DEF f
  <2>3. files' \subseteq ExportFile /\ \A g \in files' : ForStamp(g.from)
    BY <1>0, <2>1, <2>2
  <2> QED BY <1>0, <2>1, <2>3, ServeStep
<1>5. ASSUME NEW f \in files, Import(f) PROVE BootInv'
  <2> DEFINE v == f.vid
             ds == From(v) \cup f.from
             r == [key |-> StoreKey, from |-> ds, len |-> disk.meta.dim]
  <2>1. Serving /\ UNCHANGED <<setup, config, disk, proc, made, files, signed>>
    BY <1>5 DEF Import
  <2>2. v \in Vids /\ f.from \in SUBSET Deployment
    BY <1>0 DEF ExportFile
  <2>3. rows' = [rows EXCEPT ![v] = r]
    BY <1>5 DEF Import
  <2> HIDE DEF v
  <2>4. ds \in SUBSET Deployment /\ ForStamp(ds) /\ disk.meta.dim \in Dims
    BY <1>0, <1>1, <1>f, <2>1, <2>2 DEF ForStamp, Deployment
  <2> HIDE DEF ds
  <2>5. r \in Row /\ r.key = StoreKey /\ Fits(r)
    <3>1. r \in Row /\ r.key = StoreKey /\ r.from = ds /\ r.len = disk.meta.dim
      BY <1>1, <2>1, <2>4 DEF Row
    <3> HIDE DEF r
    <3> QED BY <2>4, <3>1 DEF Fits
  <2> HIDE DEF r
  <2>6. /\ rows' \in [Vids -> Row \cup {None}]
        /\ rows'[v] = r /\ \A w \in Vids \ {v} : rows'[w] = rows[w]
    BY <1>0, <2>2, <2>3, <2>5
  <2> QED BY <1>0, <2>1, <2>5, <2>6, ServeStep
<1> QED BY <1>2, <1>3, <1>4, <1>5

LEMMA NextInv == BootInv /\ [Next]_vars => BootInv'
<1> SUFFICES ASSUME BootInv, [Next]_vars PROVE BootInv'
  OBVIOUS
<1>1. CASE Boot
  BY <1>1, LaunchStep, OpenStep, DeriveKeyStep DEF Boot
<1>2. CASE \/ \E v \in Vids : Enroll(v) \/ Forget(v) \/ Export(v)
           \/ \E f \in files : Import(f)
  BY <1>2, ServingStep
<1>3. CASE Stop \/ \E d \in Deployment : Redeploy(d)
  BY <1>3, LaunchStep
<1>4. CASE Flip \/ UNCHANGED vars
  <2>1. UNCHANGED <<setup, config, disk, rows, signed, files, proc, made>>
    BY <1>4 DEF Flip, vars
  <2>2. BootTypes' /\ KeysHeld'
    BY <2>1 DEF BootInv, BootTypes, KeysHeld, Derivable, Serving, StoreKey, SignKey
  <2>3. RowsRead' /\ NoKeyIsLost' /\ StampHolds'
    BY <2>1 DEF BootInv, RowsRead, Readable, StoreKey, NoKeyIsLost, Derivable,
                StampHolds, OneDimension, ForStamp
  <2> QED BY <2>2, <2>3 DEF BootInv
<1> QED BY <1>1, <1>2, <1>3, <1>4 DEF Next

----------------------------------------------------------------------------
\* A process that serves can decrypt every row, whatever agent, deployment and
\* crashes the earlier ones met.
THEOREM ServesWhatItReadsAlways == Spec => []ServesWhatItReads
<1>1. BootInv => ServesWhatItReads
  BY DEF BootInv, RowsRead, Loaded, ServesWhatItReads, Serving
<1> QED BY <1>1, InitInv, NextInv, PTL DEF Spec

\* No stop loses the key of a row or of a signature.
THEOREM NoKeyIsLostAlways == Spec => []NoKeyIsLost
<1>1. BootInv => NoKeyIsLost
  BY DEF BootInv
<1> QED BY <1>1, InitInv, NextInv, PTL DEF Spec

\* What a store's rows are made of was embedded under the dimension of its
\* stamp (_check_meta), and has that length unless a deployment that embedded
\* some of it misdeclared its model's.
THEOREM OneDimensionAlways == Spec => []OneDimension
<1>1. BootInv => OneDimension
  BY DEF BootInv, StampHolds
<1> QED BY <1>1, InitInv, NextInv, PTL DEF Spec
=============================================================================
