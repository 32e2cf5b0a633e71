------------------------------ MODULE KeyBoot ------------------------------
(***************************************************************************)
(* Start-up of the identity service: which key the store encrypts under,   *)
(* which key signs receipts and exports, and whether the process can open  *)
(* the rows an earlier process left.  lifespan (main.py) opens the store   *)
(* (store.py open, crypto.py get_or_create_key) and then derives the       *)
(* receipt signer (receipts.py from_config); both ask the dstack agent     *)
(* (enclave.py) first and fall back to an environment key, then to a key   *)
(* file made on first use.  A redeploy may bring another embedder, or      *)
(* another FPM_ID_EMBED_DIM: two settings, and no code compares the second *)
(* with the embedder that is loaded.                                       *)
(*                                                                         *)
(* The agent comes and goes (or not: setup.flaky), the process is stopped  *)
(* or dies between any two steps (at most MaxStops times) and is started   *)
(* again.                                                                  *)
(***************************************************************************)
EXTENDS Naturals, FiniteSets

CONSTANTS Vids,        \* voiceprint ids
          Models,      \* embedders a deployment may configure (FPM_ID_EMBED)
          Dims,        \* dimensions it may configure (FPM_ID_EMBED_DIM)
          Dim,         \* the length of the vectors each embedder makes
          MaxStops,    \* bound on stops and crashes
          None         \* absence of a key, a row, a stamp

ASSUME BootAssumption == /\ MaxStops \in Nat
                         /\ Dim \in [Models -> Dims]

VARIABLES setup,   \* IN_TEE, which environment keys are set, a flaky agent
          config,  \* ID_EMBEDDING_MODEL and ID_EMBEDDING_DIM of the deployment
          agent,   \* the dstack agent answers
          disk,    \* the two key files and the store_meta stamp
          rows,    \* vid -> the key it is encrypted under, where its vectors come from
          signed,  \* keys that signed a receipt or an export somebody holds
          files,   \* exports somebody holds
          proc,    \* the process: phase, dstack client, the keys it holds
          made,    \* key files generated so far
          stops

vars == <<setup, config, agent, disk, rows, signed, files, proc, made, stops>>

Slots == {"store", "receipt"}
Deployment == [model : Models, dim : Dims]
Key == [src : {"sealed", "env", "file"}, gen : Nat]
ASSUME NoneIsNoKey == None \notin Key /\ None \notin Deployment
SealedKey == [src |-> "sealed", gen |-> 0]
EnvKey == [src |-> "env", gen |-> 0]
FileKey(n) == [src |-> "file", gen |-> n]

Phases == {"down", "refused", "store", "store_file", "meta", "load",
           "receipt", "receipt_file", "serving"}
Keyless == [s \in Slots |-> None]
Process == [phase |-> "down", client |-> "none", key |-> Keyless, temp |-> None]

\* The deployments that embedded a row's vectors, and the length of each.
Row == [key : Key, from : SUBSET Deployment, len : Dims]
ExportFile == [vid : Vids, key : Key, stamp : Deployment, from : SUBSET Deployment]

----------------------------------------------------------------------------
(* Deriving a key.                                                         *)

\* What _get_client leaves: a client once made and a failure once met are
\* kept; the constructor may or may not notice that the agent is away.
Clients == IF ~setup.inTee \/ proc.client # "none" THEN {proc.client}
           ELSE IF agent THEN {"ready"} ELSE {"ready", "failed"}

\* get_sealed_key answers only through a client to an agent that answers.
Sealed(c) == setup.inTee /\ c = "ready" /\ agent

NextPhase(slot) == IF slot = "store" THEN "meta" ELSE "serving"
Creating(slot) == IF slot = "store" THEN "store_file" ELSE "receipt_file"

\* The process goes on with key k.
Hold(slot, k, c) ==
  proc' = [proc EXCEPT !.phase = NextPhase(slot), !.client = c, !.key[slot] = k, !.temp = None]

\* get_or_create_key and from_config: sealed, then environment, then file.
UseSealed(slot) ==
  /\ proc.phase = slot
  /\ \E c \in Clients : Sealed(c) /\ Hold(slot, SealedKey, c)
  /\ UNCHANGED <<setup, config, agent, disk, rows, signed, files, made, stops>>

FallBack(slot) ==
  /\ proc.phase = slot
  /\ \E c \in Clients :
       /\ ~Sealed(c)
       /\ \/ setup.env[slot] /\ Hold(slot, EnvKey, c)
          \/ ~setup.env[slot] /\ disk.file[slot] # None /\ Hold(slot, disk.file[slot], c)
  /\ UNCHANGED <<setup, config, agent, disk, rows, signed, files, made, stops>>

\* Mutant: the generated key is used but the file is never put in place.
WriteTemp_Unsaved(slot) ==
  /\ proc.phase = slot
  /\ ~setup.env[slot]
  /\ disk.file[slot] = None
  /\ \E c \in Clients : ~Sealed(c) /\ Hold(slot, FileKey(made + 1), c)
  /\ made' = made + 1
  /\ UNCHANGED <<setup, config, agent, disk, rows, signed, files, stops>>

\* No key file yet: random bytes go to a temporary file ...
WriteTemp(slot) ==
  /\ proc.phase = slot
  /\ ~setup.env[slot]
  /\ disk.file[slot] = None
  /\ \E c \in Clients :
       /\ ~Sealed(c)
       /\ proc' = [proc EXCEPT !.phase = Creating(slot), !.client = c, !.temp = FileKey(made + 1)]
  /\ made' = made + 1
  /\ UNCHANGED <<setup, config, agent, disk, rows, signed, files, stops>>

\* ... and os.replace puts it in place before the key is returned.
ReplaceFile(slot) ==
  /\ proc.phase = Creating(slot)
  /\ disk' = [disk EXCEPT !.file[slot] = proc.temp]
  /\ Hold(slot, proc.temp, proc.client)
  /\ UNCHANGED <<setup, config, agent, rows, signed, files, made, stops>>

----------------------------------------------------------------------------
(* Opening the store.                                                      *)

Refuse == proc' = [Process EXCEPT !.phase = "refused"]

\* Mutant: a start that failed is not tried again.
Launch_OnlyOnce ==
  /\ proc.phase = "down"
  /\ proc' = [Process EXCEPT !.phase = "store"]
  /\ UNCHANGED <<setup, config, agent, disk, rows, signed, files, made, stops>>

\* lifespan begins: the container starts the process (restart: always).
Launch ==
  /\ proc.phase \in {"down", "refused"}
  /\ proc' = [Process EXCEPT !.phase = "store"]
  /\ UNCHANGED <<setup, config, agent, disk, rows, signed, files, made, stops>>

\* Mutant: an existing stamp is not compared.
CheckMeta_StampsOnly ==
  /\ proc.phase = "meta"
  /\ disk' = [disk EXCEPT !.meta = IF @ = None THEN config ELSE @]
  /\ proc' = [proc EXCEPT !.phase = "load"]
  /\ UNCHANGED <<setup, config, agent, rows, signed, files, made, stops>>

\* _check_meta stamps an empty store with the two settings, and compares the
\* configured dimension with another's; the stamped model is not compared.
CheckMeta ==
  /\ proc.phase = "meta"
  /\ \/ /\ disk.meta = None
        /\ disk' = [disk EXCEPT !.meta = config]
        /\ proc' = [proc EXCEPT !.phase = "load"]
     \/ /\ disk.meta # None
        /\ UNCHANGED disk
        /\ IF disk.meta.dim = config.dim THEN proc' = [proc EXCEPT !.phase = "load"] ELSE Refuse
  /\ UNCHANGED <<setup, config, agent, rows, signed, files, made, stops>>

Readable(k) == \A v \in Vids : rows[v] # None => rows[v].key = k

\* Mutant: rows that cannot be decrypted are skipped with a warning.
LoadCentroids_Skips ==
  /\ proc.phase = "load"
  /\ proc' = [proc EXCEPT !.phase = "receipt"]
  /\ UNCHANGED <<setup, config, agent, disk, rows, signed, files, made, stops>>

\* _load_centroids decrypts every centroid; one under another key raises.
LoadCentroids ==
  /\ proc.phase = "load"
  /\ IF Readable(proc.key["store"]) THEN proc' = [proc EXCEPT !.phase = "receipt"] ELSE Refuse
  /\ UNCHANGED <<setup, config, agent, disk, rows, signed, files, made, stops>>

----------------------------------------------------------------------------
(* Serving.                                                                *)

Serving == proc.phase = "serving"
StoreKey == proc.key["store"]
SignKey == proc.key["receipt"]
From(v) == IF rows[v] = None THEN {} ELSE rows[v].from

\* An enrolment or a mint embeds with the running model, of whatever length;
\* upsert encrypts the whole row again under the running key.  get() cuts a
\* stored row into vectors of the configured dimension, and comparing or
\* stacking those with an embedding of another length raises.
Enroll(v) ==
  /\ Serving
  /\ rows[v] = None \/ Dim[config.model] = config.dim
  /\ rows' = [rows EXCEPT ![v] = [key |-> StoreKey, from |-> From(v) \cup {config},
                                 len |-> Dim[config.model]]]
  /\ UNCHANGED <<setup, config, agent, disk, signed, files, proc, made, stops>>

\* forget_me deletes the row and hands out a signed receipt.
Forget(v) ==
  /\ Serving
  /\ rows[v] # None
  /\ rows' = [rows EXCEPT ![v] = None]
  /\ signed' = signed \cup {SignKey}
  /\ UNCHANGED <<setup, config, agent, disk, files, proc, made, stops>>

\* An export is stamped as the store is, not as the process is configured.
Export(v) ==
  /\ Serving
  /\ rows[v] # None
  /\ signed' = signed \cup {SignKey}
  /\ files' = files \cup {[vid |-> v, key |-> SignKey, stamp |-> disk.meta, from |-> rows[v].from]}
  /\ UNCHANGED <<setup, config, agent, disk, rows, proc, made, stops>>

\* An import is let in by the running signer's signature and the stamp; what
\* it leaves are vectors of the stamp's dimension, as its exemplars are.
Import(f) ==
  /\ Serving
  /\ f.key = SignKey
  /\ f.stamp = disk.meta
  /\ rows' = [rows EXCEPT ![f.vid] = [key |-> StoreKey, from |-> From(f.vid) \cup f.from,
                                     len |-> disk.meta.dim]]
  /\ UNCHANGED <<setup, config, agent, disk, signed, files, proc, made, stops>>

----------------------------------------------------------------------------
(* The surroundings.                                                       *)

\* The process is stopped or dies; what it held in memory is gone.
Stop ==
  /\ stops < MaxStops
  /\ proc.phase \notin {"down", "refused"}
  /\ proc' = Process
  /\ stops' = stops + 1
  /\ UNCHANGED <<setup, config, agent, disk, rows, signed, files, made>>

\* A stopped service is deployed again with other settings of the operator's.
Redeploy(d) ==
  /\ proc.phase \in {"down", "refused"}
  /\ d # config
  /\ config' = d
  /\ UNCHANGED <<setup, agent, disk, rows, signed, files, proc, made, stops>>

Flip ==
  /\ setup.flaky
  /\ agent' = ~agent
  /\ UNCHANGED <<setup, config, disk, rows, signed, files, proc, made, stops>>

Init ==
  /\ setup \in [inTee : BOOLEAN, env : [Slots -> BOOLEAN], flaky : BOOLEAN]
  /\ config \in Deployment
  /\ agent \in BOOLEAN
  /\ disk = [file |-> Keyless, meta |-> None]
  /\ rows = [v \in Vids |-> None]
  /\ signed = {}
  /\ files = {}
  /\ proc = Process
  /\ made = 0
  /\ stops = 0

DeriveKey(slot) == UseSealed(slot) \/ FallBack(slot) \/ WriteTemp(slot) \/ ReplaceFile(slot)
Boot == Launch \/ CheckMeta \/ LoadCentroids \/ \E slot \in Slots : DeriveKey(slot)

Next ==
  \/ Boot
  \/ \E v \in Vids : Enroll(v) \/ Forget(v) \/ Export(v)
  \/ \E f \in files : Import(f)
  \/ Stop
  \/ \E d \in Deployment : Redeploy(d)
  \/ Flip

Spec == Init /\ [][Next]_vars
FairSpec == Spec /\ WF_vars(Boot)

----------------------------------------------------------------------------
(* Properties.                                                             *)

\* Whatever the agent did at earlier starts, a serving process decrypts every
\* row, so get(), matching and export never meet a blob under another key.
ServesWhatItReads == Serving => Readable(StoreKey)

\* No stop, not even between the temporary key file and its replacement,
\* leaves a row or a signature whose key the deployment could not derive
\* again: the key is sealed, in the environment, or in the key file.
Derivable(slot, k) ==
  \/ k = SealedKey /\ setup.inTee
  \/ k = EnvKey /\ setup.env[slot]
  \/ k = disk.file[slot]
NoKeyIsLost ==
  /\ \A v \in Vids : rows[v] # None => Derivable("store", rows[v].key)
  /\ \A k \in signed : Derivable("receipt", k)

\* However deployments, imports and enrolments alternate, what a row is made
\* of was embedded under the dimension of the store's stamp (_check_meta), so
\* its vectors have that length -- unless a deployment that embedded some of
\* them named another dimension than its model's (FPM_ID_EMBED_DIM is set
\* apart from FPM_ID_EMBED, and the loaded embedder is not checked).
Misdeclared(d) == Dim[d.model] # d.dim
OneDimension ==
  \A v \in Vids : rows[v] # None =>
    /\ \A d \in rows[v].from : d.dim = disk.meta.dim
    /\ rows[v].len = disk.meta.dim \/ \E d \in rows[v].from : Misdeclared(d)

\* The store could be opened by a process started now.
Bootable ==
  /\ Readable(IF setup.inTee /\ agent THEN SealedKey
              ELSE IF setup.env["store"] THEN EnvKey ELSE disk.file["store"])
  /\ disk.meta # None => disk.meta.dim = config.dim

\* Once the agent and the deployment are again such that the rows can be
\* read, restarts bring the service back, whatever key or embedder the
\* process that happened to be starting had picked up.
ComesBack == <>[]Bootable => []<>Serving
=============================================================================
