------------------------------ MODULE NodeData -------------------------------
(***************************************************************************)
(* What a ChainNode needs before its pod can start: keys, account, data    *)
(* volume and genesis (keys.go, account.go, pvc.go, genesis.go), and what  *)
(* is kept of the volume while it runs: the height of its data and its     *)
(* size (ensurePvcUpdates).                                                *)
(*                                                                         *)
(* A reconciliation is a sequence of steps and may end after any of them,  *)
(* by a crash or because a write is refused.  Pods mount a volume by the   *)
(* name of its claim: whichever volume has the name when they start.  A    *)
(* volume can be deleted, and someone else can make another of its name,   *)
(* at any time.  Sizes are in blocks: the data of height h takes h.  Owner *)
(* references and stamps of volumes and secrets are left to Cleanup,       *)
(* replacing the pod to Disruption and Upgrades.                           *)
(***************************************************************************)
EXTENDS Naturals

CONSTANTS Specs,      \* records [restore, size, extra, auto, genesis]:
                      \*   restore: the snapshot to start from, [known, ann, height,
                      \*     size] (known: it has a height annotation), or NoSnapshot
                      \*   size, extra: of the data volume, of an additional one
                      \*   auto: how to resize, [above, by, max], or NoResize
                      \*   genesis: "map" (a ConfigMap), "volume" or "init" (made here)
          MaxHeight,  \* bound on the height of the chain
          MaxVolumes, \* bound on the data volumes made in the life of the node
          MaxKeys,    \* bound on the keys generated
          MaxFaults   \* bound on crashes, deletions and edits

VARIABLES spec,    \* the ChainNode's spec
          status,  \* its status
          secrets, \* for each kind of key its number, or 0
          extra,   \* size of the additional volume
          vol,     \* the data volume
          genesis, \* the signing key in the genesis ConfigMap, Given, or 0: there is none
          initPod, \* the init pod: none, run, ok, failed
          pod,     \* the node pod: its phase, its volume, the height it reports
          pass,    \* the reconciliation: its step, the volume as it was read, a local
          count    \* volumes and keys made, faults

vars == <<spec, status, secrets, extra, vol, genesis, initPod, pod, pass, count>>

None == "none"
Kinds == {"node", "sign", "account"}

Blank == [node |-> 0, sign |-> 0, account |-> 0, latest |-> 0, size |-> 0, chain |-> FALSE,
          digest |-> FALSE]
NoSnapshot == [height |-> 0]
NoResize == [max |-> 0]
Given == MaxKeys + 1
NoVolume == [uid |-> 0]
NoPod == [st |-> None, uid |-> 0, rep |-> 0]
Idle == [pc |-> "idle", pvc |-> NoVolume, arg |-> 0]

Goto(step) == pass' = [pass EXCEPT !.pc = step]
Return == pass' = Idle

Exists == vol # NoVolume
Replaced == vol.uid # pass.pvc.uid

----------------------------------------------------------------------------
(* Keys and additional volumes *)

\* RequiresPrivKey, RequiresAccount: here for a node that makes the genesis.
Requires == spec.genesis = "init"

Start ==
    /\ pass.pc = "idle"
    /\ Goto("node")
    /\ UNCHANGED <<spec, status, secrets, extra, vol, genesis, initPod, pod, count>>

After(k) == CASE k = "node" -> "sign" [] k = "sign" -> "account" [] OTHER -> "extra"

SkipKey(k) == Goto(After(k)) /\ UNCHANGED <<secrets, count>>

\* A key is generated only when there is none.
EnsureSecret(k) ==
    /\ pass' = [pass EXCEPT !.pc = "key status", !.arg = k]
    /\ IF secrets[k] # 0 THEN UNCHANGED <<secrets, count>>
       ELSE /\ count.keys < MaxKeys
            /\ count' = [count EXCEPT !.keys = @ + 1]
            /\ secrets' = [secrets EXCEPT ![k] = count'.keys]

EnsureNodeKey ==
    /\ pass.pc = "node"
    /\ EnsureSecret("node")
    /\ UNCHANGED <<spec, status, extra, vol, genesis, initPod, pod>>

EnsureSigningKey ==
    /\ pass.pc = "sign"
    /\ IF Requires THEN EnsureSecret("sign") ELSE SkipKey("sign")
    /\ UNCHANGED <<spec, status, extra, vol, genesis, initPod, pod>>

\* An account that the status knows is not looked at again.
EnsureAccount ==
    /\ pass.pc = "account"
    /\ IF Requires /\ status.account = 0 THEN EnsureSecret("account") ELSE SkipKey("account")
    /\ UNCHANGED <<spec, status, extra, vol, genesis, initPod, pod>>

EnsureKeyStatus ==
    /\ pass.pc = "key status"
    /\ status' = [status EXCEPT ![pass.arg] = secrets[pass.arg]]
    /\ pass' = [Idle EXCEPT !.pc = After(pass.arg)]
    /\ UNCHANGED <<spec, secrets, extra, vol, genesis, initPod, pod, count>>

\* The API server refuses to make a volume smaller.
EnsureAdditionalVolumes ==
    /\ pass.pc = "extra"
    /\ IF extra > spec.extra THEN Return /\ UNCHANGED extra
       ELSE Goto("volume") /\ extra' = spec.extra
    /\ UNCHANGED <<spec, status, secrets, vol, genesis, initPod, pod, count>>

----------------------------------------------------------------------------
(* The data volume *)

Restores == spec.restore # NoSnapshot

\* What is on a volume: whether it was initialised, the height, a genesis file.
Data(ready, height, file) == [ready |-> ready, height |-> height, file |-> file]

\* A volume: its annotations, its size, its data; whether someone else made it; whether
\* it is one the node can account for (see Known).
Volume(marked, ann, size, data, other, clean) ==
    [uid |-> count.vols + 1, going |-> FALSE, marked |-> marked, ann |-> ann, fetched |-> FALSE,
     size |-> size, data |-> data, other |-> other, clean |-> clean]

\* Bookkeeping: the node cannot account for a volume that was made while a pod for an
\* earlier one was left over, that it restored from a snapshot with no height, or that
\* someone else put in the place of one it had.
Known == initPod = None /\ pod = NoPod /\ (Restores => spec.restore.known)
Swapped == vol.other /\ status.size # 0

\* The height in the status before a volume is made.
HeightToStart ==
    IF ~Restores THEN 0
    ELSE IF spec.restore.known THEN spec.restore.ann ELSE status.latest

\* The status of a new node that finds a volume.
Adopted ==
    IF status.size = 0 /\ status.latest # vol.ann
    THEN [status EXCEPT !.latest = vol.ann, !.size = vol.size] ELSE status

\* ensureDataVolume up to the creation.
EnsureDataVolume ==
    /\ pass.pc = "volume"
    /\ IF Exists
       THEN /\ status' = Adopted
            /\ vol' = [vol EXCEPT !.clean = @ /\ ~Swapped]
            /\ pass' = [pass EXCEPT !.pc = "data", !.pvc = vol]
       ELSE /\ status' = [status EXCEPT !.latest = HeightToStart]
            /\ Goto("create")
            /\ UNCHANGED vol
    /\ UNCHANGED <<spec, secrets, extra, genesis, initPod, pod, count>>

\* A create fails when someone else has made the volume.
CreateDataVolume ==
    /\ pass.pc = "create"
    /\ IF Exists THEN Return /\ UNCHANGED <<vol, count>>
       ELSE /\ count.vols < MaxVolumes
            /\ count' = [count EXCEPT !.vols = @ + 1]
            /\ vol' = Volume(Restores, status.latest,
                             IF Restores THEN spec.restore.size ELSE spec.size,
                             IF Restores THEN Data(TRUE, spec.restore.height, TRUE)
                             ELSE Data(FALSE, 0, FALSE),
                             FALSE, Known)
            /\ pass' = [pass EXCEPT !.pc = "size", !.pvc = vol']
    /\ UNCHANGED <<spec, status, secrets, extra, genesis, initPod, pod>>

RecordSize ==
    /\ pass.pc = "size"
    /\ status' = [status EXCEPT !.size = pass.pvc.size]
    /\ Goto("data")
    /\ UNCHANGED <<spec, secrets, extra, vol, genesis, initPod, pod, count>>

\* A variant that takes an init pod that has ended for one that has succeeded.
Ended == {"ok", "failed"}

Succeeded == {"ok"}

\* initializeData by what the init pod has come to, and the wait for a volume that is
\* being deleted.
InitializeData ==
    /\ pass.pc = "data"
    /\ IF pass.pvc.marked
       THEN (IF pass.pvc.going THEN Return ELSE Goto("genesis")) /\ UNCHANGED initPod
       ELSE \/ initPod = None /\ initPod' = "run" /\ Return
            \/ initPod = "run" /\ Return /\ UNCHANGED initPod
            \/ initPod \in Succeeded /\ initPod' = None /\ Goto("mark")
            \/ initPod \in Ended \ Succeeded /\ initPod' = None /\ Return
    /\ UNCHANGED <<spec, status, secrets, extra, vol, genesis, pod, count>>

\* markDataInitialized: the volume is read again, then annotated.
MarkDataInitialized ==
    /\ pass.pc = "mark"
    /\ IF Exists
       THEN vol' = [vol EXCEPT !.marked = TRUE] /\ pass' = [pass EXCEPT !.pc = "marked", !.pvc = vol']
       ELSE Return /\ UNCHANGED vol
    /\ UNCHANGED <<spec, status, secrets, extra, genesis, initPod, pod, count>>

MarkedSize ==
    /\ pass.pc = "marked"
    /\ status' = [status EXCEPT !.size = pass.pvc.size]
    /\ Return
    /\ UNCHANGED <<spec, secrets, extra, vol, genesis, initPod, pod, count>>

----------------------------------------------------------------------------
(* Genesis *)

OnVolume == spec.genesis = "volume"

\* A ConfigMap that is there already is kept.
CreateGenesis(content) ==
    /\ genesis' = IF genesis = 0 THEN content ELSE genesis
    /\ Goto("chain")

InitGenesis ==
    IF 0 \in {secrets["sign"], secrets["account"]} THEN Return /\ UNCHANGED genesis
    ELSE CreateGenesis(secrets["sign"])

GetGenesis == CreateGenesis(Given)

\* recordGenesisDigestIfMissing: whether there is a digest; which one it is follows
\* from the source of the genesis, which stays.
RecordGenesisDigest == [status EXCEPT !.digest = TRUE]

\* ensureGenesis: with the file on the volume the annotation says that it is there,
\* otherwise the chain ID in the status.
EnsureGenesis ==
    /\ pass.pc = "genesis"
    /\ \/ /\ OnVolume
          /\ CASE ~Exists -> Return /\ UNCHANGED status
               [] Exists /\ vol.fetched -> status' = RecordGenesisDigest /\ Goto("pod")
               [] OTHER -> /\ pass' = [pass EXCEPT !.pc = "download", !.arg = vol.uid]
                           /\ UNCHANGED status
          /\ UNCHANGED genesis
       \/ /\ ~OnVolume /\ status.chain
          /\ status' = RecordGenesisDigest
          /\ Goto("pod")
          /\ UNCHANGED genesis
       \/ /\ ~OnVolume /\ ~status.chain
          /\ IF spec.genesis = "init" THEN InitGenesis ELSE GetGenesis
          /\ UNCHANGED status
    /\ UNCHANGED <<spec, secrets, extra, vol, initPod, pod, count>>

\* A pod writes the file to the volume of that name; the annotation is written to the
\* volume that was read, and refused when it has been replaced.
DownloadGenesis ==
    /\ pass.pc = "download"
    /\ IF Exists THEN vol' = [vol EXCEPT !.data.file = TRUE] /\ Goto("downloaded")
       ELSE Return /\ UNCHANGED vol
    /\ UNCHANGED <<spec, status, secrets, extra, genesis, initPod, pod, count>>

GenesisDownloaded ==
    /\ pass.pc = "downloaded"
    /\ IF vol.uid = pass.arg THEN vol' = [vol EXCEPT !.fetched = TRUE] /\ Goto("chain")
       ELSE Return /\ UNCHANGED vol
    /\ UNCHANGED <<spec, status, secrets, extra, genesis, initPod, pod, count>>

\* SetEstablishedChainID, with the digest of a genesis made here, and the status write.
EstablishChainID ==
    /\ pass.pc = "chain"
    /\ status' = [status EXCEPT !.chain = TRUE, !.digest = @ \/ spec.genesis = "init"]
    /\ Goto("pod")
    /\ UNCHANGED <<spec, secrets, extra, vol, genesis, initPod, pod, count>>

----------------------------------------------------------------------------
(* The pod, and the upkeep of the volume *)

\* updateLatestHeight: the height that the pod reports, unless it does not know it yet.
UpdateLatestHeight == [status EXCEPT !.latest = IF pod.rep = 0 THEN @ ELSE pod.rep]

\* ensurePod: a pod that cannot be reached ends the pass.
EnsurePod ==
    /\ pass.pc = "pod"
    /\ CASE pod.st = None -> pod' = [NoPod EXCEPT !.st = "pending"] /\ Return /\ UNCHANGED status
         [] pod.st = "pending" -> Return /\ UNCHANGED <<status, pod>>
         [] OTHER -> status' = UpdateLatestHeight /\ Goto("updates") /\ UNCHANGED pod
    /\ UNCHANGED <<spec, secrets, extra, vol, genesis, initPod, count>>

Usage(size) == (100 * vol.data.height) \div size

\* getStorageSize from the size in the status: 0 when there is none to parse.
GetStorageSize ==
    LET a == spec.auto IN
    CASE a = NoResize -> spec.size
      [] a # NoResize /\ status.size = 0 -> 0
      [] OTHER -> IF Usage(status.size) <= a.above THEN status.size
                  ELSE IF status.size + a.by > a.max THEN a.max ELSE status.size + a.by

\* ensurePvcUpdates up to the height in the status.
EnsurePvcUpdates ==
    /\ pass.pc = "updates"
    /\ IF pod.st # "run" \/ GetStorageSize = 0 THEN Return /\ UNCHANGED status
       ELSE /\ status' = UpdateLatestHeight
            /\ pass' = [pass EXCEPT !.pc = "height", !.arg = GetStorageSize]
    /\ UNCHANGED <<spec, secrets, extra, vol, genesis, initPod, pod, count>>

\* A variant that writes to whichever volume has the name.
StampsAny == Exists

\* The volume that is read again must be the one that the pass has.
StampsSame == Exists /\ ~Replaced

UpdatePvcDataHeight ==
    /\ pass.pc = "height"
    /\ IF pass.pvc.ann = status.latest THEN Goto("resize") /\ UNCHANGED vol
       ELSE IF StampsSame
       THEN /\ vol' = [vol EXCEPT !.ann = status.latest]
            /\ pass' = [pass EXCEPT !.pc = "resize", !.pvc = vol']
       ELSE Return /\ UNCHANGED vol
    /\ UNCHANGED <<spec, status, secrets, extra, genesis, initPod, pod, count>>

\* A volume is never made smaller; one of the right size is only noted.
Resize ==
    /\ pass.pc = "resize"
    /\ CASE pass.pvc.size > pass.arg -> Return /\ UNCHANGED vol
         [] pass.pvc.size = pass.arg -> Goto("resized") /\ UNCHANGED vol
         [] OTHER -> IF Replaced THEN Return /\ UNCHANGED vol
                     ELSE vol' = [vol EXCEPT !.size = pass.arg] /\ Goto("resized")
    /\ UNCHANGED <<spec, status, secrets, extra, genesis, initPod, pod, count>>

Resized ==
    /\ pass.pc = "resized"
    /\ status' = [status EXCEPT !.size = pass.arg]
    /\ Return
    /\ UNCHANGED <<spec, secrets, extra, vol, genesis, initPod, pod, count>>

Pass ==
    \/ Start \/ EnsureNodeKey \/ EnsureSigningKey \/ EnsureAccount \/ EnsureKeyStatus
    \/ EnsureAdditionalVolumes
    \/ EnsureDataVolume \/ CreateDataVolume \/ RecordSize
    \/ InitializeData \/ MarkDataInitialized \/ MarkedSize
    \/ EnsureGenesis \/ DownloadGenesis \/ GenesisDownloaded \/ EstablishChainID
    \/ EnsurePod \/ EnsurePvcUpdates \/ UpdatePvcDataHeight \/ Resize \/ Resized

----------------------------------------------------------------------------
(* Pods, the chain, and others *)

\* A volume that is being deleted goes when no running pod has it.
Unless(used, v) == IF Exists /\ v.going /\ ~used THEN NoVolume ELSE v

InitPodEnds ==
    /\ initPod = "run" /\ Exists
    /\ \E ok \in BOOLEAN :
          /\ initPod' = IF ok THEN "ok" ELSE "failed"
          /\ vol' = Unless(pod.st = "run", [vol EXCEPT !.data.ready = @ \/ ok])
    /\ UNCHANGED <<spec, status, secrets, extra, genesis, pod, pass, count>>

\* The pod mounts the volume, the node key, and the genesis ConfigMap unless the file is
\* on the volume.
StartPod ==
    /\ pod.st = "pending" /\ Exists /\ ~vol.going
    /\ secrets["node"] # 0 /\ (OnVolume \/ genesis # 0)
    /\ pod' = [st |-> "run", uid |-> vol.uid, rep |-> 0]
    /\ UNCHANGED <<spec, status, secrets, extra, vol, genesis, initPod, pass, count>>

PodEnds ==
    /\ pod # NoPod
    /\ pod' = NoPod
    /\ vol' = Unless(initPod = "run", vol)
    /\ UNCHANGED <<spec, status, secrets, extra, genesis, initPod, pass, count>>

\* The node writes a block; node-utils learns of it.
Advance ==
    /\ pod.st = "run" /\ vol.data.height < MaxHeight
    /\ vol' = [vol EXCEPT !.data.height = @ + 1]
    /\ UNCHANGED <<spec, status, secrets, extra, genesis, initPod, pod, pass, count>>

Report ==
    /\ pod.st = "run" /\ pod.rep # vol.data.height
    /\ pod' = [pod EXCEPT !.rep = vol.data.height]
    /\ UNCHANGED <<spec, status, secrets, extra, vol, genesis, initPod, pass, count>>

Fault == count.faults < MaxFaults /\ count' = [count EXCEPT !.faults = @ + 1]

\* A crash, or a write that the API server refuses.
Crash ==
    /\ pass.pc # "idle"
    /\ Fault
    /\ Return
    /\ UNCHANGED <<spec, status, secrets, extra, vol, genesis, initPod, pod>>

DeleteVolume ==
    /\ Exists /\ ~vol.going
    /\ Fault
    /\ vol' = Unless(initPod = "run" \/ pod.st = "run", [vol EXCEPT !.going = TRUE])
    /\ UNCHANGED <<spec, status, secrets, extra, genesis, initPod, pod, pass>>

\* Someone else restores a backup under the name of the claim.
MakeVolume ==
    /\ ~Exists /\ count.vols \in 1..(MaxVolumes - 1)
    /\ vol' = Volume(TRUE, 0, spec.size, Data(TRUE, 0, TRUE), TRUE, TRUE)
    /\ count' = [count EXCEPT !.vols = @ + 1]
    /\ UNCHANGED <<spec, status, secrets, extra, genesis, initPod, pod, pass>>

LoseSecret ==
    /\ \E k \in Kinds :
          /\ secrets[k] # 0
          /\ secrets' = [secrets EXCEPT ![k] = 0]
          /\ count.faults < MaxFaults
          /\ count' = [count EXCEPT !.faults = @ + 1, !.lost = @ \/ (k = "sign" /\ genesis # 0)]
    /\ UNCHANGED <<spec, status, extra, vol, genesis, initPod, pod, pass>>

\* The ChainNode is deleted and made again, with its volumes and secrets retained.
Recreate ==
    /\ pass.pc = "idle" /\ status # Blank
    /\ Fault
    /\ status' = Blank /\ genesis' = 0 /\ initPod' = None /\ pod' = NoPod
    /\ vol' = Unless(FALSE, vol)
    /\ UNCHANGED <<spec, secrets, extra, pass>>

\* The sizes and the resizing can be edited.
Edit ==
    /\ pass.pc = "idle"
    /\ Fault
    /\ \E s \in Specs \ {spec} :
          s.restore = spec.restore /\ s.genesis = spec.genesis /\ spec' = s
    /\ UNCHANGED <<status, secrets, extra, vol, genesis, initPod, pod, pass>>

Cluster == InitPodEnds \/ StartPod \/ PodEnds \/ Advance \/ Report
Others == Crash \/ DeleteVolume \/ MakeVolume \/ LoseSecret \/ Recreate \/ Edit

----------------------------------------------------------------------------

Init ==
    /\ spec \in Specs
    /\ status = Blank
    /\ secrets = [k \in Kinds |-> 0]
    /\ extra = 0
    /\ vol = NoVolume
    /\ genesis = 0 /\ initPod = None /\ pod = NoPod
    /\ pass = Idle
    /\ count = [vols |-> 0, keys |-> 0, faults |-> 0, lost |-> FALSE]

Next == Pass \/ Cluster \/ Others

Spec == Init /\ [][Next]_vars

----------------------------------------------------------------------------

Starts == pod.st = "pending" /\ pod'.st = "run"

\* A pod starts only on a volume that was initialised or restored, with the genesis
\* file on it when that is where the node looks for it, and, on a node that made the
\* genesis, with the signing key that is in it (initializeData, markDataInitialized,
\* ensureGenesis, ensureSigningKey): whatever volume was deleted, whatever pass was cut
\* short.  A volume the node cannot account for, a lost key, are excepted.
StartsOnGoodData ==
    [][Starts /\ vol.clean =>
          /\ vol.data.ready
          /\ OnVolume => vol.data.file
          /\ spec.genesis = "init" /\ ~count.lost /\ secrets["sign"] # 0 => genesis = secrets["sign"]]_vars

\* The height annotated on a volume is never above the height of the data on it, on a
\* volume that replaces another in the middle of a pass neither; and a pod starts with
\* a height in the status between the two, so that the version picked for it is not
\* that of data it does not have (ensureDataVolume, updatePvcDataHeight).
KnowsItsHeight ==
    [][/\ vol' # NoVolume /\ vol'.clean => vol'.ann <= vol'.data.height
       /\ Starts /\ vol.clean /\ ~vol.other =>
            vol.ann <= status.latest /\ status.latest <= vol.data.height]_vars

=============================================================================
