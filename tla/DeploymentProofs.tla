-------------------------- MODULE DeploymentProofs -------------------------
(***************************************************************************)
(* The network's files, volumes and wallet, for any organisations,         *)
(* identities and accounts, and any number of interruptions.               *)
(*                                                                         *)
(* What the argument turns on is an order (Ordered): the files are removed *)
(* when the volumes are empty, and the script announces an end only when   *)
(* it is idle.  Material says what the files are made from, Entries where  *)
(* an entry of the wallet comes from.                                      *)
(***************************************************************************)
EXTENDS Deployment, TLAPS

Removing == pc \in {"down", "volumes", "wipe", "artifacts", "tar"}
Wiping == pc \in {"wipe", "artifacts", "tar"}

\* A generation of crypto material, and a build, costs a mishap.
Bounded ==
    /\ crypto.gen <= mishaps + 1 /\ code <= mishaps + 1
    /\ ~crypto.dir \/ Removing => crypto.gen <= mishaps

Ordered ==
    /\ Wiping => volumes = NoVolumes
    /\ Removing => cmd # "up"
    /\ last # "none" => pc = "idle"

Material ==
    /\ crypto.whole \/ pc = "cryptogen" => crypto.dir
    /\ crypto.whole \/ pc = "cryptogen" \/ crypto.certs # {} => crypto.gen > 0
    /\ volumes.channel # 0 => block = volumes.channel

Fits == UpMeansDefined /\ LedgerKeepsItsKeys

Entries ==
    /\ \A l \in Labels : wallet[l] <= crypto.gen
    /\ \A u \in Users : enrollment[u] = "own" => wallet[u] # 0

DInv == TypeOK /\ Bounded /\ Ordered /\ Material /\ Fits /\ Entries

VolumesType == [channel : Generations, joined : SUBSET Nodes, installed : SUBSET Orgs,
                approved : SUBSET Orgs, sequence : 0..MaxSequence]

LEMMA DInit == Init => DInv
<1> USE DeploymentAssumption DEF Init
<1>1. Init => TypeOK
  <2>1. Init => volumes \in VolumesType
    BY DEF VolumesType, Generations, Builds, NoVolumes
  <2>2. Init => crypto \in [gen : Generations, dir : BOOLEAN, certs : SUBSET Identities, whole : BOOLEAN]
    <3>1. 0 \in Generations /\ {} \in SUBSET Identities
      BY DEF Generations
    <3>2. [gen |-> 0, dir |-> FALSE, certs |-> {}, whole |-> FALSE]
            \in [gen : Generations, dir : BOOLEAN, certs : SUBSET Identities, whole : BOOLEAN]
      BY <3>1
    <3> QED BY <3>2
  <2>3. Init => CC_SEQUENCE \in 1..MaxSequence
    OBVIOUS
  <2>4. Init => wallet \in [Labels -> Generations]
    BY DEF Generations
  <2>5. Init => enrollment \in [Users -> {"none", "own", "fallback"}]
    OBVIOUS
  <2>6. 0 \in Generations /\ 1 \in Builds /\ 0 \in 0..MaxMishaps
    BY DEF Generations, Builds
  <2> QED BY <2>1, <2>2, <2>3, <2>4, <2>5, <2>6 DEF TypeOK, VolumesType
<1>2. Init => Bounded /\ Ordered /\ Material /\ Entries
  BY DEF Bounded, Removing, Wiping, Ordered, Material, Entries, NoVolumes
<1>3. Init => Fits
  BY DEF Fits, UpMeansDefined, LedgerKeepsItsKeys, NoVolumes
<1> QED BY <1>1, <1>2, <1>3 DEF DInv

----------------------------------------------------------------------------
(* The steps of the script, and what comes between.                        *)
\* Starting and ending commands, starting and stopping the containers, and what
\* the people around do, touch neither files nor volumes nor wallet.
LEMMA EventKeeps ==
    ASSUME DInv,
           \/ \E command \in {"up", "down", "reset"} : Start(command)
           \/ Compose \/ Down \/ Interrupt \/ PowerOff \/ Rebuild \/ EditSequence \/ DropDatabase
    PROVE  DInv'
<1> USE DeploymentAssumption DEF DInv, At, Then, Mishap, edits, api, files, network, script
<1>1. TypeOK' /\ Bounded' /\ Ordered'
  <2> USE DEF TypeOK, Bounded, Ordered, Removing, Wiping, Generations, Builds
  <2>1. CASE \E command \in {"up", "down", "reset"} : Start(command)
    BY <2>1 DEF Start
  <2>2. CASE Compose \/ Down
    BY <2>2 DEF Compose, Down
  <2>3. CASE Interrupt
    BY <2>3 DEF Interrupt
  <2>4. CASE PowerOff
    <3>1. mishaps' \in 0..MaxMishaps /\ pc' = "idle" /\ running' = FALSE
      BY <2>4 DEF PowerOff
    <3>2. /\ UNCHANGED <<crypto, block, tar, code, CC_SEQUENCE, volumes, cmd, last, wallet, enrollment>>
          /\ mishaps' = mishaps + 1
      BY <2>4 DEF PowerOff
    <3>3. TypeOK'
      BY <3>1, <3>2
    <3>4. Ordered'
      BY <3>1, <3>2
    <3>5. crypto.gen \in Nat /\ code \in Nat /\ mishaps \in Nat /\ mishaps' \in Nat
      BY <3>1
    <3>6. ~Removing'
      BY <3>1
    <3> HIDE DEF TypeOK, Ordered
    <3>7. Bounded'
      BY <3>2, <3>5, <3>6
    <3> QED BY <3>3, <3>4, <3>7
  <2>5. CASE Rebuild
    BY <2>5 DEF Rebuild
  <2>6. CASE EditSequence
    BY <2>6 DEF EditSequence
  <2>7. CASE DropDatabase
    BY <2>7 DEF DropDatabase
  <2> QED BY <2>1, <2>2, <2>3, <2>4, <2>5, <2>6, <2>7
<1>2. /\ UNCHANGED <<crypto, block, tar, volumes, wallet>>
      /\ pc' \in {pc, "idle", "crypto", "down", "join", "volumes"} /\ last' \in {last, "none"}
  <2>1. CASE \E command \in {"up", "down", "reset"} : Start(command)
    BY <2>1 DEF Start
  <2>2. CASE Compose \/ Down
    BY <2>2 DEF Compose, Down
  <2>3. CASE Interrupt \/ PowerOff \/ Rebuild \/ EditSequence \/ DropDatabase
    BY <2>3 DEF Interrupt, PowerOff, Rebuild, EditSequence, DropDatabase
  <2> QED BY <2>1, <2>2, <2>3
<1>3. Material'
  BY <1>2 DEF Material
<1>3a. Entries'
  <2>1. \A u \in Users : enrollment'[u] = "own" => enrollment[u] = "own"
    BY DEF Start, Compose, Down, Interrupt, PowerOff, Rebuild, EditSequence, DropDatabase
  <2> QED BY <1>2, <2>1 DEF Entries
<1>4. Fits'
  BY <1>2 DEF Fits, UpMeansDefined, Defined, Keys, LedgerKeepsItsKeys
<1> QED BY <1>1, <1>3, <1>3a, <1>4

\* Only without crypto material is any made, so each further generation costs a reset.
LEMMA GenerateKeeps ==
    ASSUME DInv, Generate
    PROVE  DInv'
<1> USE DeploymentAssumption DEF DInv, Generate, At, Then, edits, api, network
<1>1. TypeOK'
  <2>1. \A part \in SUBSET Identities : ~crypto.dir =>
          [gen |-> crypto.gen + 1, dir |-> TRUE, certs |-> part, whole |-> FALSE]
            \in [gen : Generations, dir : BOOLEAN, certs : SUBSET Identities, whole : BOOLEAN]
    BY DEF TypeOK, Bounded, Generations
  <2>2. crypto' \in [gen : Generations, dir : BOOLEAN, certs : SUBSET Identities, whole : BOOLEAN]
    BY <2>1 DEF TypeOK
  <2> QED BY <2>2 DEF TypeOK
<1>2. Bounded'
  BY DEF TypeOK, Bounded, Removing, Generations
<1>3. Ordered'
  BY DEF Ordered, Removing, Wiping
<1>4. Material'
  BY DEF TypeOK, Material, Generations
<1>5. Fits'
  BY DEF Material, Fits, LedgerKeepsItsKeys, UpMeansDefined, Defined, Keys
<1>6. Entries'
  BY DEF TypeOK, Entries, Generations
<1> QED BY <1>1, <1>2, <1>3, <1>4, <1>5, <1>6

LEMMA GeneratedKeeps ==
    ASSUME DInv, Generated
    PROVE  DInv'
<1> USE DeploymentAssumption DEF DInv, Generated, At, Then, edits, api, network
<1>1. TypeOK'
  BY DEF TypeOK
<1>2. Bounded'
  BY DEF Bounded, Removing
<1>3. Ordered'
  BY DEF Ordered, Removing, Wiping
<1>4. Material'
  BY DEF Material
<1>5. Fits'
  BY DEF Fits, LedgerKeepsItsKeys, UpMeansDefined, Defined, Keys
<1>6. Entries'
  BY DEF Entries
<1> QED BY <1>1, <1>2, <1>3, <1>4, <1>5, <1>6

\* A channel goes on with the block it was made from.
LEMMA GenerateBlockKeeps ==
    ASSUME DInv, GenerateBlock
    PROVE  DInv'
<1> USE DeploymentAssumption DEF DInv, GenerateBlock, At, Then, edits, api, Abort, network
<1>1. TypeOK'
  BY DEF TypeOK
<1>2. Bounded'
  BY DEF Bounded, Removing
<1>3. Ordered'
  BY DEF Ordered, Removing, Wiping
<1>4. Material'
  BY DEF Material
<1>5. Fits'
  BY DEF Fits, LedgerKeepsItsKeys, UpMeansDefined, Defined, Keys
<1>6. Entries'
  BY DEF Entries
<1> QED BY <1>1, <1>2, <1>3, <1>4, <1>5, <1>6

\* The first node to join brings the channel of the block.
LEMMA JoinKeeps ==
    ASSUME DInv, Join
    PROVE  DInv'
<1> USE DeploymentAssumption DEF DInv, Join, At, Then, edits, api, files, Nodes
<1>1. TypeOK'
  <2>1. PICK ok \in SUBSET Nodes :
          volumes' = [volumes EXCEPT !.joined = @ \cup ok,
                                     !.channel = IF @ = 0 /\ ok # {} THEN block ELSE @]
    OBVIOUS
  <2>2. volumes.joined \cup ok \subseteq Nodes
        /\ (IF volumes.channel = 0 /\ ok # {} THEN block ELSE volumes.channel) \in Generations
    BY DEF TypeOK
  <2>3. volumes' \in VolumesType
    BY <2>1, <2>2 DEF TypeOK, VolumesType, Nodes
  <2> QED BY <2>3 DEF TypeOK, VolumesType
<1>2. Bounded'
  BY DEF Bounded, Removing
<1>3. Ordered'
  BY DEF Ordered, Removing, Wiping
<1>4. Material'
  BY DEF Material
<1>5. Fits'
  BY DEF Fits, LedgerKeepsItsKeys, UpMeansDefined, Defined, Keys
<1>6. Entries'
  BY DEF Entries
<1> QED BY <1>1, <1>2, <1>3, <1>4, <1>5, <1>6

LEMMA PackageKeeps ==
    ASSUME DInv, Package
    PROVE  DInv'
<1> USE DeploymentAssumption DEF DInv, Package, At, Then, edits, api, network
<1>1. TypeOK'
  BY DEF TypeOK
<1>2. Bounded'
  BY DEF Bounded, Removing
<1>3. Ordered'
  BY DEF Ordered, Removing, Wiping
<1>4. Material'
  BY DEF Material
<1>5. Fits'
  BY DEF Fits, LedgerKeepsItsKeys, UpMeansDefined, Defined, Keys
<1>6. Entries'
  BY DEF Entries
<1> QED BY <1>1, <1>2, <1>3, <1>4, <1>5, <1>6

LEMMA InstallKeeps ==
    ASSUME DInv, Install
    PROVE  DInv'
<1> USE DeploymentAssumption DEF DInv, Install, At, Then, edits, api, files
<1>1. TypeOK'
  BY DEF TypeOK
<1>2. Bounded'
  BY DEF Bounded, Removing
<1>3. Ordered'
  BY DEF Ordered, Removing, Wiping
<1>4. Material'
  BY DEF Material
<1>5. Fits'
  BY DEF Fits, LedgerKeepsItsKeys, UpMeansDefined, Defined, Keys
<1>6. Entries'
  BY DEF Entries
<1> QED BY <1>1, <1>2, <1>3, <1>4, <1>5, <1>6

LEMMA ApproveKeeps ==
    ASSUME DInv, Approve
    PROVE  DInv'
<1> USE DeploymentAssumption DEF DInv, Approve, At, Then, edits, api, files
<1>1. TypeOK'
  <2>1. PICK ok \in SUBSET (volumes.joined \cap Orgs) :
          volumes' = [volumes EXCEPT !.approved = IF CC_SEQUENCE = volumes.sequence THEN @ ELSE @ \cup ok]
    OBVIOUS
  <2>2. (IF CC_SEQUENCE = volumes.sequence THEN volumes.approved
         ELSE volumes.approved \cup ok) \in SUBSET Orgs
    BY DEF TypeOK
  <2>3. volumes' \in VolumesType
    BY <2>1, <2>2 DEF TypeOK, VolumesType
  <2> QED BY <2>3 DEF TypeOK, VolumesType
<1>2. Bounded'
  BY DEF Bounded, Removing
<1>3. Ordered'
  BY DEF Ordered, Removing, Wiping
<1>4. Material'
  BY DEF Material
<1>5. Fits'
  BY DEF Fits, LedgerKeepsItsKeys, UpMeansDefined, Defined, Keys
<1>6. Entries'
  BY DEF Entries
<1> QED BY <1>1, <1>2, <1>3, <1>4, <1>5, <1>6

\* What is committed has its keys and all its nodes: the first definition makes the ledger.
LEMMA CommitKeeps ==
    ASSUME DInv, Commit
    PROVE  DInv'
<1> USE DeploymentAssumption DEF DInv, Commit, At, Then, edits, api, files, Abort, Finish, Committed
<1>1. TypeOK'
  <2>1. CC_SEQUENCE \in 0..MaxSequence /\ {} \in SUBSET Orgs
    BY DEF TypeOK
  <2>2. volumes \in VolumesType
    BY DEF TypeOK, VolumesType
  <2> HIDE DEF Committable
  <2>3. volumes' \in VolumesType
    BY <2>1, <2>2 DEF VolumesType
  <2> QED BY <2>3 DEF TypeOK, VolumesType
<1>2. Bounded'
  BY DEF Bounded, Removing
<1>3. Ordered'
  BY DEF Ordered, Removing, Wiping
<1>4. Material'
  <2>1. volumes'.channel = volumes.channel
    BY DEF TypeOK
  <2> QED BY <2>1 DEF Material
<1>5. Fits'
  <2>1. CASE Committable
    <3>1. /\ Keys /\ Nodes \subseteq volumes.joined /\ CC_SEQUENCE > 0
          /\ block = volumes.channel
      BY <2>1 DEF Committable, Ordering, Keys, Nodes, Material, TypeOK
    <3>2. volumes' = [volumes EXCEPT !.sequence = CC_SEQUENCE, !.approved = {}]
      BY <2>1
    <3>3. /\ volumes'.sequence = CC_SEQUENCE /\ volumes'.channel = volumes.channel
          /\ volumes'.joined = volumes.joined
      BY <3>2 DEF TypeOK
    <3> QED BY <3>1, <3>3 DEF Fits, UpMeansDefined, Defined, Keys, LedgerKeepsItsKeys
  <2>2. CASE ~Committable
    BY <2>2 DEF Fits, Ordered, UpMeansDefined, Defined, Keys, LedgerKeepsItsKeys
  <2> QED BY <2>1, <2>2
<1>6. Entries'
  BY DEF Entries
<1> QED BY <1>1, <1>2, <1>3, <1>4, <1>5, <1>6

LEMMA RemoveVolumesKeeps ==
    ASSUME DInv, RemoveVolumes
    PROVE  DInv'
<1> USE DeploymentAssumption DEF DInv, RemoveVolumes, At, Then, edits, api, files, Finish, NoVolumes
<1>1. TypeOK'
  BY DEF TypeOK, Generations, Builds
<1>2. Bounded'
  BY DEF Bounded, Removing
<1>3. Ordered'
  BY DEF Ordered, Removing
<1>4. Material'
  BY DEF Material
<1>5. Fits'
  BY DEF Ordered, Removing, Fits, LedgerKeepsItsKeys, UpMeansDefined
<1>6. Entries'
  BY DEF Entries
<1> QED BY <1>1, <1>2, <1>3, <1>4, <1>5, <1>6

\* The files go when the volumes are empty.
LEMMA WipeKeeps ==
    ASSUME DInv, Wipe
    PROVE  DInv'
<1> USE DeploymentAssumption DEF DInv, Wipe, At, Then, edits, api, network
<1>0. /\ crypto'.gen = crypto.gen /\ crypto'.certs \subseteq crypto.certs /\ ~crypto'.whole
      /\ crypto' \in [gen : Generations, dir : BOOLEAN, certs : SUBSET Identities, whole : BOOLEAN]
  <2>1. PICK part \in SUBSET crypto.certs, dir \in BOOLEAN :
          crypto' = [crypto EXCEPT !.certs = part, !.dir = dir, !.whole = FALSE]
    BY DEF TypeOK
  <2>2. part \in SUBSET Identities
    BY DEF TypeOK
  <2> QED BY <2>1, <2>2 DEF TypeOK
<1>0a. volumes' = volumes /\ volumes.sequence = 0 /\ last' = "none" /\ tar' = tar
  <2>1. pc = "wipe" /\ volumes = NoVolumes
    BY DEF Ordered, Wiping
  <2> QED BY <2>1 DEF NoVolumes, Ordered
<1>1. TypeOK'
  BY <1>0 DEF TypeOK
<1>2. Bounded'
  BY <1>0 DEF TypeOK, Bounded, Removing
<1>3. Ordered'
  BY DEF Ordered, Removing, Wiping
<1>4. Material'
  BY <1>0 DEF TypeOK, Ordered, Material, Wiping, NoVolumes
<1>5. Fits'
  <2> HIDE DEF Wipe
  <2>1. UpMeansDefined' /\ LedgerKeepsItsKeys'
    BY <1>0a DEF UpMeansDefined, Defined, Keys, LedgerKeepsItsKeys
  <2> QED BY <2>1 DEF Fits
<1>6. Entries'
  BY <1>0 DEF TypeOK, Entries
<1> QED BY <1>1, <1>2, <1>3, <1>4, <1>5, <1>6

LEMMA WipeArtifactsKeeps ==
    ASSUME DInv, WipeArtifacts
    PROVE  DInv'
<1> USE DeploymentAssumption DEF DInv, WipeArtifacts, At, Then, edits, api, network
<1>1. TypeOK'
  BY DEF TypeOK, Generations
<1>2. Bounded'
  BY DEF Bounded, Removing
<1>3. Ordered'
  BY DEF Ordered, Removing, Wiping
<1>4. Material'
  BY DEF Ordered, Material, Wiping, NoVolumes
<1>5. Fits'
  BY DEF Ordered, Fits, LedgerKeepsItsKeys, UpMeansDefined, Wiping, NoVolumes
<1>6. Entries'
  BY DEF Entries
<1> QED BY <1>1, <1>2, <1>3, <1>4, <1>5, <1>6

LEMMA WipeTarKeeps ==
    ASSUME DInv, WipeTar
    PROVE  DInv'
<1> USE DeploymentAssumption DEF DInv, WipeTar, At, Then, edits, api, network, Finish
<1>1. TypeOK'
  BY DEF TypeOK, Builds
<1>2. Bounded'
  BY DEF Bounded, Removing
<1>3. Ordered'
  BY DEF Ordered, Removing, Wiping
<1>4. Material'
  BY DEF Material
<1>5. Fits'
  BY DEF Ordered, Removing, Fits, LedgerKeepsItsKeys, UpMeansDefined, Wiping,
     NoVolumes
<1>6. Entries'
  BY DEF Entries
<1> QED BY <1>1, <1>2, <1>3, <1>4, <1>5, <1>6

LEMMA ImportIdentityKeeps ==
    ASSUME DInv, NEW l \in Identities, importIdentity(l)
    PROVE  DInv'
<1> USE DeploymentAssumption DEF DInv, importIdentity, files, edits, network, script
<1>1. TypeOK'
  BY DEF TypeOK
<1>2. Bounded'
  BY DEF Bounded, Removing
<1>3. Ordered'
  BY DEF Ordered, Removing, Wiping
<1>4. Material'
  BY DEF Material
<1>5. Fits'
  BY DEF Fits, LedgerKeepsItsKeys, UpMeansDefined, Defined, Keys
<1>6. Entries'
  BY DEF TypeOK, Entries, Generations
<1> QED BY <1>1, <1>2, <1>3, <1>4, <1>5, <1>6

\* An account counts as enrolled only with an entry under its name.
LEMMA EnrollUserKeeps ==
    ASSUME DInv, NEW u \in Users, enrollUser(u)
    PROVE  DInv'
<1> USE DeploymentAssumption DEF DInv, enrollUser, files, edits, network, script
<1>1. TypeOK'
  <2>1. crypto.gen \in Generations /\ u \in Labels
    BY DEF TypeOK, Labels
  <2>2. wallet' \in [Labels -> Generations]
    BY <2>1 DEF TypeOK
  <2>3. enrollment' \in [Users -> {"none", "own", "fallback"}]
    BY DEF TypeOK
  <2> HIDE DEF enrollUser
  <2>4. UNCHANGED <<files, edits, network, script, mishaps>>
    BY DEF enrollUser
  <2> QED BY <2>2, <2>3, <2>4 DEF TypeOK
<1>2. Bounded'
  BY DEF Bounded, Removing
<1>3. Ordered'
  BY DEF Ordered, Removing, Wiping
<1>4. Material'
  BY DEF Material
<1>5. Fits'
  BY DEF Fits, LedgerKeepsItsKeys, UpMeansDefined, Defined, Keys
<1>6. Entries'
  BY DEF TypeOK, Material, Entries, Generations, Labels
<1> QED BY <1>1, <1>2, <1>3, <1>4, <1>5, <1>6

LEMMA DStep == DInv /\ [Next]_vars => DInv'
<1> SUFFICES ASSUME DInv, [Next]_vars PROVE DInv'
  OBVIOUS
<1>1. CASE Step
  BY <1>1, EventKeeps, GenerateKeeps, GeneratedKeeps, GenerateBlockKeeps, JoinKeeps, PackageKeeps,
     InstallKeeps, ApproveKeeps, CommitKeeps, RemoveVolumesKeeps, WipeKeeps, WipeArtifactsKeeps,
     WipeTarKeeps DEF Step
<1>2. CASE UNCHANGED vars
  BY <1>2 DEF vars, files, edits, network, script, api, DInv, TypeOK, Bounded, Ordered, Material,
     Fits, Entries, Removing, Wiping, UpMeansDefined, Defined, Keys, LedgerKeepsItsKeys
<1>3. CASE Next /\ ~Step
  BY <1>3, EventKeeps, ImportIdentityKeeps, EnrollUserKeeps DEF Next
<1> QED BY <1>1, <1>2, <1>3

----------------------------------------------------------------------------
(* The theorems                                                            *)
\* Whatever was interrupted, what is on disk fits what the containers hold: no
\* ledger has lost its keys, and the definition is in force when the network is
\* said to be up (network.sh).
THEOREM FilesFitVolumes == Spec => []FilesFit
<1>1. DInv => FilesFit
  BY DEF DInv, Fits, FilesFit
<1> QED BY <1>1, DInit, DStep, PTL DEF Spec

\* Only emptying the volumes ends a definition: a channel is not joined anew, its
\* crypto material is not made anew, its sequence only grows.
LEMMA KeptStep ==
    ASSUME DInv, [Next]_vars, Defined
    PROVE  Defined' \/ (pc = "volumes" /\ cmd # "up")
<1> USE DEF DInv, Defined, Keys
<1>1. CASE Generate
  BY <1>1 DEF Generate, network, Material
<1>2. CASE Generated
  BY <1>2 DEF Generated, network, TypeOK
<1>3. CASE Join
  BY <1>3 DEF Join, files, TypeOK, Material
<1>4. CASE Install
  BY <1>4 DEF Install, files, TypeOK
<1>5. CASE Approve
  BY <1>5 DEF Approve, files, TypeOK
<1>6. CASE Commit
  <2>1. CASE Committable
    <3>1. volumes' = [volumes EXCEPT !.sequence = CC_SEQUENCE, !.approved = {}] /\ crypto' = crypto
      BY <1>6, <2>1 DEF Commit, Committed, files
    <3>2. /\ volumes'.sequence = CC_SEQUENCE /\ volumes'.channel = volumes.channel
          /\ volumes'.joined = volumes.joined
      BY <3>1 DEF TypeOK
    <3>3. CC_SEQUENCE > 0
      BY DeploymentAssumption DEF TypeOK
    <3> QED BY <3>1, <3>2, <3>3
  <2>2. CASE ~Committable
    BY <1>6, <2>2 DEF Commit, files
  <2> QED BY <2>1, <2>2
<1>7. CASE RemoveVolumes
  BY <1>7 DEF RemoveVolumes, At, Ordered, Removing
<1>8. CASE Wipe
  <2>1. pc = "wipe" /\ volumes = NoVolumes
    BY <1>8 DEF Wipe, At, Ordered, Wiping
  <2> QED BY <2>1 DEF NoVolumes
<1>9. CASE UNCHANGED <<crypto, volumes>>
  BY <1>9
<1> QED BY <1>1, <1>2, <1>3, <1>4, <1>5, <1>6, <1>7, <1>8, <1>9
        DEF Next, Step, Start, GenerateBlock, Compose, Package, Down, WipeArtifacts, WipeTar,
            importIdentity, enrollUser, Interrupt, PowerOff, Rebuild, EditSequence, DropDatabase,
            files, network, vars

\* Only emptying the volumes uninstalls anything.
LEMMA InstalledStep ==
    ASSUME DInv, [Next]_vars
    PROVE  volumes.installed \subseteq volumes'.installed \/ (pc = "volumes" /\ cmd # "up")
<1> USE DEF DInv, TypeOK
<1>1. CASE Join \/ Install \/ Approve
  BY <1>1 DEF Join, Install, Approve
<1>2. CASE Commit
  BY <1>2 DEF Commit, Committed
<1>3. CASE RemoveVolumes
  BY <1>3 DEF RemoveVolumes, At, Ordered, Removing
<1>4. CASE UNCHANGED volumes
  BY <1>4
<1> QED BY <1>1, <1>2, <1>3, <1>4
        DEF Next, Step, Start, Generate, Generated, GenerateBlock, Compose, Package, Down, Wipe,
            WipeArtifacts, WipeTar, importIdentity, enrollUser, Interrupt, PowerOff, Rebuild,
            EditSequence, DropDatabase, files, network, vars

\* Between resets the definition stays, and so does the deployment.
THEOREM KeptBetweenResets == Spec => DeploymentKept
<1>1. Spec => []DInv
  BY DInit, DStep, PTL DEF Spec
<1>2. DInv /\ [Next]_vars =>
        [/\ Defined => Defined' \/ (pc = "volumes" /\ cmd # "up")
         /\ Deployed => Deployed' \/ (pc = "volumes" /\ cmd # "up")]_vars
  <2> SUFFICES ASSUME DInv, [Next]_vars
               PROVE  /\ Defined => Defined' \/ (pc = "volumes" /\ cmd # "up")
                      /\ Deployed => Deployed' \/ (pc = "volumes" /\ cmd # "up")
    OBVIOUS
  <2>1. Defined => Defined' \/ (pc = "volumes" /\ cmd # "up")
    BY KeptStep
  <2>2. volumes.installed \subseteq volumes'.installed \/ (pc = "volumes" /\ cmd # "up")
    BY InstalledStep
  <2> QED BY <2>1, <2>2 DEF Deployed
<1> QED BY <1>1, <1>2, PTL DEF Spec, DeploymentKept

\* On the first network every account reaches the ledger as a member of its own
\* organisation once all labels are imported (fabric.service.js, getContract).
THEOREM AccountsAreServed == Spec => []ServesOnceSetUp
<1>1. DInv => ServesOnceSetUp
  <2> SUFFICES ASSUME DInv, crypto.gen = 1, Deployed,
                      \A l \in Identities : wallet[l] # 0, NEW u \in Users
               PROVE  Works(u) /\ OrgOf(identity(u)) = OrgOf(SharedLabel(u))
    BY DEF ServesOnceSetUp
  <2>1. wallet[resolveWalletLabel(u)] # 0
    BY DeploymentAssumption DEF DInv, Entries, resolveWalletLabel
  <2>2. identity(u) \in {u, SharedLabel(u)} /\ wallet[identity(u)] # 0
    BY <2>1 DEF identity, resolveWalletLabel
  <2>3. wallet[identity(u)] = 1
    BY <2>2, DeploymentAssumption DEF DInv, TypeOK, Entries, Labels, Generations
  <2> QED BY <2>2, <2>3, DeploymentAssumption DEF Works, Deployed, Defined, Keys
<1> QED BY <1>1, DInit, DStep, PTL DEF Spec
============================================================================
