---------------------------- MODULE Deployment -----------------------------
(***************************************************************************)
(* Bringing the network up and down: fabric-network/network.sh, the files  *)
(* it leaves behind, the volumes of the containers, and the wallet of the  *)
(* API with its two writers, scripts/setupWallet.js and enrollUser of      *)
(* ca.service.js.                                                          *)
(*                                                                         *)
(* The script is a sequence of commands under "set -e" and may be          *)
(* interrupted between any two.  A command whose output is piped through   *)
(* grep may fail unseen.  Crypto material is known by its generation, the  *)
(* chaincode by its build; CC_VERSION has no bearing on what follows.      *)
(***************************************************************************)
EXTENDS Naturals, FiniteSets

CONSTANTS Orgs,
          Identities,       \* the labels setupWallet.js imports
          Default,          \* the label everybody else falls back to
          OrgOf(_),         \* of a label
          Users, SharedLabel(_),   \* and the label of a user's role
          MaxSequence, MaxMishaps  \* bounds

\* What enrollUser copies under an account's name is its role's certificate.
ASSUME DeploymentAssumption ==
    /\ MaxSequence \in Nat \ {0, 1} /\ MaxMishaps \in Nat
    /\ \A u \in Users : SharedLabel(u) \in Identities /\ OrgOf(u) = OrgOf(SharedLabel(u))

VARIABLES crypto,     \* organizations/cryptogen: generation, identities, whether peerOrganizations is there and all is
          block,      \* channel-artifacts/kycchannel.block: the generation it names
          tar,        \* kyc-contract.tar.gz: the build it holds
          code,       \* the build of the source
          CC_SEQUENCE,
          running,    \* whether the containers run
          volumes,    \* what their volumes hold
          pc, cmd,    \* the script
          last,       \* the command that came to its end last
          wallet, enrollment,
          mishaps     \* how often it was not just "up" again

files == <<crypto, block, tar>>
network == <<running, volumes>>
script == <<pc, cmd, last>>
edits == <<code, CC_SEQUENCE>>
api == <<wallet, enrollment>>
vars == <<files, edits, network, script, api, mishaps>>

Nodes == Orgs \cup {"orderer"}
Labels == Identities \cup Users
Generations == 0..MaxMishaps + 1
Builds == 0..MaxMishaps + 1

NoVolumes == [channel |-> 0, joined |-> {}, installed |-> {}, approved |-> {},
              sequence |-> 0]

TypeOK ==
    /\ crypto \in [gen : Generations, dir : BOOLEAN, certs : SUBSET Identities, whole : BOOLEAN]
    /\ block \in Generations /\ tar \in Builds /\ code \in Builds
    /\ CC_SEQUENCE \in 1..MaxSequence /\ running \in BOOLEAN
    /\ volumes \in [channel : Generations, joined : SUBSET Nodes, installed : SUBSET Orgs,
                    approved : SUBSET Orgs, sequence : 0..MaxSequence]
    /\ pc \in {"idle", "crypto", "cryptogen", "block", "compose", "join", "package", "install",
               "approve", "commit", "down", "volumes", "wipe", "artifacts", "tar"}
    /\ cmd \in {"up", "down", "reset"} /\ last \in {"none", "up", "down", "reset"}
    /\ wallet \in [Labels -> Generations]
    /\ enrollment \in [Users -> {"none", "own", "fallback"}]
    /\ mishaps \in 0..MaxMishaps

\* As checked out: a package of the first build, and a CC_SEQUENCE of 2, which
\* whoever starts with a fresh channel has to set back to 1 before.
Init ==
    /\ crypto = [gen |-> 0, dir |-> FALSE, certs |-> {}, whole |-> FALSE]
    /\ block = 0 /\ tar = 1 /\ code = 1 /\ CC_SEQUENCE \in {1, 2}
    /\ running = FALSE /\ volumes = NoVolumes
    /\ pc = "idle" /\ cmd = "down" /\ last = "none"
    /\ wallet = [l \in Labels |-> 0] /\ enrollment = [u \in Users |-> "none"]
    /\ mishaps = 0

Mishap == mishaps < MaxMishaps /\ mishaps' = mishaps + 1

At(here) == pc = here /\ UNCHANGED <<edits, api, mishaps>>
Then(there) == pc' = there /\ UNCHANGED <<cmd, last>>
Abort == Then("idle")
Finish == pc' = "idle" /\ last' = cmd /\ UNCHANGED cmd

----------------------------------------------------------------------------
(* networkUp                                                               *)
Start(command) ==
    /\ pc = "idle"
    /\ cmd' = command /\ last' = "none"
    /\ pc' = IF command = "up" THEN "crypto" ELSE "down"
    /\ IF command = "up" THEN UNCHANGED mishaps ELSE Mishap
    /\ UNCHANGED <<files, edits, network, api>>

\* Variant: the material is made again on every start.
GenerateAlways ==
    /\ At("crypto") /\ Then("cryptogen")
    /\ \E part \in SUBSET Identities :
         crypto' = [gen |-> crypto.gen + 1, dir |-> TRUE, certs |-> part, whole |-> FALSE]
    /\ UNCHANGED <<block, tar, network>>

\* cryptogen writes one organisation after the other.
Generate ==
    /\ At("crypto")
    /\ IF crypto.dir
       THEN Then("block") /\ UNCHANGED crypto
       ELSE /\ Then("cryptogen")
            /\ \E part \in SUBSET Identities :
                 crypto' = [gen |-> crypto.gen + 1, dir |-> TRUE, certs |-> part, whole |-> FALSE]
    /\ UNCHANGED <<block, tar, network>>

Generated ==
    /\ At("cryptogen") /\ Then("block")
    /\ crypto' = [crypto EXCEPT !.certs = Identities, !.whole = TRUE]
    /\ UNCHANGED <<block, tar, network>>

\* configtxgen needs all the organisations' certificates.
GenerateBlock ==
    /\ At("block")
    /\ IF block = 0 /\ ~crypto.whole
       THEN Abort /\ UNCHANGED block
       ELSE Then("compose") /\ block' = IF block = 0 THEN crypto.gen ELSE block
    /\ UNCHANGED <<crypto, tar, network>>

Compose ==
    /\ At("compose") /\ Then("join")
    /\ running' = TRUE
    /\ UNCHANGED <<files, volumes>>

\* Each node joins or does not; one that has joined is left alone.
Join ==
    /\ At("join") /\ Then("package")
    /\ \E ok \in SUBSET Nodes :
         volumes' = [volumes EXCEPT !.joined = @ \cup ok,
                                    !.channel = IF @ = 0 /\ ok # {} THEN block ELSE @]
    /\ UNCHANGED <<files, running>>

Package ==
    /\ At("package") /\ Then("install")
    /\ tar' = IF tar = 0 THEN code ELSE tar
    /\ UNCHANGED <<crypto, block, network>>

\* Each peer builds and installs it or does not.
Install ==
    /\ At("install") /\ Then("approve")
    /\ \E ok \in SUBSET Orgs : volumes' = [volumes EXCEPT !.installed = @ \cup ok]
    /\ UNCHANGED <<files, running>>

\* The channel takes transactions of its own organisations only.
Keys == crypto.whole /\ volumes.channel = crypto.gen
Ordering == running /\ Keys /\ "orderer" \in volumes.joined

\* The definition in force may be approved again, which changes nothing but the
\* package (the same: it is kept while there are volumes), or the next one.
Approve ==
    /\ At("approve") /\ Then("commit")
    /\ \E ok \in SUBSET (IF Ordering /\ CC_SEQUENCE \in {volumes.sequence, volumes.sequence + 1}
                         THEN volumes.joined \cap Orgs ELSE {}) :
         volumes' = [volumes EXCEPT !.approved = IF CC_SEQUENCE = volumes.sequence THEN @ ELSE @ \cup ok]
    /\ UNCHANGED <<files, running>>

Committable ==
    /\ Ordering /\ Orgs \subseteq volumes.joined
    /\ CC_SEQUENCE = volumes.sequence + 1
    /\ 2 * Cardinality(volumes.approved) > Cardinality(Orgs)

Committed == volumes' = [volumes EXCEPT !.sequence = CC_SEQUENCE, !.approved = {}]

\* Variant: its output is piped like that of the others.
CommitPiped ==
    /\ At("commit") /\ Finish
    /\ IF Committable THEN Committed ELSE UNCHANGED volumes
    /\ UNCHANGED <<files, running>>

\* The one step whose failure the script sees: "Network is UP" is not said.
Commit ==
    /\ At("commit")
    /\ IF Committable THEN Finish /\ Committed ELSE Abort /\ UNCHANGED volumes
    /\ UNCHANGED <<files, running>>

----------------------------------------------------------------------------
(* networkDown, networkReset                                               *)
Down ==
    /\ At("down") /\ Then("volumes")
    /\ running' = FALSE
    /\ UNCHANGED <<files, volumes>>

\* Variant: the files go first.
RemoveVolumesLast ==
    /\ At("volumes")
    /\ IF cmd = "reset" THEN Then("wipe") /\ UNCHANGED volumes
       ELSE Finish /\ volumes' = NoVolumes
    /\ UNCHANGED <<files, running>>

\* All of them at once; an interrupt between two volumes is left out.
RemoveVolumes ==
    /\ At("volumes")
    /\ volumes' = NoVolumes
    /\ IF cmd = "reset" THEN Then("wipe") ELSE Finish
    /\ UNCHANGED <<files, running>>

\* rm -rf, one argument after the other; the first is a tree.
Wipe ==
    /\ At("wipe")
    /\ \/ /\ \E part \in SUBSET crypto.certs : \E dir \in {crypto.dir, crypto.dir /\ part # {}} :
               crypto' = [crypto EXCEPT !.certs = part, !.dir = dir, !.whole = FALSE]
          /\ crypto' # crypto /\ Then("wipe")
       \/ /\ crypto' = [crypto EXCEPT !.certs = {}, !.dir = FALSE, !.whole = FALSE]
          /\ Then("artifacts")
    /\ UNCHANGED <<block, tar, network>>

\* Variant: the block is forgotten.
WipeArtifactsNot ==
    /\ At("artifacts") /\ Then("tar") /\ UNCHANGED <<files, network>>

WipeArtifacts ==
    /\ At("artifacts") /\ Then("tar")
    /\ block' = 0
    /\ UNCHANGED <<crypto, tar, network>>

WipeTar ==
    /\ At("tar") /\ Finish
    /\ tar' = 0
    /\ UNCHANGED <<crypto, block, network>>

Step == \/ Generate \/ Generated \/ GenerateBlock \/ Compose \/ Join \/ Package \/ Install
        \/ Approve \/ Commit \/ Down \/ RemoveVolumes \/ Wipe \/ WipeArtifacts \/ WipeTar

----------------------------------------------------------------------------
(* The wallet                                                              *)
\* The loop of setupWallet.js, which may be run, and stopped, at any time.
importIdentity(l) ==
    /\ l \in crypto.certs /\ wallet[l] = 0
    /\ wallet' = [wallet EXCEPT ![l] = crypto.gen]
    /\ UNCHANGED <<files, edits, network, script, enrollment, mishaps>>

\* Variant: an account without a certificate is enrolled by name.
enrollUserAnyway(u) ==
    /\ enrollment[u] = "none"
    /\ enrollment' = [enrollment EXCEPT ![u] = "own"]
    /\ wallet' = IF SharedLabel(u) \in crypto.certs THEN [wallet EXCEPT ![u] = crypto.gen] ELSE wallet
    /\ UNCHANGED <<files, edits, network, script, mishaps>>

\* At registration: the entry that is there under the account's name, or the
\* role's certificate put there, or nothing.
enrollUser(u) ==
    /\ enrollment[u] = "none"
    /\ LET put == wallet[u] = 0 /\ SharedLabel(u) \in crypto.certs IN
         /\ wallet' = IF put THEN [wallet EXCEPT ![u] = crypto.gen] ELSE wallet
         /\ enrollment' = [enrollment EXCEPT ![u] = IF put \/ wallet[u] # 0 THEN "own" ELSE "fallback"]
    /\ UNCHANGED <<files, edits, network, script, mishaps>>

resolveWalletLabel(u) == IF enrollment[u] = "own" THEN u ELSE SharedLabel(u)

\* getContract: a label that is not in the wallet acts as the default.
identity(u) == IF wallet[resolveWalletLabel(u)] # 0 THEN resolveWalletLabel(u) ELSE Default

----------------------------------------------------------------------------
(* What comes between                                                      *)
Interrupt ==
    /\ pc # "idle" /\ Mishap
    /\ pc' = "idle" /\ UNCHANGED <<cmd, last>>
    /\ UNCHANGED <<files, edits, network, api>>

\* The machine is switched off; the containers do not start by themselves.
PowerOff ==
    /\ running \/ pc # "idle"
    /\ Mishap /\ running' = FALSE /\ pc' = "idle"
    /\ UNCHANGED <<files, edits, volumes, cmd, last, api>>

Rebuild ==
    /\ Mishap /\ code' = code + 1
    /\ UNCHANGED <<files, CC_SEQUENCE, network, script, api>>

EditSequence ==
    /\ pc = "idle" /\ Mishap
    /\ \E n \in 1..MaxSequence : n # CC_SEQUENCE /\ CC_SEQUENCE' = n
    /\ UNCHANGED <<files, code, network, script, api>>

\* MongoDB is emptied, as after a reset: the same people register again.
DropDatabase ==
    /\ Mishap /\ enrollment' = [u \in Users |-> "none"]
    /\ UNCHANGED <<files, edits, network, script, wallet>>

Next ==
    \/ \E command \in {"up", "down", "reset"} : Start(command)
    \/ Step
    \/ \E l \in Identities : importIdentity(l)
    \/ \E u \in Users : enrollUser(u)
    \/ Interrupt \/ PowerOff \/ Rebuild \/ EditSequence \/ DropDatabase

Spec == Init /\ [][Next]_vars

\* The script goes on, it is started again until the network is up, and now
\* and then every node answers in time.
FairSpec ==
    /\ Spec
    /\ WF_vars(Step)
    /\ WF_vars(last # "up" /\ Start("up"))
    /\ SF_vars(Join /\ volumes'.joined = Nodes)
    /\ SF_vars(Approve /\ volumes'.approved = Orgs)

\* setupWallet.js is run again and again as well.
SetupSpec == FairSpec /\ \A l \in Identities : WF_vars(importIdentity(l))

----------------------------------------------------------------------------
(* Properties.                                                             *)
\* The chaincode's definition is in force on a channel all nodes have joined,
\* and can be run where it is installed.
Defined == volumes.sequence > 0 /\ Keys /\ Nodes \subseteq volumes.joined
Deployed == Defined /\ Orgs \subseteq volumes.installed

\* When "Network is UP" is said the definition is in force, though the errors of
\* all steps but one are not looked at; and it stays so while nobody takes the
\* network down.  That the chaincode is installed does not follow.
UpMeansDefined == last = "up" => Defined

\* A channel with a chaincode has the crypto material it was made with: an
\* interrupted reset never leaves a ledger that nobody can sign for, whatever
\* was interrupted before.
LedgerKeepsItsKeys == volumes.sequence > 0 => Keys /\ block = volumes.channel

Works(u) == wallet[identity(u)] = volumes.channel

\* On the first network, once every label is imported, every account reaches
\* the ledger, and as a member of its own organisation, whenever it registered
\* and whatever certificates there were then.
ServesOnceSetUp ==
    crypto.gen = 1 /\ Deployed /\ (\A l \in Identities : wallet[l] # 0)
      => \A u \in Users : Works(u) /\ OrgOf(identity(u)) = OrgOf(SharedLabel(u))

\* A definition, and a deployment, ends with down or reset, and no other way.
DeploymentKept ==
    [][/\ Defined => Defined' \/ (pc = "volumes" /\ cmd # "up")
       /\ Deployed => Deployed' \/ (pc = "volumes" /\ cmd # "up")]_vars

\* A completed reset makes a fresh start possible, if the sequence is that of a
\* first definition: the network comes up, whatever was interrupted before.
UpAfterReset ==
    last = "reset" /\ CC_SEQUENCE = 1 /\ mishaps = MaxMishaps ~> last = "up" /\ Defined

\* Whatever was interrupted, what is on disk fits what the containers hold, and
\* the definition is in force when the script has said that the network is up.
FilesFit == TypeOK /\ UpMeansDefined /\ LedgerKeepsItsKeys

(***************************************************************************)
(* What the script and the README say and the code does not do.            *)
(***************************************************************************)
\* "Network is UP and chaincode is deployed" is true when it is said.
UpMeansDeployed == last = "up" => Deployed

\* "Rebuild and redeploy chaincode", "run ./network.sh up": a start packages the
\* build that is there.
UpPackagesTheBuild == [][pc = "package" /\ pc' = "install" => tar' = code]_vars

\* "Re-import wallet identities (crypto was regenerated)": where setupWallet.js is
\* run on complete crypto material, a label ends up with the current certificate.
SetupRepairs ==
    \A l \in Identities :
        crypto.whole /\ wallet[l] \notin {0, crypto.gen}
          ~> wallet[l] = crypto.gen \/ ~crypto.whole
============================================================================
