---------------------------- MODULE GithubBackup ----------------------------
(***************************************************************************)
(* The GitHub backup (apps/wallet/public/ghbackup.js, and syncGitHub() in  *)
(* treasury-ui.js): devices push the encrypted keystores of the treasuries *)
(* they hold, then one manifest per wallet that says what was backed up,   *)
(* into one repository.  A file is updated by naming the version it        *)
(* replaces; GitHub answers 409 when that is no longer the current one,    *)
(* and the push is tried once more.  A device restores a treasury from its *)
(* keystore and what the manifests say of it.  Several devices sync and    *)
(* restore at once, requests fail, and answers are lost.                   *)
(***************************************************************************)
EXTENDS Integers, FiniteSets

CONSTANTS
    Devices,
    Treasuries,   \* the treasuries' wallet ids
    Held,         \* device -> the treasuries whose keys its vault holds
    Listed,       \* device -> those in its registry; a wallet may be on another device
    Slug,         \* treasury -> the name of its file, which two may share
    MaxSyncs,     \* bound: syncs started
    MaxRestores,  \* bound: keystores restored
    MaxFailures   \* bound: requests that fail or whose answer is lost

ASSUME GithubAssumption ==
    /\ Held \in [Devices -> SUBSET Treasuries] /\ Listed \in [Devices -> SUBSET Treasuries]
    /\ \A d \in Devices : Held[d] \subseteq Listed[d]
    /\ DOMAIN Slug = Treasuries
    /\ MaxSyncs \in Nat /\ MaxRestores \in Nat /\ MaxFailures \in Nat

VARIABLES
    repo,     \* path -> the file: its version and what it holds; version 0: no file
    device,   \* device -> where its sync or its restore is
    cards,    \* what was restored: the wallet, and the manifest entry its card is made of
    syncs, restores, failures

ghVars == <<repo, device, cards, syncs, restores, failures>>

KeyPath(t) == <<"wallets", t, Slug[t]>>

ManifestPath(t) == <<"manifests", t>>
Paths == {KeyPath(t) : t \in Treasuries} \union {ManifestPath(t) : t \in Treasuries}

\* A sync has uploaded, or a restore has read, the files of these treasuries.
Idle == [phase |-> "idle", stage |-> "keys", todo |-> {}, uploaded |-> {}, found |-> {},
         at |-> "none", sha |-> 0, retried |-> FALSE]

-----------------------------------------------------------------------------

\* "Sync now": every treasury of the registry, those not on this device skipped.
SyncStarts(d) ==
    /\ device[d] = Idle /\ syncs < MaxSyncs
    /\ Held[d] # {}
    /\ syncs' = syncs + 1
    /\ device' = [device EXCEPT ![d] = [Idle EXCEPT !.phase = "next", !.todo = Held[d]]]
    /\ UNCHANGED <<repo, cards, restores, failures>>

\* Mutant: the manifests are of everything in the registry.
ManifestsOfAll(d) == Listed[d]

\* The manifests are of what was uploaded, and of nothing else.
Manifests(d) == device[d].uploaded

\* The next file; after the keystores the manifests, after those the end.
NextFile(d) ==
    /\ device[d].phase = "next"
    /\ \/ \E t \in device[d].todo :
             device' = [device EXCEPT ![d].phase = "get", ![d].at = t, ![d].retried = FALSE]
       \/ /\ device[d].todo = {} /\ device[d].stage = "keys"
          /\ device' = [device EXCEPT ![d].stage = "manifests", ![d].todo = Manifests(d)]
       \/ /\ device[d].todo = {} /\ device[d].stage = "manifests"
          /\ device' = [device EXCEPT ![d] = Idle]
    /\ UNCHANGED <<repo, cards, syncs, restores, failures>>

Target(d) == IF device[d].stage = "keys" THEN KeyPath(device[d].at) ELSE ManifestPath(device[d].at)

\* getSha(): the version there is, 0 for none.
Get(d) ==
    /\ device[d].phase = "get"
    /\ device' = [device EXCEPT ![d].phase = "put", ![d].sha = repo[Target(d)].version]
    /\ UNCHANGED <<repo, cards, syncs, restores, failures>>

Pushed(d) == [device[d] EXCEPT !.phase = "next", !.todo = @ \ {device[d].at},
                               !.uploaded = @ \union {device[d].at}]

\* The file as GitHub stores it.
Stored(d) == [repo EXCEPT ![Target(d)] = [version |-> @.version + 1, of |-> device[d].at]]

\* GitHub takes an update that names the current version.
PutTaken(d) ==
    /\ device[d].phase = "put" /\ device[d].sha = repo[Target(d)].version
    /\ repo' = Stored(d)
    /\ device' = [device EXCEPT ![d] = Pushed(d)]
    /\ UNCHANGED <<cards, syncs, restores, failures>>

\* 409: the version is read again and the same bytes are put once more.
PutRaced(d) ==
    /\ device[d].phase = "put" /\ device[d].sha # repo[Target(d)].version
    /\ device' = IF device[d].retried THEN [device EXCEPT ![d] = Idle]
                 ELSE [device EXCEPT ![d].phase = "get", ![d].retried = TRUE]
    /\ UNCHANGED <<repo, cards, syncs, restores, failures>>

\* listKeystores(): the wallets' folders, and what is in them.
Restorable == {t \in Treasuries : repo[KeyPath(t)].version > 0}

Present == {t \in Treasuries : repo[ManifestPath(t)].version > 0}

\* A keystore of the list, files of one name told apart by their wallet's folder: the
\* wallet it holds is added, and is on display whatever becomes of its card.
PullKeystore(d, t) ==
    /\ device[d] = Idle /\ restores < MaxRestores
    /\ t \in Restorable
    /\ restores' = restores + 1
    /\ device' = [device EXCEPT ![d] = [Idle EXCEPT !.phase = "list", !.at = t]]
    /\ cards' = cards \union {[on |-> d, wallet |-> repo[KeyPath(t)].of, entry |-> "none"]}
    /\ UNCHANGED <<repo, syncs, failures>>

\* readManifest(): the list of the manifests, then each.
ListManifests(d) ==
    /\ device[d].phase = "list"
    /\ device' = [device EXCEPT ![d].phase = "read", ![d].todo = Present]
    /\ UNCHANGED <<repo, cards, syncs, restores, failures>>

ReadManifest(d) ==
    /\ device[d].phase = "read"
    /\ \E t \in device[d].todo :
          device' = [device EXCEPT ![d].todo = @ \ {t}, ![d].found = @ \union {repo[ManifestPath(t)].of}]
    /\ UNCHANGED <<repo, cards, syncs, restores, failures>>

\* pickManifestEntry(): of the wallet whose folder the file was in, by its name.
Entries(found, source, name) == {t \in found : t = source /\ Slug[t] = name}

\* restoreTreasuryMeta(): the card is put in the registry; without an entry the wallet
\* stays a plain one.
PutCard(d) ==
    /\ device[d].phase = "read" /\ device[d].todo = {}
    /\ LET t == device[d].at
           mine == Entries(device[d].found, t, Slug[t])
       IN cards' = {IF c.on = d /\ c.wallet = t /\ mine # {} THEN [c EXCEPT !.entry = CHOOSE e \in mine : TRUE]
                    ELSE c : c \in cards}
    /\ device' = [device EXCEPT ![d] = Idle]
    /\ UNCHANGED <<repo, syncs, restores, failures>>

\* A request fails, or its answer is lost after GitHub took the file: the sync ends,
\* with what was pushed so far, and the restore without a card.
RequestFails(d) ==
    /\ device[d].phase \in {"get", "put", "list", "read"}
    /\ failures < MaxFailures /\ failures' = failures + 1
    /\ \/ UNCHANGED repo
       \/ device[d].phase = "put" /\ device[d].sha = repo[Target(d)].version /\ repo' = Stored(d)
    /\ device' = [device EXCEPT ![d] = Idle]
    /\ UNCHANGED <<cards, syncs, restores>>

GhInit ==
    /\ repo = [p \in Paths |-> [version |-> 0, of |-> "none"]]
    /\ device = [d \in Devices |-> Idle]
    /\ cards = {} /\ syncs = 0 /\ restores = 0 /\ failures = 0

GhNext ==
    \E d \in Devices :
        \/ SyncStarts(d) \/ NextFile(d) \/ Get(d) \/ PutTaken(d) \/ PutRaced(d) \/ RequestFails(d)
        \/ \E t \in Treasuries : PullKeystore(d, t)
        \/ ListManifests(d) \/ ReadManifest(d) \/ PutCard(d)

GhSpec == GhInit /\ [][GhNext]_ghVars

-----------------------------------------------------------------------------
(* Properties *)

\* The inventory does not lie: a treasury with a manifest has its own keystore in the
\* repository, however syncs interleave and wherever they stop; and what is restored
\* from it is that treasury's, its card too, though another has its name.
ManifestBacked ==
    /\ \A t \in Treasuries :
          repo[ManifestPath(t)].version > 0 => repo[KeyPath(t)].of = t /\ repo[ManifestPath(t)].of = t
    /\ \A c \in cards : c.entry \in {"none", c.wallet}
=============================================================================
