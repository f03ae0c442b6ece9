----------------------------- MODULE Directory -----------------------------
(***************************************************************************)
(* The merchant directory (apps/wallet/server.js): createDirectorySource() *)
(* with its memory cache, its last-good snapshot on disk and the bundled   *)
(* seed.  Both directory routes read the list through getList().           *)
(*                                                                         *)
(* Files are modelled as the file system has them: a name leads to an      *)
(* inode, writeFile() truncates the inode the name leads to and goes on    *)
(* writing it whatever the name leads to later, rename() moves the name.   *)
(***************************************************************************)
EXTENDS Integers, Sequences, FiniteSets

CONSTANTS
    Gets,        \* requests handled at one time
    Versions,    \* versions of the remote list, numbered as they are edited; 0 is the seed
    MaxDirRestarts  \* bound: dirRestarts

Inodes == 1 .. Cardinality(Gets) + 2

ASSUME DirectoryAssumption ==
    /\ IsFiniteSet(Gets)
    /\ Versions \in Nat \ {0}
    /\ MaxDirRestarts \in Nat

VARIABLES
    remote,     \* the version an answered fetch returns
    cache,      \* the cached version, 0 when none
    fresh,      \* the cache is younger than cacheMs
    inode,      \* what is in each inode
    snapTmp, snap,  \* the inodes of merchants.cache.json.tmp and merchants.cache.json, 0 when absent
    req,        \* per request: where its getList() is
    overlapped, \* ghost: two refreshes have been under way at one time
    served,     \* the list the last answered getList() returned, NoList before
    dirRestarts

dirVars == <<remote, cache, fresh, inode, snapTmp, snap, req, overlapped, served, dirRestarts>>

NoList == -1
\* An inode of the snapshot: the version in it, and whether all of it is.
Contents == [version: 0 .. Versions, whole: BOOLEAN]
NoReq == [at |-> "none", version |-> 0, fd |-> 0]
RefreshStates == [at: {"fetch", "arrive", "write", "rename"}, version: 0 .. Versions, fd: Inodes \union {0}]

DirTypeOK ==
    /\ remote \in 1 .. Versions /\ cache \in 0 .. Versions /\ fresh \in BOOLEAN
    /\ inode \in [Inodes -> Contents] /\ snapTmp \in Inodes \union {0} /\ snap \in Inodes \union {0}
    /\ req \in [Gets -> {NoReq} \union RefreshStates]
    /\ overlapped \in BOOLEAN
    /\ served \in {NoList} \union 0 .. Versions
    /\ dirRestarts \in 0 .. MaxDirRestarts

DirInit ==
    /\ remote = 1 /\ cache = 0 /\ fresh = FALSE
    /\ inode = [i \in Inodes |-> [version |-> 0, whole |-> FALSE]]
    /\ snapTmp = 0 /\ snap = 0
    /\ req = [g \in Gets |-> NoReq]
    /\ overlapped = FALSE
    /\ served = NoList
    /\ dirRestarts = 0

-----------------------------------------------------------------------------
(* getList() *)

Refreshing(g) == req[g].at # "none"

\* getList() returns list v to request g.
ListAnswered(g, v) ==
    /\ served' = v
    /\ req' = [req EXCEPT ![g] = NoReq]

\* A fresh cache answers at once, else the list is fetched.
Get(g) ==
    /\ ~Refreshing(g)
    /\ IF cache # 0 /\ fresh
       THEN ListAnswered(g, cache) /\ UNCHANGED overlapped
       ELSE /\ req' = [req EXCEPT ![g] = [NoReq EXCEPT !.at = "fetch"]]
            /\ overlapped' = (overlapped \/ \E h \in Gets : Refreshing(h))
            /\ UNCHANGED served
    /\ UNCHANGED <<remote, cache, fresh, inode, snapTmp, snap, dirRestarts>>

\* The remote server answers with the list as it is now.
Fetched(g) ==
    /\ req[g].at = "fetch"
    /\ req' = [req EXCEPT ![g].at = "arrive", ![g].version = remote]
    /\ UNCHANGED <<remote, cache, fresh, inode, snapTmp, snap, overlapped, served, dirRestarts>>

OpenInode(i) == i # snapTmp /\ i # snap /\ \A h \in Gets : Refreshing(h) => req[h].fd # i

\* The answer is here: it becomes the cache, and writeFile() opens the temporary
\* file, truncating whatever that name leads to.
Arrives(g) ==
    /\ req[g].at = "arrive"
    /\ cache' = req[g].version
    /\ fresh' = TRUE
    /\ \E i \in Inodes :
          /\ IF snapTmp # 0 THEN i = snapTmp ELSE OpenInode(i) /\ \A j \in Inodes : OpenInode(j) => i <= j
          /\ snapTmp' = i
          /\ inode' = [inode EXCEPT ![i] = [version |-> 0, whole |-> FALSE]]
          /\ req' = [req EXCEPT ![g].at = "write", ![g].fd = i]
    /\ UNCHANGED <<remote, snap, overlapped, served, dirRestarts>>

\* The list is written into the opened inode.  If another one was written there
\* since it was truncated, a shorter text leaves the end of the longer one behind.
SnapshotWritten(g) ==
    /\ req[g].at = "write"
    /\ LET i == req[g].fd
       IN \E clean \in BOOLEAN :
             /\ ~clean => inode[i].whole /\ inode[i].version # req[g].version
             /\ inode' = [inode EXCEPT ![i] = [version |-> req[g].version, whole |-> clean]]
    /\ req' = [req EXCEPT ![g].at = "rename"]
    /\ UNCHANGED <<remote, cache, fresh, snapTmp, snap, overlapped, served, dirRestarts>>

\* Mutant: the snapshot is written in place.
SnapshotRenamedInPlace(g) ==
    /\ req[g].at = "write" /\ snapTmp # 0
    /\ snap' = snapTmp /\ snapTmp' = 0
    /\ ListAnswered(g, req[g].version)
    /\ UNCHANGED <<remote, cache, fresh, inode, overlapped, dirRestarts>>

\* The temporary name, if it is still there, becomes the snapshot.
SnapshotRenamed(g) ==
    /\ req[g].at = "rename"
    /\ IF snapTmp # 0
       THEN snap' = snapTmp /\ snapTmp' = 0
       ELSE UNCHANGED <<snap, snapTmp>>
    /\ ListAnswered(g, req[g].version)
    /\ UNCHANGED <<remote, cache, fresh, inode, overlapped, dirRestarts>>

\* The disk refuses, before or after the temporary file was opened: the fetched
\* list is answered without a snapshot.
SnapshotFails(g) ==
    /\ req[g].at \in {"arrive", "write"}
    /\ cache' = IF req[g].at = "arrive" THEN req[g].version ELSE cache
    /\ fresh' = (fresh \/ req[g].at = "arrive")
    /\ ListAnswered(g, req[g].version)
    /\ UNCHANGED <<remote, inode, snapTmp, snap, overlapped, dirRestarts>>

\* What a getList() without an answer falls back to: the cache however old, the
\* snapshot, the seed.
Fallback ==
    IF cache # 0 THEN cache
    ELSE IF snap # 0 /\ inode[snap].whole THEN inode[snap].version ELSE 0

FetchFails(g) ==
    /\ req[g].at = "fetch"
    /\ ListAnswered(g, Fallback)
    /\ UNCHANGED <<remote, cache, fresh, inode, snapTmp, snap, overlapped, dirRestarts>>

\* The operator edits the list; the cache ages.
Edit ==
    /\ remote < Versions
    /\ remote' = remote + 1
    /\ UNCHANGED <<cache, fresh, inode, snapTmp, snap, req, overlapped, served, dirRestarts>>

Expire ==
    /\ fresh
    /\ fresh' = FALSE
    /\ UNCHANGED <<remote, req, cache, inode, snapTmp, snap, overlapped, served, dirRestarts>>

-----------------------------------------------------------------------------
(* Restart, the specification *)

Restarted ==
    /\ dirRestarts < MaxDirRestarts
    /\ dirRestarts' = dirRestarts + 1
    /\ cache' = 0 /\ fresh' = FALSE
    /\ req' = [g \in Gets |-> NoReq]
    /\ UNCHANGED <<remote, inode, snapTmp, snap, overlapped, served>>

DirNext ==
    \/ \E g \in Gets : Get(g) \/ Fetched(g) \/ FetchFails(g)
    \/ \E g \in Gets : Arrives(g) \/ SnapshotFails(g) \/ SnapshotWritten(g) \/ SnapshotRenamed(g)
    \/ Edit \/ Expire \/ Restarted

DirSpec == DirInit /\ [][DirNext]_dirVars

-----------------------------------------------------------------------------
(* Properties *)

\* A snapshot that does not parse, if only for a moment, takes two refreshes at
\* one time, which share the temporary name (saveSnapshot).
SnapshotWholeAlone == snap # 0 /\ ~inode[snap].whole => overlapped
=============================================================================
