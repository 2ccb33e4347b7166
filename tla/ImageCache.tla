----------------------------- MODULE ImageCache -----------------------------
(***************************************************************************)
(* internal/resolver/images.go: ResolveLayers turns the layers of a chart  *)
(* into images in the cache directory, one goroutine per layer.  A layer's *)
(* source is a git repository or an OCI reference; both are looked up      *)
(* first, which gives the build key, and fetched later.                    *)
(*                                                                         *)
(* A version and its build key are one identity (hashSpec).  The key is a  *)
(* hash of the digest, or of the commit, directory and command, and not of *)
(* the reference or the repository: two tags, or a repository and its      *)
(* fork, may offer the same version.  An image and the content key under   *)
(* which it is stored are another identity (generateContentKey).  What     *)
(* survives a power loss is what was fsynced and what SQLite committed.    *)
(***************************************************************************)
EXTENDS Naturals, FiniteSets

CONSTANTS
  Jobs,        \* layers being resolved
  Groups,      \* calls of ResolveLayers
  Group,       \* the call a job belongs to
  Limit,       \* MaxConcurrency.Resolve
  Sources,
  SourceOf,    \* what a layer is built from
  Pulled,      \* the sources that are OCI images: nothing is built from them
  Versions,
  Offers,      \* the versions a source may show
  Images,
  Built,       \* what a version builds to
  Kernelless,  \* images without a kernel
  NoJob, NoVersion, NoImage,
  Faults       \* what may go wrong in this instance

FaultKinds == {"network",  \* a lookup, pull, clone, build or packaging fails
               "store",    \* a statement on the image index fails
               "kraft",    \* a package cannot be removed from kraft's store
               "disk",     \* staging, hashing, an fsync or a rename fails
               "cancel",   \* a caller of ResolveLayers gives up
               "crash",    \* the runner's process dies
               "power",    \* so does the host
               "moves"}    \* a source gets another head

ASSUME CacheAssumption ==
  /\ Group \in [Jobs -> Groups]
  /\ Limit \in Nat \ {0}
  /\ SourceOf \in [Jobs -> Sources]
  /\ Pulled \subseteq Sources
  /\ Offers \in [Sources -> SUBSET Versions]
  /\ \A s \in Sources : Offers[s] # {}
  /\ Built \in [Versions -> Images]
  /\ Kernelless \subseteq Images
  /\ NoJob \notin Jobs /\ NoVersion \notin Versions /\ NoImage \notin Images
  /\ Faults \subseteq FaultKinds

VARIABLES
  head,     \* the version each source shows
  dir,      \* imgDir: "whole", or "torn" when files of the image are missing
  entries,  \* directories of imgDir that a power loss spares
  files,    \* images whose files it spares
  index,    \* build_keys
  litter,   \* kraft's store holds a package of an attempt that is over
  at,       \* where each job is
  key,      \* the version a job looked up: its build key
  got,      \* the version in its staging directory
  flushed,  \* jobs whose staging directory was synced
  flight,   \* sf: the job that resolves a key for all who asked
  result,   \* what a job returned
  dead      \* calls whose ctx is cancelled

diskVars == <<dir, entries, files>>
jobVars == <<at, key, got, flushed, flight, result, dead>>
vars == <<head, dir, entries, files, index, litter, at, key, got, flushed, flight, result, dead>>

Points == {"out", "queued", "look", "join", "waiting", "lookup", "fetch", "pack", "export",
           "publish", "sync", "rename", "syncDir", "save"}

TypeOK ==
  /\ head \in [Sources -> Versions]
  /\ dir \in [Images -> {"absent", "whole", "torn"}]
  /\ entries \subseteq Images /\ files \subseteq Images
  /\ index \in [Versions -> Images \cup {NoImage}]
  /\ litter \in BOOLEAN
  /\ at \in [Jobs -> Points]
  /\ key \in [Jobs -> Versions \cup {NoVersion}]
  /\ got \in [Jobs -> Versions \cup {NoVersion}]
  /\ flushed \subseteq Jobs
  /\ flight \in [Versions -> Jobs \cup {NoJob}]
  /\ result \in [Jobs -> Images \cup {NoImage}]
  /\ dead \subseteq Groups

Present(c) == dir[c] # "absent"

\* hasKernel looks at the kernel alone: it does not see that an initrd is gone.
HasKernel(c) == Present(c) /\ c \notin Kernelless

\* the image in a job's staging directory
Staged(j) == Built[got[j]]

CtxDone(j) == Group[j] \in dead

MayFail(j, kind) == CtxDone(j) \/ kind \in Faults

-----------------------------------------------------------------------------
\* A job leaves resolveLayer; the first error of a call cancels its other jobs.
Answer(js, r) ==
  /\ at' = [j \in Jobs |-> IF j \in js THEN "out" ELSE at[j]]
  /\ key' = [j \in Jobs |-> IF j \in js THEN NoVersion ELSE key[j]]
  /\ got' = [j \in Jobs |-> IF j \in js THEN NoVersion ELSE got[j]]
  /\ result' = [j \in Jobs |-> IF j \in js THEN r ELSE result[j]]
  /\ flushed' = flushed \ js
  /\ dead' = IF r = NoImage THEN dead \cup {Group[j] : j \in js} ELSE dead

\* Mutant of Followers: one flight for all keys.
FollowersOfAnyKey(j) == {k \in Jobs : at[k] = "waiting"}

Followers(j) == {k \in Jobs : at[k] = "waiting" /\ key[k] = key[j]}

\* Mutant of Finish: the flight outlives its leader.
FinishForgets(j, r) ==
  /\ Answer({j} \cup Followers(j), r)
  /\ UNCHANGED flight

\* The function given to sf.Do returns: whoever waits gets the leader's answer,
\* its error included, and the staging directory is removed.
Finish(j, r) ==
  /\ flight' = [flight EXCEPT ![key[j]] = NoJob]
  /\ Answer({j} \cup Followers(j), r)

GoOn(j, point) ==
  /\ at' = [at EXCEPT ![j] = point]
  /\ UNCHANGED <<key, got, flushed, flight, result, dead>>

-----------------------------------------------------------------------------
\* ResolveLayers: one job per layer, under one ctx.
Begin(g) ==
  /\ \A j \in Jobs : Group[j] = g => at[j] = "out"
  /\ at' = [j \in Jobs |-> IF Group[j] = g THEN "queued" ELSE at[j]]
  /\ result' = [j \in Jobs |-> IF Group[j] = g THEN NoImage ELSE result[j]]
  /\ dead' = dead \ {g}
  /\ UNCHANGED <<head, diskVars, index, litter, key, got, flushed, flight>>

\* errgroup lets Limit of them run at a time.
Enter(j) ==
  /\ at[j] = "queued"
  /\ Cardinality({k \in Jobs : Group[k] = Group[j] /\ at[k] \notin {"out", "queued"}}) < Limit
  /\ GoOn(j, "look")
  /\ UNCHANGED <<head, diskVars, index, litter>>

\* resolveLinks and resolveVolumes, then the head of the source: `git ls-remote'
\* or `kraft pkg info'.
Look(j) ==
  /\ at[j] = "look"
  /\ UNCHANGED <<head, diskVars, index, litter, flight>>
  /\ \/ /\ ~CtxDone(j)
        /\ key' = [key EXCEPT ![j] = head[SourceOf[j]]]
        /\ at' = [at EXCEPT ![j] = "join"]
        /\ UNCHANGED <<got, flushed, result, dead>>
     \/ MayFail(j, "network") /\ Answer({j}, NoImage)

\* Mutant of Join: no singleflight.
JoinAlone(j) ==
  /\ at[j] = "join"
  /\ flight' = [flight EXCEPT ![key[j]] = j]
  /\ at' = [at EXCEPT ![j] = "lookup"]
  /\ UNCHANGED <<head, diskVars, index, litter, key, got, flushed, result, dead>>

\* sf.Do
Join(j) ==
  /\ at[j] = "join"
  /\ IF flight[key[j]] = NoJob
       THEN flight' = [flight EXCEPT ![key[j]] = j] /\ at' = [at EXCEPT ![j] = "lookup"]
       ELSE at' = [at EXCEPT ![j] = "waiting"] /\ UNCHANGED flight
  /\ UNCHANGED <<head, diskVars, index, litter, key, got, flushed, result, dead>>

\* A row of the index counts only when its kernel is there.
Lookup(j) ==
  /\ at[j] = "lookup"
  /\ UNCHANGED <<head, diskVars, index, litter>>
  /\ LET c == index[key[j]]
         hit == c # NoImage /\ HasKernel(c)
     IN  \/ ~CtxDone(j) /\ hit /\ Finish(j, c)
         \/ ~CtxDone(j) /\ ~hit /\ GoOn(j, "fetch")
         \/ MayFail(j, "store") /\ Finish(j, NoImage)

\* Mutant of Fetch: one staging directory for all.
FetchShared(j) ==
  /\ at[j] = "fetch"
  /\ UNCHANGED <<head, diskVars, index, litter, key, flushed, flight, result, dead>>
  /\ got' = [k \in Jobs |-> IF k = j \/ got[k] # NoVersion THEN head[SourceOf[j]] ELSE got[k]]
  /\ at' = [at EXCEPT ![j] = IF SourceOf[j] \in Pulled THEN "publish" ELSE "pack"]

\* downloadImage, into a staging directory of its own: the image, or a clone of
\* whatever the source shows now, which need not be what Look saw.
Fetch(j) ==
  /\ at[j] = "fetch"
  /\ UNCHANGED <<head, diskVars, index, litter>>
  /\ \/ /\ ~CtxDone(j)
        /\ got' = [got EXCEPT ![j] = head[SourceOf[j]]]
        /\ at' = [at EXCEPT ![j] = IF SourceOf[j] \in Pulled THEN "publish" ELSE "pack"]
        /\ UNCHANGED <<key, flushed, flight, result, dead>>
     \/ MayFail(j, "network") /\ Finish(j, NoImage)

\* The build command and `kraft pkg', which puts a package into kraft's store.
\* One that fails may leave it there: nobody removes it before the next Reclaim.
Pack(j) ==
  /\ at[j] = "pack"
  /\ UNCHANGED <<head, diskVars, index>>
  /\ \/ ~CtxDone(j) /\ GoOn(j, "export") /\ UNCHANGED litter
     \/ MayFail(j, "network") /\ Finish(j, NoImage) /\ litter' \in {litter, TRUE}

\* Mutant of Unpackaged: the package is removed under the caller's ctx.
UnpackagedUnderCtx(j) == litter' \in IF MayFail(j, "kraft") THEN {litter, TRUE} ELSE {litter}

\* The package is removed under a ctx of its own, whatever has become of the export.
Unpackaged(j) == litter' \in IF "kraft" \in Faults THEN {litter, TRUE} ELSE {litter}

\* `kraft pkg export' and extractPackage, then the deferred removal
Export(j) ==
  /\ at[j] = "export"
  /\ UNCHANGED <<head, diskVars, index>>
  /\ Unpackaged(j)
  /\ \/ ~CtxDone(j) /\ GoOn(j, "publish")
     \/ MayFail(j, "network") /\ Finish(j, NoImage)

\* Mutant of Publish: the image is indexed before it is published.
PublishAfterIndex(j) ==
  /\ at[j] = "publish"
  /\ index' = [index EXCEPT ![key[j]] = Staged(j)]
  /\ GoOn(j, IF Present(Staged(j)) THEN "save" ELSE "sync")
  /\ UNCHANGED <<head, diskVars, litter>>

\* A directory of that content key makes the staged copy redundant.  The content
\* key is not found out when the staging directory could not be made or read.
Publish(j) ==
  /\ at[j] = "publish"
  /\ UNCHANGED <<head, diskVars, index, litter>>
  /\ \/ GoOn(j, IF Present(Staged(j)) THEN "save" ELSE "sync")
     \/ "disk" \in Faults /\ Finish(j, NoImage)

\* Mutant of SyncTree: only the directory of the images is synced.
SyncTreeNot(j) ==
  /\ at[j] = "sync"
  /\ UNCHANGED <<head, diskVars, index, litter>>
  /\ GoOn(j, "rename")

\* syncTree(stageDir)
SyncTree(j) ==
  /\ at[j] = "sync"
  /\ UNCHANGED <<head, diskVars, index, litter>>
  /\ \/ /\ flushed' = flushed \cup {j}
        /\ at' = [at EXCEPT ![j] = "rename"]
        /\ UNCHANGED <<key, got, flight, result, dead>>
     \/ "disk" \in Faults /\ Finish(j, NoImage)

\* os.Rename; another job may have published the same bytes meanwhile
RenameStage(j) ==
  /\ at[j] = "rename"
  /\ UNCHANGED <<head, entries, index, litter>>
  /\ \/ /\ ~Present(Staged(j))
        /\ dir' = [dir EXCEPT ![Staged(j)] = "whole"]
        /\ files' = IF j \in flushed THEN files \cup {Staged(j)} ELSE files \ {Staged(j)}
        /\ GoOn(j, "syncDir")
     \/ Present(Staged(j)) /\ GoOn(j, "syncDir") /\ UNCHANGED <<dir, files>>
     \/ "disk" \in Faults /\ Finish(j, NoImage) /\ UNCHANGED <<dir, files>>

\* syncPath(r.imgDir) makes every rename into it durable.
SyncDir(j) ==
  /\ at[j] = "syncDir"
  /\ UNCHANGED <<head, dir, files, index, litter>>
  /\ \/ entries' = {c \in Images : Present(c)} /\ GoOn(j, "save")
     \/ "disk" \in Faults /\ Finish(j, NoImage) /\ UNCHANGED entries

\* Mutant of Save: the index is written under the caller's ctx.
SaveUnderCtx(j) ==
  /\ at[j] = "save"
  /\ UNCHANGED <<head, diskVars, litter>>
  /\ \/ /\ ~CtxDone(j)
        /\ index' = [index EXCEPT ![key[j]] = Staged(j)]
        /\ Finish(j, Staged(j))
     \/ MayFail(j, "store") /\ Finish(j, NoImage) /\ UNCHANGED index

\* Mutant of Save: the build key is stored where the content key belongs.
SaveBuildKey(j) ==
  /\ at[j] = "save"
  /\ UNCHANGED <<head, diskVars, litter>>
  /\ \/ index' = [index EXCEPT ![key[j]] = got[j]] /\ Finish(j, Staged(j))
     \/ "store" \in Faults /\ Finish(j, NoImage) /\ UNCHANGED index

\* SaveImageMetadata, one transaction under a ctx the caller cannot cancel; a
\* commit that reports an error may have happened.
Save(j) ==
  /\ at[j] = "save"
  /\ UNCHANGED <<head, diskVars, litter>>
  /\ \/ /\ index' = [index EXCEPT ![key[j]] = Staged(j)]
        /\ Finish(j, Staged(j)) \/ ("store" \in Faults /\ Finish(j, NoImage))
     \/ "store" \in Faults /\ Finish(j, NoImage) /\ UNCHANGED index

-----------------------------------------------------------------------------
(* The environment.                                                        *)

Move(s) ==
  /\ "moves" \in Faults
  /\ \E v \in Offers[s] \ {head[s]} : head' = [head EXCEPT ![s] = v]
  /\ UNCHANGED <<diskVars, index, litter, jobVars>>

Cancel(g) ==
  /\ "cancel" \in Faults /\ g \notin dead
  /\ \E j \in Jobs : Group[j] = g /\ at[j] # "out"
  /\ dead' = dead \cup {g}
  /\ UNCHANGED <<head, diskVars, index, litter, at, key, got, flushed, flight, result>>

\* Nothing resolves when a new process starts.  The staging directories of the
\* old one have names that are never used again.
AllOut ==
  /\ at' = [j \in Jobs |-> "out"]
  /\ key' = [j \in Jobs |-> NoVersion]
  /\ got' = [j \in Jobs |-> NoVersion]
  /\ flushed' = {}
  /\ flight' = [v \in Versions |-> NoJob]
  /\ result' = [j \in Jobs |-> NoImage]
  /\ dead' = {}

\* Reclaim, before anything resolves: a package it cannot remove stays.
Reclaim ==
  litter' \in IF "kraft" \in Faults /\ (litter \/ \E j \in Jobs : at[j] \in {"pack", "export"})
              THEN BOOLEAN ELSE {FALSE}

Crash == "crash" \in Faults /\ AllOut /\ Reclaim /\ UNCHANGED <<head, diskVars, index>>

\* Unsynced directories may vanish, unsynced files of the others too.
PowerLoss ==
  /\ "power" \in Faults
  /\ AllOut /\ Reclaim
  /\ \E lost \in SUBSET {c \in Images : Present(c) /\ c \notin entries},
        torn \in SUBSET {c \in Images : Present(c) /\ c \notin files} :
       dir' = [c \in Images |-> IF c \in lost THEN "absent"
                                ELSE IF c \in torn THEN "torn" ELSE dir[c]]
  /\ entries' = {c \in Images : dir'[c] # "absent"}
  /\ files' = entries'
  /\ UNCHANGED <<head, index>>

-----------------------------------------------------------------------------
Init ==
  /\ head \in [Sources -> Versions] /\ \A s \in Sources : head[s] \in Offers[s]
  /\ dir = [c \in Images |-> "absent"]
  /\ entries = {} /\ files = {}
  /\ index = [v \in Versions |-> NoImage]
  /\ litter = FALSE
  /\ at = [j \in Jobs |-> "out"]
  /\ key = [j \in Jobs |-> NoVersion]
  /\ got = [j \in Jobs |-> NoVersion]
  /\ flushed = {}
  /\ flight = [v \in Versions |-> NoJob]
  /\ result = [j \in Jobs |-> NoImage]
  /\ dead = {}

Resolve(j) ==
  \/ Enter(j) \/ Look(j) \/ Join(j) \/ Lookup(j) \/ Fetch(j) \/ Pack(j) \/ Export(j)
  \/ Publish(j) \/ SyncTree(j) \/ RenameStage(j) \/ SyncDir(j) \/ Save(j)

Next ==
  \/ \E j \in Jobs : Resolve(j)
  \/ \E g \in Groups : Begin(g) \/ Cancel(g)
  \/ \E s \in Sources : Move(s)
  \/ Crash \/ PowerLoss

Spec == Init /\ [][Next]_vars

-----------------------------------------------------------------------------
(* Properties.                                                             *)

\* An image handed to the orchestrator is whole, found in the cache or built,
\* whatever crash or power loss the cache directory has been through: hasKernel
\* would not notice a missing initrd, and an existing directory is taken for
\* "these exact bytes" without a look (resolveImage).
ResolvedIsWhole == \A j \in Jobs : result[j] # NoImage => dir[result[j]] = "whole"

\* As long as the host stays up, the index never names an image that is not
\* there, also after a crash of the runner between any two steps and for images
\* several keys share (resolveImage publishes before SaveImageMetadata).
IndexIsBacked == \A v \in Versions : index[v] # NoImage => dir[index[v]] = "whole"

\* A caller that gives up does not lose what was already published: when a job
\* that renamed its image into place ends, its key is indexed, unless the
\* process itself died (resolveImage: "we provide a refreshed context to allow
\* image index to be persisted").
PublishedIsIndexed ==
  [][\A j \in Jobs :
       at[j] \in {"syncDir", "save"} /\ at'[j] = "out"
         => AllOut \/ index'[key[j]] = Staged(j)]_vars

\* A temporary package outlives its attempt only when `kraft pkg' itself was cut
\* short or kraft refuses to remove it: a caller that gives up later, or an export
\* that fails, leaves none behind (packageLayer: the removal has a ctx of its own),
\* and a process that dies leaves none to its successor (Reclaim).
PackagesGo ==
  [][litter' /\ ~litter => "kraft" \in Faults \/ \E j \in Jobs : at[j] = "pack" /\ at'[j] = "out"]_vars

Building(j) ==
  at[j] \in {"lookup", "fetch", "pack", "export", "publish", "sync", "rename", "syncDir", "save"}

\* However many layers and charts ask for a version at the same time, one of
\* them fetches and builds it (resolveImage, sf).
OneBuildPerKey == \A j, k \in Jobs : j # k /\ Building(j) /\ Building(k) => key[j] # key[k]

\* "a build key is deterministic" (persistence/images.go:50): what the index
\* holds under the key of a version is what that version builds to.
KeyNamesBuild == \A v \in Versions : index[v] \in {NoImage, Built[v]}

-----------------------------------------------------------------------------
(* What is known at each control point, which makes the invariants above    *)
(* inductive.                                                              *)

\* A directory is renamed into imgDir only after its files were synced, so what
\* is there is whole and stays so.
CacheWhole == \A c \in Images : Present(c) => dir[c] = "whole" /\ c \in files

JobsKnow ==
  \A j \in Jobs :
    /\ Building(j) \/ at[j] \in {"join", "waiting"} => key[j] \in Versions
    /\ at[j] \in {"pack", "export", "publish", "sync", "rename", "syncDir", "save"} => got[j] \in Versions
    /\ at[j] = "rename" => j \in flushed
    /\ at[j] \in {"syncDir", "save"} => Present(Staged(j))

\* A flight has a leader that is still at work, and whoever waits has a flight.
FlightsAreLed ==
  /\ \A j \in Jobs : Building(j) => flight[key[j]] = j
  /\ \A v \in Versions : flight[v] # NoJob => Building(flight[v]) /\ key[flight[v]] = v
  /\ \A j \in Jobs : at[j] = "waiting" => flight[key[j]] # NoJob

CacheInv ==
  /\ CacheWhole
  /\ JobsKnow
  /\ FlightsAreLed
  /\ ResolvedIsWhole

\* The images of all the sources that may show v: a source may move between the
\* lookup of its key and the fetch, so each of them may end up in the row of v.
Gives == [v \in Versions |->
            {Built[u] : u \in UNION {Offers[s] : s \in {r \in Sources : v \in Offers[r]}}}]

\* A job looks up and fetches versions of its own source, and a row holds an image
\* of a source that may have its key.
Provenance ==
  /\ \A s \in Sources : head[s] \in Offers[s]
  /\ \A j \in Jobs : key[j] # NoVersion => key[j] \in Offers[SourceOf[j]]
  /\ \A j \in Jobs : got[j] # NoVersion => got[j] \in Offers[SourceOf[j]]
  /\ \A v \in Versions : index[v] # NoImage => index[v] \in Gives[v]

\* Begin forgets the answers of the call before.
Unanswered == \A j \in Jobs : at[j] # "out" => result[j] = NoImage

IInv ==
  /\ CacheInv
  /\ Provenance
  /\ Unanswered
  /\ \A c \in entries : Present(c)

-----------------------------------------------------------------------------
(* The abstract specification: what the jobs see of the cache.              *)

Asks == [j \in Jobs |-> IF Building(j) \/ at[j] = "waiting" THEN key[j] ELSE NoVersion]

Whole == {c \in Images : dir[c] = "whole"}

Store == INSTANCE ImageStore WITH
           Keys <- Versions, NoKey <- NoVersion,
           store <- Whole, kept <- entries,
           maker <- flight, asks <- Asks, answer <- result

\* Resolving implements the store: an image shows up whole or not at all, one job
\* makes the image of a key for all who wait for it, each of them gets the same
\* answer in the same step, the answer is an image that is there and of a source
\* that may have the key, and no crash takes an image whose directory was synced
\* (resolveLayer, resolveImage).
RefinesStore == Store!Spec

\* No layer boots from an image of a source that its own shares no build key with:
\* staging directories, flights and rows are told apart by what was looked up, also
\* for sources that move meanwhile and give images others have too (hashSpec,
\* resolveImage).  Sources that share a key are not kept apart: when one of them
\* moves between lookup and fetch, the other's layers get its new image.
NoForeignImage == Store!AnswersFit

Fairness == \A j \in Jobs : WF_vars(Resolve(j))

FairSpec == Spec /\ Fairness

\* Every layer of every call gets an answer: no job waits for a leader that is
\* gone, or for a slot that waiting jobs hold (resolveAll).
ResolutionsReturn == \A j \in Jobs : at[j] = "queued" ~> at[j] = "out"
=============================================================================
