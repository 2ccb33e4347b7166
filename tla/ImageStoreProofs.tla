-------------------------- MODULE ImageStoreProofs --------------------------
(***************************************************************************)
(* Resolving layers implements ImageStore, for every set of calls, layers, *)
(* sources, versions and images, whatever fails and whatever the sources   *)
(* do meanwhile.                                                           *)
(***************************************************************************)
EXTENDS ImageCacheProofs

storeVars == <<Whole, entries, flight, Asks, result>>

-----------------------------------------------------------------------------
(* What the store shows of the cache and the jobs.                         *)

\* What is there is whole, and only what was synced is kept.
LEMMA WholeIsPresent ==
  ASSUME IInv
  PROVE  \A c \in Images : c \in Whole <=> Present(c)
BY DEF IInv, CacheInv, CacheWhole, Whole, Present

\* A job asks for its key from Join until its answer.
LEMMA AskedKeys ==
  ASSUME TypeOK, IInv
  PROVE  /\ Asks \in [Jobs -> Versions \cup {NoVersion}]
         /\ \A j \in Jobs : Asks[j] = IF Building(j) \/ at[j] = "waiting" THEN key[j] ELSE NoVersion
         /\ \A j \in Jobs : Building(j) \/ at[j] = "waiting"
                              => key[j] \in Versions /\ key[j] # NoVersion /\ key[j] \in Offers[SourceOf[j]]
BY CacheAssumption DEF TypeOK, IInv, CacheInv, JobsKnow, Provenance, Asks

\* A builder that goes on still asks for its key.
LEMMA GoOnAsks ==
  ASSUME TypeOK, NEW j \in Jobs, Building(j), Building(j)', UNCHANGED key,
         \A k \in Jobs \ {j} : at'[k] = at[k]
  PROVE  UNCHANGED Asks
BY DEF Asks, Building

\* Those who ask for the key of a leader are the leader and its followers.
LEMMA FlightAsks ==
  ASSUME TypeOK, IInv, NEW j \in Jobs, Building(j)
  PROVE  \A k \in Jobs : Asks[k] = key[j] <=> k \in {j} \cup Followers(j)
<1> SUFFICES ASSUME NEW k \in Jobs PROVE Asks[k] = key[j] <=> k \in {j} \cup Followers(j)
  OBVIOUS
<1>1. ASSUME Building(k), key[k] = key[j] PROVE k = j
  BY <1>1 DEF IInv, CacheInv, FlightsAreLed
<1>2. at[j] # "waiting"
  BY DEF Building
<1> QED
  BY <1>1, <1>2, AskedKeys DEF Followers

\* The return of sf.Do is the settling of its key.
LEMMA FinishSeen ==
  ASSUME TypeOK, IInv, NEW j \in Jobs, NEW r \in Answers, Building(j), Finish(j, r),
         UNCHANGED <<dir, entries>>,
         r # NoImage => r \in Whole /\ r \in Gives[key[j]]
  PROVE  Store!Next
<1> USE CacheAssumption
<1>1. /\ key[j] \in Versions
      /\ flight[key[j]] = j /\ flight[key[j]] # NoJob
  BY AskedKeys DEF IInv, CacheInv, FlightsAreLed
<1>2. UNCHANGED <<Whole, entries>>
  BY DEF Whole
<1>3. flight' = [flight EXCEPT ![key[j]] = NoJob]
  BY DEF Finish
<1>4. result' = [k \in Jobs |-> IF Asks[k] = key[j] THEN r ELSE result[k]]
  BY FlightAsks DEF Finish, Answer
<1>5. Asks' = [k \in Jobs |-> IF Asks[k] = key[j] THEN NoVersion ELSE Asks[k]]
  <2> SUFFICES ASSUME NEW k \in Jobs
      PROVE  Asks'[k] = IF Asks[k] = key[j] THEN NoVersion ELSE Asks[k]
    BY DEF Asks
  <2>1. Asks'[k] = IF Building(k)' \/ at'[k] = "waiting" THEN key'[k] ELSE NoVersion
    BY DEF Asks, Building
  <2>2. CASE k \in {j} \cup Followers(j)
    BY <2>1, <2>2, FlightAsks DEF Finish, Answer, Building
  <2>3. CASE k \notin {j} \cup Followers(j)
    <3>1. at'[k] = at[k] /\ key'[k] = key[k]
      BY <2>3 DEF Finish, Answer
    <3> QED
      BY <2>1, <2>3, <3>1, FlightAsks, AskedKeys DEF Building
  <2> QED
    BY <2>2, <2>3
<1>6. Store!Settle(key[j], r)
  BY <1>1, <1>2, <1>3, <1>4, <1>5 DEF Store!Settle
<1> QED
  BY <1>1, <1>6 DEF Store!Next, Answers

\* A flight that ends without an image.
LEMMA FailureSeen ==
  ASSUME TypeOK, IInv, NEW j \in Jobs, Building(j), Finish(j, NoImage), UNCHANGED <<dir, entries>>
  PROVE  Store!Next
BY FinishSeen DEF Answers

-----------------------------------------------------------------------------
(* The steps of a job.                                                     *)

\* Before it joins a flight a job asks for nothing, and an error changes nothing:
\* it has had no answer since Begin.
LEMMA EntersSeen ==
  ASSUME TypeOK, IInv, NEW j \in Jobs, Enter(j) \/ Look(j)
  PROVE  UNCHANGED storeVars
<1>1. UNCHANGED <<dir, entries, flight>>
  BY DEF Enter, Look, GoOn, Answer, diskVars
<1>2. /\ \A k \in Jobs \ {j} : at'[k] = at[k] /\ key'[k] = key[k]
      /\ at[j] \in {"queued", "look"} /\ at'[j] \in {"look", "join", "out"}
  BY DEF Enter, Look, GoOn, Answer, TypeOK
<1>3. UNCHANGED Asks
  BY <1>2 DEF Asks, Building
<1>4. UNCHANGED result
  <2>1. result[j] = NoImage
    BY <1>2 DEF IInv, Unanswered
  <2> QED
    BY <2>1 DEF Enter, Look, GoOn, Answer, TypeOK
<1> QED
  BY <1>1, <1>3, <1>4 DEF storeVars, Whole

LEMMA JoinSeen ==
  ASSUME TypeOK, IInv, NEW j \in Jobs, Join(j)
  PROVE  Store!Next
<1> USE CacheAssumption
<1>1. at[j] = "join" /\ ~Building(j) /\ key[j] \in Versions /\ key[j] # NoVersion
  BY DEF Join, IInv, CacheInv, JobsKnow, Building
<1>2. Asks[j] = NoVersion /\ result[j] = NoImage /\ key[j] \in Offers[SourceOf[j]]
  BY <1>1, AskedKeys DEF IInv, Provenance, Unanswered
<1>3. Asks' = [Asks EXCEPT ![j] = key[j]]
  <2>1. /\ \A k \in Jobs \ {j} : at'[k] = at[k]
        /\ at'[j] \in {"lookup", "waiting"} /\ UNCHANGED key
    BY DEF Join, TypeOK
  <2> QED
    BY <2>1 DEF Asks, Building
<1>4. flight' = IF flight[key[j]] = NoJob THEN [flight EXCEPT ![key[j]] = j] ELSE flight
  BY DEF Join
<1>5. UNCHANGED <<Whole, entries, result>>
  BY DEF Join, diskVars, Whole
<1>6. Store!Ask(j, key[j])
  BY <1>2, <1>3, <1>4, <1>5 DEF Store!Ask
<1> QED
  BY <1>1, <1>6 DEF Store!Next

\* A builder that goes on within its flight and leaves the directories alone.
LEMMA GoOnSeen ==
  ASSUME TypeOK, NEW j \in Jobs, Building(j), NEW point, at' = [at EXCEPT ![j] = point],
         point \in {"fetch", "pack", "export", "publish", "sync", "rename", "syncDir", "save"},
         UNCHANGED <<dir, entries, key, flight, result>>
  PROVE  UNCHANGED storeVars
<1>1. Building(j)' /\ \A k \in Jobs \ {j} : at'[k] = at[k]
  BY DEF Building, TypeOK
<1> QED
  BY <1>1, GoOnAsks DEF storeVars, Whole

\* The rename is the moment an image appears.
LEMMA RenameSeen ==
  ASSUME TypeOK, IInv, NEW j \in Jobs, RenameStage(j)
  PROVE  Store!Next \/ UNCHANGED storeVars
<1> USE CacheAssumption
<1>1. Building(j) /\ UNCHANGED entries
  BY DEF RenameStage, Building
<1>2. CASE Finish(j, NoImage) /\ UNCHANGED <<dir, files>>
  BY <1>1, <1>2, FailureSeen
<1>3. CASE GoOn(j, "syncDir") /\ UNCHANGED <<dir, files>>
  BY <1>1, <1>3, GoOnSeen DEF GoOn
<1>4. CASE GoOn(j, "syncDir") /\ dir' = [dir EXCEPT ![Staged(j)] = "whole"]
  <2>1. key[j] \in Versions /\ got[j] \in Versions /\ flight[key[j]] = j /\ j # NoJob
    BY <1>1 DEF RenameStage, IInv, CacheInv, JobsKnow, FlightsAreLed
  <2>2. key[j] \in Offers[SourceOf[j]] /\ got[j] \in Offers[SourceOf[j]]
    BY <2>1 DEF IInv, Provenance
  <2>3. Staged(j) \in Images /\ Staged(j) \in Gives[key[j]]
    BY <2>1, <2>2, GivenBySource DEF Staged
  <2>4. Whole' = Whole \cup {Staged(j)}
    BY <1>4, <2>3 DEF Whole, TypeOK
  <2>5. UNCHANGED <<entries, flight, Asks, result>>
    <3>1. Building(j)' /\ \A k \in Jobs \ {j} : at'[k] = at[k]
      BY <1>4 DEF GoOn, Building, TypeOK
    <3> QED
      BY <1>1, <1>4, <3>1, GoOnAsks DEF GoOn
  <2>6. Store!Add(key[j], Staged(j))
    BY <2>1, <2>3, <2>4, <2>5 DEF Store!Add
  <2> QED
    BY <2>1, <2>3, <2>6 DEF Store!Next
<1> QED
  BY <1>2, <1>3, <1>4 DEF RenameStage

LEMMA SyncDirSeen ==
  ASSUME TypeOK, IInv, NEW j \in Jobs, SyncDir(j)
  PROVE  Store!Next
<1>1. Building(j) /\ UNCHANGED dir
  BY DEF SyncDir, Building
<1>2. CASE Finish(j, NoImage) /\ UNCHANGED entries
  BY <1>1, <1>2, FailureSeen
<1>3. CASE entries' = {c \in Images : Present(c)} /\ GoOn(j, "save")
  <2>1. entries' = Whole /\ UNCHANGED Whole
    BY <1>1, <1>3, WholeIsPresent DEF Whole
  <2>2. UNCHANGED <<flight, Asks, result>>
    <3>1. Building(j)' /\ \A k \in Jobs \ {j} : at'[k] = at[k]
      BY <1>3 DEF GoOn, Building, TypeOK
    <3> QED
      BY <1>1, <1>3, <3>1, GoOnAsks DEF GoOn
  <2> QED
    BY <2>1, <2>2 DEF Store!Next, Store!Keep
<1> QED
  BY <1>2, <1>3 DEF SyncDir

\* A row of the index that counts names an image of a source of the key, and there,
\* and so does the copy a job saves.
LEMMA AnswersSeen ==
  ASSUME TypeOK, IInv, NEW j \in Jobs, Lookup(j) \/ Save(j)
  PROVE  Store!Next \/ UNCHANGED storeVars
<1> USE CacheAssumption
<1>1. Building(j) /\ UNCHANGED <<dir, entries>> /\ key[j] \in Versions
  BY DEF Lookup, Save, diskVars, Building, IInv, CacheInv, JobsKnow
<1>2. CASE Finish(j, NoImage)
  BY <1>1, <1>2, FailureSeen
<1>3. CASE Lookup(j) /\ GoOn(j, "fetch")
  BY <1>1, <1>3, GoOnSeen DEF GoOn
<1>4. CASE Lookup(j) /\ Finish(j, index[key[j]]) /\ index[key[j]] # NoImage /\ HasKernel(index[key[j]])
  <2>1. index[key[j]] \in Images /\ index[key[j]] \in Gives[key[j]]
    BY <1>1, <1>4 DEF TypeOK, IInv, Provenance
  <2>2. index[key[j]] \in Whole
    BY <1>4, <2>1, WholeIsPresent DEF HasKernel
  <2> QED
    BY <1>1, <1>4, <2>1, <2>2, FinishSeen DEF Answers
<1>5. CASE Save(j) /\ Finish(j, Staged(j))
  <2>1. /\ got[j] \in Versions /\ Present(Staged(j))
        /\ got[j] \in Offers[SourceOf[j]] /\ key[j] \in Offers[SourceOf[j]]
    BY <1>1, <1>5 DEF Save, IInv, CacheInv, JobsKnow, Provenance
  <2>2. Staged(j) \in Images /\ Staged(j) \in Gives[key[j]] /\ Staged(j) \in Whole
    BY <2>1, WholeIsPresent, GivenBySource DEF Staged
  <2> QED
    BY <1>1, <1>5, <2>2, FinishSeen DEF Answers
<1> QED
  BY <1>2, <1>3, <1>4, <1>5 DEF Lookup, Save

\* The steps between, which the store does not see unless they fail.
LEMMA BuildsSeen ==
  ASSUME TypeOK, IInv, NEW j \in Jobs,
         Fetch(j) \/ Pack(j) \/ Export(j) \/ Publish(j) \/ SyncTree(j)
  PROVE  Store!Next \/ UNCHANGED storeVars
<1>1. Building(j) /\ UNCHANGED <<dir, entries>>
  BY DEF Fetch, Pack, Export, Publish, SyncTree, diskVars, Building
<1>2. CASE Finish(j, NoImage)
  BY <1>1, <1>2, FailureSeen
<1>3. CASE Fetch(j) /\ ~Finish(j, NoImage)
  BY <1>1, <1>3, GoOnSeen DEF Fetch
<1>4. CASE (Pack(j) \/ Export(j) \/ Publish(j)) /\ ~Finish(j, NoImage)
  BY <1>1, <1>4, GoOnSeen DEF Pack, Export, Publish, GoOn
<1>5. CASE SyncTree(j) /\ ~Finish(j, NoImage)
  BY <1>1, <1>5, GoOnSeen DEF SyncTree
<1> QED
  BY <1>2, <1>3, <1>4, <1>5

-----------------------------------------------------------------------------
(* The environment, and the theorem.                                       *)

\* A crash and a power loss take the jobs, and of the images what was not synced.
LEMMA RestartSeen ==
  ASSUME TypeOK, IInv, Crash \/ PowerLoss
  PROVE  Store!Next
<1>1. /\ flight' = [v \in Versions |-> NoJob] /\ Asks' = [j \in Jobs |-> NoVersion]
      /\ result' = [j \in Jobs |-> NoImage]
  BY DEF Crash, PowerLoss, AllOut, Asks, Building
<1>2. CASE Crash
  BY <1>1, <1>2 DEF Crash, diskVars, Whole, Store!Next, Store!Restart
<1>3. CASE PowerLoss
  <2>1. PICK lost \in SUBSET {c \in Images : Present(c) /\ c \notin entries},
             torn \in SUBSET {c \in Images : Present(c) /\ c \notin files} :
          dir' = [c \in Images |-> IF c \in lost THEN "absent"
                                   ELSE IF c \in torn THEN "torn" ELSE dir[c]]
    BY <1>3 DEF PowerLoss
  <2>2. torn = {}
    BY DEF IInv, CacheInv, CacheWhole
  <2>3. Whole' = Whole \ lost /\ entries' = Whole'
    <3>1. Whole' = Whole \ lost
      BY <2>1, <2>2 DEF Whole
    <3>2. \A c \in Images : dir'[c] # "absent" <=> dir'[c] = "whole"
      BY <2>1, <2>2, WholeIsPresent DEF Whole, Present
    <3> QED
      BY <1>3, <3>1, <3>2 DEF PowerLoss, Whole
  <2>4. entries \subseteq Whole \ lost
    BY <2>1, WholeIsPresent DEF IInv, TypeOK
  <2> QED
    BY <1>1, <2>3, <2>4 DEF Store!Next, Store!Restart
<1> QED
  BY <1>2, <1>3

\* A call of ResolveLayers has its jobs out, and forgets what they had.
LEMMA BeginSeen ==
  ASSUME TypeOK, IInv, NEW g \in Groups, Begin(g)
  PROVE  Store!Next
<1> DEFINE js == {j \in Jobs : Group[j] = g}
<1>1. \A j \in js : at[j] = "out"
  BY DEF Begin
<1>2. UNCHANGED <<Whole, entries, flight>>
  BY DEF Begin, diskVars, Whole
<1>3. UNCHANGED Asks
  BY <1>1 DEF Begin, Asks, Building
<1>4. js \in SUBSET {j \in Jobs : Asks[j] = NoVersion}
  BY <1>1, AskedKeys DEF Building
<1>5. result' = [j \in Jobs |-> IF j \in js THEN NoImage ELSE result[j]]
  BY DEF Begin
<1> QED
  BY <1>2, <1>3, <1>4, <1>5 DEF Store!Next, Store!Renew

\* Resolving implements the store of whole images with one maker per key
\* (resolveLayer, resolveImage, sf.Do, publish and Reclaim), whatever fails.
THEOREM StoreImplementation == Spec => RefinesStore
<1>1. Init => Store!Init
  BY DEF Init, Store!Init, Whole, Asks, Building
<1>2. TypeOK /\ IInv /\ [Next]_vars => [Store!Next]_storeVars
  <2> SUFFICES ASSUME TypeOK, IInv, [Next]_vars PROVE Store!Next \/ UNCHANGED storeVars
    OBVIOUS
  <2>1. ASSUME NEW j \in Jobs, Resolve(j) PROVE Store!Next \/ UNCHANGED storeVars
    BY <2>1, EntersSeen, JoinSeen, AnswersSeen, BuildsSeen, RenameSeen, SyncDirSeen DEF Resolve
  <2>2. ASSUME NEW g \in Groups, Cancel(g) PROVE UNCHANGED storeVars
    BY <2>2 DEF Cancel, diskVars, storeVars, Whole, Asks, Building
  <2>3. CASE UNCHANGED vars \/ \E s \in Sources : Move(s)
    BY <2>3 DEF Move, vars, diskVars, jobVars, storeVars, Whole, Asks, Building
  <2> QED
    BY <2>1, <2>2, <2>3, BeginSeen, RestartSeen DEF Next
<1> QED
  BY <1>1, <1>2, CacheInvariance, PTL DEF Spec, RefinesStore, Store!Spec, storeVars

\* A layer is given an image of its own source or of one that shares a build key
\* with it (hashSpec, resolveImage).  By any step of its own the store keeps that,
\* and every step of the cache is one or changes none of it.
THEOREM NoForeignAnswers == Spec => []NoForeignImage
<1>1. Init => NoForeignImage
  BY DEF Init, NoForeignImage, Store!AnswersFit, Asks, Building
<1>2. TypeOK /\ IInv /\ NoForeignImage /\ [Store!Next]_storeVars => NoForeignImage'
  <2> SUFFICES ASSUME TypeOK, IInv, NoForeignImage, Store!Next PROVE NoForeignImage'
    BY DEF storeVars, NoForeignImage, Store!AnswersFit
  <2> USE DEF NoForeignImage, Store!AnswersFit
  <2>0. /\ Asks \in [Jobs -> Versions \cup {NoVersion}] /\ flight \in [Versions -> Jobs \cup {NoJob}]
        /\ result \in [Jobs -> Images \cup {NoImage}]
    BY AskedKeys DEF TypeOK
  <2>1. ASSUME NEW v \in Versions, NEW j \in Jobs, Store!Ask(j, v) PROVE NoForeignImage'
    BY <2>0, <2>1 DEF Store!Ask
  <2>2. ASSUME NEW v \in Versions, NEW c \in Images, Store!Add(v, c) PROVE NoForeignImage'
    BY <2>2 DEF Store!Add
  <2>3. ASSUME NEW v \in Versions, NEW r \in Images \cup {NoImage}, Store!Settle(v, r)
        PROVE  NoForeignImage'
    BY <2>0, <2>3, CacheAssumption DEF Store!Settle
  <2>4. CASE Store!Renew
    BY <2>4 DEF Store!Renew
  <2>5. CASE Store!Keep
    BY <2>5 DEF Store!Keep
  <2>6. CASE Store!Restart
    BY <2>6 DEF Store!Restart
  <2> QED
    BY <2>1, <2>2, <2>3, <2>4, <2>5, <2>6 DEF Store!Next
<1>3. RefinesStore => [][Store!Next]_storeVars
  BY PTL DEF RefinesStore, Store!Spec, storeVars
<1> QED
  BY <1>1, <1>2, <1>3, CacheInvariance, StoreImplementation, PTL DEF Spec
=============================================================================
