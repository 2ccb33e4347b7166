-------------------------- MODULE ImageCacheProofs --------------------------
(***************************************************************************)
(* Theorems about ImageCache, for every set of calls, layers, sources,     *)
(* versions and images: its types, the inductive invariant IInv, and what  *)
(* follows from them.                                                      *)
(***************************************************************************)
EXTENDS ImageCache, TLAPS

Answers == Images \cup {NoImage}

-----------------------------------------------------------------------------
(* Types.                                                                  *)

\* A job that leaves resolveLayer, alone or with its followers, keeps the types
\* of what the calls hold.
LEMMA AnswerTypes ==
  ASSUME TypeOK, NEW js \in SUBSET Jobs, NEW r \in Answers, Answer(js, r)
  PROVE  /\ at' \in [Jobs -> Points]
         /\ key' \in [Jobs -> Versions \cup {NoVersion}]
         /\ got' \in [Jobs -> Versions \cup {NoVersion}]
         /\ flushed' \subseteq Jobs
         /\ result' \in [Jobs -> Images \cup {NoImage}]
         /\ dead' \subseteq Groups
<1> USE CacheAssumption DEF TypeOK, Answer, Answers, Points
<1>1. at' \in [Jobs -> Points] /\ flushed' \subseteq Jobs
  OBVIOUS
<1>2. /\ key' \in [Jobs -> Versions \cup {NoVersion}]
      /\ got' \in [Jobs -> Versions \cup {NoVersion}]
  OBVIOUS
<1>3. result' \in [Jobs -> Images \cup {NoImage}]
  OBVIOUS
<1>4. dead' \subseteq Groups
  <2>1. {Group[j] : j \in js} \subseteq Groups
    OBVIOUS
  <2> QED
    BY <2>1
<1> QED
  BY <1>1, <1>2, <1>3, <1>4

LEMMA FinishTypes ==
  ASSUME TypeOK, NEW j \in Jobs, NEW r \in Answers, Finish(j, r),
         UNCHANGED <<head, entries, files>>,
         dir' \in [Images -> {"absent", "whole", "torn"}],
         index' \in [Versions -> Images \cup {NoImage}], litter' \in BOOLEAN
  PROVE  TypeOK'
<1>1. {j} \cup Followers(j) \in SUBSET Jobs
  BY DEF Followers
<1>2. Answer({j} \cup Followers(j), r)
  BY DEF Finish
<1>3. flight' \in [Versions -> Jobs \cup {NoJob}]
  BY DEF Finish, TypeOK
<1> QED
  BY <1>1, <1>2, <1>3, AnswerTypes DEF TypeOK

\* A step of a job keeps the types.  What a job has looked up or fetched is known
\* from JobsKnow.
LEMMA ResolveTypes ==
  ASSUME TypeOK, JobsKnow, NEW j \in Jobs, Resolve(j)
  PROVE  TypeOK'
<1> USE CacheAssumption
<1>a. NoImage \in Answers
  BY DEF Answers
<1>1. CASE Enter(j)
  BY <1>1 DEF Enter, GoOn, diskVars, TypeOK, Points
<1>2. CASE Look(j)
  <2>1. CASE at' = [at EXCEPT ![j] = "join"] /\ key' = [key EXCEPT ![j] = head[SourceOf[j]]]
    <3>1. UNCHANGED <<head, dir, entries, files, index, litter, flight>>
      BY <1>2 DEF Look, diskVars
    <3>2. UNCHANGED <<got, flushed, result, dead>>
      BY <1>2, <2>1 DEF Look, Answer, TypeOK
    <3>3. at' \in [Jobs -> Points] /\ key' \in [Jobs -> Versions \cup {NoVersion}]
      <4>1. head[SourceOf[j]] \in Versions
        BY DEF TypeOK
      <4> QED
        BY <2>1, <4>1 DEF TypeOK, Points
    <3> QED
      BY <3>1, <3>2, <3>3 DEF TypeOK
  <2>2. CASE Answer({j}, NoImage)
    BY <1>2, <1>a, <2>2, AnswerTypes DEF Look, diskVars, TypeOK
  <2> QED
    BY <1>2, <2>1, <2>2 DEF Look
<1>3. CASE Join(j)
  <2>1. UNCHANGED <<head, dir, entries, files, index, litter, key, got, flushed, result, dead>>
    BY <1>3 DEF Join, diskVars
  <2>2. at' \in [Jobs -> Points] /\ flight' \in [Versions -> Jobs \cup {NoJob}]
    <3>1. key[j] \in Versions
      BY <1>3 DEF Join, JobsKnow
    <3>2. at' \in [Jobs -> Points]
      <4>1. at' = [at EXCEPT ![j] = "lookup"] \/ at' = [at EXCEPT ![j] = "waiting"]
        BY <1>3 DEF Join
      <4> QED
        BY <4>1 DEF TypeOK, Points
    <3>3. flight' \in [Versions -> Jobs \cup {NoJob}]
      BY <1>3, <3>1 DEF Join, TypeOK
    <3> QED
      BY <3>2, <3>3
  <2> QED
    BY <2>1, <2>2 DEF TypeOK
<1>4. CASE Lookup(j)
  <2>1. UNCHANGED <<head, dir, entries, files, index, litter>>
    BY <1>4 DEF Lookup, diskVars
  <2>2. key[j] \in Versions /\ index[key[j]] \in Answers
    BY <1>4 DEF Lookup, JobsKnow, Building, TypeOK, Answers
  <2>3. CASE Finish(j, index[key[j]]) \/ Finish(j, NoImage)
    BY <1>a, <2>1, <2>2, <2>3, FinishTypes DEF TypeOK
  <2>4. CASE GoOn(j, "fetch")
    BY <2>1, <2>4 DEF GoOn, TypeOK, Points
  <2> QED
    BY <1>4, <2>3, <2>4 DEF Lookup
<1>5. CASE Fetch(j)
  <2>1. UNCHANGED <<head, dir, entries, files, index, litter>>
    BY <1>5 DEF Fetch, diskVars
  <2>2. CASE Finish(j, NoImage)
    BY <1>a, <2>1, <2>2, FinishTypes DEF TypeOK
  <2>3. CASE at' = [at EXCEPT ![j] = IF SourceOf[j] \in Pulled THEN "publish" ELSE "pack"]
             /\ got' = [got EXCEPT ![j] = head[SourceOf[j]]]
             /\ UNCHANGED <<key, flushed, flight, result, dead>>
    BY <2>1, <2>3 DEF TypeOK, Points
  <2> QED
    BY <1>5, <2>2, <2>3 DEF Fetch
<1>11. CASE Pack(j) \/ Export(j)
  <2>1. UNCHANGED <<head, dir, entries, files, index>>
    BY <1>11 DEF Pack, Export, diskVars
  <2>2. litter' \in BOOLEAN
    <3>1. litter \in BOOLEAN
      BY DEF TypeOK
    <3> QED
      BY <1>11, <3>1 DEF Pack, Export, Unpackaged
  <2>3. CASE Finish(j, NoImage)
    BY <1>a, <2>1, <2>2, <2>3, FinishTypes DEF TypeOK
  <2>4. CASE GoOn(j, "export") \/ GoOn(j, "publish")
    BY <2>1, <2>2, <2>4 DEF GoOn, TypeOK, Points
  <2> QED
    BY <1>11, <2>3, <2>4 DEF Pack, Export
<1>6. CASE Publish(j)
  <2>1. UNCHANGED <<head, dir, entries, files, index, litter>>
    BY <1>6 DEF Publish, diskVars
  <2>2. CASE Finish(j, NoImage)
    BY <1>a, <2>1, <2>2, FinishTypes DEF TypeOK
  <2>3. CASE GoOn(j, IF Present(Staged(j)) THEN "save" ELSE "sync")
    BY <2>1, <2>3 DEF GoOn, TypeOK, Points
  <2> QED
    BY <1>6, <2>2, <2>3 DEF Publish
<1>7. CASE SyncTree(j)
  <2>1. UNCHANGED <<head, dir, entries, files, index, litter>>
    BY <1>7 DEF SyncTree, diskVars
  <2>2. CASE Finish(j, NoImage)
    BY <1>a, <2>1, <2>2, FinishTypes DEF TypeOK
  <2>3. CASE /\ flushed' = flushed \cup {j}
             /\ at' = [at EXCEPT ![j] = "rename"]
             /\ UNCHANGED <<key, got, flight, result, dead>>
    BY <2>1, <2>3 DEF TypeOK, Points
  <2> QED
    BY <1>7, <2>2, <2>3 DEF SyncTree
<1>8. CASE RenameStage(j)
  <2>1. got[j] \in Versions /\ Staged(j) \in Images
    BY <1>8 DEF RenameStage, JobsKnow, Staged
  <2>2. UNCHANGED <<head, entries, index, litter>>
    BY <1>8 DEF RenameStage
  <2>3. CASE GoOn(j, "syncDir")
    <3>1. dir' \in [Images -> {"absent", "whole", "torn"}] /\ files' \subseteq Images
      <4>1. CASE UNCHANGED <<dir, files>>
        BY <4>1 DEF TypeOK
      <4>2. CASE /\ dir' = [dir EXCEPT ![Staged(j)] = "whole"]
                 /\ files' = IF j \in flushed THEN files \cup {Staged(j)} ELSE files \ {Staged(j)}
        BY <2>1, <4>2 DEF TypeOK
      <4> QED
        BY <1>8, <4>1, <4>2 DEF RenameStage
    <3> QED
      BY <2>2, <2>3, <3>1 DEF GoOn, TypeOK, Points
  <2>4. CASE Finish(j, NoImage) /\ UNCHANGED <<dir, files>>
    BY <1>a, <2>2, <2>4, FinishTypes DEF TypeOK
  <2> QED
    BY <1>8, <2>3, <2>4 DEF RenameStage
<1>9. CASE SyncDir(j)
  <2>1. UNCHANGED <<head, dir, files, index, litter>>
    BY <1>9 DEF SyncDir
  <2>2. CASE entries' = {c \in Images : Present(c)} /\ GoOn(j, "save")
    BY <2>1, <2>2 DEF GoOn, TypeOK, Points
  <2>3. CASE Finish(j, NoImage) /\ UNCHANGED entries
    BY <1>a, <2>1, <2>3, FinishTypes DEF TypeOK
  <2> QED
    BY <1>9, <2>2, <2>3 DEF SyncDir
<1>10. CASE Save(j)
  <2>1. key[j] \in Versions /\ got[j] \in Versions /\ Staged(j) \in Images
    BY <1>10 DEF Save, JobsKnow, Building, Staged
  <2>2. UNCHANGED <<head, dir, entries, files, litter>>
    BY <1>10 DEF Save, diskVars
  <2>3. index' \in [Versions -> Images \cup {NoImage}]
    BY <1>10, <2>1 DEF Save, TypeOK
  <2>4. Finish(j, Staged(j)) \/ Finish(j, NoImage)
    BY <1>10 DEF Save
  <2> QED
    BY <1>a, <2>1, <2>2, <2>3, <2>4, FinishTypes DEF TypeOK, Answers
<1> QED
  BY <1>1, <1>2, <1>3, <1>4, <1>5, <1>6, <1>7, <1>8, <1>9, <1>10, <1>11 DEF Resolve

LEMMA AllOutTypes ==
  ASSUME TypeOK, AllOut
  PROVE  /\ at' \in [Jobs -> Points]
         /\ key' \in [Jobs -> Versions \cup {NoVersion}]
         /\ got' \in [Jobs -> Versions \cup {NoVersion}]
         /\ flushed' \subseteq Jobs
         /\ flight' \in [Versions -> Jobs \cup {NoJob}]
         /\ result' \in [Jobs -> Images \cup {NoImage}]
         /\ dead' \subseteq Groups
BY DEF AllOut, TypeOK, Points

\* Every step keeps the types.
LEMMA StepTypes ==
  ASSUME TypeOK, JobsKnow, [Next]_vars
  PROVE  TypeOK'
<1>1. ASSUME NEW j \in Jobs, Resolve(j) PROVE TypeOK'
  BY <1>1, ResolveTypes
<1>2. ASSUME NEW g \in Groups, Begin(g) PROVE TypeOK'
  BY <1>2 DEF Begin, diskVars, TypeOK, Points
<1>3. ASSUME NEW g \in Groups, Cancel(g) PROVE TypeOK'
  BY <1>3 DEF Cancel, diskVars, TypeOK
<1>4. ASSUME NEW s \in Sources, Move(s) PROVE TypeOK'
  <2>1. head' \in [Sources -> Versions]
    BY <1>4, CacheAssumption DEF Move, TypeOK
  <2> QED
    BY <1>4, <2>1 DEF Move, diskVars, jobVars, TypeOK
<1>a. ASSUME Reclaim PROVE litter' \in BOOLEAN
  BY <1>a DEF Reclaim
<1>5. CASE Crash
  <2>1. litter' \in BOOLEAN /\ UNCHANGED <<head, dir, entries, files, index>>
    BY <1>5, <1>a DEF Crash, diskVars
  <2> QED
    BY <1>5, <2>1, AllOutTypes DEF Crash, TypeOK
<1>6. CASE PowerLoss
  <2>1. dir' \in [Images -> {"absent", "whole", "torn"}]
    BY <1>6 DEF PowerLoss, TypeOK
  <2>2. entries' \subseteq Images /\ files' \subseteq Images /\ UNCHANGED <<head, index>>
    BY <1>6 DEF PowerLoss
  <2>3. litter' \in BOOLEAN
    BY <1>6, <1>a DEF PowerLoss
  <2> QED
    BY <1>6, <2>1, <2>2, <2>3, AllOutTypes DEF PowerLoss, TypeOK
<1>7. CASE UNCHANGED vars
  BY <1>7 DEF vars, TypeOK
<1> QED
  BY <1>1, <1>2, <1>3, <1>4, <1>5, <1>6, <1>7 DEF Next

-----------------------------------------------------------------------------
(* The inductive invariant.                                                *)

\* A leader that returns takes its flight and its followers with it.
LEMMA FinishKnows ==
  ASSUME TypeOK, CacheInv, NEW j \in Jobs, NEW r \in Answers, Building(j),
         Finish(j, r), UNCHANGED <<dir, files>>,
         r # NoImage => dir[r] = "whole"
  PROVE  CacheInv'
<1> USE CacheAssumption
<1> DEFINE js == {j} \cup Followers(j)
<1>1. /\ \A k \in Jobs \ js : at'[k] = at[k] /\ key'[k] = key[k] /\ got'[k] = got[k]
                              /\ result'[k] = result[k]
      /\ \A k \in js : at'[k] = "out" /\ result'[k] = r
      /\ flushed' = flushed \ js
  BY DEF Finish, Answer, TypeOK, Followers
<1>2. js \subseteq Jobs
  BY DEF Followers
<1>3. key[j] \in Versions /\ flight[key[j]] = j
  BY DEF CacheInv, JobsKnow, FlightsAreLed
<1>4. flight' = [flight EXCEPT ![key[j]] = NoJob]
  BY DEF Finish
<1>5. CacheWhole' /\ ResolvedIsWhole'
  <2>1. CacheWhole'
    BY DEF CacheInv, CacheWhole, Present
  <2>2. ResolvedIsWhole'
    BY <1>1, <1>2 DEF CacheInv, ResolvedIsWhole
  <2> QED
    BY <2>1, <2>2
<1>6. JobsKnow'
  <2> SUFFICES ASSUME NEW k \in Jobs \ js
      PROVE  /\ Building(k)' \/ at'[k] \in {"join", "waiting"} => key'[k] \in Versions
             /\ at'[k] \in {"pack", "export", "publish", "sync", "rename", "syncDir", "save"} => got'[k] \in Versions
             /\ at'[k] = "rename" => k \in flushed'
             /\ at'[k] \in {"syncDir", "save"} => Present(Staged(k))'
    BY <1>1, <1>2 DEF JobsKnow, Building
  <2> QED
    BY <1>1 DEF CacheInv, JobsKnow, Building, Present, Staged
<1>7. FlightsAreLed'
  <2>1. ASSUME NEW k \in Jobs, Building(k)' PROVE flight'[key'[k]] = k
    <3>1. k \notin js /\ Building(k) /\ key'[k] = key[k]
      BY <1>1, <2>1 DEF Building
    <3>2. flight[key[k]] = k /\ key[k] \in Versions
      BY <3>1 DEF CacheInv, JobsKnow, FlightsAreLed
    <3>3. key[k] # key[j]
      BY <1>3, <3>1, <3>2
    <3> QED
      BY <1>4, <3>1, <3>2, <3>3 DEF TypeOK
  <2>2. ASSUME NEW v \in Versions, flight'[v] # NoJob
        PROVE  Building(flight[v])' /\ key'[flight'[v]] = v
    <3>1. v # key[j] /\ flight'[v] = flight[v] /\ flight[v] \in Jobs
      BY <1>3, <1>4, <2>2 DEF TypeOK
    <3>2. Building(flight[v]) /\ key[flight[v]] = v
      BY <2>2, <3>1 DEF CacheInv, FlightsAreLed
    <3>3. flight[v] \notin js
      BY <3>1, <3>2 DEF Followers, Building
    <3> QED
      BY <1>1, <3>1, <3>2, <3>3 DEF Building
  <2>3. ASSUME NEW k \in Jobs, at'[k] = "waiting" PROVE flight'[key'[k]] # NoJob
    <3>1. k \notin js /\ at[k] = "waiting" /\ key'[k] = key[k]
      BY <1>1, <2>3
    <3>2. key[k] \in Versions /\ flight[key[k]] # NoJob /\ key[k] # key[j]
      BY <3>1 DEF CacheInv, JobsKnow, FlightsAreLed, Followers
    <3> QED
      BY <1>4, <3>1, <3>2 DEF TypeOK
  <2> QED
    BY <2>1, <2>2, <2>3 DEF FlightsAreLed, Building
<1> QED
  BY <1>5, <1>6, <1>7 DEF CacheInv

\* A builder that moves on within its flight, over a cache that keeps what it has.
LEMMA GoOnKnows ==
  ASSUME TypeOK, CacheInv, NEW j \in Jobs, Building(j), Building(j)',
         NEW point \in Points, at' = [at EXCEPT ![j] = point],
         UNCHANGED <<key, flight, result>>,
         \A k \in Jobs \ {j} : got'[k] = got[k],
         got'[j] \in Versions \/ point = "fetch",
         flushed \subseteq flushed', point = "rename" => j \in flushed',
         CacheWhole', \A c \in Images : Present(c) => Present(c)',
         point \in {"syncDir", "save"} => Present(Staged(j))'
  PROVE  CacheInv'
<1> USE CacheAssumption
<1>1. ResolvedIsWhole'
  <2>1. ASSUME NEW k \in Jobs, result[k] # NoImage PROVE dir'[result[k]] = "whole"
    <3>1. result[k] \in Images /\ Present(result[k])
      BY <2>1 DEF TypeOK, CacheInv, ResolvedIsWhole, Present
    <3> QED
      BY <3>1 DEF CacheWhole
  <2> QED
    BY <2>1 DEF ResolvedIsWhole
<1>2. JobsKnow'
  <2>1. ASSUME NEW k \in Jobs \ {j}
        PROVE  /\ Building(k)' \/ at'[k] \in {"join", "waiting"} => key'[k] \in Versions
               /\ at'[k] \in {"pack", "export", "publish", "sync", "rename", "syncDir", "save"} => got'[k] \in Versions
               /\ at'[k] = "rename" => k \in flushed'
               /\ at'[k] \in {"syncDir", "save"} => Present(Staged(k))'
    <3>1. at'[k] = at[k] /\ key'[k] = key[k] /\ got'[k] = got[k]
      BY DEF TypeOK
    <3>2. at[k] \in {"syncDir", "save"} => Staged(k) \in Images /\ Present(Staged(k))
      BY DEF CacheInv, JobsKnow, Staged
    <3>3. at'[k] \in {"syncDir", "save"} => Present(Staged(k))'
      BY <3>1, <3>2 DEF Staged
    <3> QED
      BY <3>1, <3>3 DEF CacheInv, JobsKnow, Building
  <2>2. /\ key'[j] \in Versions /\ at'[j] = point
        /\ point \in {"pack", "export", "publish", "sync", "rename", "syncDir", "save"} => got'[j] \in Versions
    BY DEF CacheInv, JobsKnow, TypeOK
  <2> QED
    BY <2>1, <2>2 DEF JobsKnow
<1>3. FlightsAreLed'
  <2>1. \A k \in Jobs : Building(k)' <=> Building(k)
    BY DEF Building, TypeOK
  <2>2. \A k \in Jobs : at'[k] = "waiting" <=> at[k] = "waiting"
    BY DEF Building, TypeOK
  <2>3. \A v \in Versions : flight[v] # NoJob => flight[v] \in Jobs
    BY DEF TypeOK
  <2> QED
    BY <2>1, <2>2, <2>3 DEF CacheInv, FlightsAreLed, Building
<1> QED
  BY <1>1, <1>2, <1>3 DEF CacheInv

\* Jobs that are not building yet.
LEMMA EntersKnows ==
  ASSUME TypeOK, CacheInv, NEW j \in Jobs, Enter(j) \/ Look(j) \/ Join(j)
  PROVE  CacheInv'
<1> USE CacheAssumption
<1>1. UNCHANGED <<dir, files>>
  BY DEF Enter, Look, Join, diskVars
<1>2. ASSUME NEW k \in Jobs \ {j}
      PROVE  at'[k] = at[k] /\ key'[k] = key[k] /\ got'[k] = got[k]
             /\ (k \in flushed => k \in flushed')
  BY DEF Enter, Look, Join, GoOn, Answer, TypeOK
<1>3. CacheWhole' /\ ResolvedIsWhole'
  <2>1. CacheWhole'
    BY <1>1 DEF CacheInv, CacheWhole, Present
  <2>2. \A k \in Jobs : result'[k] \in {result[k], NoImage}
    BY DEF Enter, Look, Join, GoOn, Answer, TypeOK
  <2>3. ResolvedIsWhole'
    BY <1>1, <2>2 DEF CacheInv, ResolvedIsWhole
  <2> QED
    BY <2>1, <2>3
<1>4. \A k \in Jobs \ {j} :
        /\ Building(k)' \/ at'[k] \in {"join", "waiting"} => key'[k] \in Versions
        /\ at'[k] \in {"pack", "export", "publish", "sync", "rename", "syncDir", "save"} => got'[k] \in Versions
        /\ at'[k] = "rename" => k \in flushed'
        /\ at'[k] \in {"syncDir", "save"} => Present(Staged(k))'
  BY <1>1, <1>2 DEF CacheInv, JobsKnow, Building, Present, Staged
<1>5. CASE Enter(j) \/ Look(j)
  <2>1. at'[j] \in {"look", "join", "out"} /\ ~Building(j) /\ at[j] # "waiting"
    BY <1>5 DEF Enter, Look, GoOn, Answer, Building, TypeOK
  <2>2. at'[j] = "join" => key'[j] \in Versions
    BY <1>5 DEF Enter, Look, GoOn, Answer, TypeOK
  <2>3. UNCHANGED flight
    BY <1>5 DEF Enter, Look, GoOn
  <2>4. JobsKnow'
    BY <1>4, <2>1, <2>2 DEF JobsKnow, Building
  <2>5. FlightsAreLed'
    <3>1. \A k \in Jobs : Building(k)' => k # j
      BY <2>1 DEF Building
    <3>2. \A v \in Versions : flight[v] # NoJob => flight[v] \in Jobs \ {j}
      BY <2>1 DEF CacheInv, FlightsAreLed, TypeOK
    <3> QED
      BY <1>2, <2>1, <2>3, <3>1, <3>2 DEF CacheInv, FlightsAreLed, Building
  <2> QED
    BY <1>3, <2>4, <2>5 DEF CacheInv
<1>6. CASE Join(j)
  <2>1. key' = key /\ key[j] \in Versions /\ at[j] = "join" /\ ~Building(j)
    BY <1>6 DEF Join, CacheInv, JobsKnow, Building
  <2>2. CASE flight[key[j]] = NoJob
    <3>1. /\ flight' = [flight EXCEPT ![key[j]] = j]
          /\ at' = [at EXCEPT ![j] = "lookup"]
      BY <1>6, <2>2 DEF Join
    <3>2. at'[j] = "lookup" /\ Building(j)'
      BY <3>1 DEF TypeOK, Building
    <3>3. JobsKnow'
      BY <1>4, <2>1, <3>2 DEF JobsKnow
    <3>4. ASSUME NEW k \in Jobs, Building(k)' PROVE flight'[key'[k]] = k
      <4>1. CASE k = j
        BY <2>1, <3>1, <4>1 DEF TypeOK
      <4>2. CASE k # j
        <5>1. Building(k) /\ key[k] \in Versions /\ flight[key[k]] = k
          BY <1>2, <3>4, <4>2 DEF Building, CacheInv, JobsKnow, FlightsAreLed
        <5>2. key[k] # key[j]
          BY <2>2, <5>1
        <5> QED
          BY <2>1, <3>1, <5>1, <5>2 DEF TypeOK
      <4> QED
        BY <4>1, <4>2
    <3>5. ASSUME NEW v \in Versions, flight'[v] # NoJob
          PROVE  Building(flight[v])' /\ key'[flight'[v]] = v
      <4>1. CASE v = key[j]
        BY <2>1, <3>1, <3>2, <4>1 DEF TypeOK, Building
      <4>2. CASE v # key[j]
        <5>1. flight'[v] = flight[v] /\ flight[v] \in Jobs
          BY <2>1, <3>1, <3>5, <4>2 DEF TypeOK
        <5>2. Building(flight[v]) /\ key[flight[v]] = v /\ flight[v] # j
          BY <2>1, <3>5, <5>1 DEF CacheInv, FlightsAreLed
        <5> QED
          BY <1>2, <5>1, <5>2 DEF Building
      <4> QED
        BY <4>1, <4>2
    <3>6. ASSUME NEW k \in Jobs, at'[k] = "waiting" PROVE flight'[key'[k]] # NoJob
      <4>1. at[k] = "waiting" /\ key[k] \in Versions /\ flight[key[k]] # NoJob
        BY <1>2, <3>2, <3>6 DEF CacheInv, JobsKnow, FlightsAreLed
      <4> QED
        BY <2>1, <3>1, <4>1 DEF TypeOK
    <3> QED
      BY <1>3, <3>3, <3>4, <3>5, <3>6 DEF CacheInv, FlightsAreLed, Building
  <2>3. CASE flight[key[j]] # NoJob
    <3>1. at' = [at EXCEPT ![j] = "waiting"] /\ UNCHANGED flight
      BY <1>6, <2>3 DEF Join
    <3>2. at'[j] = "waiting" /\ ~Building(j)'
      BY <3>1 DEF TypeOK, Building
    <3>3. JobsKnow'
      BY <1>4, <2>1, <3>2 DEF JobsKnow
    <3>4. \A k \in Jobs : (Building(k)' <=> Building(k))
      BY <1>2, <2>1, <3>2 DEF Building
    <3>5. FlightsAreLed'
      <4>1. \A v \in Versions : flight[v] # NoJob => flight[v] \in Jobs
        BY DEF TypeOK
      <4>2. \A k \in Jobs : at'[k] = "waiting" => flight[key[k]] # NoJob
        BY <1>2, <2>3 DEF CacheInv, FlightsAreLed
      <4> QED
        BY <2>1, <3>1, <3>4, <4>1, <4>2 DEF CacheInv, FlightsAreLed, Building
    <3> QED
      BY <1>3, <3>3, <3>5 DEF CacheInv
  <2> QED
    BY <2>2, <2>3
<1> QED
  BY <1>5, <1>6

\* The steps of a builder.
LEMMA BuildsKnows ==
  ASSUME TypeOK, CacheInv, TypeOK', NEW j \in Jobs,
         \/ Lookup(j) \/ Fetch(j) \/ Pack(j) \/ Export(j) \/ Publish(j)
         \/ SyncTree(j) \/ RenameStage(j) \/ SyncDir(j) \/ Save(j)
  PROVE  CacheInv'
<1> USE CacheAssumption
<1>a. NoImage \in Answers /\ Building(j)
  BY DEF Answers, Lookup, Fetch, Pack, Export, Publish, SyncTree, RenameStage, SyncDir, Save, Building
<1>b. CASE Finish(j, NoImage) /\ UNCHANGED <<dir, files>>
  BY <1>a, <1>b, FinishKnows
<1>c. ASSUME UNCHANGED <<dir, files>>
      PROVE  CacheWhole' /\ \A c \in Images : Present(c)' <=> Present(c)
  BY <1>c DEF CacheInv, CacheWhole, Present
<1>1. CASE Lookup(j)
  <2>1. UNCHANGED <<dir, files>>
    BY <1>1 DEF Lookup, diskVars
  <2>2. ASSUME Finish(j, index[key[j]]), HasKernel(index[key[j]]), index[key[j]] # NoImage
        PROVE  CacheInv'
    <3>1. key[j] \in Versions
      BY <1>a DEF CacheInv, JobsKnow
    <3>2. index[key[j]] \in Images
      BY <2>2, <3>1 DEF TypeOK
    <3>3. dir[index[key[j]]] = "whole"
      BY <2>2, <3>2 DEF HasKernel, CacheInv, CacheWhole
    <3> QED
      BY <1>a, <2>1, <2>2, <3>2, <3>3, FinishKnows DEF Answers
  <2>3. ASSUME GoOn(j, "fetch") PROVE CacheInv'
    <3>1. /\ at' = [at EXCEPT ![j] = "fetch"] /\ "fetch" \in Points
          /\ UNCHANGED <<key, got, flushed, flight, result>>
      BY <2>3 DEF GoOn, Points
    <3>2. Building(j)'
      BY <3>1 DEF Building, TypeOK
    <3> QED
      BY <1>a, <1>c, <2>1, <3>1, <3>2, GoOnKnows
  <2> QED
    BY <1>1, <1>b, <2>1, <2>2, <2>3 DEF Lookup
<1>2. CASE Fetch(j)
  <2>1. UNCHANGED <<dir, files>>
    BY <1>2 DEF Fetch, diskVars
  <2>2. ASSUME NEW point \in {"publish", "pack"},
               got' = [got EXCEPT ![j] = head[SourceOf[j]]],
               at' = [at EXCEPT ![j] = point],
               UNCHANGED <<key, flushed, flight, result>>
        PROVE  CacheInv'
    <3>1. point \in Points /\ got'[j] \in Versions /\ \A k \in Jobs \ {j} : got'[k] = got[k]
      BY <2>2 DEF Points, TypeOK
    <3>2. Building(j)'
      BY <2>2 DEF Building, TypeOK
    <3> QED
      BY <1>a, <1>c, <2>1, <2>2, <3>1, <3>2, GoOnKnows
  <2> QED
    BY <1>2, <1>b, <2>1, <2>2 DEF Fetch
<1>8. CASE Pack(j) \/ Export(j)
  <2>1. UNCHANGED <<dir, files>> /\ got[j] \in Versions
    BY <1>8 DEF Pack, Export, diskVars, CacheInv, JobsKnow
  <2>2. ASSUME NEW point \in {"export", "publish"}, GoOn(j, point) PROVE CacheInv'
    <3>1. /\ at' = [at EXCEPT ![j] = point] /\ point \in Points
          /\ UNCHANGED <<key, got, flushed, flight, result>>
      BY <2>2 DEF GoOn, Points
    <3>2. Building(j)'
      BY <3>1 DEF Building, TypeOK
    <3> QED
      BY <1>a, <1>c, <2>1, <3>1, <3>2, GoOnKnows
  <2> QED
    BY <1>8, <1>b, <2>1, <2>2 DEF Pack, Export
<1>3. CASE Publish(j)
  <2>1. UNCHANGED <<dir, files>> /\ got[j] \in Versions
    BY <1>3 DEF Publish, diskVars, CacheInv, JobsKnow
  <2>2. ASSUME NEW point, point = IF Present(Staged(j)) THEN "save" ELSE "sync", GoOn(j, point)
        PROVE  CacheInv'
    <3>1. /\ at' = [at EXCEPT ![j] = point] /\ point \in Points
          /\ UNCHANGED <<key, got, flushed, flight, result>>
      BY <2>2 DEF GoOn, Points
    <3>2. Building(j)'
      BY <2>2, <3>1 DEF Building, TypeOK
    <3>3. point \in {"syncDir", "save"} => Present(Staged(j))'
      BY <2>1, <2>2, <3>1 DEF Present, Staged
    <3>4. point # "rename" /\ got'[j] \in Versions
      BY <2>1, <2>2, <3>1
    <3> QED
      BY <1>a, <1>c, <2>1, <3>1, <3>2, <3>3, <3>4, GoOnKnows
  <2> QED
    BY <1>3, <1>b, <2>1, <2>2 DEF Publish
<1>4. CASE SyncTree(j)
  <2>1. UNCHANGED <<dir, files>> /\ got[j] \in Versions
    BY <1>4 DEF SyncTree, diskVars, CacheInv, JobsKnow
  <2>2. ASSUME flushed' = flushed \cup {j},
               at' = [at EXCEPT ![j] = "rename"],
               UNCHANGED <<key, got, flight, result>>
        PROVE  CacheInv'
    <3>1. "rename" \in Points /\ Building(j)'
      BY <2>2 DEF Points, Building, TypeOK
    <3> QED
      BY <1>a, <1>c, <2>1, <2>2, <3>1, GoOnKnows
  <2> QED
    BY <1>4, <1>b, <2>1, <2>2 DEF SyncTree
<1>5. CASE RenameStage(j)
  <2>1. got[j] \in Versions /\ Staged(j) \in Images /\ j \in flushed
    BY <1>5 DEF RenameStage, CacheInv, JobsKnow, Staged
  <2>2. ASSUME GoOn(j, "syncDir"),
               \/ /\ ~Present(Staged(j))
                  /\ dir' = [dir EXCEPT ![Staged(j)] = "whole"]
                  /\ files' = IF j \in flushed THEN files \cup {Staged(j)} ELSE files \ {Staged(j)}
               \/ Present(Staged(j)) /\ UNCHANGED <<dir, files>>
        PROVE  CacheInv'
    <3>1. /\ at' = [at EXCEPT ![j] = "syncDir"] /\ "syncDir" \in Points
          /\ UNCHANGED <<key, got, flushed, flight, result>>
      BY <2>2 DEF GoOn, Points
    <3>2. Building(j)'
      BY <3>1 DEF Building, TypeOK
    <3>3. CacheWhole' /\ (\A c \in Images : Present(c) => Present(c)')
      BY <2>1, <2>2 DEF CacheInv, CacheWhole, Present, TypeOK
    <3>4. Present(Staged(j))'
      <4>1. Staged(j)' = Staged(j)
        BY <3>1 DEF Staged
      <4>2. dir'[Staged(j)] # "absent"
        BY <2>1, <2>2 DEF Present, TypeOK
      <4> QED
        BY <4>1, <4>2 DEF Present
    <3> QED
      BY <1>a, <2>1, <3>1, <3>2, <3>3, <3>4, GoOnKnows
  <2> QED
    BY <1>5, <1>b, <2>2 DEF RenameStage
<1>6. CASE SyncDir(j)
  <2>1. UNCHANGED <<dir, files>> /\ got[j] \in Versions /\ Present(Staged(j))
    BY <1>6 DEF SyncDir, CacheInv, JobsKnow
  <2>2. ASSUME GoOn(j, "save") PROVE CacheInv'
    <3>1. /\ at' = [at EXCEPT ![j] = "save"] /\ "save" \in Points
          /\ UNCHANGED <<key, got, flushed, flight, result>>
      BY <2>2 DEF GoOn, Points
    <3>2. Building(j)' /\ Present(Staged(j))'
      BY <2>1, <3>1 DEF Building, TypeOK, Present, Staged
    <3> QED
      BY <1>a, <1>c, <2>1, <3>1, <3>2, GoOnKnows
  <2> QED
    BY <1>6, <1>b, <2>1, <2>2 DEF SyncDir
<1>7. CASE Save(j)
  <2>1. UNCHANGED <<dir, files>>
    BY <1>7 DEF Save, diskVars
  <2>2. Staged(j) \in Images /\ dir[Staged(j)] = "whole"
    BY <1>7 DEF Save, CacheInv, JobsKnow, CacheWhole, Staged
  <2>3. CASE Finish(j, Staged(j))
    BY <1>a, <2>1, <2>2, <2>3, FinishKnows DEF Answers
  <2> QED
    BY <1>7, <1>b, <2>1, <2>3 DEF Save
<1> QED
  BY <1>1, <1>2, <1>3, <1>4, <1>5, <1>6, <1>7, <1>8

\* Nothing is known of a new process but what the disk holds.
LEMMA RestartKnows ==
  ASSUME TypeOK, CacheInv, Crash \/ PowerLoss
  PROVE  CacheInv'
<1>1. AllOut
  BY DEF Crash, PowerLoss
<1>2. JobsKnow' /\ FlightsAreLed' /\ ResolvedIsWhole'
  BY <1>1 DEF AllOut, JobsKnow, FlightsAreLed, ResolvedIsWhole, Building
<1>3. ASSUME Crash PROVE CacheWhole'
  BY <1>3 DEF Crash, diskVars, CacheInv, CacheWhole, Present
<1>4. ASSUME PowerLoss PROVE CacheWhole'
  <2>1. PICK lost \in SUBSET {c \in Images : Present(c) /\ c \notin entries},
             torn \in SUBSET {c \in Images : Present(c) /\ c \notin files} :
          dir' = [c \in Images |-> IF c \in lost THEN "absent"
                                   ELSE IF c \in torn THEN "torn" ELSE dir[c]]
    BY <1>4 DEF PowerLoss
  <2>2. torn = {}
    BY DEF CacheInv, CacheWhole
  <2>3. \A c \in Images : dir'[c] \in {"absent", dir[c]}
    BY <2>1, <2>2
  <2>4. files' = {c \in Images : dir'[c] # "absent"}
    BY <1>4 DEF PowerLoss
  <2> QED
    BY <2>3, <2>4 DEF CacheInv, CacheWhole, Present
<1> QED
  BY <1>2, <1>3, <1>4 DEF CacheInv

LEMMA StepKnows ==
  ASSUME TypeOK, CacheInv, TypeOK', [Next]_vars
  PROVE  CacheInv'
<1> USE CacheAssumption
<1>1. ASSUME NEW j \in Jobs, Resolve(j) PROVE CacheInv'
  BY <1>1, EntersKnows, BuildsKnows DEF Resolve
<1>2. ASSUME NEW g \in Groups, Begin(g) PROVE CacheInv'
  <2>1. UNCHANGED <<dir, files, key, got, flushed, flight>>
    BY <1>2 DEF Begin, diskVars
  <2>2. \A k \in Jobs : at'[k] = at[k] \/ (at[k] = "out" /\ at'[k] = "queued")
    BY <1>2 DEF Begin, TypeOK
  <2>3. \A k \in Jobs : result'[k] \in {result[k], NoImage}
    BY <1>2 DEF Begin, TypeOK
  <2>4. \A k \in Jobs : Building(k)' <=> Building(k)
    BY <2>2 DEF Building
  <2>5. CacheWhole' /\ ResolvedIsWhole'
    BY <2>1, <2>3 DEF CacheInv, CacheWhole, ResolvedIsWhole, Present
  <2>6. JobsKnow'
    BY <2>1, <2>2, <2>4 DEF CacheInv, JobsKnow, Present, Staged
  <2>7. FlightsAreLed'
    <3>1. \A v \in Versions : flight[v] # NoJob => flight[v] \in Jobs
      BY DEF TypeOK
    <3> QED
      BY <2>1, <2>2, <2>4, <3>1 DEF CacheInv, FlightsAreLed, Building
  <2> QED
    BY <2>5, <2>6, <2>7 DEF CacheInv
<1>3. ASSUME NEW g \in Groups, Cancel(g) PROVE CacheInv'
  BY <1>3 DEF Cancel, diskVars, CacheInv, CacheWhole, JobsKnow, FlightsAreLed, ResolvedIsWhole,
     Present, Staged, Building
<1>4. CASE (\E s \in Sources : Move(s)) \/ UNCHANGED vars
  BY <1>4 DEF Move, diskVars, jobVars, vars, CacheInv, CacheWhole, JobsKnow, FlightsAreLed,
     ResolvedIsWhole, Present, Staged, Building
<1> QED
  BY <1>1, <1>2, <1>3, <1>4, RestartKnows DEF Next

-----------------------------------------------------------------------------
(* Where keys, copies and rows come from.                                  *)

\* What a job keeps when it, or another, goes on or leaves resolveLayer.
Settles(k) ==
  /\ key'[k] \in {key[k], NoVersion} /\ got'[k] \in {got[k], NoVersion}
  /\ at'[k] # "out" => at[k] # "out" /\ result'[k] = result[k]

LEMMA AnswerSettles ==
  ASSUME TypeOK, NEW js, NEW r, Answer(js, r)
  PROVE  \A k \in Jobs : Settles(k)
BY DEF Answer, TypeOK, Settles

LEMMA FinishSettles ==
  ASSUME TypeOK, NEW j \in Jobs, NEW r, Finish(j, r)
  PROVE  \A k \in Jobs : Settles(k)
BY AnswerSettles DEF Finish

LEMMA GoOnSettles ==
  ASSUME TypeOK, NEW j \in Jobs, NEW point, GoOn(j, point), at[j] # "out"
  PROVE  \A k \in Jobs : Settles(k)
BY DEF GoOn, TypeOK, Settles

\* A job takes a key in Look and a copy in Fetch, both from its own source, and
\* writes a row in Save, of its own key and its own copy.
LEMMA ResolveOwn ==
  ASSUME TypeOK, CacheInv, NEW j \in Jobs, Resolve(j)
  PROVE  /\ UNCHANGED head
         /\ \A k \in Jobs : at'[k] # "out" => at[k] # "out" /\ result'[k] = result[k]
         /\ \A k \in Jobs : key'[k] \in {key[k], NoVersion} \/ key'[k] = head[SourceOf[k]]
         /\ \A k \in Jobs : got'[k] \in {got[k], NoVersion} \/ got'[k] = head[SourceOf[k]]
         /\ UNCHANGED index \/ (at[j] = "save" /\ index' = [index EXCEPT ![key[j]] = Staged(j)])
<1>1. CASE Look(j) \/ Fetch(j)
  <2>1. UNCHANGED <<head, index>>
    BY <1>1 DEF Look, Fetch
  <2>2. CASE \A k \in Jobs : Settles(k)
    BY <2>1, <2>2 DEF Settles
  <2>3. CASE ~\A k \in Jobs : Settles(k)
    BY <1>1, <2>1, <2>3, AnswerSettles, FinishSettles DEF Look, Fetch, TypeOK
  <2> QED
    BY <2>2, <2>3
<1>2. CASE Enter(j) \/ Join(j)
  BY <1>2 DEF Enter, Join, GoOn, TypeOK
<1>3. CASE Lookup(j) \/ Pack(j) \/ Export(j) \/ Publish(j) \/ RenameStage(j) \/ SyncDir(j)
  <2>1. UNCHANGED <<head, index>>
    BY <1>3 DEF Lookup, Pack, Export, Publish, RenameStage, SyncDir
  <2>2. \A k \in Jobs : Settles(k)
    BY <1>3, FinishSettles, GoOnSettles DEF Lookup, Pack, Export, Publish, RenameStage, SyncDir
  <2> QED
    BY <2>1, <2>2 DEF Settles
<1>4. CASE SyncTree(j)
  <2>1. UNCHANGED <<head, index>>
    BY <1>4 DEF SyncTree
  <2>2. \A k \in Jobs : Settles(k)
    BY <1>4, FinishSettles DEF SyncTree, TypeOK, Settles
  <2> QED
    BY <2>1, <2>2 DEF Settles
<1>5. CASE Save(j)
  <2>1. \A k \in Jobs : Settles(k)
    BY <1>5, FinishSettles DEF Save
  <2> QED
    BY <1>5, <2>1 DEF Save, Settles
<1> QED
  BY <1>1, <1>2, <1>3, <1>4, <1>5 DEF Resolve

\* A source gives, under each of its keys, the images of all its versions.
LEMMA GivenBySource ==
  \A r \in Sources : \A v, u \in Offers[r] : u \in Versions /\ v \in Versions /\ Built[u] \in Gives[v]
<1> SUFFICES ASSUME NEW r \in Sources, NEW v \in Offers[r], NEW u \in Offers[r]
             PROVE  u \in Versions /\ v \in Versions /\ Built[u] \in Gives[v]
  OBVIOUS
<1>1. u \in Versions /\ v \in Versions
  BY CacheAssumption
<1>2. u \in UNION {Offers[q] : q \in {p \in Sources : v \in Offers[p]}}
  OBVIOUS
<1> QED
  BY <1>1, <1>2 DEF Gives

\* Keys, copies and rows stay with sources that may have them, also when a source
\* moves between Look and Fetch.
LEMMA StepProvenance ==
  ASSUME TypeOK, CacheInv, Provenance, [Next]_vars
  PROVE  Provenance'
<1> USE CacheAssumption
<1>1. ASSUME NEW j \in Jobs, Resolve(j) PROVE Provenance'
  <2>1. UNCHANGED head /\ \A s \in Sources : head[s] \in Offers[s]
    BY <1>1, ResolveOwn DEF Provenance
  <2>2. \A k \in Jobs : /\ key'[k] # NoVersion => key'[k] \in Offers[SourceOf[k]]
                        /\ got'[k] # NoVersion => got'[k] \in Offers[SourceOf[k]]
    BY <1>1, <2>1, ResolveOwn DEF Provenance
  <2>3. \A v \in Versions : index'[v] # NoImage => index'[v] \in Gives[v]
    <3>1. CASE UNCHANGED index
      BY <3>1 DEF Provenance
    <3>2. CASE at[j] = "save" /\ index' = [index EXCEPT ![key[j]] = Staged(j)]
      <4>1. key[j] \in Versions /\ got[j] \in Versions
        BY <3>2 DEF CacheInv, JobsKnow, Building
      <4>2. key[j] \in Offers[SourceOf[j]] /\ got[j] \in Offers[SourceOf[j]]
        BY <4>1 DEF Provenance
      <4>3. Staged(j) \in Gives[key[j]]
        BY <4>2, GivenBySource DEF Staged
      <4> QED
        BY <3>2, <4>1, <4>3 DEF Provenance, TypeOK
    <3> QED
      BY <1>1, <3>1, <3>2, ResolveOwn
  <2> QED
    BY <2>1, <2>2, <2>3 DEF Provenance
<1>2. ASSUME NEW s \in Sources, Move(s) PROVE Provenance'
  <2>1. UNCHANGED <<key, got, index>>
    BY <1>2 DEF Move, jobVars
  <2>2. \A u \in Sources : head'[u] \in Offers[u]
    BY <1>2 DEF Move, Provenance, TypeOK
  <2> QED
    BY <2>1, <2>2 DEF Provenance
<1>3. CASE Crash \/ PowerLoss
  BY <1>3 DEF Crash, PowerLoss, AllOut, Provenance
<1>4. CASE UNCHANGED <<head, key, got, index>>
  BY <1>4 DEF Provenance
<1> QED
  BY <1>1, <1>2, <1>3, <1>4 DEF Next, Begin, Cancel, vars

LEMMA StepUnanswered ==
  ASSUME TypeOK, CacheInv, Unanswered, [Next]_vars
  PROVE  Unanswered'
<1>1. ASSUME NEW j \in Jobs, Resolve(j) PROVE Unanswered'
  BY <1>1, ResolveOwn DEF Unanswered
<1>2. ASSUME NEW g \in Groups, Begin(g) PROVE Unanswered'
  BY <1>2 DEF Begin, Unanswered, TypeOK
<1>3. CASE Crash \/ PowerLoss
  BY <1>3 DEF Crash, PowerLoss, AllOut, Unanswered
<1>4. CASE UNCHANGED <<at, result>>
  BY <1>4 DEF Unanswered
<1> QED
  BY <1>1, <1>2, <1>3, <1>4 DEF Next, Cancel, Move, jobVars, vars

\* Nothing but a power loss takes a directory of imgDir away, and that spares the
\* directories that were synced.
LEMMA StepEntries ==
  ASSUME TypeOK, \A c \in entries : Present(c), [Next]_vars
  PROVE  \A c \in entries' : Present(c)'
<1>1. ASSUME NEW j \in Jobs, Resolve(j) PROVE \A c \in entries' : Present(c)'
  <2>1. CASE RenameStage(j)
    BY <2>1 DEF RenameStage, Present, TypeOK
  <2>2. CASE SyncDir(j)
    BY <2>2 DEF SyncDir, Present
  <2>3. CASE UNCHANGED <<dir, entries>>
    BY <2>3 DEF Present
  <2> QED
    BY <1>1, <2>1, <2>2, <2>3 DEF Resolve, Enter, Look, Join, Lookup, Fetch, Pack, Export, Publish,
       SyncTree, Save, diskVars
<1>2. CASE PowerLoss
  BY <1>2 DEF PowerLoss, Present
<1>3. CASE UNCHANGED <<dir, entries>>
  BY <1>3 DEF Present
<1> QED
  BY <1>1, <1>2, <1>3 DEF Next, Begin, Cancel, Move, Crash, diskVars, vars

LEMMA InitKnows == Init => TypeOK /\ IInv
<1> SUFFICES ASSUME Init PROVE TypeOK /\ IInv
  OBVIOUS
<1>1. TypeOK
  BY CacheAssumption DEF Init, TypeOK, Points
<1>2. CacheInv
  BY CacheAssumption DEF Init, CacheInv, CacheWhole, JobsKnow, FlightsAreLed, ResolvedIsWhole,
     Present, Building
<1>3. Provenance /\ Unanswered /\ \A c \in entries : Present(c)
  BY CacheAssumption DEF Init, Provenance, Unanswered
<1> QED
  BY <1>1, <1>2, <1>3 DEF IInv

-----------------------------------------------------------------------------
(* The theorems.                                                           *)

\* The cache, the index and what the jobs hold keep their types, and IInv holds at
\* every step: what each job of resolveImage knows at its control point, that
\* every flight has a leader, and that imgDir holds whole images.
THEOREM CacheInvariance == Spec => [](TypeOK /\ IInv)
<1>1. TypeOK /\ IInv /\ [Next]_vars => (TypeOK /\ IInv)'
  <2> SUFFICES ASSUME TypeOK, IInv, [Next]_vars PROVE (TypeOK /\ IInv)'
    OBVIOUS
  <2>1. TypeOK' /\ CacheInv'
    BY StepTypes, StepKnows DEF IInv, CacheInv
  <2>2. Provenance' /\ Unanswered' /\ \A c \in entries' : Present(c)'
    BY StepProvenance, StepUnanswered, StepEntries DEF IInv
  <2> QED
    BY <2>1, <2>2 DEF IInv
<1> QED
  BY InitKnows, <1>1, PTL DEF Spec

\* Alone, the types of the cache (internal/resolver/images.go).
THEOREM CacheTypes == Spec => []TypeOK
BY CacheInvariance, PTL

\* An image handed to the orchestrator is whole, whatever crash or power loss came
\* before (resolveImage, syncTree).
THEOREM ResolvedImagesWhole == Spec => []ResolvedIsWhole
<1>1. IInv => ResolvedIsWhole
  BY DEF IInv, CacheInv
<1> QED
  BY CacheInvariance, <1>1, PTL

\* Two jobs never build for one key at the same time: both would lead its flight
\* (resolveImage, sf.Do).
THEOREM BuildsAreSingle == Spec => []OneBuildPerKey
<1>1. IInv => OneBuildPerKey
  BY DEF IInv, CacheInv, FlightsAreLed, OneBuildPerKey
<1> QED
  BY CacheInvariance, <1>1, PTL

\* Without power losses the index names whole images only (resolveImage publishes
\* before SaveImageMetadata, and nothing takes a directory of imgDir away).
THEOREM IndexBacked == "power" \notin Faults => (Spec => []IndexIsBacked)
<1> SUFFICES ASSUME "power" \notin Faults PROVE Spec => []IndexIsBacked
  OBVIOUS
<1>1. Init => IndexIsBacked
  BY DEF Init, IndexIsBacked
<1>2. TypeOK /\ IInv /\ (TypeOK /\ IInv)' /\ IndexIsBacked /\ [Next]_vars => IndexIsBacked'
  <2> SUFFICES ASSUME TypeOK, IInv, IInv', TypeOK', IndexIsBacked, [Next]_vars
      PROVE  IndexIsBacked'
    OBVIOUS
  <2>1. \A c \in Images : Present(c) => Present(c)'
    <3>1. ASSUME NEW j \in Jobs, Resolve(j) PROVE \A c \in Images : Present(c) => Present(c)'
      <4>1. CASE RenameStage(j)
        BY <4>1 DEF RenameStage, Present, TypeOK
      <4>2. CASE ~RenameStage(j)
        BY <3>1, <4>2 DEF Resolve, Enter, Look, Join, Lookup, Fetch, Pack, Export, Publish, SyncTree,
           SyncDir, Save, diskVars, Present
      <4> QED
        BY <4>1, <4>2
    <3> QED
      BY <3>1 DEF Next, Begin, Cancel, Move, Crash, PowerLoss, diskVars, vars, Present
  <2>2. ASSUME NEW v \in Versions, index'[v] # NoImage
        PROVE  index'[v] = index[v] \/ \E j \in Jobs : Save(j) /\ index'[v] = Staged(j)
    <3>1. ASSUME NEW j \in Jobs, Save(j)
          PROVE  index'[v] = index[v] \/ index'[v] = Staged(j)
      BY <3>1 DEF Save, TypeOK, IInv, CacheInv, JobsKnow, Building
    <3>2. ASSUME NEW j \in Jobs, Resolve(j), ~Save(j) PROVE UNCHANGED index
      BY <3>2 DEF Resolve, Enter, Look, Join, Lookup, Fetch, Pack, Export, Publish, SyncTree, RenameStage,
         SyncDir
    <3> QED
      BY <3>1, <3>2 DEF Next, Begin, Cancel, Move, Crash, PowerLoss, vars
  <2>3. ASSUME NEW v \in Versions, index'[v] # NoImage PROVE dir'[index'[v]] = "whole"
    <3>1. index'[v] \in Images
      BY <2>3 DEF TypeOK
    <3>2. Present(index'[v])
      <4>1. CASE index'[v] = index[v]
        BY <2>3, <4>1 DEF IndexIsBacked, Present
      <4>2. ASSUME NEW j \in Jobs, Save(j), index'[v] = Staged(j) PROVE Present(index'[v])
        BY <4>2 DEF Save, IInv, CacheInv, JobsKnow
      <4> QED
        BY <2>2, <2>3, <4>1, <4>2
    <3> QED
      BY <2>1, <3>1, <3>2 DEF IInv, CacheInv, CacheWhole
  <2> QED
    BY <2>3 DEF IndexIsBacked
<1> QED
  BY CacheInvariance, <1>1, <1>2, PTL DEF Spec

\* A published image is indexed before its job ends, cancelled or not, unless the
\* process dies or the store or the disk fails (resolveImage: the index is written
\* under a ctx of its own).
THEOREM PublishedIndexed ==
  "store" \notin Faults /\ "disk" \notin Faults => (Spec => PublishedIsIndexed)
<1> SUFFICES ASSUME "store" \notin Faults, "disk" \notin Faults PROVE Spec => PublishedIsIndexed
  OBVIOUS
<1>1. TypeOK /\ IInv /\ [Next]_vars
        => [\A j \in Jobs :
              at[j] \in {"syncDir", "save"} /\ at'[j] = "out"
                => AllOut \/ index'[key[j]] = Staged(j)]_vars
  <2> SUFFICES ASSUME TypeOK, IInv, Next, NEW j \in Jobs,
                      at[j] \in {"syncDir", "save"}, at'[j] = "out", ~AllOut
      PROVE  index'[key[j]] = Staged(j)
    BY DEF vars
  <2>1. ASSUME NEW k \in Jobs, Resolve(k) PROVE k = j
    <3> SUFFICES ASSUME k # j PROVE at'[j] = at[j]
      OBVIOUS
    <3>1. \A r : Finish(k, r) => at'[j] = at[j]
      BY DEF Finish, Answer, Followers, TypeOK
    <3>2. \A r : Answer({k}, r) => at'[j] = at[j]
      BY DEF Answer, TypeOK
    <3>3. \A p : GoOn(k, p) => at'[j] = at[j]
      BY DEF GoOn, TypeOK
    <3>4. CASE Enter(k) \/ Look(k) \/ Join(k)
      BY <3>2, <3>3, <3>4 DEF Enter, Look, Join, TypeOK
    <3>5. CASE Lookup(k) \/ Publish(k) \/ RenameStage(k) \/ SyncDir(k) \/ Save(k)
      BY <3>1, <3>3, <3>5 DEF Lookup, Publish, RenameStage, SyncDir, Save
    <3>7. CASE Pack(k) \/ Export(k)
      BY <3>1, <3>3, <3>7 DEF Pack, Export
    <3>6. CASE Fetch(k) \/ SyncTree(k)
      BY <3>1, <3>6 DEF Fetch, SyncTree, TypeOK
    <3> QED
      BY <2>1, <3>4, <3>5, <3>6, <3>7 DEF Resolve
  <2>2. CASE Resolve(j)
    <3>1. SyncDir(j) \/ Save(j)
      BY <2>2 DEF Resolve, Enter, Look, Join, Lookup, Fetch, Pack, Export, Publish, SyncTree,
         RenameStage
    <3>2. ~SyncDir(j)
      BY DEF SyncDir, GoOn, TypeOK
    <3>3. key[j] \in Versions
      BY DEF IInv, CacheInv, JobsKnow, Building
    <3> QED
      BY <3>1, <3>2, <3>3 DEF Save, TypeOK
  <2>3. ASSUME NEW g \in Groups, Begin(g) PROVE FALSE
    BY <2>3 DEF Begin, TypeOK
  <2>4. ASSUME NEW g \in Groups, Cancel(g) PROVE FALSE
    BY <2>4 DEF Cancel
  <2> QED
    BY <2>1, <2>2, <2>3, <2>4 DEF Next, Move, Crash, PowerLoss, jobVars
<1> QED
  BY CacheInvariance, <1>1, PTL DEF Spec, PublishedIsIndexed

\* A temporary package outlives its attempt only when `kraft pkg' was cut short or
\* kraft refuses to remove it (packageLayer, Reclaim).
THEOREM PackagesAreRemoved == Spec => PackagesGo
<1>1. TypeOK /\ [Next]_vars
        => [litter' /\ ~litter
              => "kraft" \in Faults \/ \E j \in Jobs : at[j] = "pack" /\ at'[j] = "out"]_vars
  <2> SUFFICES ASSUME TypeOK, Next, litter', ~litter, "kraft" \notin Faults
      PROVE  \E j \in Jobs : at[j] = "pack" /\ at'[j] = "out"
    BY DEF vars
  <2>1. ASSUME NEW j \in Jobs, Resolve(j) PROVE Pack(j) /\ Finish(j, NoImage)
    <3>1. ~Export(j)
      BY DEF Export, Unpackaged
    <3>2. UNCHANGED litter \/ Pack(j)
      BY <2>1, <3>1 DEF Resolve, Enter, Look, Join, Lookup, Fetch, Publish, SyncTree, RenameStage,
         SyncDir, Save
    <3> QED
      BY <3>2 DEF Pack
  <2>2. PICK j \in Jobs : Pack(j) /\ Finish(j, NoImage)
    BY <2>1 DEF Next, Begin, Cancel, Move, Crash, PowerLoss, Reclaim
  <2>3. at[j] = "pack" /\ at'[j] = "out"
    BY <2>2 DEF Pack, Finish, Answer, TypeOK
  <2> QED
    BY <2>3
<1> QED
  BY CacheInvariance, <1>1, PTL DEF Spec, PackagesGo
=============================================================================
