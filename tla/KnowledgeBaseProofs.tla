------------------------ MODULE KnowledgeBaseProofs ------------------------
(***************************************************************************)
(* What is proved of the knowledge base for any number of requests,        *)
(* versions, models and runs of index_kb: types, the audit of versions,    *)
(* the pointer that never steps back, the search that never loses the      *)
(* current version, and that an edit is lost only with its indexing.       *)
(***************************************************************************)
EXTENDS KnowledgeBase, TLAPS

(* Types.  An edit has room for its version, and a task has one to index.   *)

KbTypes ==
  /\ KbTypeOK
  /\ \A r \in Request :
       /\ pc[r] = "editing" => seen[r] \in 1..(MaxVersion - 1)
       /\ pc[r] = "saved" => seen[r] + 1 \in 1..latest
       /\ pc[r] \in {"queued", "computing", "locked"} => task[r] # 0

\* The next number is free exactly when nobody has saved since the request read.
LEMMA FreeNumber ==
  ASSUME KbTypes, NEW r \in Request, pc[r] = "editing"
  PROVE  /\ seen[r] + 1 \in Version
         /\ NumberFree(r) => seen[r] = latest
<1>1. /\ seen[r] \in 1..(MaxVersion - 1) /\ seen[r] \in 0..latest
      /\ latest \in 0..MaxVersion
  BY DEF KbTypes, KbTypeOK
<1>2. seen[r] + 1 \in Version
  BY <1>1, KbAssumption DEF Version
<1>3. author[seen[r] + 1] # NULL <=> seen[r] + 1 <= latest
  BY <1>2 DEF KbTypes, KbTypeOK
<1>. QED BY <1>1, <1>2, <1>3, KbAssumption DEF NumberFree

\* seed_kb gets its number only if the current version is the latest.
LEMMA SeedIsNext ==
  ASSUME KbTypes, Seed
  PROVE  current = latest /\ latest + 1 \in Version
<1>1. /\ current \in 0..latest /\ latest \in 0..MaxVersion
      /\ current < MaxVersion /\ author[current + 1] = NULL
  BY DEF KbTypes, KbTypeOK, Seed, SeedNumberFree
<1>2. current + 1 \in Version
  BY <1>1, KbAssumption DEF Version
<1>3. author[current + 1] # NULL <=> current + 1 <= latest
  BY <1>2 DEF KbTypes, KbTypeOK
<1>. QED BY <1>1, <1>2, <1>3

\* The tables keep their types, the document exists exactly when it has a first
\* version, and every number up to the latest is a version's; each stage of a
\* request knows what KbTypes adds.
LEMMA KbTypesHold == KbSpec => []KbTypes
<1>1. KbInit => KbTypes
  <2>. SUFFICES ASSUME KbInit PROVE KbTypes
    OBVIOUS
  <2>1. /\ latest \in 0..MaxVersion /\ current \in 0..latest
        /\ seen \in [Request -> 0..latest] /\ task \in [Request -> 0..latest]
        /\ found \in [Request -> 0..latest]
    BY KbAssumption DEF KbInit
  <2>2. /\ author \in [Version -> Request \cup {SeedKb, NULL}]
        /\ \A v \in Version : author[v] # NULL <=> v <= latest
    BY KbAssumption DEF KbInit, Version
  <2>3. /\ emb \in [Version -> Model \cup {NULL}]
        /\ docLock \in Request \cup {NULL}
        /\ pc \in [Request -> {"idle", "done"} \cup Running]
        /\ \A r \in Request : pc[r] = "idle"
        /\ script \in {"idle", "reset", "encoding"}
        /\ pending \subseteq Version /\ tool \in Model /\ scripts \in 0..MaxScripts
        /\ lost \subseteq Version
    BY KbAssumption DEF KbInit
  <2>4. deleted \in BOOLEAN /\ broken \in BOOLEAN /\ foreign \in BOOLEAN
        /\ computed \in [Request -> BOOLEAN]
    BY DEF KbInit
  <2>. QED BY <2>1, <2>2, <2>3, <2>4 DEF KbTypes, KbTypeOK
<1>2. KbTypes /\ [KbNext]_kbVars => KbTypes'
  <2>. SUFFICES ASSUME KbTypes, [KbNext]_kbVars PROVE KbTypes'
    OBVIOUS
  <2>. USE KbAssumption DEF KbTypes, KbTypeOK, Version, Running
  <2>1. ASSUME NEW r \in Request, Handle(r) PROVE KbTypes'
    <3>1. CASE Create(r)
      <4>1. CASE latest = 0
        <5>1. /\ latest' = 1 /\ author' = [author EXCEPT ![1] = r]
              /\ pc' = [pc EXCEPT ![r] = "saved"]
              /\ UNCHANGED <<emb, current, docLock, deleted, seen, task, computed, found,
                             script, pending, tool, scripts, broken, foreign, lost>>
          BY <3>1, <4>1 DEF Create, FirstVersion, indexVars, taskVars, scriptVars
        <5>2. /\ author' \in [Version -> Request \cup {SeedKb, NULL}]
              /\ \A v \in Version : author'[v] # NULL <=> v <= latest'
          BY <4>1, <5>1
        <5>3. /\ current' \in 0..latest' /\ seen' \in [Request -> 0..latest']
              /\ task' \in [Request -> 0..latest'] /\ found' \in [Request -> 0..latest']
          BY <4>1, <5>1
        <5>4. \A q \in Request :
                /\ seen'[q] = 0
                /\ pc'[q] # "saved" => pc'[q] = pc[q]
          BY <4>1, <5>1
        <5>. QED BY <5>1, <5>2, <5>3, <5>4
      <4>2. CASE latest # 0
        BY <3>1, <4>2 DEF Create, indexVars, taskVars, scriptVars
      <4>. QED BY <4>1, <4>2
    <3>2. CASE Load(r)
      <4>1. /\ seen' = [seen EXCEPT ![r] = latest]
            /\ latest \in 1..(MaxVersion - 1)
            /\ UNCHANGED <<docVars, indexVars, taskVars, scriptVars, lost>>
        BY <3>2 DEF Load
      <4>2. /\ seen' \in [Request -> 0..latest]
            /\ UNCHANGED <<latest, author, deleted, emb, current, docLock, task, computed,
                           found, script, pending, tool, scripts, broken, foreign, lost>>
        BY <4>1 DEF docVars, indexVars, taskVars, scriptVars
      <4>3. CASE deleted
        <5>1. pc' = [pc EXCEPT ![r] = "done"]
          BY <3>2, <4>3 DEF Load
        <5>2. \A q \in Request : pc'[q] # "done" => pc'[q] = pc[q] /\ seen'[q] = seen[q]
          BY <4>1, <5>1
        <5>. QED BY <4>2, <5>1, <5>2
      <4>4. CASE ~deleted
        <5>1. pc' = [pc EXCEPT ![r] = "editing"]
          BY <3>2, <4>4 DEF Load
        <5>2. \A q \in Request :
                pc'[q] # "editing" => pc'[q] = pc[q] /\ seen'[q] = seen[q]
          BY <4>1, <5>1
        <5>3. \A q \in Request : pc'[q] = "editing" => seen'[q] \in 1..(MaxVersion - 1)
          BY <4>1, <5>1
        <5>. QED BY <4>2, <5>1, <5>2, <5>3
      <4>. QED BY <4>3, <4>4
    <3>3. CASE Save(r)
      <4>1. CASE NumberFree(r)
        <5>1. seen[r] = latest /\ seen[r] + 1 \in Version
          BY <3>3, <4>1, FreeNumber DEF Save
        <5>2. /\ latest' = latest + 1
              /\ author' = [author EXCEPT ![latest + 1] = r]
              /\ pc' = [pc EXCEPT ![r] = "saved"]
              /\ UNCHANGED <<emb, current, docLock, deleted, seen, task, computed, found,
                             script, pending, tool, scripts, broken, foreign, lost>>
          BY <3>3, <4>1, <5>1 DEF Save, indexVars, taskVars, scriptVars
        <5>3. /\ author' \in [Version -> Request \cup {SeedKb, NULL}]
              /\ \A v \in Version : author'[v] # NULL <=> v <= latest'
          BY <5>1, <5>2
        <5>4. /\ seen[r] + 1 \in 1..latest'
              /\ \A q \in Request : pc'[q] # "saved" => pc'[q] = pc[q]
          BY <5>1, <5>2
        <5>. QED BY <5>1, <5>2, <5>3, <5>4
      <4>2. CASE ~NumberFree(r)
        BY <3>3, <4>2 DEF Save, indexVars, taskVars, scriptVars
      <4>. QED BY <4>1, <4>2
    <3>4. CASE KeepVersion(r)
      BY <3>4 DEF KeepVersion, docVars, indexVars, taskVars, scriptVars
    <3>5. CASE Delete(r)
      BY <3>5 DEF Delete, indexVars, taskVars, scriptVars
    <3>6. CASE Enqueue(r)
      <4>1. pc[r] = "saved" /\ latest # 0
        BY <3>6 DEF Enqueue
      <4>2. /\ pc' = [pc EXCEPT ![r] = "queued"] /\ task' = [task EXCEPT ![r] = latest]
            /\ UNCHANGED <<latest, author, deleted, emb, current, docLock, seen, computed,
                           found, script, pending, tool, scripts, broken, foreign, lost>>
        BY <3>6 DEF Enqueue, ToIndex, docVars, indexVars, scriptVars
      <4>3. /\ pc'[r] = "queued" /\ task'[r] # 0
            /\ \A q \in Request \ {r} : pc'[q] = pc[q] /\ task'[q] = task[q]
        BY <4>1, <4>2
      <4>4. task' \in [Request -> 0..latest]
        BY <4>2
      <4>5. pc' \in [Request -> {"idle", "done"} \cup Running]
        BY <4>2
      <4>6. KbTypeOK'
        BY <4>2, <4>4, <4>5
      <4>. QED BY <4>2, <4>3, <4>6
    <3>7. CASE StartTask(r)
      BY <3>7 DEF StartTask, NeedsEmbedding, docVars, indexVars, scriptVars
    <3>8. CASE LockDocument(r)
      BY <3>8 DEF LockDocument, docVars, scriptVars
    <3>9. CASE Activate(r)
      BY <3>9 DEF Activate, docVars, taskVars, scriptVars
    <3>10. CASE LoseTask(r)
      <4>1. (IF pc[r] = "saved" THEN seen[r] + 1 ELSE task[r]) \in Version
        BY <3>10 DEF LoseTask
      <4>. QED BY <3>10, <4>1 DEF LoseTask, docVars, taskVars, scriptVars
    <3>. QED
      BY <2>1, <3>1, <3>2, <3>3, <3>4, <3>5, <3>6, <3>7, <3>8, <3>9, <3>10 DEF Handle
  <2>2. ASSUME NEW m \in Model, Reindex(m) \/ SelectAtOnce(m) PROVE KbTypes'
    <3>. StartScript(m)
      BY <2>2 DEF Reindex, SelectAtOnce
    <3>1. tool' \in Model /\ scripts' \in 0..MaxScripts /\ broken' \in BOOLEAN
      <4>1. tool' \in Model
        BY DEF StartScript
      <4>2. scripts' \in 0..MaxScripts
        BY DEF StartScript
      <4>3. broken' \in BOOLEAN
        BY DEF StartScript
      <4>. QED BY <4>1, <4>2, <4>3
    <3>2. CASE Reindex(m)
      <4>1. /\ emb' \in [Version -> Model \cup {NULL}]
            /\ script' \in {"idle", "reset", "encoding"} /\ foreign' \in BOOLEAN
            /\ UNCHANGED <<latest, author, deleted, current, docLock, pc, seen, task,
                           computed, found, pending, lost>>
        BY <3>2 DEF Reindex, docVars, taskVars
      <4>. QED BY <3>1, <4>1
    <3>3. CASE SelectAtOnce(m)
      BY <3>1, <3>3 DEF SelectAtOnce, SelectMissing, docVars, indexVars, taskVars
    <3>. QED BY <2>2, <3>2, <3>3
  <2>3. CASE SelectAfterReset
    BY <2>3 DEF SelectAfterReset, SelectMissing, docVars, indexVars, taskVars
  <2>4. CASE SaveBatch \/ BreakScript
    BY <2>4 DEF SaveBatch, BreakScript, docVars, indexVars, taskVars
  <2>5. CASE UNCHANGED kbVars
    BY <2>5 DEF kbVars
  <2>6. CASE Seed
    <3>1. current = latest /\ latest + 1 \in Version
      BY <2>6, SeedIsNext
    <3>2. /\ latest' = latest + 1 /\ current' = latest + 1 /\ deleted' = FALSE
          /\ author' = [author EXCEPT ![latest + 1] = SeedKb]
          /\ UNCHANGED <<emb, docLock, pc, seen, task, computed, found, script, pending,
                         tool, scripts, broken, foreign, lost>>
      BY <2>6, <3>1 DEF Seed, taskVars, scriptVars
    <3>3. /\ author' \in [Version -> Request \cup {SeedKb, NULL}]
          /\ \A v \in Version : author'[v] # NULL <=> v <= latest'
      BY <3>1, <3>2
    <3>4. /\ current' \in 0..latest' /\ seen' \in [Request -> 0..latest']
          /\ task' \in [Request -> 0..latest'] /\ found' \in [Request -> 0..latest']
          /\ latest' \in 0..MaxVersion
      BY <3>1, <3>2
    <3>5. \A r \in Request : pc'[r] = "saved" => seen'[r] + 1 \in 1..latest'
      BY <3>2
    <3>. QED BY <3>2, <3>3, <3>4, <3>5
  <2>. QED BY <2>1, <2>2, <2>3, <2>4, <2>5, <2>6 DEF KbNext
<1>. QED BY <1>1, <1>2, PTL DEF KbSpec

\* The rows of a document keep their types, whatever is edited, indexed, seeded or
\* reset, in whatever order.
THEOREM KbTypeCorrect == KbSpec => []KbTypeOK
<1>1. KbTypes => KbTypeOK
  BY DEF KbTypes
<1>. QED BY <1>1, KbTypesHold, PTL

-----------------------------------------------------------------------------
(* The pointer.  Whoever has locked the document knows its current version. *)

OneActivates ==
  \A r \in Request : /\ pc[r] = "locked" <=> docLock = r
                     /\ pc[r] = "locked" => found[r] = current

\* Every step leaves the lock with one task and what it has read true.
LEMMA OneActivatesInductive ==
  ASSUME KbTypes, OneActivates, [KbNext]_kbVars
  PROVE  OneActivates'
<1>. USE KbAssumption DEF KbTypes, KbTypeOK, OneActivates
<1>1. ASSUME NEW r \in Request, Handle(r) PROVE OneActivates'
  <2>1. CASE Create(r)
    BY <2>1 DEF Create, indexVars, taskVars
  <2>2. CASE Load(r) \/ Save(r) \/ KeepVersion(r) \/ Delete(r)
    BY <2>2 DEF Load, Save, KeepVersion, Delete, indexVars, taskVars
  <2>3. CASE Enqueue(r) \/ StartTask(r)
    BY <2>3 DEF Enqueue, StartTask, indexVars
  <2>4. CASE LockDocument(r)
    BY <2>4 DEF LockDocument, LockFree
  <2>5. CASE Activate(r)
    <3>1. docLock = r /\ docLock' = NULL /\ pc' = [pc EXCEPT ![r] = "done"]
      BY <2>5 DEF Activate
    <3>2. \A q \in Request : pc'[q] # "locked"
      BY <3>1
    <3>. QED BY <3>1, <3>2
  <2>6. CASE LoseTask(r)
    BY <2>6 DEF LoseTask, taskVars
  <2>. QED BY <1>1, <2>1, <2>2, <2>3, <2>4, <2>5, <2>6 DEF Handle
<1>2. CASE \/ \E m \in Model : Reindex(m) \/ SelectAtOnce(m)
           \/ SelectAfterReset \/ SaveBatch \/ BreakScript
  BY <1>2
     DEF Reindex, SelectAtOnce, SelectAfterReset, SaveBatch, BreakScript, indexVars, taskVars
<1>4. CASE Seed
  BY <1>4 DEF Seed, taskVars
<1>3. CASE UNCHANGED kbVars
  BY <1>3 DEF kbVars
<1>. QED BY <1>1, <1>2, <1>3, <1>4 DEF KbNext

\* A task that has read the current version holds the document until it commits, so
\* what it compares with is still the current version (index_version).
THEOREM LockHolds == KbSpec => []OneActivates
<1>1. KbInit => OneActivates
  BY KbAssumption DEF KbInit, OneActivates
<1>2. KbTypes /\ OneActivates /\ [KbNext]_kbVars => OneActivates'
  BY OneActivatesInductive
<1>. QED BY <1>1, <1>2, KbTypesHold, PTL DEF KbSpec

\* Only an activation and seed_kb move the pointer, and they move it to a newer
\* version.
LEMMA ActivationIsNewer ==
  ASSUME KbTypes, OneActivates, [KbNext]_kbVars
  PROVE  /\ current' >= current
         /\ current' # current =>
              Seed \/ \E r \in Request : Activate(r) /\ current' = task[r]
<1>. USE DEF KbTypes, KbTypeOK
<1>1. ASSUME NEW r \in Request, Activate(r)
      PROVE  current' >= current /\ (current' # current => current' = task[r])
  <2>1. found[r] = current
    BY <1>1 DEF Activate, OneActivates
  <2>2. CASE found[r] < task[r]
    BY <1>1, <2>1, <2>2 DEF Activate
  <2>3. CASE ~(found[r] < task[r])
    BY <1>1, <2>3 DEF Activate
  <2>. QED BY <2>2, <2>3
<1>3. ASSUME Seed PROVE current' >= current
  BY <1>3 DEF Seed
<1>2. ASSUME \A r \in Request : ~Activate(r), ~Seed
      PROVE  UNCHANGED current
  BY <1>2
     DEF KbNext, Handle, Create, Load, Save, KeepVersion, Delete, Enqueue, StartTask,
         LockDocument, LoseTask, Reindex, SelectAtOnce, SelectAfterReset, SaveBatch,
         BreakScript, indexVars, kbVars
<1>. QED BY <1>1, <1>2, <1>3

\* The version that answers clients only ever gets newer, whatever tasks of whatever
\* edits end in whatever order (index_version and its FOR UPDATE).
THEOREM ForwardHolds == KbSpec => CurrentMovesForward
<1>1. KbTypes /\ OneActivates /\ [KbNext]_kbVars => [current' >= current]_kbVars
  BY ActivationIsNewer
<1>. QED BY <1>1, KbTypesHold, LockHolds, PTL DEF KbSpec, CurrentMovesForward

\* Every step adds versions after the latest one.
Kept == latest' >= latest /\ \A v \in 1..latest : author'[v] = author[v]

\* No step replaces a version or takes the latest one back.
LEMMA StepsKeepVersions == ASSUME KbTypes, [KbNext]_kbVars PROVE Kept
<1>. USE DEF KbTypes, KbTypeOK, Kept
<1>1. ASSUME NEW r \in Request, Create(r) PROVE Kept
  BY <1>1 DEF Create, FirstVersion
<1>2. ASSUME NEW r \in Request, Save(r) PROVE Kept
  <2>1. CASE NumberFree(r)
    <3>1. seen[r] = latest
      BY <1>2, <2>1, FreeNumber DEF Save
    <3>2. latest' = latest + 1 /\ author' = [author EXCEPT ![latest + 1] = r]
      BY <1>2, <2>1, <3>1 DEF Save
    <3>. QED BY <3>2
  <2>2. CASE ~NumberFree(r)
    BY <1>2, <2>2 DEF Save
  <2>. QED BY <2>1, <2>2
<1>3. ASSUME Seed PROVE Kept
  <2>1. latest' = latest + 1 /\ author' = [author EXCEPT ![latest + 1] = SeedKb]
    BY <1>3, SeedIsNext DEF Seed
  <2>. QED BY <2>1
<1>4. ASSUME \A r \in Request : ~Create(r) /\ ~Save(r), ~Seed
      PROVE  UNCHANGED <<latest, author>>
  BY <1>4
     DEF KbNext, Handle, Load, KeepVersion, Delete, Enqueue, StartTask, LockDocument,
         Activate, LoseTask, Reindex, SelectAtOnce, SelectAfterReset, SaveBatch,
         BreakScript, docVars, kbVars
<1>5. UNCHANGED <<latest, author>> => Kept
  OBVIOUS
<1>. QED BY <1>1, <1>2, <1>3, <1>4, <1>5

\* No two edits get one number, so a saved version stays what it was
\* (update_document, seed_kb and the unique key).
THEOREM VersionsHold == KbSpec => VersionsAreKept
<1>1. KbTypes /\ [KbNext]_kbVars => [Kept]_kbVars
  BY StepsKeepVersions
<1>. QED BY <1>1, KbTypesHold, PTL DEF KbSpec, VersionsAreKept, Kept

-----------------------------------------------------------------------------
(* No edit is forgotten.  While the latest version is neither current nor   *)
(* lost, a request has it in hand.                                          *)

HasLatest(r) ==
  \/ pc[r] = "saved" /\ seen[r] + 1 = latest
  \/ pc[r] \in {"queued", "computing", "locked"} /\ task[r] = latest

LatestInHand ==
  latest # 0 /\ latest \notin lost /\ current # latest => \E r \in Request : HasLatest(r)

\* Every step passes the latest version on, makes it current or loses it.
LEMMA LatestInHandInductive ==
  ASSUME KbTypes, OneActivates, LatestInHand, [KbNext]_kbVars
  PROVE  LatestInHand'
<1>. USE DEF KbTypes, KbTypeOK
<1>1. ASSUME NEW r \in Request, Handle(r) PROVE LatestInHand'
  <2>1. CASE Create(r) \/ Save(r)
    <3>1. CASE pc' = [pc EXCEPT ![r] = "saved"]
      <4>1. latest' = seen'[r] + 1
        BY <2>1, <3>1 DEF Create, Save, FirstVersion
      <4>2. HasLatest(r)'
        BY <3>1, <4>1 DEF HasLatest
      <4>. QED BY <4>2 DEF LatestInHand
    <3>2. CASE ~(pc' = [pc EXCEPT ![r] = "saved"])
      <4>1. /\ pc' = [pc EXCEPT ![r] = "done"]
            /\ pc[r] \in {"idle", "editing"}
            /\ UNCHANGED <<latest, current, lost, seen, task>>
        BY <2>1, <3>2 DEF Create, Save, indexVars, taskVars
      <4>2. \A q \in Request : HasLatest(q) => HasLatest(q)'
        BY <4>1 DEF HasLatest
      <4>. QED BY <4>1, <4>2 DEF LatestInHand
    <3>. QED BY <3>1, <3>2
  <2>2. CASE Load(r) \/ KeepVersion(r) \/ Delete(r)
    <3>1. /\ pc[r] \in {"idle", "editing"}
          /\ pc'[r] \in {"editing", "done"}
          /\ \A q \in Request \ {r} : pc'[q] = pc[q] /\ seen'[q] = seen[q]
          /\ UNCHANGED <<latest, current, lost, task>>
      BY <2>2 DEF Load, KeepVersion, Delete, docVars, indexVars, taskVars
    <3>2. \A q \in Request : HasLatest(q) => HasLatest(q)'
      BY <3>1 DEF HasLatest
    <3>. QED BY <3>1, <3>2 DEF LatestInHand
  <2>3. CASE Enqueue(r)
    <3>1. HasLatest(r)'
      BY <2>3 DEF Enqueue, ToIndex, HasLatest, docVars
    <3>. QED BY <3>1 DEF LatestInHand
  <2>4. CASE StartTask(r) \/ LockDocument(r)
    <3>1. /\ pc[r] \in {"queued", "computing"} /\ pc'[r] \in {"computing", "locked"}
          /\ \A q \in Request \ {r} : pc'[q] = pc[q]
          /\ UNCHANGED <<latest, current, lost, seen, task>>
      BY <2>4 DEF StartTask, LockDocument, docVars, indexVars
    <3>2. \A q \in Request : HasLatest(q) => HasLatest(q)'
      BY <3>1 DEF HasLatest
    <3>. QED BY <3>1, <3>2 DEF LatestInHand
  <2>5. CASE Activate(r)
    <3>1. /\ found[r] = current /\ pc[r] = "locked"
          /\ current' = IF current < task[r] THEN task[r] ELSE current
          /\ pc' = [pc EXCEPT ![r] = "done"]
          /\ UNCHANGED <<latest, lost, seen, task>>
      BY <2>5 DEF Activate, OneActivates, docVars, taskVars
    <3>2. CASE task[r] = latest
      <4>1. current' = latest'
        BY <3>1, <3>2
      <4>. QED BY <4>1 DEF LatestInHand
    <3>3. CASE task[r] # latest
      <4>1. \A q \in Request : HasLatest(q) => HasLatest(q)'
        BY <3>1, <3>3 DEF HasLatest
      <4>2. current = latest => current' = latest
        BY <3>1
      <4>. QED BY <3>1, <4>1, <4>2 DEF LatestInHand
    <3>. QED BY <3>2, <3>3
  <2>6. CASE LoseTask(r)
    <3>1. /\ UNCHANGED <<latest, current, seen, task>>
          /\ pc' = [pc EXCEPT ![r] = "done"]
          /\ lost' = lost \cup {IF pc[r] = "saved" THEN seen[r] + 1 ELSE task[r]}
      BY <2>6 DEF LoseTask, docVars, taskVars
    <3>2. CASE HasLatest(r)
      <4>1. latest' \in lost'
        BY <3>1, <3>2 DEF HasLatest
      <4>. QED BY <4>1 DEF LatestInHand
    <3>3. CASE ~HasLatest(r)
      <4>1. \A q \in Request : HasLatest(q) => HasLatest(q)'
        BY <3>1, <3>3 DEF HasLatest
      <4>. QED BY <3>1, <4>1 DEF LatestInHand
    <3>. QED BY <3>2, <3>3
  <2>. QED BY <1>1, <2>1, <2>2, <2>3, <2>4, <2>5, <2>6 DEF Handle
<1>2. CASE \/ \E m \in Model : Reindex(m) \/ SelectAtOnce(m)
           \/ SelectAfterReset \/ SaveBatch \/ BreakScript \/ UNCHANGED kbVars
  <2>1. UNCHANGED <<latest, current, lost, pc, seen, task>>
    BY <1>2
       DEF Reindex, SelectAtOnce, SelectAfterReset, SaveBatch, BreakScript, docVars,
           indexVars, taskVars, kbVars
  <2>2. \A q \in Request : HasLatest(q) <=> HasLatest(q)'
    BY <2>1 DEF HasLatest
  <2>. QED BY <2>1, <2>2 DEF LatestInHand
<1>3. CASE Seed
  BY <1>3 DEF Seed, LatestInHand
<1>. QED BY <1>1, <1>2, <1>3 DEF KbNext

\* When nothing is under way the newest version answers clients, or an indexing of it
\* was lost: that is the only way an edit is lost (index_in_background).
THEOREM QuietHolds == KbSpec => []QuietIsCurrent
<1>1. KbInit => LatestInHand
  BY DEF KbInit, LatestInHand
<1>2. KbTypes /\ OneActivates /\ LatestInHand /\ [KbNext]_kbVars => LatestInHand'
  BY LatestInHandInductive
<1>3. KbTypes /\ LatestInHand => QuietIsCurrent
  <2>. SUFFICES ASSUME KbTypes, LatestInHand, latest \notin lost,
                       \A r \in Request : pc[r] \notin Running
                PROVE  current = latest
    BY DEF QuietIsCurrent
  <2>1. \A r \in Request : ~HasLatest(r)
    BY DEF HasLatest, Running
  <2>2. latest = 0 => current = latest
    BY DEF KbTypes, KbTypeOK
  <2>. QED BY <2>1, <2>2 DEF LatestInHand
<1>. QED BY <1>1, <1>2, <1>3, KbTypesHold, LockHolds, PTL DEF KbSpec

-----------------------------------------------------------------------------
(* The search.  A version without an embedding is on its way to one: the    *)
(* script will save it, or was cut short.                                   *)

Covered(v) ==
  \/ emb[v] # NULL
  \/ script = "reset" \/ v \in pending
  \/ script = "idle" /\ broken

ServedCovered ==
  /\ current # 0 /\ author[current] # SeedKb => Covered(current)
  /\ \A r \in Request :
       pc[r] \in {"computing", "locked"} /\ ~computed[r] => Covered(task[r])
  /\ script # "encoding" => pending = {}

\* No step takes a version's cover away.
LEMMA CoverStays ==
  ASSUME KbTypes, ServedCovered, [KbNext]_kbVars
  PROVE  /\ \A v \in 1..latest : Covered(v) => Covered(v)'
         /\ script' # "encoding" => pending' = {}
<1>. USE KbAssumption DEF KbTypes, KbTypeOK, Version
<1>. 1..latest \subseteq Version
  OBVIOUS
<1>1. ASSUME NEW r \in Request, Handle(r)
      PROVE  /\ \A v \in Version : emb[v] # NULL => emb'[v] # NULL
             /\ UNCHANGED <<script, pending, broken>>
  <2>1. CASE Activate(r)
    BY <2>1 DEF Activate, scriptVars
  <2>2. CASE ~Activate(r)
    BY <1>1, <2>2
       DEF Handle, Create, Load, Save, KeepVersion, Delete, Enqueue, StartTask,
           LockDocument, LoseTask, indexVars, scriptVars
  <2>. QED BY <2>1, <2>2
<1>2. CASE \E r \in Request : Handle(r)
  BY <1>1, <1>2 DEF Covered, ServedCovered
<1>3. CASE \E m \in Model : Reindex(m)
  <2>1. script' = "reset" /\ UNCHANGED pending /\ script = "idle"
    BY <1>3 DEF Reindex, StartScript
  <2>. QED BY <2>1 DEF Covered, ServedCovered
<1>4. CASE SelectAfterReset \/ \E m \in Model : SelectAtOnce(m)
  <2>1. /\ script' = "encoding" /\ UNCHANGED <<emb, latest>>
        /\ \A v \in 1..latest : emb[v] = NULL => v \in pending'
    BY <1>4 DEF SelectAtOnce, SelectAfterReset, SelectMissing, indexVars, docVars
  <2>. QED BY <2>1 DEF Covered
<1>5. CASE SaveBatch
  <2>1. /\ \A v \in Version : emb[v] # NULL \/ v \in pending => emb'[v] # NULL
        /\ script = "encoding" /\ pending' = {}
    BY <1>5 DEF SaveBatch
  <2>. QED BY <2>1 DEF Covered
<1>6. CASE BreakScript
  BY <1>6 DEF BreakScript, indexVars, Covered
<1>7. CASE UNCHANGED kbVars
  BY <1>7 DEF kbVars, Covered, ServedCovered
<1>8. CASE Seed
  BY <1>8 DEF Seed, scriptVars, Covered, ServedCovered
<1>. QED BY <1>2, <1>3, <1>4, <1>5, <1>6, <1>7, <1>8 DEF KbNext

\* A task without an embedding of its own was so before, or has just seen one.
LEMMA TaskWithoutEmbedding ==
  ASSUME KbTypes, [KbNext]_kbVars, NEW q \in Request,
         pc'[q] \in {"computing", "locked"}, ~computed'[q]
  PROVE  /\ task'[q] = task[q]
         /\ \/ pc[q] \in {"computing", "locked"} /\ ~computed[q]
            \/ pc[q] = "queued" /\ emb[task[q]] # NULL
<1>. USE KbAssumption DEF KbTypes, KbTypeOK
<1>1. ASSUME NEW r \in Request, Handle(r), r # q
      PROVE  pc'[q] = pc[q] /\ computed'[q] = computed[q] /\ task'[q] = task[q]
  BY <1>1
     DEF Handle, Create, Load, Save, KeepVersion, Delete, Enqueue, StartTask, LockDocument,
         Activate, LoseTask, taskVars
<1>2. CASE Create(q) \/ Load(q) \/ Save(q) \/ KeepVersion(q) \/ Delete(q) \/ Enqueue(q)
           \/ Activate(q) \/ LoseTask(q)
  BY <1>2 DEF Create, Load, Save, KeepVersion, Delete, Enqueue, Activate, LoseTask, taskVars
<1>3. CASE StartTask(q)
  BY <1>3 DEF StartTask, NeedsEmbedding
<1>4. CASE LockDocument(q)
  BY <1>4 DEF LockDocument
<1>5. CASE \/ \E m \in Model : Reindex(m) \/ SelectAtOnce(m)
           \/ SelectAfterReset \/ SaveBatch \/ BreakScript \/ Seed \/ UNCHANGED kbVars
  <2>1. UNCHANGED <<pc, computed, task>>
    BY <1>5
       DEF Seed, Reindex, SelectAtOnce, SelectAfterReset, SaveBatch, BreakScript, taskVars, kbVars
  <2>. QED BY <2>1
<1>. QED BY <1>1, <1>2, <1>3, <1>4, <1>5 DEF KbNext, Handle

\* Every step leaves what answers, or is about to, with an embedding or one on its way.
LEMMA ServedCoveredInductive ==
  ASSUME KbTypes, OneActivates, ServedCovered, [KbNext]_kbVars
  PROVE  ServedCovered'
<1>1. ASSUME NEW v \in 1..latest, Covered(v)
      PROVE  Covered(v)'
  BY <1>1, CoverStays
<1>2. ASSUME NEW v, v = current', v # 0, author'[v] # SeedKb
      PROVE  Covered(v)'
  <2>1. CASE current' = current
    <3>1. v \in 1..latest
      BY <1>2, <2>1 DEF KbTypes, KbTypeOK
    <3>2. author'[v] = author[v]
      BY <3>1, StepsKeepVersions DEF Kept
    <3>3. Covered(v)
      BY <1>2, <2>1, <3>2 DEF ServedCovered
    <3>. QED BY <3>1, <3>3, <1>1
  <2>2. CASE current' # current
    <3>5. ~Seed
      <4>. SUFFICES ASSUME Seed PROVE FALSE
        OBVIOUS
      <4>1. current + 1 \in Version /\ current' = current + 1
        BY SeedIsNext DEF Seed
      <4>2. author'[current + 1] = SeedKb
        BY <4>1 DEF Seed, KbTypes, KbTypeOK
      <4>. QED BY <1>2, <4>1, <4>2
    <3>1. PICK r \in Request : Activate(r) /\ current' = task[r]
      BY <2>2, <3>5, ActivationIsNewer
    <3>2. v \in 1..latest /\ v \in Version /\ v = task[r]
      BY <1>2, <3>1, KbAssumption DEF KbTypes, KbTypeOK, Version
    <3>3. CASE computed[r]
      <4>1. emb'[v] = AppModel
        BY <3>1, <3>2, <3>3 DEF Activate, KbTypes, KbTypeOK
      <4>. QED BY <4>1, KbAssumption DEF Covered
    <3>4. CASE ~computed[r]
      <4>1. Covered(v)
        BY <3>1, <3>2, <3>4 DEF Activate, ServedCovered
      <4>. QED BY <4>1, <3>2, <1>1
    <3>. QED BY <3>3, <3>4
  <2>. QED BY <2>1, <2>2
<1>3. ASSUME NEW q \in Request, pc'[q] \in {"computing", "locked"}, ~computed'[q],
             NEW v, v = task'[q]
      PROVE  Covered(v)'
  <2>1. /\ v = task[q]
        /\ \/ pc[q] \in {"computing", "locked"} /\ ~computed[q]
           \/ pc[q] = "queued" /\ emb[v] # NULL
    BY <1>3, TaskWithoutEmbedding
  <2>2. v \in 1..latest
    BY <2>1 DEF KbTypes, KbTypeOK
  <2>3. Covered(v)
    BY <2>1 DEF ServedCovered, Covered
  <2>. QED BY <2>2, <2>3, <1>1
<1>4. script' # "encoding" => pending' = {}
  BY CoverStays
<1>. QED BY <1>2, <1>3, <1>4 DEF ServedCovered, Covered

\* As long as index_kb saves nothing of another model, every embedding is one the
\* application searches.
OneModel == ~foreign => \A v \in Version : emb[v] \in {NULL, AppModel}

\* Every step saves embeddings of the application's model, or is the script's.
LEMMA OneModelInductive ==
  ASSUME KbTypes, OneModel, [KbNext]_kbVars
  PROVE  OneModel'
<1>. USE KbAssumption DEF KbTypes, KbTypeOK, OneModel
<1>1. ASSUME NEW r \in Request, Handle(r) PROVE OneModel'
  <2>1. UNCHANGED foreign /\ \A v \in Version : emb'[v] \in {emb[v], AppModel}
    BY <1>1
       DEF Handle, Create, Load, Save, KeepVersion, Delete, Enqueue, StartTask,
           LockDocument, Activate, LoseTask, indexVars, scriptVars
  <2>. QED BY <2>1
<1>2. CASE SaveBatch
  <2>1. CASE pending = {}
    BY <1>2, <2>1 DEF SaveBatch
  <2>2. CASE tool = AppModel
    BY <1>2, <2>2 DEF SaveBatch
  <2>3. CASE pending # {} /\ tool # AppModel
    BY <1>2, <2>3 DEF SaveBatch
  <2>. QED BY <2>1, <2>2, <2>3
<1>3. CASE \E m \in Model : Reindex(m)
  BY <1>3 DEF Reindex
<1>4. CASE \/ \E m \in Model : SelectAtOnce(m)
           \/ SelectAfterReset \/ BreakScript \/ Seed \/ UNCHANGED kbVars
  BY <1>4 DEF SelectAtOnce, SelectAfterReset, BreakScript, Seed, indexVars, scriptVars, kbVars
<1>. QED BY <1>1, <1>2, <1>3, <1>4 DEF KbNext

\* No edit and no indexing that crosses it takes the answering version out of the search,
\* whose embeddings are those of the application's model: only index_kb does, by
\* --reindex until it has run to its end or with another model, and seed_kb, by a
\* prepared text in its place.
THEOREM ServedHolds == KbSpec => []ServedStaysIndexed
<1>1. KbInit => ServedCovered /\ OneModel
  BY DEF KbInit, ServedCovered, OneModel
<1>2. KbTypes /\ OneActivates /\ ServedCovered /\ [KbNext]_kbVars => ServedCovered'
  BY ServedCoveredInductive
<1>3. KbTypes /\ OneModel /\ [KbNext]_kbVars => OneModel'
  BY OneModelInductive
<1>4. KbTypes /\ ServedCovered /\ OneModel => ServedStaysIndexed
  <2>. SUFFICES ASSUME KbTypes, ServedCovered, OneModel, current # 0, script = "idle",
                       ~broken, ~foreign, author[current] # SeedKb
                PROVE  emb[current] = AppModel
    BY DEF ServedStaysIndexed
  <2>1. current \in Version
    BY KbAssumption DEF KbTypes, KbTypeOK, Version
  <2>2. emb[current] # NULL
    BY DEF ServedCovered, Covered
  <2>. QED BY <2>1, <2>2 DEF OneModel
<1>. QED BY <1>1, <1>2, <1>3, <1>4, KbTypesHold, LockHolds, PTL DEF KbSpec
=============================================================================
