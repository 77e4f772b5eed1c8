--------------------------- MODULE KnowledgeBase ---------------------------
(***************************************************************************)
(* One document of the knowledge base (app/kb/service.py, app/kb/          *)
(* indexing.py, app/api/kb.py, scripts/index_kb.py and seed_kb.py):        *)
(* administrators create, edit and delete it, each edit is indexed in a    *)
(* background task of its request, one script computes or resets           *)
(* embeddings beside it, and another loads the prepared texts.             *)
(*                                                                         *)
(* latest is the newest version, current the one that answers clients.     *)
(* A request reads, then commits, then reads again what to index; its task *)
(* reads the version, computes for seconds, locks the document and         *)
(* commits.  Row locks matter once: a task that has computed an embedding  *)
(* holds its version's row, and the document's, until it commits.          *)
(*                                                                         *)
(* A definition commented "Faulty" is a plausible slip in the definition   *)
(* that follows it; the properties are checked to notice it.               *)
(***************************************************************************)
EXTENDS Integers

CONSTANTS
  Request,      \* each creates, edits or deletes once
  MaxVersion,   \* bound: versions of the document
  NULL,
  SeedKb,       \* the author of a prepared text
  Model,        \* the embedding models in use,
  AppModel,     \* that of the application
  MaxScripts    \* bound: runs of index_kb

ASSUME KbAssumption ==
  /\ NULL \notin Request \cup Model
  /\ SeedKb \notin Request \cup {NULL}
  /\ MaxVersion \in Nat \ {0}
  /\ AppModel \in Model
  /\ MaxScripts \in Nat

Version == 1..MaxVersion

VARIABLES
  latest,    \* number of the newest version, 0 before the document exists
  author,    \* per version, the request or script that wrote it, or NULL
  emb,       \* per version, the model of its embedding, or NULL
  current,   \* number of kb_documents.current_version_id, 0 for none
  deleted,   \* kb_documents.deleted_at is set
  docLock,   \* the task that holds the document FOR UPDATE, or NULL
  pc,        \* per request
  seen,      \* per request, the latest version it read
  task,      \* per request, the version its background task indexes
  computed,  \* per request, has its task computed an embedding
  found,     \* per request, the current version its task read under the lock
  script,    \* index_kb: "idle", "reset" or "encoding"
  pending,   \* the versions it has selected
  tool,      \* its model
  scripts,   \* how often it has started
  lost,      \* history: versions whose indexing was lost
  broken,    \* history: has a run of index_kb been cut short
  foreign    \* history: has index_kb saved embeddings of another model since a reset

docVars == <<latest, author, deleted>>
indexVars == <<emb, current, docLock>>
taskVars == <<task, computed, found>>
scriptVars == <<script, pending, tool, scripts, broken, foreign>>
kbVars ==
  <<latest, author, emb, current, deleted, docLock, pc, seen, task, computed, found,
    script, pending, tool, scripts, lost, broken, foreign>>

Running == {"editing", "saved", "queued", "computing", "locked"}

KbTypeOK ==
  /\ latest \in 0..MaxVersion
  /\ author \in [Version -> Request \cup {SeedKb, NULL}]
  /\ \A v \in Version : author[v] # NULL <=> v <= latest
  /\ emb \in [Version -> Model \cup {NULL}]
  /\ current \in 0..latest
  /\ deleted \in BOOLEAN
  /\ docLock \in Request \cup {NULL}
  /\ pc \in [Request -> {"idle", "done"} \cup Running]
  /\ seen \in [Request -> 0..latest]
  /\ task \in [Request -> 0..latest]
  /\ computed \in [Request -> BOOLEAN]
  /\ found \in [Request -> 0..latest]
  /\ script \in {"idle", "reset", "encoding"}
  /\ pending \subseteq Version
  /\ tool \in Model
  /\ scripts \in 0..MaxScripts
  /\ lost \subseteq Version
  /\ broken \in BOOLEAN /\ foreign \in BOOLEAN

KbInit ==
  /\ latest = 0 /\ current = 0 /\ deleted = FALSE
  /\ author = [v \in Version |-> NULL]
  /\ emb = [v \in Version |-> NULL]
  /\ docLock = NULL
  /\ pc = [r \in Request |-> "idle"]
  /\ seen = [r \in Request |-> 0]
  /\ task = [r \in Request |-> 0]
  /\ computed = [r \in Request |-> FALSE]
  /\ found = [r \in Request |-> 0]
  /\ script = "idle" /\ pending = {} /\ tool = AppModel /\ scripts = 0
  /\ lost = {} /\ broken = FALSE /\ foreign = FALSE

-----------------------------------------------------------------------------
(* Requests (service.py).                                                   *)

\* Faulty: versions are counted from zero.
FirstVersionZero == 0

FirstVersion == 1

\* create_document; a taken slug is refused by its unique key.
Create(r) ==
  /\ pc[r] = "idle"
  /\ IF latest = 0
     THEN /\ latest' = FirstVersion
          /\ author' = [author EXCEPT ![1] = r]
          /\ pc' = [pc EXCEPT ![r] = "saved"]
     ELSE /\ pc' = [pc EXCEPT ![r] = "done"]
          /\ UNCHANGED <<latest, author>>
  /\ UNCHANGED <<deleted, indexVars, seen, taskVars, scriptVars, lost>>

\* update_document loads the document and its latest version, or answers 404.
Load(r) ==
  /\ pc[r] = "idle" /\ latest \in 1..(MaxVersion - 1)
  /\ pc' = [pc EXCEPT ![r] = IF deleted THEN "done" ELSE "editing"]
  /\ seen' = [seen EXCEPT ![r] = latest]
  /\ UNCHANGED <<docVars, indexVars, taskVars, scriptVars, lost>>

\* Faulty: nothing keeps two versions from having one number.
NumberFreeUnchecked(r) == TRUE

\* uq_kb_document_versions_doc_version.
NumberFree(r) == author[seen[r] + 1] = NULL

\* A new content becomes the next version; its INSERT waits for the document's
\* lock.  A number already taken aborts the request.
Save(r) ==
  /\ pc[r] = "editing" /\ docLock = NULL
  /\ IF NumberFree(r)
     THEN /\ latest' = seen[r] + 1
          /\ author' = [author EXCEPT ![seen[r] + 1] = r]
          /\ pc' = [pc EXCEPT ![r] = "saved"]
     ELSE /\ pc' = [pc EXCEPT ![r] = "done"]
          /\ UNCHANGED <<latest, author>>
  /\ UNCHANGED <<deleted, indexVars, seen, taskVars, scriptVars, lost>>

\* The content is the one it read, or only the title was given.
KeepVersion(r) ==
  /\ pc[r] = "editing"
  /\ pc' = [pc EXCEPT ![r] = "done"]
  /\ UNCHANGED <<docVars, indexVars, seen, taskVars, scriptVars, lost>>

\* delete_document: a second one changes nothing.
Delete(r) ==
  /\ pc[r] = "idle" /\ latest # 0 /\ docLock = NULL
  /\ deleted' = TRUE
  /\ pc' = [pc EXCEPT ![r] = "done"]
  /\ UNCHANGED <<latest, author, indexVars, seen, taskVars, scriptVars, lost>>

\* Faulty: the state the request loaded, not the one it saved.
ToIndexLoaded(r) == IF seen[r] = 0 THEN latest ELSE seen[r]

\* _state reads the latest version again after the commit.
ToIndex(r) == latest

\* The handler adds the background task.
Enqueue(r) ==
  /\ pc[r] = "saved"
  /\ task' = [task EXCEPT ![r] = ToIndex(r)]
  /\ pc' = [pc EXCEPT ![r] = "queued"]
  /\ UNCHANGED <<docVars, indexVars, seen, computed, found, scriptVars, lost>>

-----------------------------------------------------------------------------
(* index_version, in the request's background task.                         *)

\* Faulty: a version that never had an embedding is taken for an indexed one.
NeedsEmbeddingIfForeign(r) == emb[task[r]] \notin {NULL, AppModel}

NeedsEmbedding(r) == emb[task[r]] # AppModel

\* The version is read: versions are never deleted, so it is there.  An embedding
\* of the application's model is kept.
StartTask(r) ==
  /\ pc[r] = "queued"
  /\ computed' = [computed EXCEPT ![r] = NeedsEmbedding(r)]
  /\ pc' = [pc EXCEPT ![r] = "computing"]
  /\ UNCHANGED <<docVars, indexVars, seen, task, found, scriptVars, lost>>

\* Faulty: the document is read without with_for_update.
LockFreeIgnored == TRUE

LockFree == docLock = NULL

\* The embedding is flushed, the document locked and its current version read.
LockDocument(r) ==
  /\ pc[r] = "computing" /\ LockFree
  /\ docLock' = r
  /\ found' = [found EXCEPT ![r] = current]
  /\ pc' = [pc EXCEPT ![r] = "locked"]
  /\ UNCHANGED <<docVars, emb, current, seen, task, computed, scriptVars, lost>>

\* The embedding and, if the version is newer, the pointer are committed.
Activate(r) ==
  /\ pc[r] = "locked"
  /\ emb' = IF computed[r] THEN [emb EXCEPT ![task[r]] = AppModel] ELSE emb
  /\ current' = IF found[r] < task[r] THEN task[r] ELSE current
  /\ docLock' = NULL
  /\ pc' = [pc EXCEPT ![r] = "done"]
  /\ UNCHANGED <<docVars, seen, taskVars, scriptVars, lost>>

\* The process stops, the model fails or the connection is lost: the task is not
\* repeated, and its transaction is rolled back.
LoseTask(r) ==
  /\ pc[r] \in {"saved", "queued", "computing", "locked"}
  /\ pc' = [pc EXCEPT ![r] = "done"]
  /\ lost' = lost \cup {IF pc[r] = "saved" THEN seen[r] + 1 ELSE task[r]}
  /\ docLock' = IF docLock = r THEN NULL ELSE docLock
  /\ UNCHANGED <<docVars, emb, current, seen, taskVars, scriptVars>>

-----------------------------------------------------------------------------
(* scripts/index_kb.py.                                                     *)

RowsFree == \A r \in Request : pc[r] = "locked" => ~computed[r]

StartScript(m) ==
  /\ script = "idle" /\ scripts < MaxScripts
  /\ tool' = m
  /\ scripts' = scripts + 1
  /\ broken' = FALSE

\* --reindex: every embedding is reset, and that is committed.
Reindex(m) ==
  /\ StartScript(m) /\ RowsFree
  /\ emb' = [v \in Version |-> NULL]
  /\ foreign' = FALSE
  /\ script' = "reset"
  /\ UNCHANGED <<docVars, current, docLock, pc, seen, taskVars, pending, lost>>

SelectMissing ==
  /\ pending' = {v \in 1..latest : emb[v] = NULL}
  /\ script' = "encoding"

SelectAfterReset ==
  /\ script = "reset"
  /\ SelectMissing
  /\ UNCHANGED <<docVars, indexVars, pc, seen, taskVars, tool, scripts, lost, broken,
                 foreign>>

\* Without --reindex the versions without an embedding are selected at once.
SelectAtOnce(m) ==
  /\ StartScript(m)
  /\ SelectMissing
  /\ UNCHANGED <<docVars, indexVars, pc, seen, taskVars, lost, foreign>>

\* The batch is committed, one here for the few versions of a document, over whatever
\* embedding a version has got since it was selected; current_version_id stays as it is.
SaveBatch ==
  /\ script = "encoding" /\ RowsFree
  /\ emb' = [v \in Version |-> IF v \in pending THEN tool ELSE emb[v]]
  /\ foreign' = (foreign \/ (tool # AppModel /\ pending # {}))
  /\ script' = "idle"
  /\ pending' = {}
  /\ UNCHANGED <<docVars, current, docLock, pc, seen, taskVars, tool, scripts, lost, broken>>

BreakScript ==
  /\ script # "idle"
  /\ script' = "idle" /\ pending' = {} /\ broken' = TRUE
  /\ UNCHANGED <<docVars, indexVars, pc, seen, taskVars, tool, scripts, lost, foreign>>

-----------------------------------------------------------------------------
(* scripts/seed_kb.py.                                                      *)

\* Faulty: the number is not checked against versions that wait for their indexing.
SeedNumberFreeUnchecked == TRUE

\* uq_kb_document_versions_doc_version again.
SeedNumberFree == author[current + 1] = NULL

\* A prepared text differs from the current one: it becomes the next version after
\* the current one and current at once, without an embedding, and the document is
\* there again if it was deleted.  The script reads the document earlier in the
\* transaction, without a lock; but versions only grow, and so does current, so
\* whatever comes in between takes the number, and the script is aborted.
Seed ==
  /\ current < MaxVersion /\ docLock = NULL
  /\ SeedNumberFree
  /\ latest' = current + 1
  /\ author' = [author EXCEPT ![current + 1] = SeedKb]
  /\ current' = current + 1
  /\ deleted' = FALSE
  /\ UNCHANGED <<emb, docLock, pc, seen, taskVars, scriptVars, lost>>

Handle(r) ==
  \/ Create(r) \/ Load(r) \/ Save(r) \/ KeepVersion(r) \/ Delete(r) \/ Enqueue(r)
  \/ StartTask(r) \/ LockDocument(r) \/ Activate(r) \/ LoseTask(r)

KbNext ==
  \/ \E r \in Request : Handle(r)
  \/ \E m \in Model : Reindex(m) \/ SelectAtOnce(m)
  \/ SelectAfterReset \/ SaveBatch \/ BreakScript
  \/ Seed

KbSpec == KbInit /\ [][KbNext]_kbVars

-----------------------------------------------------------------------------
(* Properties.                                                              *)

\* The current version never steps back, in whatever order the tasks of several
\* edits end (indexing.py).
CurrentMovesForward == [][current' >= current]_kbVars

\* A saved version is never replaced by another: what an audit of an answer refers
\* to is what the client was told, and no edit overwrites one it has not read.
VersionsAreKept ==
  [][latest' >= latest /\ \A v \in 1..latest : author'[v] = author[v]]_kbVars

\* The version that answers clients has an embedding of the application's model, the
\* only ones the search compares with (retrieval.py): edits and indexing that cross each
\* other never take the document out of it.  index_kb may, while it re-indexes, when a
\* run was cut short, or with another model; and a text that seed_kb has loaded waits
\* for index_kb.
ServedStaysIndexed ==
  current # 0 /\ script = "idle" /\ ~broken /\ ~foreign /\ author[current] # SeedKb
    => emb[current] = AppModel

\* When every request and its task has ended, the latest version is the current one,
\* unless an indexing of it was lost.
QuietIsCurrent ==
  (\A r \in Request : pc[r] \notin Running) /\ latest \notin lost => current = latest
=============================================================================
