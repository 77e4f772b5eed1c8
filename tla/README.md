# A TLA+ model of the support agent

The repository is a support service: a client writes through a channel, an agent
(an LLM under a fixed decision table) answers, asks back or escalates, and
operators work off the escalations. Postgres is the source of truth (READ
COMMITTED), RabbitMQ carries `escalation.created`, an API with worker threads and
three workers (outbox poller, escalation consumer, scheduler) act on the same
rows. This directory holds the model of that system, the TLC runs that check it
and the TLAPS proofs about it. `PROJECT.json` maps every definition to the lines
it was translated from.

Run a check with `tlc -workers 2 -config X.cfg M` and a proof with `tlapm M.tla`.

## 1. Inventory

| part | state it keeps | operations | meets the others through |
|---|---|---|---|
| Decision Engine (`domain/decision.py`) | none | `decide` over eleven ordered rows | called by the graph and by `request_human` |
| Agent graph and service (`agent/`) | the graph's state; writes ticket, classification, reply, escalation | redact, classify, retrieve, decide, act; `_persist` | LLM calls of seconds between its read and its write of the ticket |
| Classifiers, retrieval (`services/`) | none | label with a confidence, cross-check with the baseline; find the nearest chunks, fuse them with those that match the words | feed the Decision Engine |
| LLM client, adapters, usage meter (`services/llm_adapters/`, `llm_usage.py`) | logprobs flag, OAuth token; the charged requests of a pass | retries within a deadline, k-sampling in threads, metering | raise `LLMUnavailableError` |
| Ticket intake (`tickets/service.py`, `api/tickets.py`) | tickets, messages | create, add message, request a human; run the agent | the ticket row, shared with everybody below |
| Timeouts, scheduler | none | escalate silent clients, return expired claims, scrub | the same rows, `FOR UPDATE SKIP LOCKED` |
| Escalation writer | escalations, outbox_events | `create_escalation` | one transaction with the ticket |
| Operator desk (`escalations/operations.py`) | the lease columns of escalations, operator_actions | claim, release, resolve, release_expired, queue | the ticket row |
| Outbox, poller, publisher | outbox_events, a broker channel | publish a batch, count attempts | RabbitMQ |
| Escalation consumer | consumed_events (the inbox) | handle, hint, ack, requeue, dead-letter | RabbitMQ, the ticket row, the notify exchange |
| Knowledge base (`kb/`, `scripts/index_kb.py`, `scripts/seed_kb.py`) | documents, versions, current version | edit, index in the background, activate, reindex, seed | retrieval |
| Retention (`retention.py`) | tickets.scrubbed_at | scrub closed tickets past their period | tickets, messages, escalations, operator_actions |
| WebSocket hub, bridge, console's feed (`api/ws.py`, `messaging/ws_bridge.py`) | open sockets | greet, broadcast hints; the console reads the queue again | the notify exchange, the queue's endpoint |
| Auth, PII, embeddings, metrics, tracing, config, console, other scripts | none that decides what happens to a ticket | | |

What is hard here:

* **Stale objects.** Sessions are made with `expire_on_commit=False` and a handler
  keeps its `Ticket` object over a commit, an LLM call and other handlers' commits.
  A flush writes a column only if its new value differs from the value that was
  *read*, not from the one stored.
* **Unlocked read, later write** in `release`, `request_human`, the consumer and the
  agent, next to locked transactions in `claim`, `resolve`, the sweep and the timeout.
* **At-least-once delivery**: crash after publish, crash after commit, requeue, dead
  letters, an attempt counter with a limit, several pollers.
* **Leases** that run out while their holder works, and a queue read page by page
  while rows change their state and priority.
* **Hints without memory**: what a console has not been told, it must read itself.
* **Irreversible clean-up** next to tickets that reopen, and to passes in flight.
* **Order of rules** with overlapping conditions and confidences that may be missing.

What makes each part correct is stated with its module below; the full list of
hazards, each at its line, is in `PROJECT.json`.

## 2. Modules

| module | models | state | actions |
|---|---|---|---|
| `OperatorDesk` | abstract: what the desk promises | holder, answeredBy | Take, Drop, Answer |
| `EscalationClaims` | `escalations/operations.py` | the lease columns, operator_actions, tickets.status, releases in flight | Claim, ReleaseRead, ReleaseFlush, ReleaseCommit, ReleaseAbort, ReleaseExpired, Resolve, Tick |
| `EventHandling` | abstract: what delivery promises | fate of an event | Record, Handle, Park |
| `OperatorQueue` | `queue` and its endpoint; extends `EscalationClaims` | priorities, the cursor of a listing, what it has shown and still owes | ListPage, RaisePriority, DeskGoesOn (every action of the desk) |
| `OutboxDelivery` | writer, outbox, poller, publisher, topology, consumer and its hints | outbox rows, batches in flight, queue, unacked, dead, inbox, hints owed and given | one per step of a poller, the broker and a consumer, and one per fault |
| `DecisionEngine` | `domain/decision.py` | none | `Decide`, `RULES`, `Policy` |
| `Retrieval` | `services/retrieval.py` | none | `Retrieved`, `Rows`, `Fused`, `Relevance` |
| `AgentPass` | `agent/graph.py`, classifiers, `_persist`, `_run_agent`; extends `DecisionEngine` and `Retrieval` | one pass: node, classifier, measurements, decision, outcome | Classify, Retrieve, DecideNode, AutoAnswer, Clarify, Escalate, LlmFails, EscalateUnavailable |
| `TicketLifecycle` | intake, messages, request for a human, agent, timeout, consumer; composes `EscalationClaims` and `DecisionEngine` | one row per ticket, handlers in flight and what they have read | Intake, AddMessage, Persist, EscalateUnavailable, Abort, RequestRead, RequestCommit, Timeout, ConsumeRead, ConsumeCommit, ConsumeAbort, and every action of the desk |
| `TicketRetention` | `retention.py`; extends `TicketLifecycle` | which tables hold a ticket's personal data, aged and scrubbed tickets | PassCutoff, ScrubExpired, LifeStep (every action of the life cycle, with the texts it writes) |
| `ConsoleFeed` | `api/ws.py`, `messaging/ws_bridge.py`, `useEscalationFeed.ts`; extends `TicketLifecycle` | hints on their way, sockets, what each console has missed | Accept, Add, Greet, Close, Broadcast, LoseHint, LifeGoesOn |
| `LlmClient` | `services/llm_adapters/` | the call's clock and phase; per worker the attempt, its limit, its token; the shared token, its lock and how long other calls have held it | Complete, Classify, an attempt's steps (Attempt, Resume, UseCached, Fetch, Fetched, Answered, TokenRefused, ...), Generated, Measured, LogprobsMissing, Tallied; OthersFetch, OthersFetched (other calls at the lock); the provider's Revoke, Age; Tick |
| `LlmUsage` | `services/llm_usage.py`; extends `LlmClient` | the meter, the requests the provider has charged | MeteredAnswer, LostAnswer, UnpaidStep |
| `KnowledgeBase` | `kb/service.py`, `kb/indexing.py`, `api/kb.py`, `scripts/index_kb.py`, `scripts/seed_kb.py` | the versions of a document, their embeddings, the current one; requests, tasks and a script under way | Create, Load, Save, KeepVersion, Delete, Enqueue, StartTask, LockDocument, Activate, LoseTask; Reindex, SelectAfterReset, SelectAtOnce, SaveBatch, BreakScript; Seed |
| `EscalationClaimsProofs`, `OperatorQueueProofs`, `OutboxDeliveryProofs`, `AgentPassProofs`, `LlmClientProofs`, `KnowledgeBaseProofs`, `TicketLifecycleProofs`, `RetentionAndFeedProofs` | | | theorems and their proofs |
| `MCEscalationClaims`, `MCTicketLifecycle`, `MCTicketRetention`, `MCConsoleFeed` | | | the value of `TicketOf` for TLC |
| `MCOperatorQueue` | | | that and `Seniority`; where the instance starts, and which escalation is raised |
| `MCKnowledgeBase` | | | the symmetry of requests |

How the code became actions:

* A transaction that holds its row locks from its first statement to COMMIT is one
  step: `claim` (one conditional UPDATE), `resolve`, `release_expired`, the timeout.
  The first three read the escalation's ticket without a lock of its own. Whoever else
  writes that ticket for the same escalation waits for the escalation's lock; a request
  on a second escalation of the ticket could come in between, and that is below the
  model's grain.
* `release` is three steps. `ReleaseRead` is the unlocked read and the checks.
  `ReleaseFlush` is `_return_to_queue`: `session.get(Ticket)` first flushes the
  escalation's UPDATE, which waits for the row lock and takes it, and then reads the
  ticket, in its state after the flush. `ReleaseCommit` makes both writes visible and
  gives up the lock; `claim` and `resolve` wait for it and the sweep skips the row.
* A handler that reads without a lock and writes later is two steps, with what it
  read kept in `releasing`, `thread` or `consuming` in between, and an abort that
  forgets it. `request_human`'s two reads are taken together.
  `add_client_message` has a few statements between its read and its commit and is
  one step.
* `Stored(read, set, now)` is the flush: equal to the value read, a column keeps
  what it holds now.
* One poller cycle is one transaction with a broker round trip per row, so the
  SELECT, every publication and the COMMIT are steps of their own; a crash between
  any two rolls the rows back and leaves the copies in the broker.
* `locked_until` is `left`, its distance from now in ticks, down to -1 ("expired"):
  `Tick` moves every lease at once. The clarification timeout and the window after
  an automatic answer may run out at any moment.
* `OperatorQueue` follows one listing. `ListPage` is one SELECT and the cursor made of
  its last row; nothing is locked between two pages, so every action of the desk and
  `RaisePriority` come in between. `Seniority` is the place of a row by
  (`created_at`, `id`), which never changes. A raised priority may come at any moment:
  `request_human` read the escalation as open some time before its COMMIT.
* `TicketRetention` tells what a step writes from how it changes the life cycle's
  variables (`Written`); `texts` says per ticket which tables hold something personal.
  A ticket may pass its retention period at any moment, and a batch is any set of
  tickets the query may take under LIMIT and SKIP LOCKED.
* In `ConsoleFeed` a broadcast is one step, as the hub awaits one send after the other
  over a copy of its sockets and drops one that fails. The console's read of the queue
  is one step with what triggers it. `LoseHint` is every way a hint can be lost.
* In `OutboxDelivery` the consumer's commit, its hint and its ack are three steps, with
  a crash possible between them.
* `AgentPass` has the LLM classifier, the cross-check and the baseline alone; the
  baseline's verdict is computed from the weights of the markers it found.
* `Retrieval` numbers the chunks by their distance, so that the vector branch is the
  numbers in their order, and takes any sequence of them for what the text search
  finds. The fusion's scores are counted in parts (`RRF_UNIT`) that make each
  1 / (RRF_K + rank) a whole number; ids, which break the last ties, are any order.
  `evidence` is a history variable: the best of the chunks that the generator reads,
  one for the template and MAX_CONTEXT_CHUNKS for the LLM's prompt.
* The outcome of a pass in `TicketLifecycle` is any action `Decide` gives for some
  measurements in that iteration (`Verdicts`); `AgentPass` shows which measurements
  lead where.
* `LlmClient` is one call, started in any state the process may have left the client
  in. The process's other calls appear where they meet it, at the token's lock: one of
  them may hold it while it fetches, for a request timeout at most (`OthersFetch`,
  which counts from when somebody waits). "k_sampling" is `auto` with logprobs known
  to be missing.
  The call's locals (`limit`, `held`, `refreshed`, `tries`) are reset when the attempt or
  the loop they belong to ends. Time is discrete and `Tick` moves it only when every
  worker waits for a request, a pause or the token's lock; httpx is external, and the
  timeout it is given bounds the whole request. (httpx applies it to connecting,
  sending, receiving and the pool separately, so the real bound is weaker; the
  deadline properties are about the client's own arithmetic.)
* `LlmUsage` puts the provider's bill beside the meter. The provider is external: it
  charges a request that it has answered, and not one that it refuses. An answer that
  arrives as JSON is metered (`MeteredAnswer`); one that comes after the read timeout,
  or over a connection that breaks, or is no JSON, is charged and not metered
  (`LostAnswer`); a request it refuses or never gets is neither (`UnpaidStep`).
* `KnowledgeBase` is one document, since nothing but the script looks at several. Each
  request has one editor and does one thing; a request's commit, its second read of
  the latest version and the steps of its task are separate. Row locks appear where
  they decide the outcome: from the read of the current version to the commit. The
  script takes the document's versions as one batch.
* Confidences are whole steps of 0.0 .. 1.0; texts, audit rows, logs, metrics and
  error bodies are left out. A request that the code refuses is no step.

Definitions commented "Faulty" are no part of the specifications: each is a
plausible slip in the definition below it, and each property has one that breaks it.

## 3. Runs

| run | module, cfg | states | shows |
|---|---|---|---|
| `agent_pass` | `AgentPass` | 14 282 | `PolicyFollowed`: the ordered table amounts to the policy of the design document and never falls through. `AnswerIsEvidenced`: an automatic answer rests on an undisputed FAQ label and two confidences at their thresholds, with each of the three classifiers. `AnswerIsGrounded`: the generator of that answer has read a document at the threshold, unless the fusion put it behind more chunks than it reads. `OutageKeepsReason`: an LLM failure never hides the engine's reason. `PassIsSettled`: every pass ends with exactly one outcome. |
| `claims` | `MCOperatorQueue`, `OperatorQueue.cfg` | 204 353 | `LockedIffInProgress`, `AnswerIsClaimants`, `TicketFollowsSoleEscalation` hold through stale releases, whatever commits between their read, flush and commit. `ImplementsDesk`: exclusive live claims, one answer. `ExpiredClaimReturned`: an expired claim does not stay. `NothingShownTwice`, `ListingMissesNothing`: a listing neither repeats an escalation nor passes over one that stayed free, an expired claim included. |
| `outbox` | `OutboxDelivery` | 151 945 | `PublishedIsSafe`: a published event is handled or still with the broker. `EffectOnce`: its effect counts once. `HintedOnceHandled`: the consoles hear of it at most once, after its commit. `PublishedNotResent`: a marked row is not sent again. `ImplementsHandling`: every recorded event is settled. |
| `lifecycle` | `MCConsoleFeed`, `ConsoleFeed.cfg` | 1 177 540 | `AgentSpeaksInTurn`: at most MAX_CLARIFICATIONS questions and one automatic answer, whatever runs concurrently. `SilenceEnds`: a ticket does not wait for a clarification for ever. `FeedHasNoGap`: a greeted console has read the queue since every broadcast it did not get. |
| `lifecycle_desk` | `MCTicketRetention`, `TicketRetention.cfg` | 1 082 796 | `RequestReachesDesk`: an accepted request for a human leaves an open escalation, or an operator has answered one since it came in. `KeptUntilAnswered`: the client's words stay until some answer has gone out. `ClosedIsScrubbed`: an old closed ticket is scrubbed or opened again. |
| `llm` | `LlmUsage` | 760 809 | `DeadlineKept`: without OAuth no retry, pause or sample goes on past the deadline. `ConfidenceIsEarned`: a failed or unreadable sample lowers the confidence. `RevocationSurvived`: a token revoked before the call does not fail it. `MeterMissesRetriesOnly`: charged and not metered is at most one request per attempt, for each thread, and never the one whose answer is used. `CallEnds`: no thread waits for ever for a pause or for the token's lock, other calls' fetches included. |
| `knowledge_base` | `MCKnowledgeBase`, `KnowledgeBase.cfg` | 718 323 | `CurrentMovesForward`: tasks ending in any order never bring an older version back. `VersionsAreKept`: no version is replaced by another, `seed_kb`'s included. `ServedStaysIndexed`: no crossing of edits and indexing takes the answering version out of the search, which is made of embeddings of the application's model. `QuietIsCurrent`: an edit that is not current once everything has ended was lost by its own task. |

Five runs find a statement of the repository violated by what the code does:

* `claims_release_reopens` (`ResolvedByOperatorIsFinal`): `release` checks an
  unlocked read, and a `resolve` that commits before its flush is undone on the
  escalation. Its ticket, read after the flush, is left `resolved_by_operator`; the
  escalation is back in the queue, and the next claim takes the ticket out of the state
  that the design document's diagram calls the last.
* `outbox_outage` (`RecordedIsDelivered`): an event is tried MAX_ATTEMPTS times, one
  per cycle, and then never selected again; an outage of ten cycles leaves the
  oldest event behind, against README.md:273-274.
* `lifecycle_human_request` (`HumanRequestWins`): a pass that began before the client
  asked for a human overwrites the request's status with an automatic answer,
  against R1 of the decision table.
* `lifecycle_roll_back` (`QueueNeverRollsBack`): the consumer's unlocked read lets it
  put a claimed ticket back in the queue, against its own comment.
* `llm_deadline` (`DeadlineLimitsAll`): with GigaChat the token's request and the chat
  request are each granted the whole rest of the deadline, and a 401 doubles both, so
  a call outlives the deadline that is said to limit everything together; the wait for
  the token's lock comes on top.

Observations without a run of their own:

* `QuietIsCurrent` excepts a version whose task was lost for ever, because `index_kb`
  computes its embedding but moves no `current_version_id`; the comment at
  `kb/indexing.py:62-63` refers to that script for a repetition.
* A console does not poll while its socket is live (`pages/Queue.tsx:26-30`), so a hint
  that is lost on its way leaves an escalation unseen until the next one; `api/ws.py:5-6`
  and `ws_bridge.py:10-12` say that a lost hint breaks nothing.
* When the graph raises, the meter's snapshot is not stored (`graph.py:190-206`),
  although `openai_compatible.py:71` records a charged call before it refuses its answer.
* A request that times out, or whose connection breaks, after the provider has answered
  is charged, sent again and not metered (`base.py:377-380`), while
  `docs/runbook.md:145-146` reads the repetitions off `llm_usage`. `MeterMissesRetriesOnly`
  says how much the meter can miss.
* Retention looks at the ticket's status and age alone (`retention.py:57-64`). A ticket
  that a stale pass has closed over a request for a human, or the answer to one of two
  escalations has, is scrubbed while an escalation of it is open, although an operator
  who works with a ticket must see the client's words (`retention.py:17-18`). Nothing
  resets `scrubbed_at` (`retention.py:62`), so what is then written to the ticket stays
  beyond the period of `retention.py:1`. `KeptUntilAnswered` promises only that some
  answer has gone out before the words go.
* `index_kb` selects the versions without an embedding once and saves its vectors later
  (`index_kb.py:79-96`): one that a task has indexed meanwhile is overwritten, although
  the script says that it handles only missing ones (`:15-16`). With another model the
  version that answers clients leaves the search, which compares vectors of the
  application's model only (`retrieval.py:129-133`); `ServedStaysIndexed` excepts it.
* In hybrid mode `rag_confidence` is the highest relevance among all fused chunks
  (`rag_top_k`, 5 by default), while the LLM's prompt holds the first MAX_CONTEXT_CHUNKS
  (3) of them and the template quotes one (`generation.py:52`, `:76`). "One document that
  fits is enough for an answer" (`retrieval.py:4-6`), but the generator may not have read
  that document; `AnswerIsGrounded` excepts the case.

### Bounds

* `claims`: two operators and two escalations on two tickets, Ttl = 0, PageSize = 1.
  Every conflict of the desk is between two operators, or one and the sweep, on one
  escalation; the second escalation lets one operator have a release in flight on one
  while claiming the other, and makes the sweep a set. Ttl = 0 has the two instants that
  the comparisons with `locked_until` tell apart, the last one of a claim and after it;
  the final-state run has Ttl = 1 and one escalation, which it does not need more of. A
  page of one row is full, so the desk, the sweep and a raised priority can come
  between it and the next. Both escalations are `pending` with standard priority, one
  ticket is `pending_operator` and one `escalated_standard`, and only the younger
  escalation is raised: it then overtakes the other. No draft: `lifecycle_desk` has one.
  What the instance leaves out is proved.
* `outbox`: two events, two pollers, BatchSize = 1 (the pollers hold different rows
  at once), one consumer with PREFETCH = 2 (a duplicate next to its original),
  MaxFaults = 2: a duplicate and a crash, or a crash at each end.
  MaxFaults < MAX_ATTEMPTS = 3 on purpose: with as many faults as attempts an event
  is abandoned, and that is what `outbox_outage` shows (one event, MAX_ATTEMPTS = 2
  instead of 10, MaxFaults = 3). `ImplementsHandling` therefore says "as long as no
  event fails MAX_ATTEMPTS times".
* `agent_pass`: SCALE = 3 with both thresholds 2 and the dispute at 1 gives a value
  below, at and above each threshold; MAX_CLARIFICATIONS = 1 with iterations 0..2,
  one past the limit; MaxWeight = 2 lets one category's markers tie with, stay below
  and exceed another's, and a text have none. At most three chunks with TOP_K = 2 and
  CANDIDATES = 3: a candidate can be in one ranking or in both, be fused before the
  nearest one, and fall behind the top. MAX_CONTEXT_CHUNKS = 2 makes the fusion harmless
  for the LLM and not for the template, so both sides of the exception occur. RRF_K = 60
  is the code's. Distances are 0..SCALE + 1, the last one beyond 1.0.
* `lifecycle`: one ticket (tickets share nothing but the timeout's transaction),
  three threads (a pass, a second pass of the same iteration and a request), two
  messages and two requests, no operator, three escalations and one console (consoles
  share nothing but a broadcast, which treats each alike). A step that would need a
  fourth escalation is not taken: the ids of `Escalation` are the bound on
  `create_escalation`. `lifecycle_desk` has an operator, two threads and two
  escalations, no further messages and one request, and retention. All
  together have many millions of states; the questions they answer are separate.
  SCALE = 1 there: only the verdicts matter.
* `llm`: two samples, so that one fails while the other answers and that they queue
  for the token's lock; one label next to "none recognised"; one retry; DEADLINE = 2
  and REQUEST_TIMEOUT = 2, so that the first attempt has its whole timeout, a second
  only the rest, and a pause of 1 ends before, at or past the deadline; Retry-After 0,
  which wins over the pause; one revocation; MaxLent = 2, one fetch of another call for
  which the token's lock is lent out; MaxLost = 1, one charged answer lost
  in the call, on any worker.
  `llm_deadline` is without the meter and has DEADLINE = 3, RetryAfter = {0, 2}.
* `knowledge_base`: three requests (a creation and two edits of one version, or two
  edits in a row), three versions, two runs of `index_kb` with the application's
  model or another, any number of `seed_kb`.
  `Request` is a symmetry set; the run's properties are invariants and action
  properties, for which symmetry is sound.

Deadlock is not checked: a pass is over, a ticket is closed, an outbox is empty, and
the systems modelled really stop there.

### Fairness

* `EscalationClaims`, and with it `OperatorQueue`: weak fairness of `Tick`, since time
  passes. A release that holds a row lock ends, by COMMIT or by a lost connection.
  Strong fairness of the sweep for each escalation that it could take: it skips locked
  rows, but the scheduler is a loop that outlives database errors, and does not meet the
  row locked each time it comes. Operators owe nothing.
* `OutboxDelivery`: weak fairness of each poller's cycle, of each consumer's work and
  ack, of delivery, of the return of a dead connection's messages and of the
  broker's return: the workers are loops with back-off under a restart policy. No
  event must be recorded and no fault must happen; faults end after MaxFaults.
* `TicketLifecycle` and `ConsoleFeed`: weak fairness of `Timeout` alone. The agent,
  clients, operators and consoles owe nothing.
* `TicketRetention`: weak fairness of `Timeout` and `ScrubExpired`, two tasks of the
  scheduler's loop, which outlives a failed task.
* `AgentPass`: weak fairness of the pass: LLM calls end, as `CallEnds` shows.
* `LlmClient`: weak fairness of `Tick`, of `Finish` and of each worker: threads run, and
  httpx raises when a timeout is over. `OthersFetched` for the same reason: a fetch of
  another call ends too. No other call must begin one. The provider owes
  nothing: whether a request is answered, fails or lasts its whole timeout is free.
  `LlmUsage` states the same of the steps with what they charge.
* `KnowledgeBase`: none; it has no liveness property, since a task may be lost.

## 4. Proofs

TLAPS proves the following for every value of the constants that the named
assumptions allow (`ClaimsAssumption`; `QueueAssumption`; `DeliveryAssumption`;
`ThresholdsAssumption`, `RetrievalAssumption`, `CrossCheckAssumption`,
`ContextAssumption`, `NoneAssumption`; `LlmAssumption`;
`KbAssumption`; `LifecycleAssumption`). All of them are evaluated by TLC in the runs.

`EscalationClaimsProofs` (any sets of operators, escalations and tickets, any TTL):

* `TypeCorrect`: `[]ClaimsTypeOK`, inductive as it stands.
* `LockAndStatusAgree`, `AnsweredByClaimant`: `[]LockedIffInProgress` and
  `[]AnswerIsClaimants`. The second is not inductive alone: `Resolve` looks at
  `locked_by`, while the answer is compared with `operator_id`. The strengthening
  `HolderIsRecorded` says that the holder of a stored claim is `operator_id`; the
  three together (`RowsAgree`) are inductive.
* `TicketFollows`: `[]TicketFollowsSoleEscalation`. A release writes the ticket's status
  from what it has read of it, so the strengthening speaks of flushed releases:
  `LockIsExclusive` (one row lock, one holder) and `FlushedIsCurrent` (what a flushed
  release has read of a sole escalation's ticket still stands, since whoever writes that
  ticket waits for the lock). Then a release writes both rows, or it leaves the closed
  ticket of an escalation that was answered before the lock.
* `ResolutionStays`: what is true where `claims_release_reopens` finds that a resolution
  is not the end. An escalation that is resolved, with no release of it in flight, is
  never reopened (a release reads only what its operator holds), and a ticket with
  that escalation alone stays `resolved_by_operator`. Only a release that had read the
  escalation before the resolution can reopen it, and only then can a claim take the
  ticket out of its state.
* `DeskImplemented`: `ClaimsSpec => ImplementsDesk`. A live claim maps to the holder;
  a step of the code maps to Take, Answer, Drop or a stutter: a refresh of one's own
  claim stutters, an expiring claim is a Drop, and so is a stale release, which can
  take away a claim but never give one. After a resolution undone by a stale release
  the escalation is open but has its answer, and the unique key of operator_actions
  keeps it the only one.

`TicketLifecycleProofs` (any sets of tickets, escalations, operators and threads, any
numbers of messages and requests, any TTL and clarification limit, 0 included). The
lemmas speak of `LifeRuns`, the specification without its fairness, so that they hold
of every module that extends this one:

* `LifeTypeCorrect`, `AgentInTurn`: `[]LifecycleTypeOK` and `[]AgentSpeaksInTurn`, from
  the inductive invariant `Turns`. The counts of what the agent has sent say nothing of
  the passes in flight, whose reads may be stale; `classifications` does. `Turns` says
  that questions are as many as the iteration (`TurnsCounted`), that every iteration
  before the present one is classified (`PastIsClassified`), that no pass has read more
  than the present one (`ReadsNotAhead`), and that an automatic answer was the verdict of
  the present one (`AnswerIsLast`). So a pass that the unique key lets through has read
  the present iteration of a ticket without an answer (`UnjudgedIsCurrent`), and
  `ClarifyHasRoom`, from the decision table, says it asks only below the limit. The
  types need this too: without it `clarification_count` could pass the limit.
* `RequestsReachDesk`: `RequestReachesDesk`. What a request has read is true still at its
  commit, except for answers given since (`RequestsFollowed`): the open escalation it
  found is open, or has an answer it did not see. It rests on `EscalationsKept`: no step
  takes an answer back or closes an escalation without one; a stale release can only
  reopen.
* `ClosedMeansAnswered`: a closed ticket has had an automatic answer or an operator's
  (`ClosedIsAnswered`). By `ClosingAnswers` a status that closes a ticket is written
  with the answer or was there before; the flush of a stale status closes none.
* `AgentStaysOut`: what is true where `lifecycle_human_request` finds that a request for
  a human does not always win. Once a ticket does not wait for a clarification and no
  pass of it is under way, the agent never asks or answers there again, however stale
  the statuses that others write: only a pass makes a ticket wait, and only a waiting
  ticket gets another pass. Only a pass that had begun before can speak.
* `NoTicketWithoutEscalation`: a ticket that is escalated, queued or in progress has an
  escalation (`EscalationBehind`). A request or the consumer may set such a status from
  what it read, so `KnownEscalations` says the ticket it took for escalated has one.
* `LockAndStatusAgreeInLife`, `AnsweredByClaimantInLife`, `DeskImplementedInLife`: what is
  proved of the desk alone, of the whole system. `HandlersOnlyAdd` says that whatever
  anybody else does to the rows of escalations is an insertion of pending ones, which the
  abstract desk does not see.

`RetentionAndFeedProofs` (any number of consoles in addition; `TicketRetention` and
`ConsoleFeed` side by side, each with its own specification):

* `RetentionTypeCorrect`, `WordsKept`: `[]RetentionTypeOK` and
  `[]KeptUntilAnswered`. The second needs `ClosedIsAnswered`
  of the life cycle: a sweep takes closed tickets, and those have been answered.
* `RequestsReachDeskWithRetention`: `RequestReachesDesk` of the specification its run
  checks. `RetentionRuns` says that its behaviours are `LifeRuns`; that they have the
  fairness of `LifecycleSpec` too needs ENABLED.
* `FeedLives`: `FeedSpec => LifecycleSpec`, fairness included, so all that is proved of
  `LifecycleSpec` holds with consoles at work. With it `FeedTypeCorrect` and `NoGap`
  (`[]FeedTypeOK`, `[]FeedHasNoGap`), which is inductive with the types: the hello clears
  what a console had missed, and from then on a broadcast finds it in the hub.

`OperatorQueueProofs` (any finite set of escalations, any page size, any two
priorities):

* `DeskUndisturbed`: `QueueSpec => ClaimsSpec`, fairness included: for the desk a page
  and a raised priority are stutters, so all of the above holds beside a reader.
* `QueueTypeCorrect`, `NothingTwice`: `[]QueueTypeOK` and `[]NothingShownTwice`. A page
  ends at its last row, whose key is the next cursor, and a cursor only moves on;
  priorities only rise, so no row shown comes after the cursor again.
* `NothingMissed`: `[]ListingMissesNothing`. `WaitingIsAhead` is inductive: what the
  listing still owes is free and after the cursor. `ShortIsWhole` says that a fetch of
  fewer rows than its limit holds all that was selected, which needs a first row that
  is missing: the order of the rows is well-founded.

`OutboxDeliveryProofs` (any events, any numbers of pollers, consumers and faults, any
batch size and prefetch). `DeliveryInv` is inductive:

* `RowsHeld`: a row in a poller's hands is pending, has attempts left and is held by it
  alone. `NeverResent` and the attempts of `DeliveryTypeCorrect` follow.
* `AckingIsHandled`, `HintIsNew`: what a consumer is about to ack is in the inbox and
  its copy not yet returned; a hint it owes has been given by nobody and is owed by it
  alone. With them `EffectIsOnce` and `HintIsOnce`.
* `ConfirmedIsSafe`: what a poller has seen confirmed, marked or not yet, is in the
  inbox or with the broker. With it `PublishedStaysSafe`, through every crash.
* `RecordedFirst`: an event without a row has no copy and no effect. With it
  `StepsHandle`: every step is a Record, Handle or Park of `EventHandling`, or a
  stutter, the part of `ImplementsHandling` that is no liveness.

`AgentPassProofs` (any scale, thresholds, clarification limit, knowledge base and
numbers of chunks):

* `DecisionFollowsPolicy`: for every input, `Decide` satisfies `Policy` and some row
  matches: proved by cases on the category over the eleven rows.
* `PassTypeCorrect`, `PassFollowsPolicy`, `AutoAnswerIsEvidenced`,
  `OutageHidesNothing`: from the inductive invariant `PassInv`, which says at every
  node which measurements exist (`Progress`), that a decision is `Decide` of them
  (`Judged`), and that a classification the baseline disputes has a confidence no
  higher than the dispute's (`DisputeIsWeak`).
  `AutoAnswerIsEvidenced` is where `CrossCheckAssumption`, the factory's check that
  the threshold lies above the dispute, is used.
* `AutoAnswerIsGrounded`: `RetrievedFits` says of every search that the generator's
  best chunk is the best of all, if it reads all of them or their order is that of
  the distances; `Grounded` carries that to the answer.

`LlmClientProofs` (any samples, labels, retries, deadline and pauses):

* `LlmTypeCorrect`: `LlmTypeOK` needs `RetryLeft` (a pausing worker has an attempt left),
  or `Resume` could count past MAX_RETRIES.
* `DeadlineHolds`: `InTime` says that every wait of a client without OAuth ends by the
  deadline: an attempt is granted at most the rest (`TimeoutFits`), and a pause that
  would reach the deadline is not begun. `Tick` never passes the end of a wait.
* `RevocationHolds`: `DemandedIsNew` says that a dead token in a repeated request was
  revoked during the call, because a demanded token is fetched anew.
* `ConfidenceHolds`: `TallyIsTrue` says that the result's votes are those of the
  settled samples over all k, and the workers' answers no longer change then.
* `OverrunBounded`: what is true of a client with OAuth, where `llm_deadline` finds the
  deadline missed: until it begins to sample, a call is never later than DEADLINE +
  3 * REQUEST_TIMEOUT + `lent`, the timeouts of the fetches for which other calls have
  held the token's lock. `LeadEnds` says when the attempt under way ends at the latest:
  it is granted at most the rest of the deadline, and spends that up to four times
  (token, request, demanded token, request again), besides what is lent while it waits.
  With nothing lent, TLC reaches the bound on the instance of the `llm_deadline` run. Parallel
  samples may wait for each other's tokens as well, and a bound for them is a sum over
  the samples, which needs induction.
* `MeterMissesFew`: `UsageSpec => []MeterMissesRetriesOnly`. `MissesAttempts` is inductive:
  what a worker's meter misses is at most the attempts it has ended without an answer
  (`Missable`), and every request that is repeated under a renewed token was refused and
  so not charged. The samples count because each runs in a copy of the ticket's context.
* `CallSafeWithMeter`: the client's four invariants of `UsageSpec`, a specification of
  the same call.

`KnowledgeBaseProofs` (any requests, versions, models and runs of the script):

* `KbTypeCorrect`: `[]KbTypeOK`. `KbTypes` adds what each stage of a request knows: an
  edit has room for its version, a saved request's version exists, a task has one to
  index.
* `LockHolds`, `ForwardHolds`: `OneActivates` says that a task past its locked read holds
  the document, alone, and that what it found is still current; the comparison under
  the lock is then a comparison with the current version.
* `VersionsHold`: by `FreeNumber`, a free number is the one after the latest.
* `QuietHolds`: `LatestInHand` says that a latest version that is neither current nor
  lost is in the hands of a request that has saved it or a task that indexes it.
* `ServedHolds`: `ServedCovered` says that the current version, and one a task found
  indexed and is about to activate, has an embedding or is on its way to one: the
  script will compute it, or was cut short. `OneModel` says that it is the application's,
  as long as no run of the script has saved another's. `[]ServedStaysIndexed` excepts what
  does take the version out of the search: `index_kb` at work, cut short or of another
  model, and `seed_kb` until `index_kb` follows.

Every invariant and every action property of the passing runs is thus proved for all
values of the constants. Only model-checked: liveness (`ExpiredClaimReturned`, the
eventual settling in `ImplementsHandling`, `SilenceEnds`, `ClosedIsScrubbed`,
`PassIsSettled`, `CallEnds`), the five violations, and that `UsageSpec` and
`RetentionSpec` have the fairness of the specifications they extend: liveness and
ENABLED are out of TLAPS's reach with this backend set.

## 5. Plan

Done, in this order: desk, delivery, agent, lifecycle, LLM client, knowledge base; then
the queue, retention, the consoles' feed, the usage meter, the baseline classifier,
`seed_kb`, the search and its fusion; the proofs of the desk, the queue, delivery, the
pass, the client and the knowledge base; then those of the life of tickets, of
retention, of the feed and of the meter.

Left:

1. What is true where `lifecycle_roll_back` finds `QueueNeverRollsBack` violated: which
   reads of the consumer in flight can break it, and that no other can, as was done for
   four others (`ResolutionStays`, `AgentStaysOut`, `OverrunBounded`, `MeterMissesFew`).
2. `Retrieval`: how far the fusion can hide the nearest chunk, for any number of chunks.

## 6. Not modelled

Left out for good: signatures and tokens of the API, and PII masking (functions of
texts); embeddings and the text search's own order (free choices in `Retrieval`);
metrics, tracing, logging and configuration (no influence on a ticket);
the console's pages other than its feed; the evaluation sets, migrations and the other
scripts (clients and tools); read-only endpoints. Of the publisher, message priorities
and keepalive. Of `core/singleton.py`, a creation under a lock, nothing depends on.

Below the grain of the model: the connection pool, and the order in which one
transaction takes its row locks. `scrub_expired` locks a ticket before its escalations,
`claim` and `resolve` an escalation before its ticket, so Postgres may abort one of
them; a transaction that it aborts is an abort action or no step.
