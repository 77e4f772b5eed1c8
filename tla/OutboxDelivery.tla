--------------------------- MODULE OutboxDelivery ---------------------------
(***************************************************************************)
(* The road of an escalation.created event: the outbox row written in the  *)
(* escalation's transaction, the poller that publishes it, the RabbitMQ    *)
(* queue with redelivery and a dead-letter queue, and the consumer with    *)
(* its inbox (app/messaging/outbox.py, publisher.py, topology.py,          *)
(* app/workers/outbox_poller.py, escalation_consumer.py and                *)
(* app/escalations/consumer.py).                                           *)
(*                                                                         *)
(* One poller cycle is one transaction: its rows stay locked from SELECT   *)
(* ... FOR UPDATE SKIP LOCKED to COMMIT, with a broker round trip per row  *)
(* in between, so selection, each publication and the commit are separate  *)
(* steps.  The consumer's transaction waits on nobody but a transaction    *)
(* with the same idempotency key, so it is one step; the ack that follows  *)
(* the commit is another.  What the consumer does to the ticket is in      *)
(* TicketLifecycle; here it counts as one effect.                          *)
(*                                                                         *)
(* Faults (crashes, lost connections, refused publications, failed         *)
(* transactions) are limited to MaxFaults in a behaviour, which bounds     *)
(* everything else.                                                        *)
(*                                                                         *)
(* A definition commented "Faulty" is a plausible slip in the definition   *)
(* that follows it; the properties are checked to notice it.               *)
(***************************************************************************)
EXTENDS Integers, FiniteSets, Functions

CONSTANTS
  Event, Poller, Consumer, NULL,
  MAX_ATTEMPTS,   \* outbox.py: 10
  BatchSize,      \* outbox.py: DEFAULT_BATCH_SIZE, 50
  PREFETCH,       \* escalation_consumer.py: 10
  MaxFaults

ASSUME DeliveryAssumption ==
  /\ IsFiniteSet(Event) /\ NULL \notin Event
  /\ MAX_ATTEMPTS \in Nat \ {0}
  /\ BatchSize \in Nat \ {0}
  /\ PREFETCH \in Nat \ {0}
  /\ MaxFaults \in Nat

VARIABLES
  outbox,     \* outbox_events: "absent", "pending" or "published"
  attempts,   \* outbox_events.attempts
  born,       \* rank of outbox_events.created_at, 0 before the INSERT
  rows,       \* per poller, the rows its transaction has locked
  sent,       \* per poller, the rows the broker has confirmed
  failed,     \* per poller, the row whose publication raised, as a set
  brokerUp,
  ready,      \* copies waiting in escalations.created
  unacked,    \* per consumer, copies delivered and not acknowledged
  dead,       \* copies in escalations.dead
  accepted,   \* history: copies the broker has ever taken
  inbox,      \* consumed_events
  effects,    \* history: how often the event's effect was committed
  acking,     \* per consumer, the event committed and not yet acked, or NULL
  hinting,    \* the consumers that have a console hint to publish first
  hinted,     \* history: console hints published, per event
  faults      \* faults so far

outboxVars == <<outbox, attempts, born>>
pollerVars == <<rows, sent, failed>>
queueVars == <<brokerUp, ready, unacked, dead>>
inboxVars == <<inbox, effects>>
hintVars == <<hinting, hinted>>
ackVars == <<acking, hinting, hinted>>
deliveryVars ==
  <<outbox, attempts, born, rows, sent, failed, brokerUp, ready, unacked, dead,
    accepted, inbox, effects, acking, hinting, hinted, faults>>

DeliveryTypeOK ==
  /\ outbox \in [Event -> {"absent", "pending", "published"}]
  /\ attempts \in [Event -> 0..MAX_ATTEMPTS]
  /\ born \in [Event -> Nat]
  /\ rows \in [Poller -> SUBSET Event]
  /\ sent \in [Poller -> SUBSET Event]
  /\ failed \in [Poller -> SUBSET Event]
  /\ brokerUp \in BOOLEAN
  /\ ready \in [Event -> Nat]
  /\ unacked \in [Consumer -> [Event -> Nat]]
  /\ dead \in [Event -> Nat]
  /\ accepted \in [Event -> Nat]
  /\ inbox \subseteq Event
  /\ effects \in [Event -> Nat]
  /\ acking \in [Consumer -> Event \cup {NULL}]
  /\ hinting \subseteq Consumer
  /\ hinted \in [Event -> Nat]
  /\ faults \in 0..MaxFaults

NoCopies == [e \in Event |-> 0]

DeliveryInit ==
  /\ outbox = [e \in Event |-> "absent"]
  /\ attempts = NoCopies
  /\ born = NoCopies
  /\ rows = [p \in Poller |-> {}]
  /\ sent = [p \in Poller |-> {}]
  /\ failed = [p \in Poller |-> {}]
  /\ brokerUp = TRUE
  /\ ready = NoCopies
  /\ unacked = [c \in Consumer |-> NoCopies]
  /\ dead = NoCopies
  /\ accepted = NoCopies
  /\ inbox = {}
  /\ effects = NoCopies
  /\ acking = [c \in Consumer |-> NULL]
  /\ hinting = {}
  /\ hinted = NoCopies
  /\ faults = 0

Fault == faults < MaxFaults /\ faults' = faults + 1
-----------------------------------------------------------------------------
(* The outbox and its pollers.                                             *)

\* create_escalation: the row commits with its escalation and is the newest.
RecordEvent(e) ==
  /\ outbox[e] = "absent"
  /\ outbox' = [outbox EXCEPT ![e] = "pending"]
  /\ born' = [born EXCEPT ![e] = Cardinality({f \in Event : outbox[f] # "absent"}) + 1]
  /\ UNCHANGED <<attempts, pollerVars, queueVars, accepted, inboxVars, ackVars, faults>>

Locked(e) == \E p \in Poller : e \in rows[p]

\* Faulty: FOR UPDATE SKIP LOCKED left out.
SelectableUnlocked(e) == outbox[e] = "pending" /\ attempts[e] < MAX_ATTEMPTS

\* The rows a cycle may take.
Selectable(e) == outbox[e] = "pending" /\ attempts[e] < MAX_ATTEMPTS /\ ~Locked(e)

\* ORDER BY created_at LIMIT BatchSize.
IsBatch(S, from) ==
  /\ S \subseteq from
  /\ \A e \in S, f \in from \ S : born[e] < born[f]
  /\ IF Cardinality(from) <= BatchSize THEN S = from ELSE Cardinality(S) = BatchSize

\* publish_pending, the SELECT.
PollSelect(p) ==
  /\ rows[p] = {}
  /\ LET from == {e \in Event : Selectable(e)}
     IN \E S \in SUBSET from \ {{}} :
          /\ IsBatch(S, from)
          /\ rows' = [rows EXCEPT ![p] = S]
  /\ UNCHANGED <<outboxVars, sent, failed, queueVars, accepted, inboxVars, ackVars, faults>>

\* The row the loop over the batch is at.
Turn(p, e) ==
  /\ failed[p] = {}
  /\ e \in rows[p] \ sent[p]
  /\ \A f \in rows[p] \ sent[p] : born[e] <= born[f]

\* The broker takes n more copies of e.
Accept(e, n) ==
  /\ accepted' = [accepted EXCEPT ![e] = @ + n]
  /\ ready' = [ready EXCEPT ![e] = @ + n]

\* PikaPublisher.publish returns: confirmed on the first try, or on the second
\* after a first whose copy the broker may have kept.
PublishConfirmed(p, e) ==
  /\ Turn(p, e)
  /\ brokerUp
  /\ \/ Accept(e, 1) /\ UNCHANGED faults
     \/ Accept(e, 2) /\ Fault
  /\ sent' = [sent EXCEPT ![p] = @ \cup {e}]
  /\ UNCHANGED <<outboxVars, rows, failed, brokerUp, unacked, dead, inboxVars, ackVars>>

\* publish raises: the broker is away, or it answered neither try, and may
\* have kept what it did not confirm.  The loop stops at the first failure.
PublishRaised(p, e) ==
  /\ Turn(p, e)
  /\ Fault
  /\ \E n \in IF brokerUp THEN 0..2 ELSE {0} : Accept(e, n)
  /\ failed' = [failed EXCEPT ![p] = {e}]
  /\ UNCHANGED <<outboxVars, rows, sent, brokerUp, unacked, dead, inboxVars, ackVars>>

\* Faulty: the row that failed is marked as published with the others.
MarkedWithFailed(p) == sent[p] \cup failed[p]

\* The rows a cycle marks as published.
Marked(p) == sent[p]

\* publish_pending, the COMMIT.
PollCommit(p) ==
  /\ rows[p] # {}
  /\ failed[p] # {} \/ sent[p] = rows[p]
  /\ outbox' = [e \in Event |-> IF e \in Marked(p) THEN "published" ELSE outbox[e]]
  /\ attempts' = [e \in Event |->
                    IF e \in sent[p] \cup failed[p] THEN attempts[e] + 1 ELSE attempts[e]]
  /\ rows' = [rows EXCEPT ![p] = {}]
  /\ sent' = [sent EXCEPT ![p] = {}]
  /\ failed' = [failed EXCEPT ![p] = {}]
  /\ UNCHANGED <<born, queueVars, accepted, inboxVars, ackVars, faults>>

\* The poller or its database connection dies before COMMIT: rollback.
PollerCrash(p) ==
  /\ rows[p] # {}
  /\ Fault
  /\ rows' = [rows EXCEPT ![p] = {}]
  /\ sent' = [sent EXCEPT ![p] = {}]
  /\ failed' = [failed EXCEPT ![p] = {}]
  /\ UNCHANGED <<outboxVars, queueVars, accepted, inboxVars, ackVars>>
-----------------------------------------------------------------------------
(* The broker and its consumers.                                           *)

\* Prefetch counts the copies a consumer holds.
Holding(c) == SumFunction(unacked[c])

Deliver(c, e) ==
  /\ brokerUp
  /\ ready[e] > 0
  /\ Holding(c) < PREFETCH
  /\ ready' = [ready EXCEPT ![e] = @ - 1]
  /\ unacked' = [unacked EXCEPT ![c][e] = @ + 1]
  /\ UNCHANGED <<outboxVars, pollerVars, brokerUp, dead, accepted, inboxVars, ackVars, faults>>

\* Faulty: a message that is about to be acknowledged is taken up once more.
WorkingTwice(c, e) == unacked[c][e] > 0

\* A consumer works on one message at a time.
Working(c, e) == acking[c] = NULL /\ unacked[c][e] > 0

\* Faulty: deduplication by a key that is new on every delivery.
ApplyAlways(e) ==
  /\ inbox' = inbox \cup {e}
  /\ effects' = [effects EXCEPT ![e] = @ + 1]

\* handle_escalation_created, committed: the inbox row and the effect together,
\* or nothing when the row was there already.
ApplyOnce(e) ==
  /\ inbox' = inbox \cup {e}
  /\ effects' = [effects EXCEPT ![e] = IF e \in inbox THEN @ ELSE @ + 1]

\* Faulty: every delivery is announced.
HintsOnAny(e) == TRUE

\* The consoles hear of an event that was processed, not of a duplicate.
HintsOn(e) == e \notin inbox

\* on_message up to the commit.
HandleMessage(c, e) ==
  /\ Working(c, e)
  /\ ApplyOnce(e)
  /\ acking' = [acking EXCEPT ![c] = e]
  /\ hinting' = IF HintsOn(e) THEN hinting \cup {c} ELSE hinting
  /\ UNCHANGED <<outboxVars, pollerVars, queueVars, accepted, hinted, faults>>

\* on_message, basic_publish to the consoles' exchange: neither confirmed nor
\* repeated.
PublishHint(c) ==
  /\ brokerUp
  /\ c \in hinting
  /\ hinted' = [hinted EXCEPT ![acking[c]] = @ + 1]
  /\ hinting' = hinting \ {c}
  /\ UNCHANGED <<outboxVars, pollerVars, queueVars, accepted, inboxVars, acking, faults>>

\* on_message, basic_ack.
Ack(c) ==
  /\ brokerUp
  /\ acking[c] # NULL
  /\ c \notin hinting
  /\ unacked' = [unacked EXCEPT ![c][acking[c]] = @ - 1]
  /\ acking' = [acking EXCEPT ![c] = NULL]
  /\ UNCHANGED <<outboxVars, pollerVars, brokerUp, ready, dead, accepted, inboxVars, hintVars,
                 faults>>

\* OperationalError: nack with requeue.  The error can reach the consumer after
\* Postgres has committed, so the transaction may have taken effect.
HandleTransient(c, e) ==
  /\ brokerUp
  /\ Working(c, e)
  /\ Fault
  /\ ApplyOnce(e) \/ UNCHANGED inboxVars
  /\ unacked' = [unacked EXCEPT ![c][e] = @ - 1]
  /\ ready' = [ready EXCEPT ![e] = @ + 1]
  /\ UNCHANGED <<outboxVars, pollerVars, brokerUp, dead, accepted, ackVars>>

\* Faulty: a message that cannot be handled is acknowledged away.
DeadLetterDropped(e) == UNCHANGED dead

\* nack without requeue: the queue's dead-letter exchange keeps the copy.
DeadLetter(e) == dead' = [dead EXCEPT ![e] = @ + 1]

\* Any other exception, before the commit: to the dead-letter queue.
HandleUnexpected(c, e) ==
  /\ brokerUp
  /\ Working(c, e)
  /\ Fault
  /\ unacked' = [unacked EXCEPT ![c][e] = @ - 1]
  /\ DeadLetter(e)
  /\ UNCHANGED <<outboxVars, pollerVars, brokerUp, ready, accepted, inboxVars, ackVars>>

\* A consumer loses its connection, for a reason of its own or because the
\* broker went away: the broker puts back what it had not acknowledged.  An
\* effect it has committed stays.
ConsumerLost(c) ==
  /\ Holding(c) > 0
  /\ IF brokerUp THEN Fault ELSE UNCHANGED faults
  /\ ready' = [e \in Event |-> ready[e] + unacked[c][e]]
  /\ unacked' = [unacked EXCEPT ![c] = NoCopies]
  /\ acking' = [acking EXCEPT ![c] = NULL]
  /\ hinting' = hinting \ {c}
  /\ UNCHANGED <<outboxVars, pollerVars, brokerUp, dead, accepted, inboxVars, hinted>>

\* The broker goes away and, when every connection of before is gone, comes
\* back: its queues are durable and the messages persistent.
BrokerDown ==
  /\ brokerUp
  /\ Fault
  /\ brokerUp' = FALSE
  /\ UNCHANGED <<outboxVars, pollerVars, ready, unacked, dead, accepted, inboxVars, ackVars>>

BrokerBack ==
  /\ ~brokerUp
  /\ \A c \in Consumer : Holding(c) = 0
  /\ brokerUp' = TRUE
  /\ UNCHANGED <<outboxVars, pollerVars, ready, unacked, dead, accepted, inboxVars, ackVars, faults>>
-----------------------------------------------------------------------------
PollerStep(p) ==
  \/ PollSelect(p)
  \/ PollCommit(p)
  \/ PollerCrash(p)
  \/ \E e \in Event : PublishConfirmed(p, e) \/ PublishRaised(p, e)

ConsumerStep(c) ==
  \/ PublishHint(c)
  \/ Ack(c)
  \/ ConsumerLost(c)
  \/ \E e \in Event :
       \/ Deliver(c, e)
       \/ HandleMessage(c, e)
       \/ HandleTransient(c, e)
       \/ HandleUnexpected(c, e)

DeliveryNext ==
  \/ \E e \in Event : RecordEvent(e)
  \/ \E p \in Poller : PollerStep(p)
  \/ \E c \in Consumer : ConsumerStep(c)
  \/ BrokerDown
  \/ BrokerBack

\* Pollers and consumers are loops that are restarted when they die and that
\* wait out a database or broker that is away (workers/backoff.py); the broker
\* is brought back.  No event has to be recorded and no fault has to happen.
DeliveryFairness ==
  /\ WF_deliveryVars(BrokerBack)
  /\ \A p \in Poller :
       WF_deliveryVars(\/ PollSelect(p)
                       \/ \E e \in Event : PublishConfirmed(p, e)
                       \/ PollCommit(p))
  /\ \A c \in Consumer :
       /\ WF_deliveryVars(Ack(c) \/ PublishHint(c) \/ \E e \in Event : HandleMessage(c, e))
       /\ WF_deliveryVars(\E e \in Event : Deliver(c, e))
       /\ WF_deliveryVars(~brokerUp /\ ConsumerLost(c))

DeliverySpec == DeliveryInit /\ [][DeliveryNext]_deliveryVars /\ DeliveryFairness
-----------------------------------------------------------------------------
InBroker(e) ==
  \/ ready[e] > 0 \/ dead[e] > 0
  \/ \E c \in Consumer : unacked[c][e] > 0

\* An event marked as published is never lost: its effect is committed, or the
\* broker still has a copy (publisher confirms, ack after commit, ADR-004).
PublishedIsSafe ==
  \A e \in Event : outbox[e] = "published" => e \in inbox \/ InBroker(e)

\* The effect of an event happens once however often it is delivered, and only
\* when the inbox says so (handle_escalation_created, the inbox row).
EffectOnce ==
  \A e \in Event : effects[e] = IF e \in inbox THEN 1 ELSE 0

\* The consoles are told of an escalation at most once, and never before its
\* effect is committed, whatever is redelivered and whoever dies in between
\* (on_message, PROCESSED before basic_publish).
HintedOnceHandled == \A e \in Event : hinted[e] <= effects[e]

\* Once an event is marked as published no poller publishes it again, with any
\* number of pollers at work (SKIP LOCKED, the published flag).
PublishedNotResent ==
  [][\A e \in Event : outbox[e] = "published" => accepted'[e] = accepted[e]]_deliveryVars

\* Delivery implements EventHandling: every recorded event is settled, and its
\* effect is final.
Handling ==
  INSTANCE EventHandling WITH
    fate <- [e \in Event |->
               IF e \in inbox THEN "handled"
               ELSE IF dead[e] > 0 THEN "parked"
               ELSE IF outbox[e] = "absent" THEN "absent" ELSE "recorded"]
ImplementsHandling == Handling!HandlingSpec

\* An escalation recorded while the broker is away reaches its handler, or the
\* dead-letter queue, once the broker is back (the README's promise).
RecordedIsDelivered ==
  \A e \in Event : outbox[e] = "pending" ~> (e \in inbox \/ dead[e] > 0)
=============================================================================
