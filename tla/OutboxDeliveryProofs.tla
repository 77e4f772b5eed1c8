------------------------ MODULE OutboxDeliveryProofs ------------------------
(***************************************************************************)
(* What is proved of the delivery of events for any number of events,      *)
(* pollers, consumers and faults: types, that a row is published by one    *)
(* poller at a time and by none once it is marked, that nothing published  *)
(* is lost, that the effect and the consoles' hint happen once, and that   *)
(* every step is one EventHandling allows.                                 *)
(***************************************************************************)
EXTENDS OutboxDelivery, FiniteSetTheorems, TLAPS

USE DeliveryAssumption

(* Who leaves what alone.                                                  *)

RowVars == <<outbox, attempts, rows, sent, failed>>
CopyVars == <<ready, unacked, dead>>

LEMMA ConsumerFrame ==
  ASSUME NEW c \in Consumer, ConsumerStep(c)
  PROVE  UNCHANGED <<RowVars, born, accepted>>
BY DEF ConsumerStep, PublishHint, Ack, ConsumerLost, Deliver, HandleMessage, HandleTransient,
       HandleUnexpected, RowVars, outboxVars, pollerVars

LEMMA PollerFrame ==
  ASSUME NEW p \in Poller, PollerStep(p)
  PROVE  UNCHANGED <<born, unacked, dead, brokerUp, inboxVars, ackVars>>
BY DEF PollerStep, PollSelect, PollCommit, PollerCrash, PublishConfirmed, PublishRaised,
       outboxVars, queueVars

LEMMA BrokerFrame ==
  ASSUME BrokerDown \/ BrokerBack
  PROVE  UNCHANGED <<RowVars, born, CopyVars, accepted, inboxVars, ackVars>>
BY DEF BrokerDown, BrokerBack, RowVars, CopyVars, outboxVars, pollerVars

LEMMA RecordFrame ==
  ASSUME NEW e \in Event, RecordEvent(e)
  PROVE  UNCHANGED <<attempts, rows, sent, failed, CopyVars, brokerUp, accepted, inboxVars,
                     ackVars, faults>>
BY DEF RecordEvent, CopyVars, pollerVars, queueVars

LEMMA StutterFrame ==
  ASSUME UNCHANGED deliveryVars
  PROVE  UNCHANGED <<RowVars, born, CopyVars, brokerUp, accepted, inboxVars, ackVars, faults>>
BY DEF deliveryVars, RowVars, CopyVars, inboxVars, ackVars

-----------------------------------------------------------------------------
(* The rows.  A poller's rows are pending, have attempts left, and are held  *)
(* by it alone.                                                              *)

RowTypes ==
  /\ outbox \in [Event -> {"absent", "pending", "published"}]
  /\ attempts \in [Event -> 0..MAX_ATTEMPTS]
  /\ rows \in [Poller -> SUBSET Event]
  /\ sent \in [Poller -> SUBSET Event]
  /\ failed \in [Poller -> SUBSET Event]

RowsHeld ==
  \A p \in Poller :
    /\ sent[p] \subseteq rows[p] /\ failed[p] \subseteq rows[p]
    /\ \A e \in rows[p] :
         /\ outbox[e] = "pending" /\ attempts[e] < MAX_ATTEMPTS
         /\ \A q \in Poller : e \in rows[q] => q = p

LEMMA RowsStep ==
  ASSUME RowTypes, RowsHeld, [DeliveryNext]_deliveryVars
  PROVE  RowTypes' /\ RowsHeld'
<1> USE DEF RowTypes
<1>1. ASSUME NEW e \in Event, RecordEvent(e) PROVE RowTypes' /\ RowsHeld'
  <2>1. /\ outbox[e] = "absent" /\ outbox' = [outbox EXCEPT ![e] = "pending"]
        /\ UNCHANGED <<attempts, rows, sent, failed>>
    BY <1>1, RecordFrame DEF RecordEvent
  <2> QED BY <2>1 DEF RowsHeld
<1>2. ASSUME NEW p \in Poller, PollSelect(p) PROVE RowTypes' /\ RowsHeld'
  <2>1. PICK S \in SUBSET {e \in Event : Selectable(e)} :
          /\ rows[p] = {}
          /\ rows' = [rows EXCEPT ![p] = S]
          /\ UNCHANGED <<outbox, attempts, sent, failed>>
    BY <1>2 DEF PollSelect, outboxVars
  <2>2. \A e \in S : e \in Event /\ Selectable(e)
    BY <2>1
  <2> QED BY <2>1, <2>2 DEF RowsHeld, Selectable, Locked
<1>3. ASSUME NEW p \in Poller, PollCommit(p) PROVE RowTypes' /\ RowsHeld'
  <2>1. /\ outbox' = [e \in Event |-> IF e \in sent[p] THEN "published" ELSE outbox[e]]
        /\ attempts' = [e \in Event |->
                          IF e \in sent[p] \cup failed[p] THEN attempts[e] + 1 ELSE attempts[e]]
        /\ rows' = [rows EXCEPT ![p] = {}]
        /\ sent' = [sent EXCEPT ![p] = {}]
        /\ failed' = [failed EXCEPT ![p] = {}]
    BY <1>3 DEF PollCommit, Marked
  <2>2. \A e \in sent[p] \cup failed[p] : e \in rows[p] /\ attempts[e] \in 0..(MAX_ATTEMPTS - 1)
    BY DEF RowsHeld
  <2>3. attempts' \in [Event -> 0..MAX_ATTEMPTS]
    BY <2>1, <2>2
  <2>4. ASSUME NEW q \in Poller, NEW e \in rows'[q]
        PROVE  q # p /\ e \in rows[q] /\ outbox'[e] = outbox[e] /\ attempts'[e] = attempts[e]
    <3>1. q # p /\ e \in rows[q] /\ e \in Event
      BY <2>1, <2>4
    <3>2. e \notin rows[p]
      BY <3>1 DEF RowsHeld
    <3> QED BY <2>1, <2>2, <3>1, <3>2
  <2>5. RowsHeld'
    BY <2>1, <2>4 DEF RowsHeld
  <2> QED BY <2>1, <2>3, <2>5
<1>4. ASSUME NEW p \in Poller, PollerCrash(p) PROVE RowTypes' /\ RowsHeld'
  BY <1>4 DEF PollerCrash, RowsHeld, outboxVars
<1>5. ASSUME NEW p \in Poller, NEW e \in Event, PublishConfirmed(p, e) \/ PublishRaised(p, e)
      PROVE  RowTypes' /\ RowsHeld'
  <2>1. /\ e \in rows[p] /\ UNCHANGED <<outbox, attempts, rows>>
        /\ \/ sent' = [sent EXCEPT ![p] = @ \cup {e}] /\ UNCHANGED failed
           \/ failed' = [failed EXCEPT ![p] = {e}] /\ UNCHANGED sent
    BY <1>5 DEF PublishConfirmed, PublishRaised, Turn, outboxVars
  <2> QED BY <2>1 DEF RowsHeld
<1>6. CASE \/ \E c \in Consumer : ConsumerStep(c)
           \/ BrokerDown \/ BrokerBack \/ UNCHANGED deliveryVars
  <2>1. UNCHANGED RowVars
    BY <1>6, ConsumerFrame, BrokerFrame, StutterFrame
  <2> QED BY <2>1 DEF RowVars, RowsHeld
<1> QED BY <1>1, <1>2, <1>3, <1>4, <1>5, <1>6 DEF DeliveryNext, PollerStep

-----------------------------------------------------------------------------
(* The inbox, the acks and the hints.  What a consumer is about to ack is in *)
(* the inbox and still its own; a hint it owes has not been given by anyone. *)

CopyTypes ==
  /\ ready \in [Event -> Nat]
  /\ unacked \in [Consumer -> [Event -> Nat]]
  /\ dead \in [Event -> Nat]

InboxTypes ==
  /\ inbox \subseteq Event
  /\ effects \in [Event -> Nat]
  /\ acking \in [Consumer -> Event \cup {NULL}]
  /\ hinting \subseteq Consumer
  /\ hinted \in [Event -> Nat]

AckingIsHandled ==
  \A c \in Consumer :
    acking[c] # NULL => acking[c] \in inbox /\ unacked[c][acking[c]] > 0

HintIsNew ==
  \A c \in hinting :
    /\ acking[c] # NULL
    /\ hinted[acking[c]] = 0
    /\ \A d \in hinting : acking[d] = acking[c] => d = c

InboxAgrees == EffectOnce /\ AckingIsHandled /\ HintIsNew /\ HintedOnceHandled

LEMMA InboxStep ==
  ASSUME CopyTypes, InboxTypes, InboxAgrees, [DeliveryNext]_deliveryVars
  PROVE  CopyTypes' /\ InboxTypes' /\ InboxAgrees'
<1> USE DEF InboxAgrees
<1> DEFINE Kept == CopyTypes' /\ InboxTypes' /\ InboxAgrees'
<1>1. ASSUME UNCHANGED <<unacked, inboxVars, ackVars>>, ready' \in [Event -> Nat], UNCHANGED dead
      PROVE  Kept
  BY <1>1 DEF CopyTypes, InboxTypes, EffectOnce, AckingIsHandled, HintIsNew, HintedOnceHandled,
              inboxVars, ackVars
<1>2. ASSUME NEW p \in Poller, PollerStep(p) PROVE Kept
  <2>1. ready' \in [Event -> Nat]
    BY <1>2 DEF PollerStep, PollSelect, PollCommit, PollerCrash, PublishConfirmed,
                PublishRaised, Accept, queueVars, CopyTypes
  <2> QED BY <1>1, <1>2, <2>1, PollerFrame
<1>3. CASE \/ \E e \in Event : RecordEvent(e)
           \/ BrokerDown \/ BrokerBack \/ UNCHANGED deliveryVars
  <2>1. UNCHANGED <<CopyVars, inboxVars, ackVars>>
    BY <1>3, RecordFrame, BrokerFrame, StutterFrame
  <2> QED BY <1>1, <2>1 DEF CopyVars, CopyTypes
<1>4. ASSUME NEW c \in Consumer, NEW e \in Event, Deliver(c, e) PROVE Kept
  <2>1. /\ ready[e] > 0 /\ ready' = [ready EXCEPT ![e] = @ - 1]
        /\ unacked' = [unacked EXCEPT ![c][e] = @ + 1]
        /\ UNCHANGED <<dead, inbox, effects, acking, hinting, hinted>>
    BY <1>4 DEF Deliver, inboxVars, ackVars
  <2>2. CopyTypes'
    BY <2>1 DEF CopyTypes
  <2>3. \A d \in Consumer, f \in Event : unacked[d][f] > 0 => unacked'[d][f] > 0
    BY <2>1 DEF CopyTypes
  <2> QED BY <2>1, <2>2, <2>3
          DEF InboxTypes, EffectOnce, AckingIsHandled, HintIsNew, HintedOnceHandled
<1>5. ASSUME NEW c \in Consumer, NEW e \in Event, HandleMessage(c, e) PROVE Kept
  <2>1. /\ acking[c] = NULL /\ unacked[c][e] > 0
        /\ inbox' = inbox \cup {e}
        /\ effects' = [effects EXCEPT ![e] = IF e \in inbox THEN @ ELSE @ + 1]
        /\ acking' = [acking EXCEPT ![c] = e]
        /\ hinting' = IF e \notin inbox THEN hinting \cup {c} ELSE hinting
        /\ UNCHANGED <<ready, unacked, dead, hinted>>
    BY <1>5 DEF HandleMessage, Working, ApplyOnce, HintsOn, queueVars
  <2>2. CopyTypes' /\ InboxTypes'
    BY <2>1 DEF CopyTypes, InboxTypes
  <2>3. EffectOnce' /\ HintedOnceHandled'
    BY <2>1 DEF EffectOnce, HintedOnceHandled, InboxTypes
  <2>4. AckingIsHandled'
    BY <2>1 DEF AckingIsHandled, InboxTypes
  <2>5. c \notin hinting /\ \A d \in hinting : acking[d] \in inbox
    BY <2>1 DEF HintIsNew, AckingIsHandled, InboxTypes
  <2>6. CASE e \in inbox
    <3>1. hinting' = hinting /\ \A d \in hinting : acking'[d] = acking[d]
      BY <2>1, <2>5, <2>6 DEF InboxTypes
    <3> QED BY <2>1, <2>2, <2>3, <2>4, <3>1 DEF HintIsNew
  <2>7. CASE e \notin inbox
    <3>1. hinted[e] = 0
      BY <2>7 DEF EffectOnce, HintedOnceHandled, InboxTypes
    <3>2. /\ acking'[c] = e /\ e # NULL
          /\ \A d \in hinting : acking'[d] = acking[d] /\ acking[d] # e
      BY <2>1, <2>5, <2>7 DEF InboxTypes
    <3>3. HintIsNew'
      BY <2>1, <2>7, <3>1, <3>2 DEF HintIsNew
    <3> QED BY <2>2, <2>3, <2>4, <3>3
  <2> QED BY <2>6, <2>7
<1>6. ASSUME NEW c \in Consumer, PublishHint(c) PROVE Kept
  <2>1. /\ c \in hinting /\ hinting' = hinting \ {c}
        /\ hinted' = [hinted EXCEPT ![acking[c]] = @ + 1]
        /\ UNCHANGED <<ready, unacked, dead, inbox, effects, acking>>
    BY <1>6 DEF PublishHint, queueVars, inboxVars
  <2>2. acking[c] \in inbox /\ acking[c] \in Event /\ hinted[acking[c]] = 0
    BY <2>1 DEF HintIsNew, AckingIsHandled, InboxTypes
  <2>3. \A d \in hinting' : acking[d] # acking[c]
    BY <2>1 DEF HintIsNew
  <2>4. CopyTypes' /\ InboxTypes' /\ EffectOnce' /\ AckingIsHandled'
    BY <2>1, <2>2 DEF CopyTypes, InboxTypes, EffectOnce, AckingIsHandled
  <2>5. HintedOnceHandled'
    BY <2>1, <2>2 DEF HintedOnceHandled, EffectOnce, InboxTypes
  <2>6. HintIsNew'
    BY <2>1, <2>2, <2>3 DEF HintIsNew, InboxTypes
  <2> QED BY <2>4, <2>5, <2>6
<1>7. ASSUME NEW c \in Consumer, Ack(c) PROVE Kept
  <2>1. /\ acking[c] # NULL /\ c \notin hinting
        /\ unacked' = [unacked EXCEPT ![c][acking[c]] = @ - 1]
        /\ acking' = [acking EXCEPT ![c] = NULL]
        /\ UNCHANGED <<ready, dead, inbox, effects, hinting, hinted>>
    BY <1>7 DEF Ack, inboxVars, hintVars
  <2>2. acking[c] \in Event /\ unacked[c][acking[c]] > 0
    BY <2>1 DEF AckingIsHandled, InboxTypes
  <2>3. CopyTypes'
    BY <2>1, <2>2 DEF CopyTypes
  <2>4. \A d \in Consumer \ {c} : unacked'[d] = unacked[d] /\ acking'[d] = acking[d]
    BY <2>1 DEF CopyTypes, InboxTypes
  <2>5. InboxTypes' /\ EffectOnce' /\ HintedOnceHandled'
    BY <2>1 DEF InboxTypes, EffectOnce, HintedOnceHandled
  <2>6. AckingIsHandled' /\ HintIsNew'
    BY <2>1, <2>4 DEF AckingIsHandled, HintIsNew, InboxTypes
  <2> QED BY <2>3, <2>5, <2>6
<1>8. ASSUME NEW c \in Consumer, NEW e \in Event, HandleTransient(c, e) \/ HandleUnexpected(c, e)
      PROVE  Kept
  <2>1. /\ acking[c] = NULL /\ unacked[c][e] > 0
        /\ unacked' = [unacked EXCEPT ![c][e] = @ - 1]
        /\ UNCHANGED <<acking, hinting, hinted>>
        /\ \/ /\ inbox' = inbox \cup {e}
              /\ effects' = [effects EXCEPT ![e] = IF e \in inbox THEN @ ELSE @ + 1]
           \/ UNCHANGED <<inbox, effects>>
    BY <1>8 DEF HandleTransient, HandleUnexpected, Working, ApplyOnce, inboxVars, ackVars
  <2>2. ready' \in [Event -> Nat] /\ dead' \in [Event -> Nat]
    BY <1>8 DEF HandleTransient, HandleUnexpected, DeadLetter, CopyTypes
  <2>3. CopyTypes'
    BY <2>1, <2>2 DEF CopyTypes
  <2>4. \A d \in Consumer \ {c} : unacked'[d] = unacked[d]
    BY <2>1 DEF CopyTypes
  <2>5. InboxTypes' /\ EffectOnce' /\ HintedOnceHandled'
    BY <2>1 DEF InboxTypes, EffectOnce, HintedOnceHandled
  <2>6. AckingIsHandled' /\ HintIsNew'
    BY <2>1, <2>4 DEF AckingIsHandled, HintIsNew, InboxTypes
  <2> QED BY <2>3, <2>5, <2>6
<1>9. ASSUME NEW c \in Consumer, ConsumerLost(c) PROVE Kept
  <2>1. /\ ready' = [e \in Event |-> ready[e] + unacked[c][e]]
        /\ unacked' = [unacked EXCEPT ![c] = NoCopies]
        /\ acking' = [acking EXCEPT ![c] = NULL]
        /\ hinting' = hinting \ {c}
        /\ UNCHANGED <<dead, inbox, effects, hinted>>
    BY <1>9 DEF ConsumerLost, inboxVars
  <2>2. CopyTypes'
    BY <2>1 DEF CopyTypes, NoCopies
  <2>3. \A d \in Consumer \ {c} : unacked'[d] = unacked[d] /\ acking'[d] = acking[d]
    BY <2>1 DEF CopyTypes, InboxTypes
  <2>4. InboxTypes' /\ EffectOnce' /\ HintedOnceHandled'
    BY <2>1 DEF InboxTypes, EffectOnce, HintedOnceHandled
  <2>5. AckingIsHandled' /\ HintIsNew'
    BY <2>1, <2>3 DEF AckingIsHandled, HintIsNew, InboxTypes
  <2> QED BY <2>2, <2>4, <2>5
<1> QED
  BY <1>2, <1>3, <1>4, <1>5, <1>6, <1>7, <1>8, <1>9 DEF DeliveryNext, ConsumerStep
-----------------------------------------------------------------------------
(* What nothing above rests on: ranks, the history of the broker, the faults. *)

OtherTypes ==
  /\ born \in [Event -> Nat]
  /\ brokerUp \in BOOLEAN
  /\ accepted \in [Event -> Nat]
  /\ faults \in 0..MaxFaults

LEMMA FaultTyped ==
  ASSUME OtherTypes, Fault \/ UNCHANGED faults
  PROVE  faults' \in 0..MaxFaults
BY DEF OtherTypes, Fault

LEMMA OtherStep ==
  ASSUME OtherTypes, [DeliveryNext]_deliveryVars
  PROVE  OtherTypes'
<1>1. born' \in [Event -> Nat]
  <2>1. ASSUME NEW e \in Event, RecordEvent(e) PROVE born' \in [Event -> Nat]
    <3>1. Cardinality({f \in Event : outbox[f] # "absent"}) \in Nat
      BY FS_Subset, FS_CardinalityType
    <3> QED BY <2>1, <3>1 DEF RecordEvent, OtherTypes
  <2> QED
    BY <2>1, ConsumerFrame, PollerFrame, BrokerFrame, StutterFrame DEF DeliveryNext, OtherTypes
<1>2. brokerUp' \in BOOLEAN
  BY DEF OtherTypes, DeliveryNext, RecordEvent, PollerStep, PollSelect, PollCommit, PollerCrash,
         PublishConfirmed, PublishRaised, ConsumerStep, PublishHint, Ack, ConsumerLost, Deliver,
         HandleMessage, HandleTransient, HandleUnexpected, BrokerDown, BrokerBack, queueVars,
         deliveryVars
<1>3. accepted' \in [Event -> Nat]
  <2>1. ASSUME NEW p \in Poller, PollerStep(p) PROVE accepted' \in [Event -> Nat]
    BY <2>1 DEF PollerStep, PollSelect, PollCommit, PollerCrash, PublishConfirmed,
                PublishRaised, Accept, OtherTypes
  <2> QED
    BY <2>1, ConsumerFrame, RecordFrame, BrokerFrame, StutterFrame DEF DeliveryNext, OtherTypes
<1>4. faults' \in 0..MaxFaults
  BY FaultTyped
     DEF OtherTypes, DeliveryNext, RecordEvent, PollerStep, PollSelect, PollCommit, PollerCrash,
         PublishConfirmed, PublishRaised, ConsumerStep, PublishHint, Ack, ConsumerLost, Deliver,
         HandleMessage, HandleTransient, HandleUnexpected, BrokerDown, BrokerBack, deliveryVars
<1> QED BY <1>1, <1>2, <1>3, <1>4 DEF OtherTypes

-----------------------------------------------------------------------------
(* Nothing published is lost, and nothing exists before its row.            *)

\* What the broker has confirmed is handled or still there.
ConfirmedIsSafe ==
  /\ PublishedIsSafe
  /\ \A p \in Poller : \A e \in sent[p] : e \in inbox \/ InBroker(e)

\* An event without a row has no copy and no effect.
RecordedFirst ==
  \A e \in Event : outbox[e] = "absent" => e \notin inbox /\ ~InBroker(e)

RoadAgrees == ConfirmedIsSafe /\ RecordedFirst

DeliveryInv ==
  /\ RowTypes /\ RowsHeld
  /\ CopyTypes /\ InboxTypes /\ InboxAgrees
  /\ OtherTypes
  /\ RoadAgrees

\* What a consumer's step may do to the copies of e: one moves within the broker or
\* leaves it for the inbox; none appears from nowhere.
Moves(e) ==
  /\ e \in inbox => e \in inbox'
  /\ InBroker(e) => InBroker(e)' \/ e \in inbox'
  /\ InBroker(e)' => InBroker(e)
  /\ e \in inbox' \ inbox => InBroker(e)
  /\ dead[e] > 0 => dead'[e] > 0

LEMMA CopyMoves ==
  ASSUME DeliveryInv, NEW c \in Consumer, ConsumerStep(c), NEW e \in Event
  PROVE  Moves(e)
<1> USE DEF DeliveryInv, CopyTypes, InBroker, Moves
<1>1. CASE PublishHint(c)
  BY <1>1 DEF PublishHint, queueVars, inboxVars
<1>2. CASE Ack(c)
  <2>1. /\ unacked' = [unacked EXCEPT ![c][acking[c]] = @ - 1]
        /\ acking[c] \in inbox /\ acking[c] \in Event
        /\ UNCHANGED <<ready, dead, inbox>>
    BY <1>2 DEF Ack, InboxAgrees, AckingIsHandled, InboxTypes, inboxVars
  <2>2. \A d \in Consumer :
          /\ unacked'[d][e] > 0 => unacked[d][e] > 0
          /\ e # acking[c] => unacked'[d][e] = unacked[d][e]
    BY <2>1
  <2> QED BY <2>1, <2>2
<1>3. CASE ConsumerLost(c)
  <2>1. /\ ready'[e] = ready[e] + unacked[c][e]
        /\ unacked' = [unacked EXCEPT ![c] = NoCopies]
        /\ UNCHANGED <<dead, inbox>>
    BY <1>3 DEF ConsumerLost, inboxVars
  <2>2. /\ unacked'[c][e] = 0
        /\ \A d \in Consumer \ {c} : unacked'[d] = unacked[d]
    BY <2>1 DEF NoCopies
  <2>3. (ready'[e] > 0) <=> (ready[e] > 0 \/ unacked[c][e] > 0)
    BY <2>1
  <2> QED BY <2>1, <2>2, <2>3
<1>4. ASSUME NEW f \in Event, Deliver(c, f) PROVE Moves(e)
  <2>1. /\ ready[f] > 0 /\ ready' = [ready EXCEPT ![f] = @ - 1]
        /\ unacked' = [unacked EXCEPT ![c][f] = @ + 1]
        /\ UNCHANGED <<dead, inbox>>
    BY <1>4 DEF Deliver, inboxVars
  <2>2. CASE e = f
    <3>1. unacked'[c][e] > 0
      BY <2>1, <2>2
    <3> QED BY <2>1, <2>2, <3>1
  <2>3. CASE e # f
    <3>1. ready'[e] = ready[e] /\ \A d \in Consumer : unacked'[d][e] = unacked[d][e]
      BY <2>1, <2>3
    <3> QED BY <2>1, <3>1
  <2> QED BY <2>2, <2>3
<1>5. ASSUME NEW f \in Event, HandleMessage(c, f) PROVE Moves(e)
  BY <1>5 DEF HandleMessage, Working, ApplyOnce, queueVars
<1>6. ASSUME NEW f \in Event, HandleTransient(c, f) PROVE Moves(e)
  <2>1. /\ unacked[c][f] > 0 /\ unacked' = [unacked EXCEPT ![c][f] = @ - 1]
        /\ ready' = [ready EXCEPT ![f] = @ + 1]
        /\ inbox' = inbox \cup {f} \/ UNCHANGED inbox
        /\ UNCHANGED dead
    BY <1>6 DEF HandleTransient, Working, ApplyOnce, inboxVars
  <2>2. CASE e = f
    <3>1. ready'[e] > 0
      BY <2>1, <2>2
    <3> QED BY <2>1, <2>2, <3>1
  <2>3. CASE e # f
    <3>1. ready'[e] = ready[e] /\ \A d \in Consumer : unacked'[d][e] = unacked[d][e]
      BY <2>1, <2>3
    <3> QED BY <2>1, <2>3, <3>1
  <2> QED BY <2>2, <2>3
<1>7. ASSUME NEW f \in Event, HandleUnexpected(c, f) PROVE Moves(e)
  <2>1. /\ unacked[c][f] > 0 /\ unacked' = [unacked EXCEPT ![c][f] = @ - 1]
        /\ dead' = [dead EXCEPT ![f] = @ + 1]
        /\ UNCHANGED <<ready, inbox>>
    BY <1>7 DEF HandleUnexpected, Working, DeadLetter, inboxVars
  <2>2. CASE e = f
    <3>1. dead'[e] > 0
      BY <2>1, <2>2
    <3> QED BY <2>1, <2>2, <3>1
  <2>3. CASE e # f
    <3>1. dead'[e] = dead[e] /\ \A d \in Consumer : unacked'[d][e] = unacked[d][e]
      BY <2>1, <2>3
    <3> QED BY <2>1, <2>3, <3>1
  <2> QED BY <2>2, <2>3
<1> QED BY <1>1, <1>2, <1>3, <1>4, <1>5, <1>6, <1>7 DEF ConsumerStep

LEMMA RoadStep ==
  ASSUME DeliveryInv, [DeliveryNext]_deliveryVars
  PROVE  RoadAgrees'
<1> USE DEF RoadAgrees
<1>0. /\ \A e \in Event : outbox[e] = "published" => e \in inbox \/ InBroker(e)
      /\ \A p \in Poller : \A e \in sent[p] : e \in inbox \/ InBroker(e)
      /\ RecordedFirst
  BY DEF DeliveryInv, ConfirmedIsSafe, PublishedIsSafe
<1>1. ASSUME NEW c \in Consumer, ConsumerStep(c) PROVE RoadAgrees'
  <2>1. UNCHANGED <<outbox, sent, rows>> /\ \A e \in Event : Moves(e)
    BY <1>1, CopyMoves, ConsumerFrame DEF RowVars
  <2>2. \A p \in Poller : sent[p] \subseteq Event
    BY DEF DeliveryInv, RowTypes
  <2> QED BY <1>0, <2>1, <2>2 DEF Moves, ConfirmedIsSafe, PublishedIsSafe, RecordedFirst
<1>2. ASSUME NEW e \in Event, RecordEvent(e) PROVE RoadAgrees'
  <2>1. /\ outbox' = [outbox EXCEPT ![e] = "pending"]
        /\ UNCHANGED <<ready, unacked, dead, inbox, sent>>
    BY <1>2, RecordFrame DEF RecordEvent, CopyVars, inboxVars
  <2> QED BY <1>0, <2>1
          DEF DeliveryInv, RowTypes, ConfirmedIsSafe, PublishedIsSafe, RecordedFirst, InBroker
<1>3. ASSUME NEW p \in Poller, PollerStep(p) PROVE RoadAgrees'
  <2>0. UNCHANGED <<unacked, dead, inbox>>
    BY <1>3, PollerFrame DEF inboxVars
  <2>1. CASE PollSelect(p) \/ PollerCrash(p)
    <3>1. /\ UNCHANGED <<outbox, ready>>
          /\ sent' = [sent EXCEPT ![p] = {}] \/ UNCHANGED sent
      BY <2>1 DEF PollSelect, PollerCrash, outboxVars, queueVars
    <3> QED BY <1>0, <2>0, <3>1
            DEF DeliveryInv, RowTypes, ConfirmedIsSafe, PublishedIsSafe, RecordedFirst, InBroker
  <2>2. CASE PollCommit(p)
    <3>1. /\ outbox' = [e \in Event |-> IF e \in sent[p] THEN "published" ELSE outbox[e]]
          /\ sent' = [sent EXCEPT ![p] = {}] /\ UNCHANGED ready
      BY <2>2 DEF PollCommit, Marked, queueVars
    <3> QED BY <1>0, <2>0, <3>1
            DEF DeliveryInv, RowTypes, ConfirmedIsSafe, PublishedIsSafe, RecordedFirst, InBroker
  <2>3. ASSUME NEW e \in Event, PublishConfirmed(p, e) PROVE RoadAgrees'
    <3>1. /\ e \in rows[p] /\ UNCHANGED outbox
          /\ sent' = [sent EXCEPT ![p] = @ \cup {e}]
          /\ \/ ready' = [ready EXCEPT ![e] = @ + 1]
             \/ ready' = [ready EXCEPT ![e] = @ + 2]
      BY <2>3 DEF PublishConfirmed, Turn, Accept, outboxVars
    <3>2. outbox[e] = "pending"
      BY <3>1 DEF DeliveryInv, RowsHeld
    <3>3. /\ ready'[e] > 0
          /\ \A f \in Event \ {e} : ready'[f] = ready[f]
      BY <3>1 DEF DeliveryInv, CopyTypes
    <3>4. InBroker(e)' /\ \A f \in Event \ {e} : InBroker(f)' <=> InBroker(f)
      BY <2>0, <3>3 DEF InBroker
    <3> QED BY <1>0, <2>0, <3>1, <3>2, <3>4
            DEF DeliveryInv, RowTypes, ConfirmedIsSafe, PublishedIsSafe, RecordedFirst
  <2>4. ASSUME NEW e \in Event, PublishRaised(p, e) PROVE RoadAgrees'
    <3>1. /\ e \in rows[p] /\ UNCHANGED <<outbox, sent>>
          /\ \E n \in 0..2 : ready' = [ready EXCEPT ![e] = @ + n]
      <4>1. PICK n \in (IF brokerUp THEN 0..2 ELSE {0}) : Accept(e, n)
        BY <2>4 DEF PublishRaised
      <4>2. n \in 0..2
        BY <4>1
      <4> QED BY <2>4, <4>1, <4>2 DEF PublishRaised, Turn, Accept, outboxVars
    <3>2. outbox[e] = "pending"
      BY <3>1 DEF DeliveryInv, RowsHeld
    <3>3. /\ ready[e] > 0 => ready'[e] > 0
          /\ \A f \in Event \ {e} : ready'[f] = ready[f]
      BY <3>1 DEF DeliveryInv, CopyTypes
    <3>4. /\ InBroker(e) => InBroker(e)'
          /\ \A f \in Event \ {e} : InBroker(f)' <=> InBroker(f)
      BY <2>0, <3>3 DEF InBroker
    <3> QED BY <1>0, <2>0, <3>1, <3>2, <3>4
            DEF DeliveryInv, RowTypes, ConfirmedIsSafe, PublishedIsSafe, RecordedFirst
  <2> QED BY <1>3, <2>1, <2>2, <2>3, <2>4 DEF PollerStep
<1>4. CASE BrokerDown \/ BrokerBack \/ UNCHANGED deliveryVars
  <2>1. UNCHANGED <<outbox, sent, ready, unacked, dead, inbox>>
    BY <1>4, BrokerFrame, StutterFrame DEF RowVars, CopyVars, inboxVars
  <2> QED BY <1>0, <2>1 DEF ConfirmedIsSafe, PublishedIsSafe, RecordedFirst, InBroker
<1> QED BY <1>1, <1>2, <1>3, <1>4 DEF DeliveryNext

LEMMA DeliveryInvHolds == DeliverySpec => []DeliveryInv
<1>1. DeliveryInit => DeliveryInv
  BY DEF DeliveryInit, DeliveryInv, RowTypes, RowsHeld, CopyTypes, InboxTypes, InboxAgrees,
         EffectOnce, AckingIsHandled, HintIsNew, HintedOnceHandled, OtherTypes, RoadAgrees,
         ConfirmedIsSafe, PublishedIsSafe, RecordedFirst, InBroker, NoCopies
<1>2. DeliveryInv /\ [DeliveryNext]_deliveryVars => DeliveryInv'
  BY RowsStep, InboxStep, OtherStep, RoadStep DEF DeliveryInv
<1> QED BY <1>1, <1>2, PTL DEF DeliverySpec

\* Every row, copy and counter keeps its type; no row is tried more than MAX_ATTEMPTS
\* times (publish_pending).
THEOREM DeliveryTypeCorrect == DeliverySpec => []DeliveryTypeOK
<1>1. DeliveryInv => DeliveryTypeOK
  BY DEF DeliveryInv, RowTypes, CopyTypes, InboxTypes, OtherTypes, DeliveryTypeOK
<1> QED BY <1>1, DeliveryInvHolds, PTL

\* A published event is handled or still with the broker, whoever crashes (ADR-004).
THEOREM PublishedStaysSafe == DeliverySpec => []PublishedIsSafe
<1>1. DeliveryInv => PublishedIsSafe
  BY DEF DeliveryInv, RoadAgrees, ConfirmedIsSafe
<1> QED BY <1>1, DeliveryInvHolds, PTL

\* The effect of an event is committed once, however often it is delivered.
THEOREM EffectIsOnce == DeliverySpec => []EffectOnce
<1>1. DeliveryInv => EffectOnce
  BY DEF DeliveryInv, InboxAgrees
<1> QED BY <1>1, DeliveryInvHolds, PTL

\* The consoles hear of an event at most once, and after its effect.
THEOREM HintIsOnce == DeliverySpec => []HintedOnceHandled
<1>1. DeliveryInv => HintedOnceHandled
  BY DEF DeliveryInv, InboxAgrees
<1> QED BY <1>1, DeliveryInvHolds, PTL

\* No poller sends an event again once it is marked, with any number of pollers.
THEOREM NeverResent == DeliverySpec => PublishedNotResent
<1>1. DeliveryInv /\ [DeliveryNext]_deliveryVars
        => \A e \in Event : outbox[e] = "published" => accepted'[e] = accepted[e]
  <2> SUFFICES ASSUME DeliveryInv, [DeliveryNext]_deliveryVars,
                      NEW e \in Event, outbox[e] = "published"
               PROVE  accepted'[e] = accepted[e]
    OBVIOUS
  <2>1. ASSUME NEW p \in Poller, PollerStep(p) PROVE accepted'[e] = accepted[e]
    <3>1. CASE PollSelect(p) \/ PollCommit(p) \/ PollerCrash(p)
      BY <3>1 DEF PollSelect, PollCommit, PollerCrash
    <3>2. ASSUME NEW f \in Event, PublishConfirmed(p, f) \/ PublishRaised(p, f)
          PROVE  accepted'[e] = accepted[e]
      <4>1. f \in rows[p] /\ \E n \in 0..2 : accepted' = [accepted EXCEPT ![f] = @ + n]
        <5>1. CASE PublishConfirmed(p, f)
          BY <5>1 DEF PublishConfirmed, Turn, Accept
        <5>2. CASE PublishRaised(p, f)
          <6>1. PICK n \in (IF brokerUp THEN 0..2 ELSE {0}) : Accept(f, n)
            BY <5>2 DEF PublishRaised
          <6>2. n \in 0..2
            BY <6>1
          <6> QED BY <5>2, <6>1, <6>2 DEF PublishRaised, Turn, Accept
        <5> QED BY <3>2, <5>1, <5>2
      <4>2. f # e
        BY <4>1 DEF DeliveryInv, RowsHeld
      <4> QED BY <4>1, <4>2 DEF DeliveryInv, OtherTypes
    <3> QED BY <2>1, <3>1, <3>2 DEF PollerStep
  <2> QED
    BY <2>1, ConsumerFrame, RecordFrame, BrokerFrame, StutterFrame DEF DeliveryNext
<1> QED BY <1>1, DeliveryInvHolds, PTL DEF DeliverySpec, PublishedNotResent
-----------------------------------------------------------------------------
(* The steps of EventHandling.                                             *)

\* The fate that ImplementsHandling gives an event.
Fate ==
  [e \in Event |->
     IF e \in inbox THEN "handled"
     ELSE IF dead[e] > 0 THEN "parked"
     ELSE IF outbox[e] = "absent" THEN "absent" ELSE "recorded"]

\* The steps of EventHandling, written with the mapped variable.
LEMMA HandlingMapped ==
  /\ Handling!HandlingInit <=> Fate = [e \in Event |-> "absent"]
  /\ \A e \in Event :
       /\ Handling!Record(e) <=> /\ Fate[e] = "absent"
                                 /\ Fate' = [Fate EXCEPT ![e] = "recorded"]
       /\ Handling!Handle(e) <=> /\ Fate[e] \in {"recorded", "parked"}
                                 /\ Fate' = [Fate EXCEPT ![e] = "handled"]
       /\ Handling!Park(e) <=> /\ Fate[e] = "recorded"
                               /\ Fate' = [Fate EXCEPT ![e] = "parked"]
BY DEF Handling!HandlingInit, Handling!Record, Handling!Handle, Handling!Park, Fate

\* A step that leaves inbox and dead letters alone and creates no row is a stutter.
LEMMA FateStays ==
  ASSUME UNCHANGED <<inbox, dead>>,
         \A e \in Event : outbox'[e] = "absent" <=> outbox[e] = "absent"
  PROVE  Fate' = Fate
BY DEF Fate

\* A copy a consumer works on is of a recorded event.
LEMMA WorkIsRecorded ==
  ASSUME DeliveryInv, NEW c \in Consumer, NEW e \in Event, Working(c, e)
  PROVE  outbox[e] # "absent"
BY DEF DeliveryInv, RoadAgrees, RecordedFirst, InBroker, Working

\* The inbox row of an event is the step that handles it, or a stutter.
LEMMA ApplyIsHandle ==
  ASSUME DeliveryInv, NEW e \in Event, outbox[e] # "absent",
         inbox' = inbox \cup {e}, UNCHANGED <<dead, outbox>>
  PROVE  Handling!HandlingNext \/ Fate' = Fate
<1>1. CASE e \in inbox
  <2>1. UNCHANGED inbox
    BY <1>1
  <2> QED BY <2>1, FateStays
<1>2. CASE e \notin inbox
  <2>1. Fate[e] \in {"recorded", "parked"}
    BY <1>2 DEF Fate
  <2>2. Fate' = [Fate EXCEPT ![e] = "handled"]
    BY DEF Fate
  <2> QED BY <2>1, <2>2, HandlingMapped DEF Handling!HandlingNext
<1> QED BY <1>1, <1>2

LEMMA HandlingStep ==
  ASSUME DeliveryInv, [DeliveryNext]_deliveryVars
  PROVE  Handling!HandlingNext \/ Fate' = Fate
<1> DEFINE Goal == Handling!HandlingNext \/ Fate' = Fate
<1>1. ASSUME NEW e \in Event, RecordEvent(e) PROVE Goal
  <2>1. /\ outbox[e] = "absent" /\ outbox' = [outbox EXCEPT ![e] = "pending"]
        /\ UNCHANGED <<inbox, dead>>
    BY <1>1, RecordFrame DEF RecordEvent, CopyVars, inboxVars
  <2>2. e \notin inbox /\ ~(dead[e] > 0)
    BY <2>1 DEF DeliveryInv, RoadAgrees, RecordedFirst, InBroker
  <2>3. Fate[e] = "absent" /\ Fate' = [Fate EXCEPT ![e] = "recorded"]
    BY <2>1, <2>2 DEF Fate, DeliveryInv, RowTypes
  <2> QED BY <2>3, HandlingMapped DEF Handling!HandlingNext
<1>2. ASSUME NEW p \in Poller, PollerStep(p) PROVE Goal
  <2>1. UNCHANGED <<inbox, dead>>
    BY <1>2, PollerFrame DEF inboxVars
  <2>2. CASE PollCommit(p)
    <3>1. outbox' = [e \in Event |-> IF e \in sent[p] THEN "published" ELSE outbox[e]]
      BY <2>2 DEF PollCommit, Marked
    <3>2. \A e \in sent[p] : outbox[e] = "pending"
      BY DEF DeliveryInv, RowsHeld
    <3> QED BY <2>1, <3>1, <3>2, FateStays
  <2>3. CASE ~PollCommit(p)
    <3>1. UNCHANGED outbox
      BY <1>2, <2>3
         DEF PollerStep, PollSelect, PollerCrash, PublishConfirmed, PublishRaised, outboxVars
    <3> QED BY <2>1, <3>1, FateStays
  <2> QED BY <2>2, <2>3
<1>3. ASSUME NEW c \in Consumer, ConsumerStep(c) PROVE Goal
  <2>0. UNCHANGED outbox
    BY <1>3, ConsumerFrame DEF RowVars
  <2>1. CASE PublishHint(c) \/ Ack(c) \/ ConsumerLost(c) \/ \E e \in Event : Deliver(c, e)
    <3>1. UNCHANGED <<inbox, dead>>
      BY <2>1 DEF PublishHint, Ack, ConsumerLost, Deliver, queueVars, inboxVars
    <3> QED BY <2>0, <3>1, FateStays
  <2>2. ASSUME NEW e \in Event, HandleMessage(c, e) \/ HandleTransient(c, e) PROVE Goal
    <3>1. Working(c, e) /\ UNCHANGED dead /\ (inbox' = inbox \cup {e} \/ UNCHANGED inbox)
      BY <2>2 DEF HandleMessage, HandleTransient, ApplyOnce, queueVars, inboxVars
    <3> QED BY <2>0, <3>1, WorkIsRecorded, ApplyIsHandle, FateStays
  <2>3. ASSUME NEW e \in Event, HandleUnexpected(c, e) PROVE Goal
    <3>1. /\ Working(c, e) /\ UNCHANGED inbox
          /\ dead' = [dead EXCEPT ![e] = @ + 1]
      BY <2>3 DEF HandleUnexpected, DeadLetter, inboxVars
    <3>2. /\ dead[e] \in Nat /\ dead'[e] > 0
          /\ \A f \in Event \ {e} : dead'[f] = dead[f]
      BY <3>1 DEF DeliveryInv, CopyTypes
    <3>3. outbox[e] # "absent"
      BY <3>1, WorkIsRecorded
    <3>4. CASE e \in inbox \/ dead[e] > 0
      BY <2>0, <3>1, <3>2, <3>4 DEF Fate
    <3>5. CASE ~(e \in inbox \/ dead[e] > 0)
      <4>1. Fate[e] = "recorded"
        BY <3>3, <3>5 DEF Fate
      <4>2. Fate' = [Fate EXCEPT ![e] = "parked"]
        BY <2>0, <3>1, <3>2, <3>5 DEF Fate
      <4> QED BY <4>1, <4>2, HandlingMapped DEF Handling!HandlingNext
    <3> QED BY <3>4, <3>5
  <2> QED BY <1>3, <2>1, <2>2, <2>3 DEF ConsumerStep
<1>4. CASE BrokerDown \/ BrokerBack \/ UNCHANGED deliveryVars
  <2>1. UNCHANGED <<outbox, inbox, dead>>
    BY <1>4, BrokerFrame, StutterFrame DEF RowVars, CopyVars, inboxVars
  <2> QED BY <2>1, FateStays
<1> QED BY <1>1, <1>2, <1>3, <1>4 DEF DeliveryNext

\* The safety of ImplementsHandling: an event is recorded before it is handled or
\* parked, and once handled it stays handled.  (That it is settled is liveness.)
THEOREM StepsHandle ==
  DeliverySpec => Handling!HandlingInit /\ [][Handling!HandlingNext]_Fate
<1>1. DeliveryInit => Handling!HandlingInit
  <2>1. DeliveryInit => Fate = [e \in Event |-> "absent"]
    BY DEF DeliveryInit, Fate, NoCopies
  <2> QED BY <2>1, HandlingMapped
<1>2. DeliveryInv /\ [DeliveryNext]_deliveryVars => [Handling!HandlingNext]_Fate
  BY HandlingStep
<1> QED BY <1>1, <1>2, DeliveryInvHolds, PTL DEF DeliverySpec
=============================================================================
