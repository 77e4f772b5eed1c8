----------------------- MODULE EscalationClaimsProofs -----------------------
(***************************************************************************)
(* Proofs about EscalationClaims for any number of escalations, operators  *)
(* and tickets and any claim TTL: the types, the two safety invariants of  *)
(* the desk, and that the desk implements OperatorDesk.                    *)
(***************************************************************************)
EXTENDS EscalationClaims, TLAPS

USE ClaimsAssumption

\* Whoever holds an escalation is its last claimant: what AnswerIsClaimants needs
\* of the state in which the answer is given.
HolderIsRecorded ==
  \A e \in Escalation : lockedBy[e] # NULL => lockedBy[e] = operatorId[e]

\* The rows of the escalations, apart from types.
RowsAgree == LockedIffInProgress /\ HolderIsRecorded /\ AnswerIsClaimants

-----------------------------------------------------------------------------
\* The columns of the escalations keep their types when S returns to the queue.
LEMMA ReturnToQueueType ==
  ASSUME NEW S, ClaimsTypeOK, ReturnToQueue(S)
  PROVE  /\ status' \in [Escalation -> EscalationStatus]
         /\ lockedBy' \in [Escalation -> Operator \cup {NULL}]
         /\ left' \in [Escalation -> -1..Ttl]
BY DEF ClaimsTypeOK, ReturnToQueue, EscalationStatus

\* The status a returned escalation leaves its ticket is one of a ticket's.
LEMMA TicketAfterReturnType ==
  ASSUME NEW read \in TicketStatus, NEW stored \in TicketStatus
  PROVE  TicketAfterReturn(read, stored) \in TicketStatus
BY DEF TicketAfterReturn, TicketStatus

\* Every step of the desk keeps the types.
LEMMA TypeStep == ClaimsTypeOK /\ [ClaimsNext]_claimVars => ClaimsTypeOK'
<1> SUFFICES ASSUME ClaimsTypeOK, [ClaimsNext]_claimVars PROVE ClaimsTypeOK'
  OBVIOUS
<1>1. ASSUME NEW o \in Operator, NEW e \in Escalation, Claim(o, e) PROVE ClaimsTypeOK'
  BY <1>1 DEF ClaimsTypeOK, Claim, EscalationStatus, TicketStatus
<1>2. ASSUME NEW o \in Operator, NEW e \in Escalation, ReleaseRead(o, e) PROVE ClaimsTypeOK'
  BY <1>2 DEF ClaimsTypeOK, ReleaseRead, escVars
<1>25. ASSUME NEW o \in Operator, ReleaseFlush(o) PROVE ClaimsTypeOK'
  <2>1. releasing[o] \in [esc: Escalation, ticket: TicketStatus \cup {NULL}]
    BY <1>25 DEF ClaimsTypeOK, ReleaseFlush
  <2>2. ticketStatus[TicketOf[releasing[o].esc]] \in TicketStatus
    BY <2>1 DEF ClaimsTypeOK
  <2> QED
    BY <1>25, <2>1, <2>2 DEF ClaimsTypeOK, ReleaseFlush, escVars
<1>3. ASSUME NEW o \in Operator, ReleaseCommit(o) PROVE ClaimsTypeOK'
  <2>1. releasing[o] \in [esc: Escalation, ticket: TicketStatus]
    BY <1>3 DEF ClaimsTypeOK, ReleaseCommit, Flushed
  <2>2. ticketStatus' \in [Ticket -> TicketStatus]
    BY <1>3, <2>1, TicketAfterReturnType DEF ClaimsTypeOK, ReleaseCommit
  <2> QED
    BY <1>3, <2>1, <2>2, ReturnToQueueType DEF ClaimsTypeOK, ReleaseCommit
<1>4. ASSUME NEW o \in Operator, ReleaseAbort(o) PROVE ClaimsTypeOK'
  BY <1>4 DEF ClaimsTypeOK, ReleaseAbort, escVars
<1>5. ASSUME NEW o \in Operator, NEW e \in Escalation, NEW action \in OperatorActionType,
             Resolve(o, e, action)
      PROVE  ClaimsTypeOK'
  <2>1. [operator |-> o, action |-> action] \in OperatorAction
    BY DEF OperatorAction
  <2> QED
    BY <1>5, <2>1 DEF ClaimsTypeOK, Resolve, EscalationStatus, TicketStatus
<1>6. CASE ReleaseExpired
  <2>1. ticketStatus' \in [Ticket -> TicketStatus]
    BY <1>6, TicketAfterReturnType DEF ClaimsTypeOK, ReleaseExpired
  <2> QED
    BY <1>6, <2>1, ReturnToQueueType DEF ClaimsTypeOK, ReleaseExpired
<1>7. CASE Tick
  BY <1>7 DEF ClaimsTypeOK, Tick
<1>8. CASE UNCHANGED claimVars
  BY <1>8 DEF ClaimsTypeOK, claimVars, escVars
<1> QED
  BY <1>1, <1>2, <1>25, <1>3, <1>4, <1>5, <1>6, <1>7, <1>8 DEF ClaimsNext, OperatorStep

\* The rows keep their types in every behaviour of the desk.
THEOREM TypeCorrect == ClaimsSpec => []ClaimsTypeOK
<1>1. ClaimsInit => ClaimsTypeOK
  BY DEF ClaimsInit, ClaimsTypeOK, EscalationStatus, TicketStatus, Escalated
<1> QED
  BY <1>1, TypeStep, PTL DEF ClaimsSpec
-----------------------------------------------------------------------------
\* Every step keeps the rows in agreement: releases and sweeps clear status and
\* lock together, and only the last claimant can answer.
LEMMA RowsStep ==
  ClaimsTypeOK /\ RowsAgree /\ [ClaimsNext]_claimVars => RowsAgree'
<1> SUFFICES ASSUME ClaimsTypeOK, RowsAgree, [ClaimsNext]_claimVars PROVE RowsAgree'
  OBVIOUS
<1> USE DEF RowsAgree, LockedIffInProgress, HolderIsRecorded, AnswerIsClaimants
<1>1. ASSUME NEW o \in Operator, NEW e \in Escalation, Claim(o, e) PROVE RowsAgree'
  BY <1>1 DEF ClaimsTypeOK, Claim
<1>2. ASSUME NEW o \in Operator, NEW e \in Escalation, ReleaseRead(o, e) PROVE RowsAgree'
  BY <1>2 DEF ReleaseRead, escVars
<1>25. ASSUME NEW o \in Operator, ReleaseFlush(o) PROVE RowsAgree'
  BY <1>25 DEF ReleaseFlush, escVars
<1>3. ASSUME NEW o \in Operator, ReleaseCommit(o) PROVE RowsAgree'
  BY <1>3 DEF ReleaseCommit, ReturnToQueue
<1>4. ASSUME NEW o \in Operator, ReleaseAbort(o) PROVE RowsAgree'
  BY <1>4 DEF ReleaseAbort, escVars
<1>5. ASSUME NEW o \in Operator, NEW e \in Escalation, NEW action \in OperatorActionType,
             Resolve(o, e, action)
      PROVE  RowsAgree'
  <2>1. operatorId[e] = o
    BY <1>5 DEF Resolve, HoldsClaim
  <2>2. [operator |-> o, action |-> action] # NULL
    BY DEF OperatorAction
  <2>3. \A f \in Escalation \ {e} :
          /\ status'[f] = status[f] /\ lockedBy'[f] = lockedBy[f]
          /\ answer'[f] = answer[f] /\ operatorId'[f] = operatorId[f]
    BY <1>5 DEF ClaimsTypeOK, Resolve
  <2>4. /\ status'[e] = "resolved" /\ lockedBy'[e] = NULL
        /\ answer'[e] = [operator |-> o, action |-> action] /\ operatorId'[e] = o
    BY <1>5, <2>1 DEF ClaimsTypeOK, Resolve
  <2> QED
    BY <2>2, <2>3, <2>4
<1>6. CASE ReleaseExpired
  BY <1>6 DEF ReleaseExpired, ReturnToQueue
<1>7. CASE Tick
  BY <1>7 DEF Tick
<1>8. CASE UNCHANGED claimVars
  BY <1>8 DEF claimVars, escVars
<1> QED
  BY <1>1, <1>2, <1>25, <1>3, <1>4, <1>5, <1>6, <1>7, <1>8 DEF ClaimsNext, OperatorStep

\* The inductive invariant: types and rows together.
LEMMA RowsInvariant == ClaimsSpec => [](ClaimsTypeOK /\ RowsAgree)
<1>1. ClaimsInit => RowsAgree
  BY DEF ClaimsInit, RowsAgree, LockedIffInProgress, HolderIsRecorded, AnswerIsClaimants
<1>2. ClaimsInit => ClaimsTypeOK
  BY DEF ClaimsInit, ClaimsTypeOK, EscalationStatus, TicketStatus, Escalated
<1> QED
  BY <1>1, <1>2, TypeStep, RowsStep, PTL DEF ClaimsSpec

\* An escalation is in progress exactly while a claim is stored on it, however
\* releases, sweeps and claims interleave (operations.py).
THEOREM LockAndStatusAgree == ClaimsSpec => []LockedIffInProgress
<1>1. RowsAgree => LockedIffInProgress
  BY DEF RowsAgree
<1> QED
  BY <1>1, RowsInvariant, PTL

\* A closed escalation holds the answer of the operator who claimed it last.
THEOREM AnsweredByClaimant == ClaimsSpec => []AnswerIsClaimants
<1>1. RowsAgree => AnswerIsClaimants
  BY DEF RowsAgree
<1> QED
  BY <1>1, RowsInvariant, PTL
-----------------------------------------------------------------------------
(* The ticket of a sole escalation.                                        *)

\* A row lock has one owner.
LockIsExclusive ==
  \A o, p \in Operator :
    Flushed(o) /\ Flushed(p) /\ releasing[o].esc = releasing[p].esc => o = p

\* What a flushed release has read of a sole escalation's ticket still stands: nobody
\* but the desk writes that ticket, and the desk writes it with the row lock.
FlushedIsCurrent ==
  \A o \in Operator :
    Flushed(o) /\ Siblings(releasing[o].esc) = {releasing[o].esc}
      => releasing[o].ticket = ticketStatus[TicketOf[releasing[o].esc]]

\* The desk works on escalations that have been created.
EscalationsExist == \A e \in Escalation : status[e] # "absent"

\* The rows of tickets and escalations agree, also with what releases have read.
TicketsAgree ==
  TicketFollowsSoleEscalation /\ LockIsExclusive /\ FlushedIsCurrent /\ EscalationsExist

\* The agreement of one escalation's rows.
Agree(e) ==
  LET ticket == ticketStatus[TicketOf[e]]
  IN /\ status[e] = "in_progress" <=> ticket = "in_progress"
     /\ status[e] = "resolved" => ticket = "resolved_by_operator"
     /\ status[e] = "pending" =>
          \/ ticket \in Escalated \cup {"pending_operator"}
          \/ ticket = "resolved_by_operator" /\ answer[e] # NULL

Sole(e) == Siblings(e) = {e}

\* Nobody else's step touches the ticket of a sole escalation.
LEMMA SoleAlone ==
  ASSUME NEW e \in Escalation, Sole(e), NEW f \in Escalation, f # e
  PROVE  TicketOf[f] # TicketOf[e]
BY DEF Sole, Siblings

\* No step of the desk takes an escalation's row away.
LEMMA ExistStep ==
  ClaimsTypeOK /\ EscalationsExist /\ [ClaimsNext]_claimVars => EscalationsExist'
BY DEF ClaimsTypeOK, EscalationsExist, ClaimsNext, OperatorStep, Claim, ReleaseRead,
       ReleaseFlush, ReleaseCommit, ReleaseAbort, Resolve, ReleaseExpired, ReturnToQueue,
       Tick, claimVars, escVars

\* A step that writes the rows of one escalation and its ticket, nobody's release
\* holding its lock afterwards, leaves the releases in flight as right as they were.
LEMMA OthersStayCurrent ==
  ASSUME ClaimsTypeOK, LockIsExclusive, FlushedIsCurrent, NEW e \in Escalation,
         \A t \in Ticket \ {TicketOf[e]} : ticketStatus'[t] = ticketStatus[t],
         \A o \in Operator : Flushed(o)' =>
           Flushed(o) /\ releasing'[o] = releasing[o] /\ releasing[o].esc # e
  PROVE  LockIsExclusive' /\ FlushedIsCurrent'
<1>1. LockIsExclusive'
  BY DEF LockIsExclusive
<1>2. ASSUME NEW o \in Operator, Flushed(o)', Sole(releasing'[o].esc)
      PROVE  releasing'[o].ticket = ticketStatus'[TicketOf[releasing'[o].esc]]
  <2>1. Flushed(o) /\ releasing'[o] = releasing[o] /\ releasing[o].esc # e
    BY <1>2
  <2>2. releasing[o].esc \in Escalation
    BY <2>1 DEF Flushed, ClaimsTypeOK
  <2>3. TicketOf[releasing[o].esc] # TicketOf[e]
    BY <1>2, <2>1, <2>2, SoleAlone
  <2>4. releasing[o].ticket = ticketStatus[TicketOf[releasing[o].esc]]
    BY <1>2, <2>1 DEF FlushedIsCurrent, Sole
  <2> QED BY <2>1, <2>2, <2>3, <2>4
<1> QED BY <1>1, <1>2 DEF FlushedIsCurrent, Sole, Siblings

\* Every step keeps the ticket of a sole escalation in agreement with it: a release
\* writes the ticket it has read behind the row lock, so it writes both rows, or it
\* leaves the closed ticket of an escalation that was answered before the lock.
LEMMA TicketsStep ==
  ASSUME ClaimsTypeOK, RowsAgree, TicketsAgree, [ClaimsNext]_claimVars
  PROVE  TicketsAgree'
<1> USE DEF TicketsAgree
<1>c. EscalationsExist'
  BY ExistStep
<1>0. TicketFollowsSoleEscalation <=> \A e \in Escalation : Sole(e) => Agree(e)
  BY DEF TicketFollowsSoleEscalation, Sole, Agree
<1>00. TicketFollowsSoleEscalation' <=> \A e \in Escalation : Sole(e) => Agree(e)'
  BY DEF TicketFollowsSoleEscalation, Sole, Agree, Siblings
<1>a. ASSUME NEW e \in Escalation, Sole(e) => Agree(e)',
             \A f \in Escalation \ {e} : status'[f] = status[f] /\ answer'[f] = answer[f],
             \A t \in Ticket \ {TicketOf[e]} : ticketStatus'[t] = ticketStatus[t]
      PROVE  TicketFollowsSoleEscalation'
  <2>1. ASSUME NEW f \in Escalation, Sole(f) PROVE Agree(f)'
    <3>1. CASE f = e
      BY <1>a, <2>1, <3>1
    <3>2. CASE f # e
      BY <1>0, <1>a, <2>1, <3>2, SoleAlone DEF Agree
    <3> QED BY <3>1, <3>2
  <2> QED BY <1>00, <2>1
<1>b. ASSUME UNCHANGED <<escVars, ticketStatus>> PROVE TicketFollowsSoleEscalation'
  BY <1>b DEF escVars, TicketFollowsSoleEscalation, Siblings
<1>1. ASSUME NEW o \in Operator, NEW e \in Escalation, Claim(o, e) PROVE TicketsAgree'
  <2>1. /\ status'[e] = "in_progress" /\ ticketStatus'[TicketOf[e]] = "in_progress"
        /\ \A f \in Escalation \ {e} : status'[f] = status[f]
        /\ \A t \in Ticket \ {TicketOf[e]} : ticketStatus'[t] = ticketStatus[t]
        /\ UNCHANGED <<answer, releasing>>
    BY <1>1 DEF Claim, ClaimsTypeOK
  <2>2. \A p \in Operator : Flushed(p)' =>
          Flushed(p) /\ releasing'[p] = releasing[p] /\ releasing[p].esc # e
    BY <1>1, <2>1 DEF Claim, Locked, Flushed
  <2>3. Agree(e)'
    BY <2>1 DEF Agree
  <2> QED BY <1>a, <1>c, <2>1, <2>2, <2>3, OthersStayCurrent
<1>2. ASSUME NEW o \in Operator, NEW e \in Escalation, ReleaseRead(o, e) PROVE TicketsAgree'
  <2>1. /\ releasing' = [releasing EXCEPT ![o] = [esc |-> e, ticket |-> NULL]]
        /\ UNCHANGED <<escVars, ticketStatus>>
    BY <1>2 DEF ReleaseRead
  <2>2. \A p \in Operator : Flushed(p)' => Flushed(p) /\ releasing'[p] = releasing[p]
    BY <2>1 DEF Flushed, ClaimsTypeOK
  <2> QED
    BY <1>b, <1>c, <2>1, <2>2 DEF LockIsExclusive, FlushedIsCurrent, Siblings
<1>25. ASSUME NEW o \in Operator, ReleaseFlush(o) PROVE TicketsAgree'
  <2> DEFINE e == releasing[o].esc
  <2>1. e \in Escalation
    BY <1>25 DEF ReleaseFlush, ClaimsTypeOK
  <2>2. /\ ~Locked(e)
        /\ releasing' = [releasing EXCEPT
                           ![o] = [esc |-> e, ticket |-> ticketStatus[TicketOf[e]]]]
        /\ UNCHANGED <<escVars, ticketStatus>>
    BY <1>25 DEF ReleaseFlush
  <2>3. releasing'[o].esc = e /\ releasing'[o].ticket = ticketStatus[TicketOf[e]]
    BY <1>25, <2>2 DEF ClaimsTypeOK, ReleaseFlush
  <2>4. \A p \in Operator \ {o} : releasing'[p] = releasing[p]
    BY <2>2 DEF ClaimsTypeOK
  <2> HIDE DEF e
  <2>5. \A p \in Operator \ {o} : Flushed(p)' => Flushed(p) /\ releasing[p].esc # e
    BY <2>2, <2>4 DEF Flushed, Locked
  <2>6. LockIsExclusive'
    BY <2>3, <2>4, <2>5 DEF LockIsExclusive
  <2>7. FlushedIsCurrent'
    BY <2>2, <2>3, <2>4, <2>5 DEF FlushedIsCurrent, Siblings
  <2> QED BY <1>b, <1>c, <2>2, <2>6, <2>7
<1>3. ASSUME NEW o \in Operator, ReleaseCommit(o) PROVE TicketsAgree'
  <2>1. PICK e \in Escalation : e = releasing[o].esc
    BY <1>3 DEF ReleaseCommit, Flushed, ClaimsTypeOK
  <2>2. /\ status'[e] = "pending"
        /\ \A f \in Escalation \ {e} : status'[f] = status[f]
        /\ ticketStatus'[TicketOf[e]] =
             TicketAfterReturn(releasing[o].ticket, ticketStatus[TicketOf[e]])
        /\ \A t \in Ticket \ {TicketOf[e]} : ticketStatus'[t] = ticketStatus[t]
        /\ releasing' = [releasing EXCEPT ![o] = NULL]
        /\ Flushed(o)
        /\ UNCHANGED answer
    BY <1>3, <2>1 DEF ReleaseCommit, ReturnToQueue, ClaimsTypeOK
  <2>3. \A p \in Operator : Flushed(p)' =>
          Flushed(p) /\ releasing'[p] = releasing[p] /\ releasing[p].esc # e
    BY <2>1, <2>2 DEF LockIsExclusive, Flushed, ClaimsTypeOK
  <2>4. ASSUME Sole(e) PROVE Agree(e)'
    <3>1. releasing[o].ticket = ticketStatus[TicketOf[e]] /\ Agree(e)
      BY <1>0, <2>1, <2>2, <2>4 DEF FlushedIsCurrent, Sole
    <3>2. CASE ticketStatus[TicketOf[e]] = "in_progress"
      BY <2>2, <3>1, <3>2 DEF Agree, TicketAfterReturn
    <3>3. CASE ticketStatus[TicketOf[e]] # "in_progress"
      <4>1. ticketStatus'[TicketOf[e]] = ticketStatus[TicketOf[e]]
        BY <2>2, <3>1, <3>3 DEF TicketAfterReturn
      <4>2. status[e] \in {"absent", "pending", "resolved"}
        BY <2>1, <3>1, <3>3 DEF Agree, ClaimsTypeOK, EscalationStatus
      <4>3. status[e] # "absent"
        BY <2>1, <2>2 DEF EscalationsExist
      <4>4. status[e] = "resolved" => answer[e] # NULL
        BY <2>1 DEF RowsAgree, AnswerIsClaimants
      <4> QED BY <2>2, <3>1, <3>3, <4>1, <4>2, <4>3, <4>4 DEF Agree
    <3> QED BY <3>2, <3>3
  <2>5. TicketFollowsSoleEscalation'
    BY <1>a, <2>1, <2>2, <2>4
  <2> QED BY <1>c, <2>1, <2>2, <2>3, <2>5, OthersStayCurrent
<1>4. ASSUME NEW o \in Operator, ReleaseAbort(o) PROVE TicketsAgree'
  <2>1. releasing' = [releasing EXCEPT ![o] = NULL] /\ UNCHANGED <<escVars, ticketStatus>>
    BY <1>4 DEF ReleaseAbort
  <2>2. \A p \in Operator : Flushed(p)' => Flushed(p) /\ releasing'[p] = releasing[p]
    BY <2>1 DEF Flushed, ClaimsTypeOK
  <2> QED BY <1>b, <1>c, <2>1, <2>2 DEF LockIsExclusive, FlushedIsCurrent, Siblings
<1>5. ASSUME NEW o \in Operator, NEW e \in Escalation, NEW action \in OperatorActionType,
             Resolve(o, e, action)
      PROVE  TicketsAgree'
  <2>1. /\ status'[e] = "resolved" /\ ticketStatus'[TicketOf[e]] = "resolved_by_operator"
        /\ \A f \in Escalation \ {e} : status'[f] = status[f] /\ answer'[f] = answer[f]
        /\ \A t \in Ticket \ {TicketOf[e]} : ticketStatus'[t] = ticketStatus[t]
        /\ UNCHANGED releasing
    BY <1>5 DEF Resolve, ClaimsTypeOK
  <2>2. \A p \in Operator : Flushed(p)' =>
          Flushed(p) /\ releasing'[p] = releasing[p] /\ releasing[p].esc # e
    BY <1>5, <2>1 DEF Resolve, Locked, Flushed
  <2>3. Agree(e)'
    BY <2>1 DEF Agree
  <2> QED BY <1>a, <1>c, <2>1, <2>2, <2>3, OthersStayCurrent
<1>6. CASE ReleaseExpired
  <2> DEFINE Taken(f) == Swept(f) /\ ~Locked(f)
  <2>1. /\ \A f \in Escalation : status'[f] = IF Taken(f) THEN "pending" ELSE status[f]
        /\ \A t \in Ticket :
             ticketStatus'[t] = IF \E f \in Escalation : Taken(f) /\ TicketOf[f] = t
                                THEN TicketAfterReturn(ticketStatus[t], ticketStatus[t])
                                ELSE ticketStatus[t]
        /\ UNCHANGED <<answer, releasing>>
    BY <1>6 DEF ReleaseExpired, ReturnToQueue
  <2>2. ASSUME NEW f \in Escalation, Sole(f), ~Taken(f)
        PROVE  ticketStatus'[TicketOf[f]] = ticketStatus[TicketOf[f]]
    <3>1. \A g \in Escalation : Taken(g) => TicketOf[g] # TicketOf[f]
      BY <2>2, SoleAlone
    <3> QED BY <2>1, <3>1
  <2>3. ASSUME NEW f \in Escalation, Sole(f) PROVE Agree(f)'
    <3>1. Agree(f)
      BY <1>0, <2>3
    <3>2. CASE Taken(f)
      <4>1. ticketStatus[TicketOf[f]] = "in_progress"
        BY <3>1, <3>2 DEF Agree, Swept
      <4>2. status'[f] = "pending" /\ ticketStatus'[TicketOf[f]] = "pending_operator"
        BY <2>1, <3>2, <4>1 DEF TicketAfterReturn
      <4> QED BY <4>2 DEF Agree
    <3>3. CASE ~Taken(f)
      BY <2>1, <2>2, <2>3, <3>1, <3>3 DEF Agree
    <3> QED BY <3>2, <3>3
  <2>4. FlushedIsCurrent'
    <3>1. ASSUME NEW o \in Operator, Flushed(o), Sole(releasing[o].esc)
          PROVE  releasing[o].ticket = ticketStatus'[TicketOf[releasing[o].esc]]
      <4>1. releasing[o].esc \in Escalation /\ ~Taken(releasing[o].esc)
        BY <3>1 DEF Flushed, Locked, ClaimsTypeOK
      <4> QED BY <2>2, <3>1, <4>1 DEF FlushedIsCurrent, Sole
    <3> QED BY <2>1, <3>1 DEF FlushedIsCurrent, Flushed, Sole, Siblings
  <2> QED BY <1>00, <1>c, <2>1, <2>3, <2>4 DEF LockIsExclusive, Flushed
<1>7. CASE Tick
  BY <1>7, <1>c DEF Tick, TicketFollowsSoleEscalation, LockIsExclusive, FlushedIsCurrent,
              Flushed, Siblings
<1>8. CASE UNCHANGED claimVars
  BY <1>8, <1>c DEF claimVars, escVars, TicketFollowsSoleEscalation, LockIsExclusive,
              FlushedIsCurrent, Flushed, Siblings
<1> QED
  BY <1>1, <1>2, <1>25, <1>3, <1>4, <1>5, <1>6, <1>7, <1>8 DEF ClaimsNext, OperatorStep

\* A ticket with one escalation is in progress together with it, closed when it is, and
\* closed under an open one only behind an answer; stale releases and sweeps included.
THEOREM TicketFollows == ClaimsSpec => []TicketFollowsSoleEscalation
<1>1. ClaimsInit => TicketsAgree
  BY DEF ClaimsInit, TicketsAgree, TicketFollowsSoleEscalation, LockIsExclusive,
         FlushedIsCurrent, EscalationsExist, Flushed, Escalated
<1>2. TicketsAgree => TicketFollowsSoleEscalation
  BY DEF TicketsAgree
<1> QED
  BY <1>1, <1>2, TicketsStep, RowsInvariant, PTL DEF ClaimsSpec

\* A resolved escalation that no release in flight has read.
Final(e) ==
  status[e] = "resolved" /\ \A o \in Operator : releasing[o] # NULL => releasing[o].esc # e

\* No step reopens it: a release that has not read it cannot begin any more.
LEMMA FinalStep ==
  ASSUME ClaimsTypeOK, RowsAgree, [ClaimsNext]_claimVars, NEW e \in Escalation, Final(e)
  PROVE  Final(e)'
<1> USE DEF ClaimsTypeOK, Final
<1>1. ASSUME NEW o \in Operator, NEW f \in Escalation, Claim(o, f) PROVE Final(e)'
  BY <1>1 DEF Claim, Open
<1>2. ASSUME NEW o \in Operator, NEW f \in Escalation, ReleaseRead(o, f) PROVE Final(e)'
  BY <1>2 DEF ReleaseRead, Open, escVars
<1>25. ASSUME NEW o \in Operator, ReleaseFlush(o) PROVE Final(e)'
  BY <1>25 DEF ReleaseFlush, escVars
<1>3. ASSUME NEW o \in Operator, ReleaseCommit(o) PROVE Final(e)'
  BY <1>3 DEF ReleaseCommit, ReturnToQueue, Flushed
<1>4. ASSUME NEW o \in Operator, ReleaseAbort(o) PROVE Final(e)'
  BY <1>4 DEF ReleaseAbort, escVars
<1>5. ASSUME NEW o \in Operator, NEW f \in Escalation, NEW action \in OperatorActionType,
             Resolve(o, f, action)
      PROVE  Final(e)'
  BY <1>5 DEF Resolve
<1>6. CASE ReleaseExpired
  BY <1>6 DEF ReleaseExpired, ReturnToQueue, Swept
<1>7. CASE Tick \/ UNCHANGED claimVars
  BY <1>7 DEF Tick, claimVars
<1> QED
  BY <1>1, <1>2, <1>25, <1>3, <1>4, <1>5, <1>6, <1>7 DEF ClaimsNext, OperatorStep

\* ... and the ticket it closed stays closed, if it has no other escalation.
LEMMA FinalTicketStep ==
  ClaimsTypeOK /\ RowsAgree /\ TicketsAgree /\ [ClaimsNext]_claimVars =>
    [\A e \in Escalation :
       Final(e) => /\ Final(e)'
                   /\ Sole(e) => ticketStatus'[TicketOf[e]] = "resolved_by_operator"]_claimVars
<1> SUFFICES ASSUME ClaimsTypeOK, RowsAgree, TicketsAgree, [ClaimsNext]_claimVars,
                    NEW e \in Escalation, Final(e)
             PROVE  /\ Final(e)'
                    /\ Sole(e) => ticketStatus'[TicketOf[e]] = "resolved_by_operator"
  OBVIOUS
<1>1. Final(e)'
  BY FinalStep
<1>2. status'[e] = "resolved" /\ TicketFollowsSoleEscalation'
  BY <1>1, TicketsStep DEF Final, TicketsAgree
<1> QED BY <1>1, <1>2 DEF TicketFollowsSoleEscalation, Sole, Siblings

\* What is true of "resolved by operator is the end": an escalation that is resolved with
\* no release of it in flight is never reopened, and a ticket with that escalation alone
\* never leaves its last state (release, resolve).
THEOREM ResolutionStays ==
  ClaimsSpec =>
    [][\A e \in Escalation :
         Final(e) => /\ Final(e)'
                     /\ Sole(e) => ticketStatus'[TicketOf[e]] = "resolved_by_operator"]_claimVars
<1>1. ClaimsInit => TicketsAgree
  BY DEF ClaimsInit, TicketsAgree, TicketFollowsSoleEscalation, LockIsExclusive,
         FlushedIsCurrent, EscalationsExist, Flushed, Escalated
<1> QED
  BY <1>1, TicketsStep, FinalTicketStep, RowsInvariant, PTL DEF ClaimsSpec
-----------------------------------------------------------------------------
(* The refinement of OperatorDesk.                                         *)

\* What the mapping gives for holder and answeredBy.
Holder == [e \in Escalation |->
             IF answer[e] = NULL /\ ~Expired(e) THEN lockedBy[e] ELSE NULL]
AnsweredBy == [e \in Escalation |-> IF answer[e] = NULL THEN NULL ELSE answer[e].operator]

\* The desk's steps, written with the mapped variables.
LEMMA DeskMapped ==
  /\ Desk!DeskInit <=> /\ Holder = [e \in Escalation |-> NULL]
                      /\ AnsweredBy = [e \in Escalation |-> NULL]
  /\ \A o \in Operator, e \in Escalation :
       /\ Desk!Take(o, e) <=> /\ AnsweredBy[e] = NULL
                             /\ Holder[e] = NULL
                             /\ Holder' = [Holder EXCEPT ![e] = o]
                             /\ AnsweredBy' = AnsweredBy
       /\ Desk!Answer(o, e) <=> /\ Holder[e] = o
                               /\ AnsweredBy[e] = NULL
                               /\ AnsweredBy' = [AnsweredBy EXCEPT ![e] = o]
                               /\ Holder' = [Holder EXCEPT ![e] = NULL]
  /\ \A S \in SUBSET Escalation :
       Desk!Drop(S) <=> /\ Holder' = [e \in Escalation |-> IF e \in S THEN NULL ELSE Holder[e]]
                        /\ AnsweredBy' = AnsweredBy
  /\ (UNCHANGED Desk!deskVars) <=> (Holder' = Holder /\ AnsweredBy' = AnsweredBy)
BY DEF Desk!DeskInit, Desk!Take, Desk!Answer, Desk!Drop, Desk!deskVars, Holder, AnsweredBy

\* A step that gives answers to nobody and clears the locks of S alone, or lets
\* them lapse, drops holders of the desk.
LEMMA LosingIsDrop ==
  ASSUME NEW S \in SUBSET Escalation,
         AnsweredBy' = AnsweredBy,
         Holder' = [e \in Escalation |-> IF e \in S THEN NULL ELSE Holder[e]]
  PROVE  Desk!DeskNext
BY DeskMapped DEF Desk!DeskNext

\* Escalations going back to the queue lose their holders.
LEMMA ReturnIsDrop ==
  ASSUME NEW S \in SUBSET Escalation, ReturnToQueue(S), UNCHANGED answer
  PROVE  Desk!DeskNext
<1>1. AnsweredBy' = AnsweredBy
  BY DEF AnsweredBy
<1>2. Holder' = [e \in Escalation |-> IF e \in S THEN NULL ELSE Holder[e]]
  BY DEF Holder, Expired, ReturnToQueue
<1> QED
  BY <1>1, <1>2, LosingIsDrop

\* Every step of the rows is a step of the abstract desk or changes nothing there.
LEMMA DeskStep ==
  ClaimsTypeOK /\ RowsAgree /\ [ClaimsNext]_claimVars => [Desk!DeskNext]_(Desk!deskVars)
<1> SUFFICES ASSUME ClaimsTypeOK, RowsAgree, [ClaimsNext]_claimVars
             PROVE  Desk!DeskNext \/ UNCHANGED Desk!deskVars
  OBVIOUS
<1>0. ASSUME UNCHANGED <<answer, lockedBy, left>> PROVE UNCHANGED Desk!deskVars
  <2>1. Holder' = Holder /\ AnsweredBy' = AnsweredBy
    BY <1>0 DEF Holder, AnsweredBy, Expired
  <2> QED
    BY <2>1, DeskMapped
<1>1. ASSUME NEW o \in Operator, NEW e \in Escalation, Claim(o, e)
      PROVE  Desk!DeskNext \/ UNCHANGED Desk!deskVars
  <2>1. AnsweredBy' = AnsweredBy
    BY <1>1 DEF Claim, AnsweredBy
  <2>2. ~Expired(e)' /\ \A f \in Escalation \ {e} : Expired(f)' <=> Expired(f)
    BY <1>1 DEF Claim, ClaimsTypeOK, Expired
  <2>3. CASE answer[e] # NULL
    <3>1. Holder' = Holder
      BY <1>1, <2>2, <2>3 DEF Claim, ClaimsTypeOK, Holder
    <3> QED
      BY <2>1, <3>1, DeskMapped
  <2>4. CASE answer[e] = NULL
    <3>1. Holder' = [Holder EXCEPT ![e] = o]
      BY <1>1, <2>2, <2>4 DEF Claim, ClaimsTypeOK, Holder
    <3>2. Holder[e] \in {NULL, o}
      BY <1>1 DEF Claim, Claimable, Holder
    <3>3. AnsweredBy[e] = NULL
      BY <2>4 DEF AnsweredBy
    <3>4. CASE Holder[e] = NULL
      BY <2>1, <3>1, <3>3, <3>4, DeskMapped DEF Desk!DeskNext
    <3>5. CASE Holder[e] = o
      <4>1. Holder' = Holder
        BY <3>1, <3>5 DEF Holder
      <4> QED
        BY <2>1, <4>1, DeskMapped
    <3> QED
      BY <3>2, <3>4, <3>5
  <2> QED
    BY <2>3, <2>4
<1>2. ASSUME NEW o \in Operator, NEW e \in Escalation, ReleaseRead(o, e)
      PROVE  UNCHANGED Desk!deskVars
  BY <1>0, <1>2 DEF ReleaseRead, escVars
<1>25. ASSUME NEW o \in Operator, ReleaseFlush(o) PROVE UNCHANGED Desk!deskVars
  BY <1>0, <1>25 DEF ReleaseFlush, escVars
<1>3. ASSUME NEW o \in Operator, ReleaseCommit(o) PROVE Desk!DeskNext
  <2>1. releasing[o].esc \in Escalation
    BY <1>3 DEF ReleaseCommit, Flushed, ClaimsTypeOK
  <2> QED
    BY <1>3, <2>1, ReturnIsDrop DEF ReleaseCommit
<1>4. ASSUME NEW o \in Operator, ReleaseAbort(o) PROVE UNCHANGED Desk!deskVars
  BY <1>0, <1>4 DEF ReleaseAbort, escVars
<1>5. ASSUME NEW o \in Operator, NEW e \in Escalation, NEW action \in OperatorActionType,
             Resolve(o, e, action)
      PROVE  Desk!DeskNext
  <2>1. Holder[e] = o /\ AnsweredBy[e] = NULL
    BY <1>5 DEF Resolve, HoldsClaim, Holder, AnsweredBy
  <2>2. [operator |-> o, action |-> action] # NULL
    BY DEF OperatorAction
  <2>3. AnsweredBy' = [AnsweredBy EXCEPT ![e] = o]
    BY <1>5, <2>2 DEF Resolve, AnsweredBy, ClaimsTypeOK
  <2>4. \A f \in Escalation \ {e} : Expired(f)' <=> Expired(f)
    BY <1>5 DEF Resolve, ClaimsTypeOK, Expired
  <2>5. Holder' = [Holder EXCEPT ![e] = NULL]
    BY <1>5, <2>2, <2>4 DEF Resolve, Holder, ClaimsTypeOK
  <2> QED
    BY <2>1, <2>3, <2>5, DeskMapped DEF Desk!DeskNext
<1>6. CASE ReleaseExpired
  BY <1>6, ReturnIsDrop DEF ReleaseExpired
<1>7. CASE Tick
  <2> DEFINE S == {e \in Escalation : left'[e] < 0}
  <2>1. AnsweredBy' = AnsweredBy
    BY <1>7 DEF Tick, AnsweredBy
  <2>2. Holder' = [e \in Escalation |-> IF e \in S THEN NULL ELSE Holder[e]]
    <3>1. ASSUME NEW e \in Escalation
          PROVE  Holder'[e] = IF e \in S THEN NULL ELSE Holder[e]
      <4>1. left[e] \in -1..Ttl /\ lockedBy'[e] = lockedBy[e] /\ answer'[e] = answer[e]
        BY <1>7 DEF Tick, ClaimsTypeOK
      <4>2. left'[e] = IF lockedBy[e] # NULL /\ left[e] >= 0 THEN left[e] - 1 ELSE left[e]
        BY <1>7 DEF Tick
      <4> QED
        BY <4>1, <4>2 DEF Holder, Expired
    <3> QED
      BY <3>1 DEF Holder
  <2> QED
    BY <2>1, <2>2, LosingIsDrop
<1>8. CASE UNCHANGED claimVars
  BY <1>0, <1>8 DEF claimVars, escVars
<1> QED
  BY <1>1, <1>2, <1>25, <1>3, <1>4, <1>5, <1>6, <1>7, <1>8 DEF ClaimsNext, OperatorStep

\* operations.py keeps the desk's promise: the live claim is exclusive, only its
\* holder answers, and an answer is given once and kept.
THEOREM DeskImplemented == ClaimsSpec => ImplementsDesk
<1>1. ClaimsInit => Desk!DeskInit
  <2>1. ClaimsInit => /\ Holder = [e \in Escalation |-> NULL]
                     /\ AnsweredBy = [e \in Escalation |-> NULL]
    BY DEF ClaimsInit, Holder, AnsweredBy, Expired
  <2> QED
    BY <2>1, DeskMapped
<1> QED
  BY <1>1, DeskStep, RowsInvariant, PTL DEF ClaimsSpec, ImplementsDesk, Desk!DeskSpec
=============================================================================
