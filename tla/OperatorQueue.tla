--------------------------- MODULE OperatorQueue ---------------------------
(***************************************************************************)
(* The operators' queue: queue() of app/escalations/operations.py and its  *)
(* endpoint, read page by page while the rows change underneath.           *)
(*                                                                         *)
(* A page holds the PageSize first escalations after the cursor, by        *)
(* priority DESC, created_at ASC, id ASC, and hands the key of its last    *)
(* row back as the next cursor.  Nothing is locked between two pages:      *)
(* operators claim, release and answer (EscalationClaims), claims run out, *)
(* and a client's request for a human raises a priority.                   *)
(*                                                                         *)
(* One listing is followed at a time; listings only read, so they do not   *)
(* meet, and one that is left in the middle is one whose next page never   *)
(* comes.                                                                  *)
(***************************************************************************)
EXTENDS EscalationClaims

CONSTANTS
  PageSize,       \* limit
  Seniority,      \* the place of an escalation by (created_at, id)
  PRIORITY_STANDARD, PRIORITY_CLIENT_REQUESTED

Priority == {PRIORITY_STANDARD, PRIORITY_CLIENT_REQUESTED}
Cursor == [priority : Priority, seniority : Nat]

ASSUME QueueAssumption ==
  /\ IsFiniteSet(Escalation)
  /\ PageSize \in Nat \ {0}
  /\ PRIORITY_STANDARD \in Nat /\ PRIORITY_CLIENT_REQUESTED \in Nat
  /\ PRIORITY_STANDARD < PRIORITY_CLIENT_REQUESTED
  /\ Seniority \in [Escalation -> Nat]
  /\ \A e, f \in Escalation : Seniority[e] = Seniority[f] => e = f
  /\ NULL \notin Cursor

VARIABLES
  priority,    \* escalations.priority
  cursor,      \* next_cursor of the last page, or NULL: no listing goes on
  shown,       \* history: the escalations of the pages listed so far
  waiting      \* history: free and not raised ever since the listing began,
               \*   and on none of its pages yet

listVars == <<cursor, shown, waiting>>
queueVars == <<claimVars, priority, listVars>>

QueueTypeOK ==
  /\ ClaimsTypeOK
  /\ priority \in [Escalation -> Priority]
  /\ cursor \in Cursor \cup {NULL}
  /\ shown \subseteq Escalation
  /\ waiting \subseteq Escalation

QueueInit ==
  /\ ClaimsInit
  /\ priority \in [Escalation -> Priority]
  /\ cursor = NULL
  /\ shown = {}
  /\ waiting = {}
-----------------------------------------------------------------------------
\* Faulty: an escalation whose claim ran out is not offered before the sweep.
AvailablePendingOnly(e) == status[e] = "pending"

\* _available_condition: new, or with a claim that ran out.
Available(e) == status[e] = "pending" \/ (status[e] = "in_progress" /\ left[e] < 0)

\* Faulty: the row of the cursor comes again.
AfterInclusive(c, e) ==
  \/ priority[e] < c.priority
  \/ priority[e] = c.priority /\ Seniority[e] >= c.seniority

\* The WHERE of the keyset: e comes after the row the cursor was made of.
After(c, e) ==
  \/ priority[e] < c.priority
  \/ priority[e] = c.priority /\ Seniority[e] > c.seniority

\* _encode_cursor
Key(e) == [priority |-> priority[e], seniority |-> Seniority[e]]

\* What the query would return with no LIMIT.
Selected == {e \in Escalation : Available(e) /\ (cursor # NULL => After(cursor, e))}

\* ORDER BY priority DESC, created_at, id
Before(f, e) ==
  \/ priority[f] > priority[e]
  \/ priority[f] = priority[e] /\ Seniority[f] < Seniority[e]

\* ... LIMIT n
FirstOf(S, n) == {e \in S : Cardinality({f \in S : Before(f, e)}) < n}

\* The rows fetched: one more than the page shows, to know whether to go on.
Fetched == FirstOf(Selected, PageSize + 1)
Page == FirstOf(Fetched, PageSize)

\* An escalation any operator who does not hold it can claim now.
Free(e) == Open(e) /\ (lockedBy[e] = NULL \/ Expired(e))

\* What the listing owes its reader.
Owed == IF cursor = NULL THEN {e \in Escalation : Free(e)} ELSE waiting

\* queue, called with the cursor of the page before (with none: a new listing).
ListPage ==
  /\ IF Cardinality(Fetched) > PageSize
     THEN \E last \in Page :
            /\ \A f \in Page \ {last} : Before(f, last)
            /\ cursor' = Key(last)
            /\ shown' = shown \cup Page
            /\ waiting' = Owed \ Page
     ELSE cursor' = NULL /\ shown' = {} /\ waiting' = {}
  /\ UNCHANGED <<claimVars, priority>>

\* request_human, for a ticket with an open escalation.  It read the escalation
\* as open some time before; by its COMMIT anything may have become of it.  Its
\* UPDATE waits for the row lock.
RaisePriority(e) ==
  /\ ~Locked(e)
  /\ priority[e] < PRIORITY_CLIENT_REQUESTED
  /\ priority' = [priority EXCEPT ![e] = PRIORITY_CLIENT_REQUESTED]
  /\ waiting' = waiting \ {e}
  /\ UNCHANGED <<claimVars, cursor, shown>>

\* The desk works while somebody reads the queue.
DeskGoesOn ==
  /\ ClaimsNext
  /\ waiting' = {e \in waiting : Free(e)'}
  /\ UNCHANGED <<priority, cursor, shown>>

QueueNext ==
  \/ DeskGoesOn
  \/ ListPage
  \/ \E e \in Escalation : RaisePriority(e)

QueueSpec == QueueInit /\ [][QueueNext]_queueVars /\ ClaimsFairness
-----------------------------------------------------------------------------
\* No escalation comes twice in one listing, whatever is claimed, released or
\* raised between two pages (queue, "keyset, not OFFSET"): what has been shown
\* is never after the cursor again.
NothingShownTwice == \A e \in shown : cursor # NULL /\ ~After(cursor, e)

\* An escalation that is free for anyone to take during the whole listing is on
\* one of its pages, one whose claim ran out included, unless a client raised it
\* in between (queue): a page that would end the listing holds all it still owes.
ListingMissesNothing == Cardinality(Fetched) <= PageSize => Owed \subseteq Page
=============================================================================
