------------------------ MODULE OperatorQueueProofs ------------------------
(***************************************************************************)
(* What is proved of the operators' queue for any number of escalations,   *)
(* any page size and any priorities: its types, that reading it is no      *)
(* business of the desk's, that no listing shows an escalation twice and   *)
(* that none passes over a free one.                                       *)
(***************************************************************************)
EXTENDS OperatorQueue, EscalationClaimsProofs, FiniteSetTheorems, WellFoundedInduction

USE QueueAssumption

\* What the variables of the listing hold.
ListTypes ==
  /\ priority \in [Escalation -> Priority]
  /\ cursor \in Cursor \cup {NULL}
  /\ shown \subseteq Escalation
  /\ waiting \subseteq Escalation

LEMMA PageOfEscalations == Page \subseteq Escalation /\ Page \subseteq Selected
BY DEF Page, Fetched, FirstOf, Selected

\* Every step keeps the types of the listing.
LEMMA ListTypesStep ==
  ASSUME ListTypes, [QueueNext]_queueVars
  PROVE  ListTypes'
<1> USE DEF ListTypes
<1>1. CASE ListPage
  <2>1. CASE Cardinality(Fetched) > PageSize
    <3>1. PICK last \in Page :
            /\ cursor' = Key(last)
            /\ shown' = shown \cup Page
            /\ waiting' = Owed \ Page
      BY <1>1, <2>1 DEF ListPage
    <3>2. Key(last) \in Cursor
      BY <3>1, PageOfEscalations DEF Key, Cursor
    <3>3. Owed \subseteq Escalation
      BY DEF Owed
    <3> QED BY <1>1, <3>1, <3>2, <3>3, PageOfEscalations DEF ListPage
  <2>2. CASE ~(Cardinality(Fetched) > PageSize)
    BY <1>1, <2>2 DEF ListPage
  <2> QED BY <2>1, <2>2
<1>2. CASE DeskGoesOn
  BY <1>2 DEF DeskGoesOn
<1>3. ASSUME NEW e \in Escalation, RaisePriority(e) PROVE ListTypes'
  BY <1>3 DEF RaisePriority, Priority
<1>4. CASE UNCHANGED queueVars
  BY <1>4 DEF queueVars, listVars
<1> QED BY <1>1, <1>2, <1>3, <1>4 DEF QueueNext

\* For the desk a listing and a raised priority are stutters.
LEMMA QueueStepIsClaims == [QueueNext]_queueVars => [ClaimsNext]_claimVars
BY DEF QueueNext, queueVars, DeskGoesOn, ListPage, RaisePriority

\* Reading the queue and raising priorities leave the desk alone: what is proved of
\* the desk holds beside them (queue only reads, request_human writes a priority).
THEOREM DeskUndisturbed == QueueSpec => ClaimsSpec
<1>1. QueueInit => ClaimsInit
  BY DEF QueueInit
<1> QED BY <1>1, QueueStepIsClaims, PTL DEF QueueSpec, ClaimsSpec

\* The rows of the desk and the listing keep their types; a cursor is always the key
\* of a row.
THEOREM QueueTypeCorrect == QueueSpec => []QueueTypeOK
<1>1. QueueInit => ListTypes
  BY DEF QueueInit, ListTypes
<1>2. ClaimsTypeOK /\ ListTypes => QueueTypeOK
  BY DEF ListTypes, QueueTypeOK
<1> QED BY <1>1, <1>2, ListTypesStep, DeskUndisturbed, TypeCorrect, PTL DEF QueueSpec
-----------------------------------------------------------------------------
\* What was not after the cursor is not after a later row's key either.
LEMMA CursorAdvances ==
  ASSUME ListTypes, cursor # NULL, NEW e \in Escalation, ~After(cursor, e),
         NEW last \in Escalation, After(cursor, last)
  PROVE  ~After(Key(last), e)
<1>1. /\ cursor.priority \in Nat /\ cursor.seniority \in Nat
      /\ priority[e] \in Nat /\ priority[last] \in Nat
      /\ Seniority[e] \in Nat /\ Seniority[last] \in Nat
  BY DEF ListTypes, Cursor, Priority
<1> QED BY <1>1 DEF After, Key

\* A page goes up to its last row: none of it is after that row's key.
LEMMA PageEndsAtLast ==
  ASSUME ListTypes, NEW last \in Page, \A f \in Page \ {last} : Before(f, last),
         NEW e \in Page
  PROVE  ~After(Key(last), e)
<1>1. /\ priority[e] \in Nat /\ priority[last] \in Nat
      /\ Seniority[e] \in Nat /\ Seniority[last] \in Nat
  BY PageOfEscalations DEF ListTypes, Priority
<1>2. CASE e = last
  BY <1>1, <1>2 DEF After, Key
<1>3. CASE e # last
  BY <1>1, <1>3 DEF After, Key, Before
<1> QED BY <1>2, <1>3

\* Each page moves the cursor past all it shows, and priorities only rise.
LEMMA ShownStep ==
  ASSUME ListTypes, NothingShownTwice, [QueueNext]_queueVars
  PROVE  NothingShownTwice'
<1>1. CASE ListPage
  <2>1. CASE Cardinality(Fetched) > PageSize
    <3>1. PICK last \in Page :
            /\ \A f \in Page \ {last} : Before(f, last)
            /\ cursor' = Key(last)
            /\ shown' = shown \cup Page
      BY <1>1, <2>1 DEF ListPage
    <3>2. cursor' # NULL
      BY <3>1, PageOfEscalations DEF Key, Cursor, ListTypes
    <3>3. ASSUME NEW e \in shown' PROVE ~After(Key(last), e)
      <4>1. CASE e \in Page
        BY <3>1, <4>1, PageEndsAtLast
      <4>2. CASE e \in shown
        <5>1. cursor # NULL /\ ~After(cursor, e)
          BY <4>2 DEF NothingShownTwice
        <5>2. After(cursor, last)
          BY <5>1, PageOfEscalations DEF Selected
        <5> QED BY <4>2, <5>1, <5>2, PageOfEscalations, CursorAdvances DEF ListTypes
      <4> QED BY <3>1, <3>3, <4>1, <4>2
    <3>4. priority' = priority
      BY <1>1 DEF ListPage
    <3> QED BY <3>1, <3>2, <3>3, <3>4 DEF NothingShownTwice, After
  <2>2. CASE ~(Cardinality(Fetched) > PageSize)
    BY <1>1, <2>2 DEF ListPage, NothingShownTwice
  <2> QED BY <2>1, <2>2
<1>2. CASE DeskGoesOn
  BY <1>2 DEF DeskGoesOn, NothingShownTwice, After
<1>3. ASSUME NEW e \in Escalation, RaisePriority(e) PROVE NothingShownTwice'
  <2>1. \A f \in Escalation : priority[f] \in Nat /\ priority'[f] \in Nat
    BY <1>3 DEF RaisePriority, ListTypes, Priority
  <2>2. \A f \in Escalation : priority'[f] >= priority[f] /\ (f # e => priority'[f] = priority[f])
                              /\ (f = e => priority'[f] > priority[f])
    BY <1>3, <2>1 DEF RaisePriority, ListTypes
  <2>3. ASSUME NEW f \in shown PROVE cursor # NULL /\ ~After(cursor, f)'
    <3>1. cursor # NULL /\ ~After(cursor, f) /\ cursor' = cursor
      BY <1>3 DEF NothingShownTwice, RaisePriority
    <3>2. cursor.priority \in Nat /\ cursor.seniority \in Nat
      BY <3>1 DEF ListTypes, Cursor, Priority
    <3> QED BY <2>1, <2>2, <3>1, <3>2 DEF After, ListTypes
  <2> QED BY <1>3, <2>3 DEF RaisePriority, NothingShownTwice
<1>4. CASE UNCHANGED queueVars
  BY <1>4 DEF queueVars, listVars, NothingShownTwice, After
<1> QED BY <1>1, <1>2, <1>3, <1>4 DEF QueueNext

\* No listing shows an escalation twice, whatever is claimed, released, answered or
\* raised between its pages.
THEOREM NothingTwice == QueueSpec => []NothingShownTwice
<1>1. QueueInit => ListTypes /\ NothingShownTwice
  BY DEF QueueInit, ListTypes, NothingShownTwice
<1> QED BY <1>1, ListTypesStep, ShownStep, PTL DEF QueueSpec
-----------------------------------------------------------------------------
(* Pages.  Before is a strict total order, so what FirstOf takes of a set   *)
(* is the beginning of it, and all of it unless that has n members.         *)

LEMMA BeforeIsOrder ==
  ASSUME ListTypes
  PROVE  /\ \A e \in Escalation : ~Before(e, e)
         /\ \A e, f, g \in Escalation : Before(e, f) /\ Before(f, g) => Before(e, g)
         /\ \A e, f \in Escalation : e = f \/ Before(e, f) \/ Before(f, e)
<1>1. \A e \in Escalation : priority[e] \in Nat /\ Seniority[e] \in Nat
  BY DEF ListTypes, Priority
<1> QED BY <1>1 DEF Before

\* What comes before a member of FirstOf is one as well.
LEMMA FirstOfIsBeginning ==
  ASSUME ListTypes, NEW S \in SUBSET Escalation, NEW n \in Nat,
         NEW e \in FirstOf(S, n), NEW f \in S, Before(f, e)
  PROVE  f \in FirstOf(S, n)
<1> DEFINE P(g) == {h \in S : Before(h, g)}
<1>1. IsFiniteSet(S) /\ e \in S
  BY FS_Subset DEF FirstOf
<1>2. IsFiniteSet(P(e)) /\ P(f) \in SUBSET P(e)
  BY <1>1, BeforeIsOrder, FS_Subset
<1>3. /\ Cardinality(P(f)) <= Cardinality(P(e))
      /\ Cardinality(P(f)) \in Nat /\ Cardinality(P(e)) \in Nat
  BY <1>2, FS_Subset, FS_CardinalityType
<1>4. Cardinality(P(e)) < n
  BY DEF FirstOf
<1>5. Cardinality(P(f)) < n
  BY <1>3, <1>4
<1> QED BY <1>5 DEF FirstOf

\* If FirstOf leaves something out it has taken n rows: all those before the first
\* row it left out.
LEMMA ShortIsWhole ==
  ASSUME ListTypes, NEW S \in SUBSET Escalation, NEW n \in Nat, FirstOf(S, n) # S
  PROVE  Cardinality(FirstOf(S, n)) >= n
<1> DEFINE P(g) == {h \in S : Before(h, g)}
           Rest == S \ FirstOf(S, n)
           T == {P(g) : g \in Rest}
<1>1. IsFiniteSet(S) /\ FirstOf(S, n) \in SUBSET S /\ Rest # {}
  BY FS_Subset DEF FirstOf
<1>2. T \subseteq FiniteSubsetsOf(S) /\ T # {}
  <2>1. \A g \in S : P(g) \in SUBSET S /\ IsFiniteSet(P(g))
    BY <1>1, FS_Subset
  <2>2. ASSUME NEW X \in T PROVE X \in FiniteSubsetsOf(S)
    <3>1. PICK g \in Rest : X = P(g)
      OBVIOUS
    <3>2. X \in SUBSET S /\ IsFiniteSet(X)
      BY <2>1, <3>1
    <3> QED BY <3>2, Zenon DEF FiniteSubsetsOf
  <2>3. T # {}
    <3>1. PICK g \in Rest : TRUE
      BY <1>1
    <3>2. P(g) \in T
      OBVIOUS
    <3> QED BY <3>2, Zenon
  <2> QED BY <2>2, <2>3, Zenon
<1>3. PICK X \in T : \A Y \in T : <<Y, X>> \notin StrictSubsetOrdering(S)
  <2>1. IsWellFoundedOn(StrictSubsetOrdering(S), FiniteSubsetsOf(S))
    BY FS_StrictSubsetOrderingWellFounded
  <2> HIDE DEF T
  <2> QED BY <1>2, <2>1, WFMin
<1>4. PICK e \in Rest : X = P(e)
  BY <1>3
<1>5. P(e) \subseteq FirstOf(S, n)
  <2> SUFFICES ASSUME NEW f \in P(e), f \notin FirstOf(S, n) PROVE FALSE
    OBVIOUS
  <2>1. f \in Rest /\ P(f) \in T /\ f \notin P(f) /\ P(f) \subseteq P(e)
    BY BeforeIsOrder
  <2>2. <<P(f), P(e)>> \in StrictSubsetOrdering(S)
    BY <2>1 DEF StrictSubsetOrdering
  <2> QED BY <1>3, <1>4, <2>1, <2>2
<1>6. IsFiniteSet(FirstOf(S, n)) /\ IsFiniteSet(P(e))
  BY <1>1, FS_Subset
<1>7. /\ Cardinality(P(e)) <= Cardinality(FirstOf(S, n))
      /\ Cardinality(P(e)) \in Nat /\ Cardinality(FirstOf(S, n)) \in Nat
  BY <1>5, <1>6, FS_Subset, FS_CardinalityType
<1>8. ~(Cardinality(P(e)) < n)
  BY DEF FirstOf
<1> QED BY <1>7, <1>8

\* A listing ends with a page that holds all that is left.
LEMMA LastPageIsWhole ==
  ASSUME ListTypes, Cardinality(Fetched) <= PageSize
  PROVE  Page = Selected
<1>1. /\ Selected \in SUBSET Escalation /\ Fetched \in SUBSET Escalation
      /\ Page \in SUBSET Fetched
  BY DEF Selected, Fetched, FirstOf, Page
<1>2. /\ IsFiniteSet(Fetched) /\ Cardinality(Fetched) \in Nat
      /\ IsFiniteSet(Page) /\ Cardinality(Page) \in Nat
      /\ Cardinality(Page) <= Cardinality(Fetched)
      /\ Cardinality(Fetched) = Cardinality(Page) => Fetched = Page
  BY <1>1, FS_Subset, FS_CardinalityType
<1>3. Fetched = Selected
  <2>1. Fetched # Selected => Cardinality(Fetched) >= PageSize + 1
    BY <1>1, ShortIsWhole DEF Fetched
  <2> QED BY <1>2, <2>1
<1>4. Page = Fetched
  <2>1. Page # Fetched => Cardinality(Page) >= PageSize
    BY <1>1, ShortIsWhole DEF Page
  <2> QED BY <1>2, <2>1
<1> QED BY <1>3, <1>4
-----------------------------------------------------------------------------
\* What a listing owes lies ahead of its cursor and is free.
WaitingIsAhead ==
  \A e \in waiting : cursor # NULL /\ Free(e) /\ After(cursor, e)

\* A free escalation is one the query offers.
LEMMA FreeIsAvailable ==
  ASSUME ClaimsTypeOK, RowsAgree, NEW e \in Escalation, Free(e)
  PROVE  Available(e)
BY DEF ClaimsTypeOK, RowsAgree, LockedIffInProgress, Free, Open, Expired, Available

LEMMA OwedIsSelected ==
  ASSUME ClaimsTypeOK, RowsAgree, ListTypes, WaitingIsAhead
  PROVE  Owed \subseteq Selected /\ \A e \in Owed : Free(e)
BY FreeIsAvailable DEF ListTypes, WaitingIsAhead, Owed, Selected

\* A page leaves nothing behind: what it owes and does not show comes after its
\* last row.
LEMMA WaitingStep ==
  ASSUME ClaimsTypeOK, RowsAgree, ListTypes, WaitingIsAhead, [QueueNext]_queueVars
  PROVE  WaitingIsAhead'
<1>1. CASE ListPage
  <2>1. CASE Cardinality(Fetched) > PageSize
    <3>1. PICK last \in Page :
            /\ \A f \in Page \ {last} : Before(f, last)
            /\ cursor' = Key(last)
            /\ waiting' = Owed \ Page
      BY <1>1, <2>1 DEF ListPage
    <3>2. cursor' # NULL
      BY <3>1, PageOfEscalations DEF Key, Cursor, ListTypes
    <3>3. ASSUME NEW e \in waiting' PROVE Free(e)' /\ After(cursor, e)'
      <4>1. e \in Selected /\ Free(e) /\ e \notin Page
        BY <3>1, <3>3, OwedIsSelected
      <4>2. ~Before(e, last)
        <5>1. ASSUME Before(e, last) PROVE FALSE
          <6>1. /\ Selected \in SUBSET Escalation /\ Fetched \in SUBSET Escalation
                /\ last \in Fetched
            BY DEF Selected, Fetched, FirstOf, Page
          <6>2. e \in Fetched
            BY <4>1, <5>1, <6>1, FirstOfIsBeginning DEF Fetched
          <6>3. e \in Page
            BY <5>1, <6>1, <6>2, FirstOfIsBeginning DEF Page
          <6> QED BY <4>1, <6>3
        <5> QED BY <5>1
      <4>3. Before(last, e)
        BY <4>1, <4>2, PageOfEscalations, BeforeIsOrder DEF Selected
      <4>4. After(Key(last), e)
        BY <4>3 DEF Before, After, Key
      <4> QED BY <1>1, <3>1, <4>1, <4>4
              DEF ListPage, claimVars, Free, Open, Expired, After
    <3> QED BY <3>2, <3>3 DEF WaitingIsAhead
  <2>2. CASE ~(Cardinality(Fetched) > PageSize)
    BY <1>1, <2>2 DEF ListPage, WaitingIsAhead
  <2> QED BY <2>1, <2>2
<1>2. CASE DeskGoesOn
  BY <1>2 DEF DeskGoesOn, WaitingIsAhead, After
<1>3. ASSUME NEW e \in Escalation, RaisePriority(e) PROVE WaitingIsAhead'
  BY <1>3 DEF RaisePriority, ListTypes, WaitingIsAhead, After, Free, Open, Expired, claimVars
<1>4. CASE UNCHANGED queueVars
  BY <1>4 DEF queueVars, listVars, claimVars, WaitingIsAhead, After, Free, Open, Expired
<1> QED BY <1>1, <1>2, <1>3, <1>4 DEF QueueNext

\* A listing that ends has shown every escalation that was free all the while, one
\* with an expired claim included, unless a client raised it in between.
THEOREM NothingMissed == QueueSpec => []ListingMissesNothing
<1>1. QueueInit => ListTypes /\ WaitingIsAhead
  BY DEF QueueInit, ListTypes, WaitingIsAhead
<1>2. ClaimsTypeOK /\ RowsAgree /\ ListTypes /\ WaitingIsAhead => ListingMissesNothing
  BY OwedIsSelected, LastPageIsWhole DEF ListingMissesNothing
<1> QED
  BY <1>1, <1>2, ListTypesStep, WaitingStep, DeskUndisturbed, RowsInvariant, PTL
     DEF QueueSpec
=============================================================================
