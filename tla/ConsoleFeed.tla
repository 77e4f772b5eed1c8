----------------------------- MODULE ConsoleFeed -----------------------------
(***************************************************************************)
(* How an operator's console hears of new escalations: the hint the        *)
(* consumer publishes after its commit, the bridge from RabbitMQ to the    *)
(* event loop (app/messaging/ws_bridge.py), the hub of connected sockets   *)
(* (app/api/ws.py) and the console that reads the queue again over REST    *)
(* whenever its socket says anything (console/src/useEscalationFeed.ts).   *)
(* What happens to the escalations themselves is TicketLifecycle.          *)
(*                                                                         *)
(* The console reads the queue at once when it is told to: a later answer  *)
(* only shows more, and an earlier request that is still under way is      *)
(* dropped (pages/Queue.tsx).  A broadcast is one step: it sends to the    *)
(* sockets that were in the hub when it began, one after the other, and a  *)
(* socket that fails is removed.  A hint may be lost at any moment before  *)
(* that: the consumer dies between commit and publication, the broker or   *)
(* the bridge is away.                                                     *)
(***************************************************************************)
EXTENDS TicketLifecycle

CONSTANT Console

VARIABLES
  due,       \* escalations whose hint is on its way to the hub
  conn,      \* per console, how far its socket has come
  unseen     \* history: per console, the escalations announced without it since
             \*   it last read the queue

feedVars == <<due, conn, unseen>>
consoleVars == <<lifecycleVars, feedVars>>

FeedTypeOK ==
  /\ LifecycleTypeOK
  /\ due \subseteq queued
  /\ conn \in [Console -> {"closed", "accepted", "added", "greeted"}]
  /\ unseen \in [Console -> SUBSET Escalation]

FeedInit ==
  /\ LifecycleInit
  /\ due = {}
  /\ conn = [k \in Console |-> "closed"]
  /\ unseen = [k \in Console |-> {}]
-----------------------------------------------------------------------------
\* Faulty: the hello is not for the queue page.
ReloadsOnIgnoringHello == {"accepted"}

\* The stages of a connection that make the console read the queue: its opening
\* and the hello.
ReloadsOn == {"accepted", "greeted"}

\* The socket of k comes to the next stage.
Reach(k, stage) ==
  /\ conn' = [conn EXCEPT ![k] = stage]
  /\ unseen' = [unseen EXCEPT ![k] = IF stage \in ReloadsOn THEN {} ELSE @]
  /\ UNCHANGED <<lifecycleVars, due>>

\* escalations_socket: accept, then hub.add, then the hello.
Accept(k) == conn[k] = "closed" /\ Reach(k, "accepted")
Add(k) == conn[k] = "accepted" /\ Reach(k, "added")
Greet(k) == conn[k] = "added" /\ Reach(k, "greeted")

\* The socket closes on either side; the console connects anew after a while.
Close(k) ==
  /\ conn[k] # "closed"
  /\ conn' = [conn EXCEPT ![k] = "closed"]
  /\ unseen' = [unseen EXCEPT ![k] = {}]
  /\ UNCHANGED <<lifecycleVars, due>>

\* hub._clients
InHub(k) == conn[k] \in {"added", "greeted"}

\* The consumer has processed an event: a hint goes out.
LifeGoesOn ==
  /\ LifecycleNext
  /\ due' = due \cup (queued' \ queued)
  /\ UNCHANGED <<conn, unseen>>

\* NotifyBridge.on_message and hub.broadcast.
Broadcast(e) ==
  /\ e \in due
  /\ due' = due \ {e}
  /\ unseen' = [k \in Console |->
                  IF InHub(k) THEN {}
                  ELSE IF conn[k] = "closed" THEN unseen[k] ELSE unseen[k] \cup {e}]
  /\ UNCHANGED <<lifecycleVars, conn>>

LoseHint(e) ==
  /\ e \in due
  /\ due' = due \ {e}
  /\ UNCHANGED <<lifecycleVars, conn, unseen>>

FeedNext ==
  \/ LifeGoesOn
  \/ \E e \in Escalation : Broadcast(e) \/ LoseHint(e)
  \/ \E k \in Console : Accept(k) \/ Add(k) \/ Greet(k) \/ Close(k)

FeedSpec == FeedInit /\ [][FeedNext]_consoleVars /\ WF_lifecycleVars(Timeout)
-----------------------------------------------------------------------------
\* No hint falls between a console's first look at the queue and its place in the
\* hub: once it has been greeted it has read the queue since every broadcast it
\* did not get (escalations_socket: hub.add before the hello).
FeedHasNoGap == \A k \in Console : conn[k] = "greeted" => unseen[k] = {}
=============================================================================
