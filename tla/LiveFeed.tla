------------------------------ MODULE LiveFeed ------------------------------
(* The live feed (data_ingestion.py, feed_health.py): ingestion connects   *)
(* with the shared session and retries within a policy; each tick renews a *)
(* key that expires by itself, which the entry gate of the risk manager    *)
(* reads.                                                                  *)
EXTENDS SharedSession, Sequences

CONSTANTS
    Instruments,  \* instruments subscribed to
    StaleSeconds  \* FEED_STALE_SECONDS

ASSUME FeedAssumption == StaleSeconds \in Nat \ {0}

VARIABLES
    socket,   \* the SDK's connection
    feedKey,  \* what is left of the liveness key of each instrument
    tickAge   \* time since its last tick, up to StaleSeconds + 1

feedVars == <<socket, feedKey, tickAge>>

FeedInit ==
    /\ SessionInit
    /\ socket = "none"
    /\ feedKey = [i \in Instruments |-> 0]
    /\ tickAge = [i \in Instruments |-> StaleSeconds + 1]

-----------------------------------------------------------------------------

(* _connect_and_subscribe with the client in hand: the retry counter is    *)
(* reset, and the process sleeps from then on.                             *)
Subscribes ==
    /\ pc[Ingestion] = "has"
    /\ \/ /\ brokerUp /\ session[Ingestion] = "live"
          /\ Goes(Ingestion, "connected", 0)
          /\ attempts' = 0 /\ socket' = "open"
          /\ UNCHANGED <<session, owner>>
       \/ /\ ~brokerUp \/ session[Ingestion] = "dead"
          /\ Raises(Ingestion)
          /\ UNCHANGED socket
    /\ UNCHANGED <<store, lock, faults>> /\ UNCHANGED environment
    /\ UNCHANGED <<feedKey, tickAge>>

(* The socket dies: _on_close logs it and nothing else happens.            *)
SocketCloses ==
    /\ socket = "open"
    /\ socket' = "closed"
    /\ UNCHANGED sessionVars /\ UNCHANGED <<feedKey, tickAge>>

(* What the records of a message may be: a tick of an instrument, a record *)
(* without a price, or one whose price is no number, which ends the loop.  *)
Records == Instruments \cup {"no_price", "not_a_number"}

Messages == {<<r>> : r \in Records} \cup (Records \X Records)

Read(message) ==
    {message[k] : k \in {j \in DOMAIN message :
                            \A b \in 1..j : message[b] # "not_a_number"}}
      \cap Instruments

(* _on_message, in the thread of the SDK: every tick read is published and *)
(* its key set, with the TTL (publish_liveness).                           *)
OnMessage(message) ==
    /\ socket = "open" /\ pc[Ingestion] = "connected"
    /\ feedKey' = [i \in Instruments |->
                      IF i \in Read(message) THEN StaleSeconds ELSE feedKey[i]]
    /\ tickAge' = [i \in Instruments |->
                      IF i \in Read(message) THEN 0 ELSE tickAge[i]]
    /\ UNCHANGED sessionVars /\ UNCHANGED socket

(* Mutant: a key set without its TTL.                                      *)
KeyWithoutTtl(key) == key

KeyAfter(key) == IF key > 0 THEN key - 1 ELSE 0

FeedTime ==
    /\ SessionTime
    /\ feedKey' = [i \in Instruments |-> KeyAfter(feedKey[i])]
    /\ tickAge' = [i \in Instruments |->
                      IF tickAge[i] <= StaleSeconds THEN tickAge[i] + 1 ELSE tickAge[i]]
    /\ UNCHANGED socket

(* The connection goes with the process that holds it.                     *)
SocketFollows ==
    socket' = IF pc'[Ingestion] = "connected" THEN socket ELSE "none"

Gets(p) == GetsOn(p) /\ UNCHANGED feedVars

FeedWorld ==
    \/ SessionWorld /\ SocketFollows /\ UNCHANGED <<feedKey, tickAge>>
    \/ SocketCloses
    \/ \E message \in Messages : OnMessage(message)

FeedNext == (\E p \in Modules : Gets(p)) \/ Subscribes \/ FeedTime \/ FeedWorld

(* The loop of each process runs on, and so does time; what the world does *)
(* is left to it.                                                          *)
FeedFairness ==
    /\ \A p \in Modules : WF_<<sessionVars, feedVars>>(Gets(p))
    /\ WF_<<sessionVars, feedVars>>(Subscribes)
    /\ WF_<<sessionVars, feedVars>>(FeedTime)

FeedSpec ==
    /\ FeedInit
    /\ [][FeedNext]_<<sessionVars, feedVars>>
    /\ FeedFairness

-----------------------------------------------------------------------------

(* is_feed_live, of the entry gate.                                        *)
IsFeedLive(i) == feedKey[i] > 0

(* An entry is never gated open on a price older than the limit, whatever  *)
(* became of ingestion, its socket or its session: a key that outlived its *)
(* tick would have the strategy trade a frozen market.                     *)
LiveMeansRecent == \A i \in Instruments : IsFeedLive(i) => tickAge[i] <= StaleSeconds

Connecting == pc[Ingestion] \in {"read", "take", "login", "validate", "publish",
                                 "unlock", "wait", "backoff", "has"}

(* Once it starts, ingestion connects or halts the bot loudly (or is       *)
(* killed): it never retries for ever, whoever holds the login lock and    *)
(* however the broker comes and goes.                                      *)
ConnectsOrHalts == Connecting ~> ~Connecting

(* Stream ticks, reconnecting on failure until interrupted or exhausted    *)
(* (data_ingestion.py:144).                                                *)
Reconnects == (socket = "closed") ~> (socket = "open" \/ pc[Ingestion] # "connected")

============================================================================
