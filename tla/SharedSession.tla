--------------------------- MODULE SharedSession ---------------------------
(* One broker login shared by the modules of a day (auth_session.py,       *)
(* auth.py): a module restores the published session, or wins the login    *)
(* lock, logs in and publishes, or waits for the one that does.  Time is   *)
(* kept as what is left of each delay; a step of Redis takes none of it.   *)
EXTENDS Naturals, FiniteSets

CONSTANTS
    Modules,      \* processes that need a session
    Ingestion,    \* the one that tries again by its reconnection policy
    Engine,       \* the one that asks at its next order, and refreshes
    LockTTL,      \* KOTAK_LOGIN_LOCK_TTL_SECONDS
    WaitSeconds,  \* wait_seconds
    CallTime,     \* longest call of the SDK under bound_network_calls
    TotpWindow,   \* life of a TOTP code
    Base, Cap,    \* RECONNECT_BASE_SECONDS and RECONNECT_MAX_SECONDS
    MaxAttempts,  \* RECONNECT_MAX_ATTEMPTS
    MaxFaults     \* bound: crashes, expired sessions and failures of Redis

ASSUME SessionAssumption ==
    /\ Ingestion \in Modules /\ Engine \in Modules /\ Ingestion # Engine
    /\ \A n \in {LockTTL, WaitSeconds, CallTime, TotpWindow, Base, Cap} :
          n \in Nat \ {0}
    /\ MaxAttempts \in Nat /\ MaxFaults \in Nat

VARIABLES
    pc,         \* where each module is in get_session
    left,       \* time each may still take there
    owner,      \* acquired: it logs in under the lock
    session,    \* the client each holds
    store,      \* the published session of the day
    lock,       \* what is left of the lock; 0 when there is none
    attempts,   \* of ingestion's ReconnectPolicy
    window,     \* what is left of the current code
    codeUsed,   \* the broker has seen the current code
    brokerUp,   \* the broker answers logins
    logins,     \* history: logins so far, of two at most
    lapsed,     \* history: the lock expired under its owner
    faults

sessionVars == <<pc, left, owner, session, store, lock, attempts, window,
                 codeUsed, brokerUp, logins, lapsed, faults>>

Sessions == {"none", "live", "dead"}

LoggingIn == {"login", "validate"}

UnderLock == LoggingIn \cup {"publish", "unlock"}

Redis == {"read", "take", "publish", "unlock", "clear"}

Idle == {"off", "has", "connected", "failed", "halted"}

SessionInit ==
    /\ pc = [p \in Modules |-> "off"]
    /\ left = [p \in Modules |-> 0]
    /\ owner = [p \in Modules |-> FALSE]
    /\ session = [p \in Modules |-> "none"]
    /\ store = "none" /\ lock = 0 /\ attempts = 0
    /\ window \in 1..TotpWindow /\ codeUsed = FALSE /\ brokerUp = TRUE
    /\ logins = 0 /\ lapsed = FALSE /\ faults = 0

-----------------------------------------------------------------------------

Goes(p, place, time) ==
    /\ pc' = [pc EXCEPT ![p] = place]
    /\ left' = [left EXCEPT ![p] = time]

(* ReconnectPolicy.next_delay: doubled each time, capped, and off by up    *)
(* to a quarter either way.                                                *)
Delays == LET delay == IF Base * 2 ^ attempts > Cap THEN Cap ELSE Base * 2 ^ attempts
              spread == delay \div 4
          IN  delay - spread .. delay + spread

(* Mutant: a policy that never runs out.                                   *)
RaisesForever(p) ==
    /\ session' = [session EXCEPT ![p] = "none"]
    /\ owner' = [owner EXCEPT ![p] = FALSE]
    /\ UNCHANGED attempts
    /\ \/ p = Ingestion /\ \E delay \in Delays : Goes(p, "backoff", delay)
       \/ p = Engine /\ Goes(p, "off", 1)
       \/ p \notin {Ingestion, Engine} /\ Goes(p, "failed", 0)

(* get_session raises: ingestion backs off until its attempts are spent    *)
(* and halts then, the engine asks again when the order comes back, and    *)
(* the others end there.                                                   *)
Raises(p) ==
    /\ session' = [session EXCEPT ![p] = "none"]
    /\ owner' = [owner EXCEPT ![p] = FALSE]
    /\ \/ /\ p = Ingestion /\ attempts < MaxAttempts
          /\ attempts' = attempts + 1
          /\ \E delay \in Delays : Goes(p, "backoff", delay)
       \/ /\ p = Ingestion /\ attempts >= MaxAttempts
          /\ Goes(p, "halted", 0)
          /\ UNCHANGED attempts
       \/ /\ p = Engine
          /\ Goes(p, "off", 1)
          /\ UNCHANGED attempts
       \/ /\ p \notin {Ingestion, Engine}
          /\ Goes(p, "failed", 0)
          /\ UNCHANGED attempts

Restores(p) ==
    /\ session' = [session EXCEPT ![p] = store]
    /\ Goes(p, "has", 0)

(* One call to Redis fails, within the bound on faults.                    *)
RedisFails == faults < MaxFaults /\ faults' = faults + 1

RedisWorks == UNCHANGED faults

environment == <<window, codeUsed, brokerUp, logins, lapsed>>

(* A module starts, an order is due or a delay is over: get_session.       *)
Asks(p) ==
    /\ pc[p] \in {"off", "backoff"} /\ left[p] = 0
    /\ Goes(p, "read", 0)
    /\ UNCHANGED <<owner, session, store, lock, attempts, faults>>
    /\ UNCHANGED environment

(* read_session at the entry of get_session: a failure reads as no session.*)
Reads(p) ==
    /\ pc[p] = "read"
    /\ \/ RedisWorks /\ store # "none" /\ Restores(p)
       \/ RedisWorks /\ store = "none" /\ Goes(p, "take", 0) /\ UNCHANGED session
       \/ RedisFails /\ Goes(p, "take", 0) /\ UNCHANGED session
    /\ UNCHANGED <<owner, store, lock, attempts>> /\ UNCHANGED environment

(* Mutant: a SET without NX.                                               *)
TakesLockAnyway(p) ==
    /\ lock' = LockTTL
    /\ owner' = [owner EXCEPT ![p] = TRUE]
    /\ Goes(p, "login", CallTime)

(* The SET NX EX of the lock; without Redis the login is not coordinated.  *)
TakesLock(p) ==
    /\ lock = 0
    /\ lock' = LockTTL
    /\ owner' = [owner EXCEPT ![p] = TRUE]
    /\ Goes(p, "login", CallTime)

Takes(p) ==
    /\ pc[p] = "take"
    /\ \/ RedisWorks /\ TakesLock(p)
       \/ /\ RedisWorks /\ lock > 0
          /\ Goes(p, "wait", WaitSeconds)
          /\ UNCHANGED <<lock, owner>>
       \/ RedisFails /\ Goes(p, "login", CallTime) /\ UNCHANGED <<lock, owner>>
    /\ UNCHANGED <<session, store, attempts>> /\ UNCHANGED environment

(* A login that fails raises through the finally that deletes the lock.    *)
LoginFails(p) ==
    IF owner[p]
    THEN Goes(p, "unlock", 0) /\ UNCHANGED <<session, owner, attempts>>
    ELSE Raises(p)

(* totp_login with the code of now: the broker takes each code once.       *)
TotpLogin(p) ==
    /\ pc[p] = "login"
    /\ \/ /\ brokerUp /\ ~codeUsed
          /\ codeUsed' = TRUE
          /\ Goes(p, "validate", CallTime)
          /\ UNCHANGED <<session, owner, attempts>>
       \/ /\ brokerUp => codeUsed
          /\ LoginFails(p)
          /\ UNCHANGED codeUsed
    /\ UNCHANGED <<store, lock, window, brokerUp, logins, lapsed, faults>>

(* totp_validate: the client is authenticated.                             *)
TotpValidate(p) ==
    /\ pc[p] = "validate"
    /\ \/ /\ brokerUp
          /\ logins' = IF logins < 2 THEN logins + 1 ELSE 2
          /\ session' = [session EXCEPT ![p] = "live"]
          /\ Goes(p, IF owner[p] THEN "publish" ELSE "has", 0)
          /\ UNCHANGED <<owner, attempts>>
       \/ /\ ~brokerUp
          /\ LoginFails(p)
          /\ UNCHANGED logins
    /\ UNCHANGED <<store, lock, window, codeUsed, brokerUp, lapsed, faults>>

(* write_session: a failure is logged and the module keeps its client.     *)
Publishes(p) ==
    /\ pc[p] = "publish"
    /\ \/ RedisWorks /\ store' = session[p]
       \/ RedisFails /\ UNCHANGED store
    /\ Goes(p, "unlock", 0)
    /\ UNCHANGED <<owner, session, lock, attempts>> /\ UNCHANGED environment

(* The finally of get_session: DEL of the lock, whoever holds it by now.   *)
Unlocks(p) ==
    /\ pc[p] = "unlock"
    /\ \/ RedisWorks /\ lock' = 0
       \/ RedisFails /\ UNCHANGED lock
    /\ IF session[p] = "none"
       THEN Raises(p)
       ELSE /\ Goes(p, "has", 0)
            /\ owner' = [owner EXCEPT ![p] = FALSE]
            /\ UNCHANGED <<session, attempts>>
    /\ UNCHANGED store /\ UNCHANGED environment

(* The poll of the shared session, every half second until the deadline.   *)
Polls(p) ==
    /\ pc[p] = "wait"
    /\ \/ store # "none" /\ Restores(p) /\ UNCHANGED <<owner, attempts>>
       \/ left[p] = 0 /\ Raises(p)
    /\ UNCHANGED <<store, lock, faults>> /\ UNCHANGED environment

(* refresh_after_expiry: a call of the engine finds its session dead.      *)
FindsExpired(p) ==
    /\ p = Engine /\ pc[p] = "has" /\ session[p] = "dead"
    /\ Goes(p, "clear", 0)
    /\ UNCHANGED <<owner, session, store, lock, attempts, faults>>
    /\ UNCHANGED environment

Clears(p) ==
    /\ pc[p] = "clear"
    /\ \/ RedisWorks /\ store' = "none"
       \/ RedisFails /\ UNCHANGED store
    /\ session' = [session EXCEPT ![p] = "none"]
    /\ Goes(p, "read", 0)
    /\ UNCHANGED <<owner, lock, attempts>> /\ UNCHANGED environment

-----------------------------------------------------------------------------

(* A process dies where it is: its lock stays until it expires.            *)
Crashes(p) ==
    /\ pc[p] \notin {"off", "failed", "halted"} /\ faults < MaxFaults
    /\ faults' = faults + 1
    /\ Goes(p, "off", 0)
    /\ owner' = [owner EXCEPT ![p] = FALSE]
    /\ session' = [session EXCEPT ![p] = "none"]
    /\ attempts' = IF p = Ingestion THEN 0 ELSE attempts
    /\ UNCHANGED <<store, lock>> /\ UNCHANGED environment

(* The broker ends every session of the account.                           *)
SessionsEnd ==
    /\ faults < MaxFaults /\ "live" \in {session[p] : p \in Modules} \cup {store}
    /\ faults' = faults + 1
    /\ session' = [p \in Modules |-> IF session[p] = "live" THEN "dead" ELSE session[p]]
    /\ store' = IF store = "live" THEN "dead" ELSE store
    /\ UNCHANGED <<pc, left, owner, lock, attempts>> /\ UNCHANGED environment

BrokerTurns ==
    /\ brokerUp' = ~brokerUp
    /\ UNCHANGED <<pc, left, owner, session, store, lock, attempts, window,
                   codeUsed, logins, lapsed, faults>>

(* Time passes when nobody has a step of Redis, or a late one, to take.    *)
SessionTime ==
    /\ \A p \in Modules : pc[p] \notin Redis /\ (pc[p] \in Idle \/ left[p] > 0)
    /\ left' = [p \in Modules |-> IF left[p] > 0 THEN left[p] - 1 ELSE 0]
    /\ lock' = IF lock > 0 THEN lock - 1 ELSE 0
    /\ lapsed' = (lapsed \/ (lock = 1 /\ \E p \in Modules :
                                owner[p] /\ pc[p] \in UnderLock))
    /\ window' = IF window > 1 THEN window - 1 ELSE TotpWindow
    /\ codeUsed' = (codeUsed /\ window > 1)
    /\ UNCHANGED <<pc, owner, session, store, attempts, brokerUp, logins,
                   faults>>

(* A call of get_session from its entry to its return.                     *)
GetsOn(p) ==
    \/ Asks(p) \/ Reads(p) \/ Takes(p) \/ TotpLogin(p) \/ TotpValidate(p)
    \/ Publishes(p) \/ Unlocks(p) \/ Polls(p) \/ FindsExpired(p) \/ Clears(p)

SessionWorld == (\E p \in Modules : Crashes(p)) \/ SessionsEnd \/ BrokerTurns

-----------------------------------------------------------------------------

SessionTypeOK ==
    /\ pc \in [Modules -> Redis \cup Idle \cup LoggingIn \cup {"wait", "backoff"}]
    /\ left \in [Modules -> Nat]
    /\ owner \in [Modules -> BOOLEAN]
    /\ session \in [Modules -> Sessions] /\ store \in Sessions
    /\ lock \in 0..LockTTL /\ attempts \in 0..MaxAttempts
    /\ window \in 1..TotpWindow
    /\ {codeUsed, brokerUp, lapsed} \subseteq BOOLEAN
    /\ logins \in 0..2 /\ faults \in 0..MaxFaults

(* Two modules never log in at once under the lock, unless it expired      *)
(* under the first, whose login outlasted the TTL: each would spend a code *)
(* of the same window, and the broker rejects the second.                  *)
OneLoginAtATime ==
    lapsed \/ \A p, q \in Modules :
        {pc[p], pc[q]} \subseteq LoggingIn /\ owner[p] /\ owner[q] => p = q

(* Exactly one TOTP is consumed however many modules start at once         *)
(* (auth_session.py:19), where no call to Redis fails, nothing crashes and *)
(* the lock outlives the login.                                            *)
OneLoginADay == lapsed \/ faults > 0 \/ logins <= 1

============================================================================
