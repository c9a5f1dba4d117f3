------------------------------ MODULE Alerter ------------------------------
(* Alert routing (alerting.py): one process's alerter, its cooldown per    *)
(* condition, and its sinks, of which the stream and the webhook may fail. *)
EXTENDS Integers, Sequences, FiniteSetsExt

CONSTANTS
    Conditions,  \* dedup keys
    Cooldown,    \* ALERT_COOLDOWN_SECONDS
    MaxRaised    \* bound: alerts raised

ASSUME AlerterAssumption == Cooldown \in Nat \ {0} /\ MaxRaised \in Nat

VARIABLES
    raised,      \* history: alerts asked for, by condition
    sinceSent,   \* _last_sent: time since, up to Cooldown; Cooldown + 1: never
    suppressed,  \* _suppressed: repeats since the last emission
    suppressedTotal,
    emitted      \* history: what went to the sinks, oldest first

alertVars == <<raised, sinceSent, suppressed, suppressedTotal, emitted>>

Never == Cooldown + 1

AlertInit ==
    /\ raised = [c \in Conditions |-> 0]
    /\ sinceSent = [c \in Conditions |-> Never]
    /\ suppressed = [c \in Conditions |-> 0]
    /\ suppressedTotal = 0
    /\ emitted = <<>>

(* An alert as the sinks get it: how many repeats it stands for, the time  *)
(* since the one before, whether a failing sink lost it, and its number    *)
(* among the alerts raised of its condition (history).                     *)
Emission(c, reached) ==
    [condition |-> c, repeats |-> suppressed[c], after |-> sinceSent[c],
     reached |-> reached, nth |-> raised[c] + 1]

(* Mutant: a cooldown measured to the wrong side.                          *)
ShouldSendEarly(c) == sinceSent[c] + 1 >= Cooldown

ShouldSend(c) == sinceSent[c] >= Cooldown

(* Mutant: the repeats reported are kept and reported again.               *)
KeepRepeats(c) == suppressed

PopRepeats(c) == [suppressed EXCEPT ![c] = 0]

(* Alerter.send, in the thread of whoever raises the alert.                *)
Send(c) ==
    /\ raised[c] < MaxRaised
    /\ raised' = [raised EXCEPT ![c] = @ + 1]
    /\ \/ /\ ~ShouldSend(c)
          /\ suppressed' = [suppressed EXCEPT ![c] = @ + 1]
          /\ suppressedTotal' = suppressedTotal + 1
          /\ UNCHANGED <<sinceSent, emitted>>
       \/ /\ ShouldSend(c)
          /\ suppressed' = PopRepeats(c)
          /\ sinceSent' = [sinceSent EXCEPT ![c] = 0]
          /\ \E reached \in BOOLEAN : emitted' = Append(emitted, Emission(c, reached))
          /\ UNCHANGED suppressedTotal

AlertTime ==
    /\ \E c \in Conditions : sinceSent[c] < Cooldown
    /\ sinceSent' = [c \in Conditions |->
                        IF sinceSent[c] < Cooldown THEN sinceSent[c] + 1 ELSE sinceSent[c]]
    /\ UNCHANGED <<raised, suppressed, suppressedTotal, emitted>>

AlertNext == (\E c \in Conditions : Send(c)) \/ AlertTime

AlertSpec == AlertInit /\ [][AlertNext]_alertVars

-----------------------------------------------------------------------------

(* The alerts of condition c that the first n emissions of log have told   *)
(* of: up to the one that was sent last.                                   *)
Told(log, c, n) ==
    Max({0} \cup {log[k].nth : k \in {j \in 1..n : log[j].condition = c}})

(* Repetition does not become noise and does not vanish: two emissions of  *)
(* one condition are a cooldown apart, and every alert raised is an        *)
(* emission, a repeat the next emission reported, or one it will report.   *)
RepeatsAreCounted ==
    /\ \A k \in 1..Len(emitted) :
          LET e == emitted[k]
          IN  e.after >= Cooldown /\ e.nth = Told(emitted, e.condition, k - 1) + e.repeats + 1
    /\ \A c \in Conditions : raised[c] = Told(emitted, c, Len(emitted)) + suppressed[c]

(* Alerts persist (alerting.py:19-21): of a condition that goes on, the    *)
(* last emission reached the stream.                                       *)
LastEmissionReached ==
    \A k \in DOMAIN emitted :
        (\A j \in DOMAIN emitted : j > k => emitted[j].condition # emitted[k].condition)
            => emitted[k].reached

============================================================================
