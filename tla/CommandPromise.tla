--------------------------- MODULE CommandPromise ---------------------------
(***************************************************************************)
(* What the phone bridge promises of remote commands, whatever is lost and  *)
(* whoever is slow: a command is asked for while no other is active, given  *)
(* to the phone at most once, in time and in order; it succeeds only if the *)
(* phone was given it and its user agreed; it ends once; and time never     *)
(* runs back for it.  RemoteCommands implements it.                         *)
(***************************************************************************)
EXTENDS Naturals

CONSTANTS Commands   \* numbers, in the order they are asked for

VARIABLES
    stage,     \* by command, one of Stages
    plain,     \* commands the user need not agree to
    consent,   \* commands the user agreed to
    evidence,  \* commands whose photo or recording the server has
    crowded    \* two requests of the panel met: commands may be active at once

vars == <<stage, plain, consent, evidence, crowded>>

\* Not asked for yet; waiting for the phone; given to it; not given in time;
\* given and late; and the three ends.
Stages == {"none", "waiting", "given", "missed", "late", "succeeded", "failed", "expired"}

Init == /\ stage = [c \in Commands |-> "none"]
        /\ plain = {} /\ consent = {} /\ evidence = {} /\ crowded = FALSE

\* Two requests of the panel have met.
Crowd == crowded' = TRUE /\ UNCHANGED <<stage, plain, consent, evidence>>

Ask(c) ==
    /\ stage[c] = "none" /\ \A d \in Commands : d < c => stage[d] # "none"
    /\ crowded \/ \A d \in Commands : stage[d] \notin {"waiting", "given"}
    /\ stage' = [stage EXCEPT ![c] = "waiting"]
    /\ plain' = plain \/ plain' = plain \cup {c}
    /\ UNCHANGED <<consent, evidence, crowded>>

\* Time runs out for some commands ...
Lapses(late) ==
    [c \in Commands |-> IF c \notin late THEN stage[c]
                        ELSE IF stage[c] = "waiting" THEN "missed"
                        ELSE IF stage[c] = "given" THEN "late" ELSE stage[c]]
Lapse == /\ \E late \in SUBSET Commands : stage' = Lapses(late)
         /\ UNCHANGED <<plain, consent, evidence, crowded>>

\* ... and the server writes it down.
Expires(over) ==
    [c \in Commands |-> IF c \in over /\ stage[c] \in {"missed", "late"} THEN "expired"
                        ELSE stage[c]]
Expire == /\ \E over \in SUBSET Commands : stage' = Expires(over)
          /\ UNCHANGED <<plain, consent, evidence, crowded>>

\* The phone is given the oldest command that waits.
Give(c) ==
    /\ stage[c] = "waiting" /\ \A d \in Commands : d < c => stage[d] # "waiting"
    /\ stage' = [stage EXCEPT ![c] = "given"]
    /\ UNCHANGED <<plain, consent, evidence, crowded>>

\* What the phone was given, be it late or ended since.
Seen(c) == stage[c] \notin {"none", "waiting", "missed"}

\* The user agrees, however late ...
Agree(c) ==
    /\ Seen(c)
    /\ consent' = consent \cup {c}
    /\ UNCHANGED <<stage, plain, evidence, crowded>>

\* ... and only then a photo or a recording leaves the phone.
Store(c) ==
    /\ Seen(c) /\ c \in consent
    /\ evidence' = evidence \cup {c}
    /\ UNCHANGED <<stage, plain, consent, crowded>>

\* A report ends a command, in time or not.
End(c) ==
    /\ stage[c] \in {"given", "late"}
    /\ \/ stage' = [stage EXCEPT ![c] = "failed"]
       \/ stage' = [stage EXCEPT ![c] = "succeeded"] /\ c \in plain \cup consent
    /\ UNCHANGED <<plain, consent, evidence, crowded>>

Next == \/ Crowd \/ Lapse \/ Expire
        \/ \E c \in Commands : Ask(c) \/ Give(c) \/ Agree(c) \/ Store(c) \/ End(c)

Spec == Init /\ [][Next]_vars
=============================================================================
