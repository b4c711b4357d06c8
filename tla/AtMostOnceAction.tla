-------------------------- MODULE AtMostOnceAction --------------------------
(***************************************************************************)
(* What the authority store promises its clients, without versions,        *)
(* leases, clocks or receipts: an action is started by at most one actor,  *)
(* is closed once, and is closed without having been started only as       *)
(* failed or rejected.                                                     *)
(***************************************************************************)
CONSTANTS Actions, Actors, Outcomes, Payloads, PreStartOutcomes

VARIABLES
    phase,    \* action -> "open", "started" or "closed"
    starter,  \* action -> the actors that were told to start it
    answer    \* action -> the answers given for it

vars == << phase, starter, answer >>

Init ==
    /\ phase = [x \in Actions |-> "open"]
    /\ starter = [x \in Actions |-> {}]
    /\ answer = [x \in Actions |-> {}]

Start(x, c) ==
    /\ phase[x] = "open"
    /\ phase' = [phase EXCEPT ![x] = "started"]
    /\ starter' = [starter EXCEPT ![x] = {c}]
    /\ UNCHANGED answer

Close(x, o, p) ==
    /\ phase[x] = "started" \/ (phase[x] = "open" /\ o \in PreStartOutcomes)
    /\ phase' = [phase EXCEPT ![x] = "closed"]
    /\ answer' = [answer EXCEPT ![x] = {[outcome |-> o, result |-> p]}]
    /\ UNCHANGED starter

Next ==
    \E x \in Actions :
        \/ \E c \in Actors : Start(x, c)
        \/ \E o \in Outcomes, p \in Payloads : Close(x, o, p)

Spec == Init /\ [][Next]_vars
=============================================================================
