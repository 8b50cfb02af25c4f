----------------------------- MODULE ActionContract -----------------------------
(***************************************************************************)
(* What the action gateway promises its callers, whatever runs behind it.  *)
(* A business intent (a tenant's idempotency key) is taken up by at most   *)
(* one action; the action is refused, or granted by a person before any    *)
(* write; an intent is written at most once; and the write is settled by   *)
(* one verdict that is never revised.                                      *)
(***************************************************************************)
CONSTANTS Actions, Intents, NoIntent

VARIABLES
    phase,      \* how far an action has come
    intent,     \* the intent an action took up
    written     \* the intents with an accepted provider write

vars == <<phase, intent, written>>

Phases == {"absent", "awaiting", "refused", "granted", "accepted",
           "verified", "verification_failed", "state_diverged"}

Verdicts == {"verified", "verification_failed", "state_diverged"}

Move(a, from, to) ==
    /\ phase[a] = from
    /\ phase' = [phase EXCEPT ![a] = to]

\* The policy refuses the action at once or sends it to an approver.
Submit(a, i) ==
    /\ \A b \in Actions : intent[b] # i
    /\ \E to \in {"awaiting", "refused"} : Move(a, "absent", to)
    /\ intent' = [intent EXCEPT ![a] = i]
    /\ UNCHANGED written

\* The approver decides, once.
Decide(a) ==
    /\ \E to \in {"granted", "refused"} : Move(a, "awaiting", to)
    /\ UNCHANGED <<intent, written>>

\* The provider's acceptance is recorded.
Accept(a) ==
    /\ Move(a, "granted", "accepted")
    /\ intent[a] \notin written
    /\ written' = written \cup {intent[a]}
    /\ UNCHANGED intent

\* Read-after-write verification reaches its verdict.
Settle(a) ==
    /\ \E to \in Verdicts : Move(a, "accepted", to)
    /\ UNCHANGED <<intent, written>>

Init ==
    /\ phase = [a \in Actions |-> "absent"]
    /\ intent = [a \in Actions |-> NoIntent]
    /\ written = {}

Next ==
    \E a \in Actions :
        \/ \E i \in Intents : Submit(a, i)
        \/ Decide(a)
        \/ Accept(a)
        \/ Settle(a)

Spec == Init /\ [][Next]_vars
=============================================================================
