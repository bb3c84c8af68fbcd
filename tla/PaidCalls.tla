----------------------------- MODULE PaidCalls -----------------------------
(***************************************************************************)
(* What paying per call promises the two parties, without verification,    *)
(* registry, clock or settlement modes: an authorization is served by at   *)
(* most one request at a time; it is charged once, while it is served and  *)
(* after the upstream did something worth the charge; and an answer that   *)
(* is held for the payment goes out once, after the charge.  PaymentGate   *)
(* implements it.                                                          *)
(***************************************************************************)
EXTENDS Naturals

CONSTANTS Callers,  \* requests
          Auths,    \* signed authorizations
          NoOne

VARIABLES serving,  \* the request an authorization is being served for
          worth,    \* authorizations some answer was worth charging
          charged,  \* those that have been charged
          sent      \* held answers that went out, per authorization

callVars == <<serving, worth, charged, sent>>

Init ==
    /\ serving = [a \in Auths |-> NoOne]
    /\ worth = {} /\ charged = {}
    /\ sent = [a \in Auths |-> 0]

Served(a) == serving[a] # NoOne

Serve(c, a) ==
    /\ ~Served(a) /\ \A b \in Auths : serving[b] # c
    /\ serving' = [serving EXCEPT ![a] = c]
    /\ UNCHANGED <<worth, charged, sent>>

Finish(a) ==
    /\ Served(a)
    /\ serving' = [serving EXCEPT ![a] = NoOne]
    /\ UNCHANGED <<worth, charged, sent>>

FindWorth(a) ==
    /\ Served(a)
    /\ worth' = worth \cup {a}
    /\ UNCHANGED <<serving, charged, sent>>

Charge(a) ==
    /\ Served(a) /\ a \in worth \ charged
    /\ charged' = charged \cup {a}
    /\ UNCHANGED <<serving, worth, sent>>

SendHeld(a) ==
    /\ Served(a) /\ a \in charged /\ sent[a] = 0
    /\ sent' = [sent EXCEPT ![a] = 1]
    /\ UNCHANGED <<serving, worth, charged>>

\* The gateway restarts; what happened on the chain and at the client stays.
LoseAll ==
    /\ serving' = [a \in Auths |-> NoOne]
    /\ UNCHANGED <<worth, charged, sent>>

Next ==
    \/ \E a \in Auths :
         Finish(a) \/ FindWorth(a) \/ Charge(a) \/ SendHeld(a) \/ \E c \in Callers : Serve(c, a)
    \/ LoseAll

Spec == Init /\ [][Next]_callVars
=============================================================================
