---------------------------- MODULE OneShotConsent ----------------------------
(***************************************************************************)
(* What the daemon promises the client of an ask, without saying how: an   *)
(* ask is open until it is authorised, refused or given up; an authorised  *)
(* ask gets exactly the secrets it asked for, or an error; and that is all *)
(* it ever gets.  Many asks may change at once, as one decision serves     *)
(* every ask of its key.                                                   *)
(***************************************************************************)
EXTENDS Sequences

CONSTANTS Asks, Needs    \* Needs[a]: the secrets ask a names

VARIABLES phase,         \* "open", "authorised", "answered" or "abandoned"
          reply          \* reply[a]: the replies a was sent

state == <<phase, reply>>

Granted(a) == [decision |-> "approve", secrets |-> Needs[a]]
Refused == {[decision |-> d, secrets |-> {}] : d \in {"deny", "err"}}

Init ==
    /\ phase = [a \in Asks |-> "open"]
    /\ reply = [a \in Asks |-> <<>>]

\* What may happen to one ask.
Stay(a) == phase'[a] = phase[a] /\ reply'[a] = reply[a]
Authorise(a) == phase[a] = "open" /\ phase'[a] = "authorised" /\ reply'[a] = reply[a]
Abandon(a) == phase[a] = "open" /\ phase'[a] = "abandoned" /\ reply'[a] = reply[a]
Refuse(a) == /\ phase[a] = "open" /\ phase'[a] = "answered"
             /\ \E r \in Refused : reply'[a] = <<r>>
Answer(a) == /\ phase[a] = "authorised" /\ phase'[a] = "answered"
             /\ \E r \in {Granted(a)} \cup Refused : reply'[a] = <<r>>

Next ==
    /\ DOMAIN phase' = Asks /\ DOMAIN reply' = Asks
    /\ \A a \in Asks :
         Stay(a) \/ Authorise(a) \/ Abandon(a) \/ Refuse(a) \/ Answer(a)

Spec == Init /\ [][Next]_state
===============================================================================
