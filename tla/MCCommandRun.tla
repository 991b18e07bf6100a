---------------------------- MODULE MCCommandRun ----------------------------
(* Two secrets whose values begin one another: <<x>> under r1 and <<x, y>>    *)
(* under r2; and one of two lines, <<x, NL, x>>, under r5.  Every             *)
(* combination that decides what is resolved is tried at a terminal, where   *)
(* the command prints one byte over and over; the last scenarios vary what   *)
(* is printed, at a terminal and on the two streams of a pipe.               *)
EXTENDS CommandRun

CONSTANTS A, B, x, y, op, pass, odd

r1 == [provider |-> op, locator |-> "one"]
r2 == [provider |-> op, locator |-> "two"]
r3 == [provider |-> pass, locator |-> "three"]
r4 == [provider |-> odd, locator |-> "four"]
r5 == [provider |-> op, locator |-> "five"]
MCRefs == {r1, r2, r3, r4, r5}
MCValue == [r \in MCRefs |->
              CASE r = r2 -> <<x, y>> [] r = r5 -> <<x, NL, x>> [] OTHER -> <<x>>]

Can(batch, store) == [retrieve |-> "command", batch |-> batch, store |-> store]
MCBuiltIn == [s \in {op, pass} |->
                IF s = op THEN Can("command", "round_trips") ELSE Can("none", "none")]

Direct(r) == [form |-> "direct", ref |-> r]
Named(n) == [form |-> "named", name |-> n]
Plain == [form |-> "plain"]

Good == [secrets |-> [n \in {A} |-> [ref |-> r1, ttl |-> 1]],
         providers |-> [s \in {odd} |-> Can("none", "elsewhere")],
         wrap |-> [entry |-> TRUE, env_secrets |-> {A},
                   env |-> [n \in {B} |-> Direct(r2)]]]
Gate == [Good EXCEPT !.wrap.env_secrets = {}, !.wrap.env = <<>>]
Bare == [Good EXCEPT !.wrap = NoWrap]
Edited == [Good EXCEPT !.secrets = [n \in {A} |-> [ref |-> r3, ttl |-> 2]]]
Gone == [Good EXCEPT !.secrets = <<>>, !.wrap.env_secrets = {}]
TwoTtls == [Good EXCEPT !.secrets = [n \in {A, B} |->
                [ref |-> r1, ttl |-> IF n = A THEN 1 ELSE 2]]]
Shared == [Good EXCEPT !.secrets = [n \in {A, B} |-> [ref |-> r1, ttl |-> 1]]]
Broken == [Good EXCEPT !.providers = [s \in {odd} |-> Can("empty", "none")]]
MCConfigs == {Good, Gate, Bare, Edited, Gone, TwoTtls, Shared, Broken}

Base == [via |-> "run", reentrant |-> FALSE, yes |-> FALSE, raw |-> FALSE,
         prompt |-> FALSE, tty |-> TRUE,
         inherited |-> [n \in {A, B} |-> IF n = A THEN Named(A) ELSE Direct(r2)],
         envfile |-> [n \in {A, B} |-> Unset], unstored |-> {},
         config |-> Good, again |-> Good, path |-> <<"shim", "binary">>,
         prints |-> {x}]

Written == {Unset, [form |-> "empty"], Plain, [form |-> "malformed"], Named(A),
            Named(B), Direct(r1)}

MCScenarios ==
    {[Base EXCEPT !.inherited[A] = k, !.envfile[A] = f] :
        k \in Written, f \in {Unset, Plain, Named(A)}}
    \cup {[Base EXCEPT !.via = "wrap", !.inherited[A] = k, !.inherited[B] = l] :
        k \in {Unset, [form |-> "empty"], Plain, Named(B)}, l \in {Plain, Direct(r1)}}
    \cup {[Base EXCEPT !.via = "wrap", !.config = c, !.again = d] :
        c \in {Good, Gate, Bare}, d \in {Good, Edited, Gone, Broken}}
    \cup {[Base EXCEPT !.config = c] : c \in MCConfigs}
    \cup {[Base EXCEPT !.prompt = TRUE, !.yes = TRUE, !.unstored = {r},
                       !.inherited[B] = Direct(r)] : r \in MCRefs}
    \cup {[Base EXCEPT !.via = v, !.reentrant = TRUE] : v \in {"wrap", "run", "read"}}
    \cup {[Base EXCEPT !.via = "wrap", !.path = p, !.reentrant = e] :
        p \in {<<>>, <<"shim">>}, e \in BOOLEAN}
    \cup {[Base EXCEPT !.via = "read", !.inherited[A] = k] : k \in Written}
    \cup {[Base EXCEPT !.yes = TRUE, !.via = v] : v \in {"wrap", "run", "read"}}
    \cup {[Base EXCEPT !.yes = TRUE, !.unstored = {r1}]}
    \* A stored value of two lines, and what is shown of both secrets.
    \cup {[Base EXCEPT !.inherited[B] = Direct(r5), !.yes = e,
                       !.prints = {x, NL}] : e \in BOOLEAN}
    \cup {[Base EXCEPT !.inherited[B] = Direct(r5), !.tty = FALSE, !.yes = TRUE,
                       !.prints = {x, NL}]}
    \cup {[Base EXCEPT !.tty = t, !.prints = {x, y}] : t \in BOOLEAN}
    \cup {[Base EXCEPT !.raw = TRUE, !.prints = {x, y}]}
=============================================================================
