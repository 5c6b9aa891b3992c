------------------------------ MODULE MCResolver ------------------------------
(***************************************************************************)
(* Resolver on two names x.test and y.test, where x.test may be an alias   *)
(* of y.test, and configurations that block, allow or pause them.          *)
(***************************************************************************)
EXTENDS Resolver

MCLabel    == {"", "x", "X", "y", "health", "blocked", "test", "-"}
MCLower    == [l \in MCLabel |-> IF l = "X" THEN "x" ELSE l]
MCReserved == <<"blocked", "test">>
X == <<"x", "test">>
Y == <<"y", "test">>
Health == <<"health", "test">>

Configuration(b, a, p, u) == [blocked |-> b \cup {MCReserved}, allowed |-> a, paused |-> p, upstreams |-> u]
MCConfig ==
  { Configuration({}, {}, FALSE, <<"u1", "u2">>),
    Configuration({Y}, {X}, FALSE, <<"u1">>),
    Configuration({X, Y}, {}, FALSE, <<"u2">>),
    Configuration({X, Y}, {}, TRUE, <<"u2">>) }
TwoConfigs == {c \in MCConfig : ~c.paused /\ c.allowed = {}}

Asked(shape, name, type, transport, private) ==
  [shape |-> shape, name |-> name, type |-> type, transport |-> transport,
   caller |-> "client", private |-> private]
MCQuery ==
  { Asked("standard", <<"X", "test", "">>, "A", "udp", TRUE),
    Asked("standard", <<"x", "test", "">>, "A", "tcp", TRUE),
    Asked("standard", <<"x", "test", "">>, "A", "udp", FALSE),
    Asked("standard", <<"health", "test", "">>, "TXT", "udp", TRUE),
    Asked("standard", <<"health", "test", "">>, "A", "udp", TRUE),
    Asked("class", <<"x", "test", "">>, "A", "tcp", TRUE),
    Asked("opcode", <<"x", "test", "">>, "A", "udp", TRUE),
    Asked("empty", <<"">>, "A", "udp", TRUE) }
FewQueries == {q \in MCQuery : q.type = "TXT" \/ (q.transport = "udp" /\ q.shape = "standard")}

Answered(rcode, truncated, echoes, targets) ==
  [rcode |-> rcode, truncated |-> truncated, echoes |-> echoes, targets |-> targets]
MCAnswer ==
  {Answered(r, FALSE, TRUE, << >>) : r \in {"success", "nxdomain", "servfail", "refused"}} \cup
  { Answered("success", TRUE, TRUE, << >>),
    Answered("success", TRUE, TRUE, << <<"y", "test", "">> >>),
    Answered("success", FALSE, FALSE, << >>),
    Answered("success", FALSE, TRUE, << <<"x", "test", "">>, <<"y", "test", "">> >>) }
FewAnswers == {a \in MCAnswer : a.rcode = "success" /\ a.echoes /\ (a.truncated <=> a.targets = << >>)}
=============================================================================
