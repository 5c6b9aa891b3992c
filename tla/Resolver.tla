------------------------------- MODULE Resolver -------------------------------
(***************************************************************************)
(* dns.go: resolver goroutines answer queries while the administrator      *)
(* changes the rules, the lists, the pause and the upstream servers. One   *)
(* query reads the policy once for its name, reads the upstream list, asks *)
(* one server after the other, and reads the policy again for every CNAME  *)
(* target, so the configuration may change between any two of its reads.   *)
(* The connection check of the dashboard calls resolve() without a slot.   *)
(*                                                                         *)
(* config stands for what Store publishes in one mutex section; Store      *)
(* shows that the maps in it belong together (PolicyFollowsConfig).        *)
(***************************************************************************)
EXTENDS DomainPolicy, FiniteSets

CONSTANTS
  Handler,     \* bound: goroutines of ServeDNS and /api/check at a time
  Slots,       \* 128 in the code
  Server,      \* upstream servers
  Config,      \* configurations [blocked, allowed, paused, upstreams]
  Query,       \* what a client may send
  CheckName,   \* example.com
  HealthName,  \* health.quietdns.internal
  Answer,      \* what an upstream may answer
  NoAnswer     \* no answer, or one that cannot be read, within 2 seconds

ASSUME ResolverAssumption ==
  /\ IsFiniteSet(Handler) /\ Slots \in Nat \ {0}
  /\ \A c \in Config : c.paused \in BOOLEAN /\ c.upstreams \in Seq(Server) \ {<< >>}
  /\ \A q \in Query : q.caller = "client" /\ q.shape # "none" /\ q.transport \in {"udp", "tcp"}
  /\ \A a \in Answer : a.targets \in Seq(Seq(Label))
  /\ NoAnswer \notin Answer

VARIABLES
  config,  \* the configuration in force
  used,    \* len(r.slots)
  pc,      \* pc[h]: where h is in ServeDNS and resolve
  query,   \* query[h]: the query h answers, NoQuery while it has none
  exempt,  \* exempt[h]: the variable allowed of resolve
  list,    \* list[h]: the upstream servers h asks in turn
  at,      \* at[h]: the one it is at
  net,     \* net[h]: the transport of its next exchange
  answer,  \* answer[h]: the upstream's answer under inspection
  next,    \* next[h]: the CNAME target h inspects next
  reply,   \* reply[h]: what h answers
  seen     \* history: seen[h], the configurations in force since h began

vars == <<config, used, pc, query, exempt, list, at, net, answer, next, reply, seen>>

(* transport is "udp" or "tcp"; shape tells the queries resolve() refuses:   *)
(* "empty" has no or several questions, "opcode" another operation, "class"  *)
(* another class or a zone transfer. A caller is a "client", from a private  *)
(* address or not, or the connection "check".                                *)
Check(transport) ==
  [shape |-> "standard", name |-> CheckName, type |-> "A", transport |-> transport,
   caller |-> "check", private |-> TRUE]
NoQuery == [Check("udp") EXCEPT !.shape = "none"]

Transport == {"udp", "tcp"}
QueryInHand == Query \cup {NoQuery} \cup {Check(t) : t \in Transport}
Reply == {"none", "busy", "foreign", "formerr", "refused", "health", "blocked", "cname",
          "forwarded", "unavailable"}
PC == {"idle", "decide", "upstreams", "ask", "inspect", "send", "record"}

policy(name) == Decision(config.blocked, config.allowed, config.paused, name)

Start(h, q, where, r) ==
  /\ pc[h] = "idle"
  /\ pc' = [pc EXCEPT ![h] = where]
  /\ query' = [query EXCEPT ![h] = q]
  /\ reply' = [reply EXCEPT ![h] = r]
  /\ seen' = [seen EXCEPT ![h] = {config}]
  /\ UNCHANGED <<config, exempt, list, at, net, answer, next>>

Answers(h, r) ==
  /\ pc' = [pc EXCEPT ![h] = "send"]
  /\ reply' = [reply EXCEPT ![h] = r]

(* The goroutine is done; its locals are gone. *)
Forget(h) ==
  /\ pc' = [pc EXCEPT ![h] = "idle"]
  /\ query' = [query EXCEPT ![h] = NoQuery]
  /\ exempt' = [exempt EXCEPT ![h] = FALSE]
  /\ list' = [list EXCEPT ![h] = << >>]
  /\ at' = [at EXCEPT ![h] = 1]
  /\ net' = [net EXCEPT ![h] = "udp"]
  /\ answer' = [answer EXCEPT ![h] = NoAnswer]
  /\ next' = [next EXCEPT ![h] = 1]
  /\ reply' = [reply EXCEPT ![h] = "none"]
  /\ seen' = [seen EXCEPT ![h] = {}]

-----------------------------------------------------------------------------
Init ==
  /\ config \in Config
  /\ used = 0
  /\ pc = [h \in Handler |-> "idle"]
  /\ query = [h \in Handler |-> NoQuery]
  /\ exempt = [h \in Handler |-> FALSE]
  /\ list = [h \in Handler |-> << >>]
  /\ at = [h \in Handler |-> 1]
  /\ net = [h \in Handler |-> "udp"]
  /\ answer = [h \in Handler |-> NoAnswer]
  /\ next = [h \in Handler |-> 1]
  /\ reply = [h \in Handler |-> "none"]
  /\ seen = [h \in Handler |-> {}]

(* Store publishes a configuration, or a pause runs out. *)
Reconfigure(c) ==
  /\ config' = c
  /\ seen' = [h \in Handler |-> IF pc[h] = "idle" THEN {} ELSE seen[h] \cup {c}]
  /\ UNCHANGED <<used, pc, query, exempt, list, at, net, answer, next, reply>>

(* ServeDNS: a query from a public address, one that finds no free slot, and *)
(* one that takes a slot.                                                    *)
TurnAway(h, q) ==
  /\ ~q.private
  /\ Start(h, q, "send", "foreign") /\ UNCHANGED used

Overflow(h, q) ==
  /\ q.private /\ used >= Slots
  /\ Start(h, q, "send", "busy") /\ UNCHANGED used

Admit(h, q) ==
  /\ q.private /\ used < Slots
  /\ Start(h, q, "decide", "none") /\ used' = used + 1

(* POST /api/check. *)
RunCheck(h, transport) == Start(h, Check(transport), "decide", "none") /\ UNCHANGED used

-----------------------------------------------------------------------------
Reject(h) ==
  /\ pc[h] = "decide" /\ query[h].shape # "standard"
  /\ Answers(h, IF query[h].shape = "class" THEN "refused" ELSE "formerr")
  /\ UNCHANGED <<config, used, query, exempt, list, at, net, answer, next, seen>>

IsHealth(q) == canonical(q.name) = HealthName /\ q.type = "TXT"

AnswerHealth(h) ==
  /\ pc[h] = "decide" /\ query[h].shape = "standard" /\ IsHealth(query[h])
  /\ Answers(h, "health")
  /\ UNCHANGED <<config, used, query, exempt, list, at, net, answer, next, seen>>

(* Mutant: any name that is not blocked counts as one with an allow rule. *)
LookUp_ExemptsAll(h) ==
  /\ pc[h] = "decide" /\ query[h].shape = "standard" /\ ~IsHealth(query[h])
  /\ IF policy(query[h].name).blocked
     THEN Answers(h, "blocked") /\ UNCHANGED exempt
     ELSE /\ pc' = [pc EXCEPT ![h] = "upstreams"]
          /\ exempt' = [exempt EXCEPT ![h] = TRUE]
          /\ UNCHANGED reply
  /\ UNCHANGED <<config, used, query, list, at, net, answer, next, seen>>

LookUp(h) ==
  /\ pc[h] = "decide" /\ query[h].shape = "standard" /\ ~IsHealth(query[h])
  /\ IF policy(query[h].name).blocked
     THEN Answers(h, "blocked") /\ UNCHANGED exempt
     ELSE /\ pc' = [pc EXCEPT ![h] = "upstreams"]
          /\ exempt' = [exempt EXCEPT ![h] = policy(query[h].name).allowed]
          /\ UNCHANGED reply
  /\ UNCHANGED <<config, used, query, list, at, net, answer, next, seen>>

ReadUpstreams(h) ==
  /\ pc[h] = "upstreams"
  /\ pc' = [pc EXCEPT ![h] = "ask"]
  /\ list' = [list EXCEPT ![h] = config.upstreams]
  /\ net' = [net EXCEPT ![h] = query[h].transport]
  /\ UNCHANGED <<config, used, query, exempt, at, answer, next, reply, seen>>

(* An answer that is worth passing on, to the question that was asked. *)
Usable(a) == a # NoAnswer /\ a.rcode \notin {"servfail", "refused"} /\ a.echoes

Asking(h) == pc[h] = "ask" /\ at[h] <= Len(list[h])

(* A truncated UDP answer is asked for again over TCP. *)
MustRetry(h, a) == a # NoAnswer /\ a.truncated /\ net[h] = "udp"

RetryOverTCP(h, a) ==
  /\ Asking(h) /\ MustRetry(h, a)
  /\ net' = [net EXCEPT ![h] = "tcp"]
  /\ UNCHANGED <<config, used, pc, query, exempt, list, at, answer, next, reply, seen>>

(* Mutant: the answer to a retry is not looked at again. *)
Accept_Retried(h, a) ==
  /\ Asking(h) /\ ~MustRetry(h, a)
  /\ Usable(a) \/ (a # NoAnswer /\ net[h] # query[h].transport)
  /\ pc' = [pc EXCEPT ![h] = "inspect"]
  /\ answer' = [answer EXCEPT ![h] = a]
  /\ UNCHANGED <<config, used, query, exempt, list, at, net, next, reply, seen>>

Accept(h, a) ==
  /\ Asking(h) /\ ~MustRetry(h, a) /\ Usable(a)
  /\ pc' = [pc EXCEPT ![h] = "inspect"]
  /\ answer' = [answer EXCEPT ![h] = a]
  /\ UNCHANGED <<config, used, query, exempt, list, at, net, next, reply, seen>>

(* Mutant: after a failure the same server is asked again. *)
NextServer_Same(h, a) ==
  /\ Asking(h) /\ ~MustRetry(h, a) /\ ~Usable(a)
  /\ net' = [net EXCEPT ![h] = query[h].transport]
  /\ UNCHANGED <<config, used, pc, query, exempt, list, at, answer, next, reply, seen>>

(* Mutant: after the last server it is the turn of the first again. *)
NextServer_Round(h, a) ==
  /\ Asking(h) /\ ~MustRetry(h, a) /\ ~Usable(a)
  /\ at' = [at EXCEPT ![h] = IF @ = Len(list[h]) THEN 1 ELSE @ + 1]
  /\ net' = [net EXCEPT ![h] = query[h].transport]
  /\ UNCHANGED <<config, used, pc, query, exempt, list, answer, next, reply, seen>>

NextServer(h, a) ==
  /\ Asking(h) /\ ~MustRetry(h, a) /\ ~Usable(a)
  /\ at' = [at EXCEPT ![h] = @ + 1]
  /\ net' = [net EXCEPT ![h] = query[h].transport]
  /\ UNCHANGED <<config, used, pc, query, exempt, list, answer, next, reply, seen>>

GiveUp(h) ==
  /\ pc[h] = "ask" /\ at[h] > Len(list[h])
  /\ Answers(h, "unavailable")
  /\ UNCHANGED <<config, used, query, exempt, list, at, net, answer, next, seen>>

(* The CNAME targets of the answer, one policy read each. *)
Inspecting(h) == pc[h] = "inspect" /\ ~exempt[h] /\ next[h] <= Len(answer[h].targets)

Deny(h) ==
  /\ Inspecting(h) /\ policy(answer[h].targets[next[h]]).blocked
  /\ Answers(h, "cname")
  /\ UNCHANGED <<config, used, query, exempt, list, at, net, answer, next, seen>>

Pass(h) ==
  /\ Inspecting(h) /\ ~policy(answer[h].targets[next[h]]).blocked
  /\ next' = [next EXCEPT ![h] = @ + 1]
  /\ UNCHANGED <<config, used, pc, query, exempt, list, at, net, answer, reply, seen>>

Forward(h) ==
  /\ pc[h] = "inspect" /\ (exempt[h] \/ next[h] > Len(answer[h].targets))
  /\ Answers(h, "forwarded")
  /\ UNCHANGED <<config, used, query, exempt, list, at, net, answer, next, seen>>

-----------------------------------------------------------------------------
(* The queries record() is told about. *)
Recorded(q) == q.shape # "empty" /\ canonical(q.name) # HealthName

HoldsSlot(h) ==
  /\ query[h].caller = "client" /\ query[h].shape # "none"
  /\ reply[h] \notin {"busy", "foreign"}

(* Mutant: only a recorded query gives its slot back. *)
Send_KeepsSlot(h) ==
  /\ pc[h] = "send"
  /\ IF HoldsSlot(h) /\ Recorded(query[h])
     THEN /\ pc' = [pc EXCEPT ![h] = "record"]
          /\ UNCHANGED <<used, query, exempt, list, at, net, answer, next, reply, seen>>
     ELSE Forget(h) /\ UNCHANGED used
  /\ UNCHANGED config

(* WriteMsg, whose error is ignored; without a record the goroutine is done, *)
(* and gives its slot back.                                                  *)
Send(h) ==
  /\ pc[h] = "send"
  /\ IF HoldsSlot(h) /\ Recorded(query[h])
     THEN /\ pc' = [pc EXCEPT ![h] = "record"]
          /\ UNCHANGED <<used, query, exempt, list, at, net, answer, next, reply, seen>>
     ELSE Forget(h) /\ used' = IF HoldsSlot(h) THEN used - 1 ELSE used
  /\ UNCHANGED config

(* record() (see QueryHistory), then the deferred release of the slot. *)
Record(h) ==
  /\ pc[h] = "record"
  /\ Forget(h)
  /\ used' = used - 1
  /\ UNCHANGED config

Step(h) ==
  \/ Reject(h) \/ AnswerHealth(h) \/ LookUp(h) \/ ReadUpstreams(h)
  \/ \E a \in Answer \cup {NoAnswer} :
       RetryOverTCP(h, a) \/ Accept(h, a) \/ NextServer(h, a)
  \/ GiveUp(h) \/ Deny(h) \/ Pass(h) \/ Forward(h) \/ Send(h) \/ Record(h)

Next ==
  \/ \E c \in Config : Reconfigure(c)
  \/ \E h \in Handler :
       \/ \E q \in Query : TurnAway(h, q) \/ Overflow(h, q) \/ Admit(h, q)
       \/ \E t \in Transport : RunCheck(h, t)
       \/ Step(h)

Spec == Init /\ [][Next]_vars

(* An exchange ends within its timeout, and a reader of the policy gets the  *)
(* mutex.                                                                    *)
FairSpec == Spec /\ \A h \in Handler : WF_vars(Step(h))

-----------------------------------------------------------------------------
TypeOK ==
  /\ config \in Config /\ used \in 0..Slots
  /\ pc \in [Handler -> PC]
  /\ query \in [Handler -> QueryInHand]
  /\ exempt \in [Handler -> BOOLEAN]
  /\ list \in [Handler -> Seq(Server)]
  /\ at \in [Handler -> Nat \ {0}]
  /\ \A h \in Handler : at[h] <= Len(list[h]) + 1
  /\ net \in [Handler -> Transport]
  /\ answer \in [Handler -> Answer \cup {NoAnswer}]
  /\ next \in [Handler -> Nat \ {0}]
  /\ reply \in [Handler -> Reply]
  /\ seen \in [Handler -> SUBSET Config]

(* Every slot taken is given back exactly once, on every path through        *)
(* ServeDNS: the channel holds one token per goroutine that serves a client, *)
(* never more than its capacity, and none for a connection check or a query  *)
(* turned away (the deferred receive).                                       *)
SlotsAccounted ==
  /\ used = Cardinality({h \in Handler : HoldsSlot(h)})
  /\ used <= Slots

Blocks(c, name) == Decision(c.blocked, c.allowed, c.paused, name).blocked
Allows(c, name) == Decision(c.blocked, c.allowed, c.paused, name).allowed

(* However the configuration changes under a query, its answer rests on      *)
(* decisions that were in force while it was handled: what is forwarded was  *)
(* not blocked then, nor was any CNAME target in it unless the name had an   *)
(* allow rule; what is blocked was blocked then. A rule that was saved       *)
(* before a query arrives, and stays, is therefore obeyed (resolve).         *)
Justified(h) ==
  LET name    == query[h].name
      targets == answer[h].targets
  IN  /\ reply[h] = "forwarded" =>
           /\ \E c \in seen[h] : ~Blocks(c, name)
           /\ \/ \E c \in seen[h] : Allows(c, name)
              \/ \A i \in DOMAIN targets : \E c \in seen[h] : ~Blocks(c, targets[i])
      /\ reply[h] = "blocked" => \E c \in seen[h] : Blocks(c, name)
      /\ reply[h] = "cname" =>
           /\ \E c \in seen[h] : ~Allows(c, name)
           /\ \E i \in DOMAIN targets, c \in seen[h] : Blocks(c, targets[i])

DecisionInForce == \A h \in Handler : Justified(h)

(* "upstream failover, and TCP retry after truncated UDP responses"          *)
(* (README.md): a query is given up only when every server of one list that  *)
(* was in force has failed it, and what is forwarded answers the question    *)
(* asked, is no failure, and is truncated only if TCP could not do better.   *)
FailedOver(h) ==
  /\ reply[h] \in {"forwarded", "unavailable"} => \E c \in seen[h] : list[h] = c.upstreams
  /\ reply[h] = "unavailable" => at[h] = Len(list[h]) + 1
  /\ reply[h] = "forwarded" =>
       /\ at[h] <= Len(list[h])
       /\ answer[h] # NoAnswer /\ answer[h].echoes
       /\ answer[h].rcode \notin {"servfail", "refused"}
       /\ answer[h].truncated => net[h] = "tcp"

FailoverIsComplete == \A h \in Handler : FailedOver(h)

(* How far a goroutine is from the end of its query: the phases still to     *)
(* come, and within one the exchanges or the CNAME targets still to come.    *)
Phases == [idle |-> 0, record |-> 1, send |-> 2, inspect |-> 3, ask |-> 4,
           upstreams |-> 5, decide |-> 6]

Left(h) ==
  CASE pc[h] = "ask"     -> 2 * (Len(list[h]) + 1 - at[h]) + IF net[h] = "udp" THEN 1 ELSE 0
    [] pc[h] = "inspect" -> Len(answer[h].targets) + 1 - next[h]
    [] OTHER             -> 0

Locals(h) == <<pc[h], query[h], exempt[h], list[h], at[h], net[h], answer[h], next[h], reply[h]>>

(* Every step of a query brings it nearer its end, whatever the upstreams    *)
(* answer and however the configuration and the list of servers change under *)
(* it: no server is asked again by the transport it has failed by, no target *)
(* inspected twice and no phase returned to (the loops of resolve).          *)
QueryAdvances ==
  [][\A h \in Handler :
       pc[h] # "idle" /\ Locals(h)' # Locals(h) =>
         \/ Phases[pc'[h]] < Phases[pc[h]]
         \/ pc'[h] = pc[h] /\ Left(h)' \in 0..Left(h) - 1]_vars

(* Every query is answered and its goroutine ends, whatever the upstreams do *)
(* and however often the configuration changes meanwhile, so that slots come *)
(* free again.                                                               *)
EveryQueryEnds == \A h \in Handler : pc[h] # "idle" ~> pc[h] = "idle"
=============================================================================
