---------------------------- MODULE ResolverProofs ----------------------------
(***************************************************************************)
(* Every answer rests on decisions in force while its query was handled,   *)
(* failover is complete and no slot is lost, for any number of goroutines, *)
(* slots, configurations and upstream answers.                             *)
(***************************************************************************)
EXTENDS Resolver, FiniteSetTheorems, TLAPS

(* The queries a goroutine may hold. *)
LEMMA Queries ==
  /\ NoQuery \in QueryInHand /\ Query \subseteq QueryInHand
  /\ \A t \in Transport : Check(t) \in QueryInHand
  /\ \A q \in QueryInHand : q.transport \in Transport
  /\ NoQuery \notin Query /\ \A t \in Transport : Check(t) # NoQuery
BY ResolverAssumption DEF QueryInHand, Check, NoQuery, Transport

Active == {"decide", "upstreams", "ask", "inspect"}

(* What the locals of a goroutine are worth at each point of its run. *)
ProgressOf(h) ==
  /\ pc[h] = "idle" => /\ query[h] = NoQuery /\ reply[h] = "none"
                       /\ seen[h] = {} /\ ~exempt[h]
  /\ pc[h] # "idle" => query[h] # NoQuery /\ config \in seen[h]
  /\ pc[h] \in Active => reply[h] = "none"
  /\ pc[h] = "record" => HoldsSlot(h)
  /\ pc[h] \in {"idle", "decide", "upstreams"} => list[h] = << >> /\ at[h] = 1
  /\ pc[h] \in {"idle", "decide", "upstreams", "ask"} => next[h] = 1
  /\ pc[h] \in {"ask", "inspect"} => \E c \in seen[h] : list[h] = c.upstreams
  /\ pc[h] = "inspect" =>
       /\ at[h] <= Len(list[h])
       /\ Usable(answer[h]) /\ ~MustRetry(h, answer[h])

Progress == \A h \in Handler : ProgressOf(h)

TypedProgress == TypeOK /\ Progress

LEMMA InitTyped == Init => TypedProgress
BY ResolverAssumption, Queries DEF Init, Transport, TypedProgress, TypeOK, Progress, ProgressOf, Active, PC, Reply

(* A decision is a pair of truth values. *)
LEMMA Decisions ==
  \A b, a, p, name : p \in BOOLEAN =>
    /\ Decision(b, a, p, name).blocked \in BOOLEAN
    /\ Decision(b, a, p, name).allowed \in BOOLEAN
BY DEF Decision, matches

(* A goroutine that holds a slot is counted. *)
LEMMA SlotGiven ==
  ASSUME SlotsAccounted, NEW h \in Handler, HoldsSlot(h)
  PROVE  used \in Nat \ {0}
<1> DEFINE Holders == {g \in Handler : HoldsSlot(g)}
<1>1. IsFiniteSet(Holders)
  BY ResolverAssumption, FS_Subset
<1>2. Cardinality(Holders) \in Nat /\ (Cardinality(Holders) = 0 <=> Holders = {})
  BY <1>1, FS_CardinalityType, FS_EmptySet
<1>3. h \in Holders
  OBVIOUS
<1> QED
  BY <1>2, <1>3 DEF SlotsAccounted

(* Types at the start and at the end of a goroutine's run. *)
LEMMA StartTypeOK ==
  ASSUME TypeOK, used' \in 0..Slots, NEW h \in Handler, NEW q \in QueryInHand,
         NEW where \in PC, NEW r \in Reply, Start(h, q, where, r)
  PROVE  TypeOK'
BY DEF TypeOK, Start

LEMMA ForgetTypeOK ==
  ASSUME TypeOK, used' \in 0..Slots, config' = config, NEW h \in Handler, Forget(h)
  PROVE  TypeOK'
<1>1. at'[h] <= Len(list'[h]) + 1
  BY DEF TypeOK, Forget
<1>2. \A g \in Handler : at'[g] <= Len(list'[g]) + 1
  BY <1>1 DEF TypeOK, Forget
<1>3. answer' \in [Handler -> Answer \cup {NoAnswer}] /\ query' \in [Handler -> QueryInHand]
  BY Queries DEF TypeOK, Forget
<1> QED
  BY <1>2, <1>3 DEF TypeOK, Forget, PC, Reply, Transport

(* The type invariant, action by action. *)
LEMMA StepTypeOK == TypedProgress /\ SlotsAccounted /\ [Next]_vars => TypeOK'
<1> SUFFICES ASSUME TypedProgress, SlotsAccounted, [Next]_vars PROVE TypeOK'
  OBVIOUS
<1> USE ResolverAssumption, Queries DEF TypedProgress, TypeOK, PC, Reply
<1>1. CASE UNCHANGED vars
  BY <1>1 DEF vars
<1>2. ASSUME NEW c \in Config, Reconfigure(c) PROVE TypeOK'
  BY <1>2 DEF Reconfigure
<1>3. ASSUME NEW h \in Handler, NEW q \in Query, TurnAway(h, q) \/ Overflow(h, q) \/ Admit(h, q)
      PROVE  TypeOK'
  <2>1. used' \in 0..Slots
    BY <1>3 DEF TurnAway, Overflow, Admit
  <2> QED
    BY <1>3, <2>1, StartTypeOK DEF TurnAway, Overflow, Admit
<1>4. ASSUME NEW h \in Handler, NEW t \in Transport, RunCheck(h, t) PROVE TypeOK'
  BY <1>4, StartTypeOK DEF RunCheck
<1>5. ASSUME NEW h \in Handler, Step(h) PROVE TypeOK'
  <2>1. CASE Reject(h)
    BY <2>1 DEF Reject, Answers
  <2>2. CASE AnswerHealth(h)
    BY <2>2 DEF AnswerHealth, Answers
  <2>3. CASE LookUp(h)
    <3>1. policy(query[h].name).allowed \in BOOLEAN
      BY Decisions DEF policy
    <3>2. pc' \in [Handler -> PC] /\ exempt' \in [Handler -> BOOLEAN] /\ reply' \in [Handler -> Reply]
      BY <2>3, <3>1 DEF LookUp, Answers
    <3> QED
      BY <2>3, <3>2 DEF LookUp
  <2>4. CASE ReadUpstreams(h)
    <3>1. config.upstreams \in Seq(Server) /\ at[h] = 1
      BY <2>4 DEF ReadUpstreams, Progress, ProgressOf
    <3>2. at[h] <= Len(config.upstreams) + 1
      BY <3>1
    <3>3. \A g \in Handler : at'[g] <= Len(list'[g]) + 1
      BY <2>4, <3>2 DEF ReadUpstreams
    <3>4. net' \in [Handler -> Transport] /\ list' \in [Handler -> Seq(Server)]
      BY <2>4, <3>1 DEF ReadUpstreams
    <3> QED
      BY <2>4, <3>3, <3>4 DEF ReadUpstreams
  <2>5. CASE \E a \in Answer \cup {NoAnswer} : RetryOverTCP(h, a)
    BY <2>5 DEF RetryOverTCP, Asking, Transport
  <2>6. CASE \E a \in Answer \cup {NoAnswer} : Accept(h, a)
    BY <2>6 DEF Accept, Asking, Usable
  <2>7. CASE \E a \in Answer \cup {NoAnswer} : NextServer(h, a)
    BY <2>7 DEF NextServer, Asking
  <2>8. CASE GiveUp(h)
    BY <2>8 DEF GiveUp, Answers
  <2>9. CASE Deny(h)
    BY <2>9 DEF Deny, Answers
  <2>13. CASE Pass(h)
    BY <2>13 DEF Pass
  <2>10. CASE Forward(h)
    BY <2>10 DEF Forward, Answers
  <2>11. CASE Send(h)
    <3>1. used' \in 0..Slots
      BY <2>11, SlotGiven DEF Send
    <3> QED
      BY <2>11, <3>1, ForgetTypeOK DEF Send
  <2>12. CASE Record(h)
    <3>1. used' \in 0..Slots
      BY <2>12, SlotGiven DEF Record, Progress, ProgressOf
    <3> QED
      BY <2>12, <3>1, ForgetTypeOK DEF Record
  <2> QED
    BY <1>5, <2>1, <2>2, <2>3, <2>4, <2>5, <2>6, <2>7, <2>8, <2>9, <2>10, <2>11, <2>12, <2>13 DEF Step
<1> QED
  BY <1>1, <1>2, <1>3, <1>4, <1>5 DEF Next

(* A goroutine whose locals do not change. *)
Untouched(g) ==
  /\ config' = config
  /\ pc'[g] = pc[g] /\ query'[g] = query[g] /\ exempt'[g] = exempt[g] /\ list'[g] = list[g]
  /\ at'[g] = at[g] /\ net'[g] = net[g] /\ answer'[g] = answer[g] /\ next'[g] = next[g]
  /\ reply'[g] = reply[g] /\ seen'[g] = seen[g]

LEMMA UntouchedProgress == ASSUME NEW g, Untouched(g), ProgressOf(g) PROVE ProgressOf(g)'
BY DEF Untouched, ProgressOf, HoldsSlot, MustRetry, Usable

(* A step of one goroutine leaves the others alone. *)
LEMMA StepIsLocal ==
  ASSUME TypeOK, NEW h \in Handler, NEW g \in Handler \ {h},
         \/ Step(h)
         \/ \E q, where, r : Start(h, q, where, r)
  PROVE  Untouched(g)
BY DEF TypeOK, Step, Start, Untouched, Reject, AnswerHealth, LookUp, ReadUpstreams, RetryOverTCP,
       Accept, NextServer, GiveUp, Deny, Pass, Forward, Send, Record, Answers, Forget

LEMMA StartProgress ==
  ASSUME TypeOK, Progress, NEW h \in Handler, NEW q \in QueryInHand \ {NoQuery},
         NEW where, NEW r, Start(h, q, where, r),
         (where = "decide" /\ r = "none") \/ where = "send"
  PROVE  Progress'
<1>1. ProgressOf(h)'
  BY DEF TypeOK, Progress, ProgressOf, Start, Active
<1> QED
  BY <1>1, StepIsLocal, UntouchedProgress DEF Progress

LEMMA StepProgress == TypedProgress /\ [Next]_vars => Progress'
<1> SUFFICES ASSUME TypedProgress, [Next]_vars PROVE Progress'
  OBVIOUS
<1> USE ResolverAssumption, Queries DEF TypedProgress
<1>1. CASE UNCHANGED vars
  BY <1>1, UntouchedProgress DEF vars, Untouched, Progress
<1>2. ASSUME NEW c \in Config, Reconfigure(c) PROVE Progress'
  BY <1>2 DEF Reconfigure, Progress, ProgressOf, TypeOK, HoldsSlot, MustRetry
<1>3. ASSUME NEW h \in Handler, NEW q \in Query, TurnAway(h, q) \/ Overflow(h, q) \/ Admit(h, q)
      PROVE  Progress'
  BY <1>3, StartProgress DEF TurnAway, Overflow, Admit
<1>4. ASSUME NEW h \in Handler, NEW t \in Transport, RunCheck(h, t) PROVE Progress'
  BY <1>4, StartProgress DEF RunCheck
<1>5. ASSUME NEW h \in Handler, Step(h) PROVE Progress'
  <2> SUFFICES ProgressOf(h)'
    BY <1>5, StepIsLocal, UntouchedProgress DEF Progress
  <2> USE DEF TypeOK, Progress, ProgressOf, Active
  <2>1. CASE Reject(h) \/ AnswerHealth(h) \/ GiveUp(h) \/ Deny(h) \/ Forward(h)
    BY <2>1 DEF Reject, AnswerHealth, GiveUp, Deny, Inspecting, Forward, Answers
  <2>2. CASE LookUp(h)
    BY <2>2 DEF LookUp, Answers
  <2>3. CASE ReadUpstreams(h)
    BY <2>3 DEF ReadUpstreams
  <2>4. CASE \E a \in Answer \cup {NoAnswer} : RetryOverTCP(h, a) \/ NextServer(h, a)
    <3>1. /\ pc[h] = "ask" /\ pc' = pc
          /\ UNCHANGED <<config, query, list, next, reply, seen>>
      BY <2>4 DEF RetryOverTCP, NextServer, Asking
    <3> QED
      BY <3>1
  <2>5. CASE \E a \in Answer \cup {NoAnswer} : Accept(h, a)
    BY <2>5 DEF Accept, Asking, MustRetry, Usable
  <2>6. CASE Pass(h)
    <3>1. pc[h] = "inspect" /\ pc' = pc /\ answer' = answer /\ net' = net
      BY <2>6 DEF Pass, Inspecting
    <3>2. Usable(answer'[h]) /\ ~MustRetry(h, answer[h])'
      BY <3>1 DEF MustRetry
    <3> QED
      BY <2>6, <3>1, <3>2 DEF Pass
  <2>7. CASE Send(h)
    BY <2>7 DEF Send, Forget, HoldsSlot
  <2>8. CASE Record(h)
    BY <2>8 DEF Record, Forget
  <2> QED
    BY <1>5, <2>1, <2>2, <2>3, <2>4, <2>5, <2>6, <2>7, <2>8 DEF Step
<1> QED
  BY <1>1, <1>2, <1>3, <1>4, <1>5 DEF Next

(* Slots are counted. *)
Holders == {h \in Handler : HoldsSlot(h)}

LEMMA NotHolding == ASSUME NEW h, query[h] = NoQuery PROVE ~HoldsSlot(h)
BY DEF HoldsSlot, NoQuery, Check

LEMMA StepSlots == TypedProgress /\ SlotsAccounted /\ [Next]_vars => SlotsAccounted'
<1> SUFFICES ASSUME TypedProgress, SlotsAccounted, [Next]_vars PROVE SlotsAccounted'
  OBVIOUS
<1> USE ResolverAssumption, Queries DEF TypedProgress
<1>1. IsFiniteSet(Holders) /\ used = Cardinality(Holders) /\ used \in Nat /\ used <= Slots
  BY FS_Subset, FS_CardinalityType DEF Holders, SlotsAccounted
<1>2. SUFFICES used' = Cardinality(Holders') /\ used' <= Slots
  BY DEF SlotsAccounted, Holders
<1>3. ASSUME Holders' = Holders, used' = used PROVE used' = Cardinality(Holders') /\ used' <= Slots
  BY <1>1, <1>3
<1>4. ASSUME NEW h \in Holders, Holders' = Holders \ {h}, used' = used - 1
      PROVE  used' = Cardinality(Holders') /\ used' <= Slots
  <2>1. Cardinality(Holders \ {h}) = Cardinality(Holders) - 1
    BY <1>1, FS_RemoveElement
  <2> QED
    BY <1>1, <1>4, <2>1
<1>5. ASSUME NEW h \in Handler, NEW q \in Query, Admit(h, q)
      PROVE  used' = Cardinality(Holders') /\ used' <= Slots
  <2>1. h \notin Holders
    BY <1>5 DEF Admit, Start, Progress, ProgressOf, Holders, HoldsSlot, NoQuery, Check
  <2>2. Holders' = Holders \cup {h}
    BY <1>5 DEF Admit, Start, TypeOK, Holders, HoldsSlot
  <2>3. used < Slots /\ used' = used + 1
    BY <1>5 DEF Admit
  <2> QED
    <3>1. Cardinality(Holders \cup {h}) = Cardinality(Holders) + 1
      BY <1>1, <2>1, FS_AddElement
    <3> QED
      BY <1>1, <2>2, <2>3, <3>1
<1>6. ASSUME NEW h \in Handler, NEW q \in Query, TurnAway(h, q) \/ Overflow(h, q)
      PROVE  Holders' = Holders /\ used' = used
  <2>1. ~HoldsSlot(h) /\ ~HoldsSlot(h)'
    BY <1>6, NotHolding DEF TurnAway, Overflow, Start, TypeOK, Progress, ProgressOf, HoldsSlot
  <2>2. \A g \in Handler \ {h} : HoldsSlot(g)' = HoldsSlot(g)
    BY <1>6 DEF TurnAway, Overflow, Start, TypeOK, HoldsSlot
  <2> QED
    BY <1>6, <2>1, <2>2 DEF TurnAway, Overflow, Holders
<1>7. ASSUME NEW h \in Handler, NEW t \in Transport, RunCheck(h, t)
      PROVE  Holders' = Holders /\ used' = used
  BY <1>7 DEF RunCheck, Start, TypeOK, Progress, ProgressOf, Holders, HoldsSlot, NoQuery, Check
<1>8. ASSUME NEW h \in Handler, Step(h)
      PROVE  used' = Cardinality(Holders') /\ used' <= Slots
  <2>1. \A g \in Handler \ {h} : HoldsSlot(g)' = HoldsSlot(g)
    BY <1>8, StepIsLocal DEF Untouched, HoldsSlot
  <2>2. CASE pc[h] \in Active
    <3>1. used' = used /\ query' = query /\ reply[h] = "none" /\ reply'[h] \notin {"busy", "foreign"}
      BY <1>8, <2>2 DEF Step, Reject, AnswerHealth, LookUp, ReadUpstreams, RetryOverTCP, Accept,
           NextServer, GiveUp, Deny, Pass, Forward, Send, Record, Answers, Active,
           Progress, ProgressOf, TypeOK
    <3>2. Holders' = Holders
      BY <2>1, <3>1 DEF Holders, HoldsSlot
    <3> QED
      BY <1>3, <3>1, <3>2
  <2>3. CASE Send(h) /\ Forget(h) /\ HoldsSlot(h) /\ used' = used - 1
    <3>1. Holders' = Holders \ {h}
      BY <2>1, <2>3 DEF Forget, TypeOK, Holders, HoldsSlot, NoQuery, Check
    <3> QED
      BY <1>4, <2>3, <3>1 DEF Holders
  <2>4. CASE Send(h) /\ used' = used /\ (UNCHANGED <<query, reply>> \/ ~HoldsSlot(h))
    <3>1. HoldsSlot(h)' = HoldsSlot(h)
      BY <2>4 DEF Send, Forget, TypeOK, HoldsSlot, NoQuery, Check
    <3> QED
      BY <1>3, <2>1, <2>4, <3>1 DEF Holders
  <2>5. CASE Record(h)
    <3>1. HoldsSlot(h) /\ used' = used - 1
      BY <2>5 DEF Record, Progress, ProgressOf
    <3>2. Holders' = Holders \ {h}
      BY <2>1, <2>5 DEF Record, Forget, TypeOK, Holders, HoldsSlot, NoQuery, Check
    <3> QED
      BY <1>4, <3>1, <3>2 DEF Holders
  <2>6. CASE Send(h)
    BY <2>3, <2>4, <2>6 DEF Send
  <2>7. CASE ~Send(h) /\ ~Record(h)
    <3>1. pc[h] \in Active
      BY <1>8, <2>7 DEF Step, Reject, AnswerHealth, LookUp, ReadUpstreams, RetryOverTCP, Accept,
           NextServer, Asking, GiveUp, Deny, Pass, Inspecting, Forward, Active
    <3> QED
      BY <2>2, <3>1
  <2> QED
    BY <2>5, <2>6, <2>7
<1>9. CASE UNCHANGED vars \/ \E c \in Config : Reconfigure(c)
  BY <1>3, <1>9 DEF vars, Reconfigure, Holders, HoldsSlot
<1> QED
  BY <1>3, <1>5, <1>6, <1>7, <1>8, <1>9 DEF Next

(* The decisions an answer will rest on, as they are made. *)
WitnessOf(h) ==
  LET name == query[h].name IN
  /\ pc[h] \in {"upstreams", "ask", "inspect"} =>
       /\ \E c \in seen[h] : ~Blocks(c, name)
       /\ IF exempt[h] THEN \E c \in seen[h] : Allows(c, name)
                       ELSE \E c \in seen[h] : ~Allows(c, name)
  /\ pc[h] = "inspect" =>
       \A i \in DOMAIN answer[h].targets :
         i < next[h] => \E c \in seen[h] : ~Blocks(c, answer[h].targets[i])
  /\ Justified(h)

Witnesses == \A h \in Handler : WitnessOf(h)

LEMMA InitWitnesses == Init => Witnesses
BY DEF Init, Witnesses, WitnessOf, Justified

LEMMA UntouchedWitness == ASSUME NEW g, Untouched(g), WitnessOf(g) PROVE WitnessOf(g)'
BY DEF Untouched, WitnessOf, Justified, Blocks, Allows

Judged == {"forwarded", "blocked", "cname"}
Bound  == {"upstreams", "ask", "inspect"}

(* What is known stays known while the goroutine goes on. *)
LEMMA WitnessCarries ==
  ASSUME NEW h, WitnessOf(h), seen[h] \subseteq seen'[h],
         query'[h] = query[h], exempt'[h] = exempt[h], answer'[h] = answer[h],
         next'[h] = next[h], reply'[h] = reply[h],
         pc'[h] \in Bound => pc[h] \in Bound, pc'[h] = "inspect" => pc[h] = "inspect"
  PROVE  WitnessOf(h)'
BY DEF WitnessOf, Justified, Blocks, Allows, Bound

(* A goroutine without a decision needs none. *)
LEMMA WitnessNotNeeded ==
  ASSUME NEW h, pc'[h] \notin Bound, reply'[h] \notin Judged
  PROVE  WitnessOf(h)'
BY DEF WitnessOf, Justified, Bound, Judged

LEMMA StepWitnesses == TypedProgress /\ Witnesses /\ [Next]_vars => Witnesses'
<1> SUFFICES ASSUME TypedProgress, Witnesses, [Next]_vars PROVE Witnesses'
  OBVIOUS
<1> USE ResolverAssumption DEF TypedProgress
<1>1. CASE UNCHANGED vars
  BY <1>1, UntouchedWitness DEF vars, Untouched, Witnesses
<1>2. ASSUME NEW c \in Config, Reconfigure(c) PROVE Witnesses'
  <2> SUFFICES ASSUME NEW g \in Handler PROVE WitnessOf(g)'
    BY DEF Witnesses
  <2>1. CASE pc[g] = "idle"
    BY <1>2, <2>1 DEF Reconfigure, Progress, ProgressOf, WitnessOf, Justified
  <2>2. CASE pc[g] # "idle"
    <3>1. seen[g] \subseteq seen'[g] /\ UNCHANGED <<pc, query, exempt, answer, next, reply>>
      BY <1>2, <2>2 DEF Reconfigure
    <3> QED
      BY <3>1, WitnessCarries DEF Witnesses
  <2> QED
    BY <2>1, <2>2
<1>3. ASSUME NEW h \in Handler, NEW q, NEW where \in {"decide", "send"},
             NEW r \in {"none", "busy", "foreign"}, Start(h, q, where, r)
      PROVE  Witnesses'
  <2>1. WitnessOf(h)'
    BY <1>3 DEF Start, TypeOK, WitnessOf, Justified
  <2> QED
    BY <1>3, <2>1, StepIsLocal, UntouchedWitness DEF Witnesses
<1>4. ASSUME NEW h \in Handler, Step(h) PROVE Witnesses'
  <2> SUFFICES WitnessOf(h)'
    BY <1>4, StepIsLocal, UntouchedWitness DEF Witnesses
  <2> USE DEF TypeOK, Witnesses, WitnessOf
  <2>1. CASE Reject(h) \/ AnswerHealth(h) \/ GiveUp(h)
    BY <2>1 DEF Reject, AnswerHealth, GiveUp, Answers, Justified
  <2>2. CASE LookUp(h)
    <3>1. config \in seen[h] /\ seen' = seen /\ query' = query /\ reply[h] = "none"
      BY <2>2 DEF LookUp, Progress, ProgressOf, Active
    <3>2. CASE policy(query[h].name).blocked
      BY <2>2, <3>1, <3>2 DEF LookUp, Answers, Justified, policy, Blocks
    <3>3. CASE ~policy(query[h].name).blocked
      BY <2>2, <3>1, <3>3, Decisions DEF LookUp, Justified, policy, Blocks, Allows
    <3> QED
      BY <3>2, <3>3
  <2>3. CASE ReadUpstreams(h)
    BY <2>3, WitnessCarries DEF ReadUpstreams, Bound
  <2>4. CASE \E a \in Answer \cup {NoAnswer} : RetryOverTCP(h, a) \/ NextServer(h, a)
    BY <2>4, WitnessCarries DEF RetryOverTCP, NextServer, Asking
  <2>5. CASE \E a \in Answer \cup {NoAnswer} : Accept(h, a)
    <3>1. PICK a \in Answer : Accept(h, a)
      BY <2>5 DEF Accept, Usable
    <3>2. pc[h] = "ask" /\ next[h] = 1 /\ reply[h] = "none"
      BY <3>1 DEF Accept, Asking, Progress, ProgressOf, Active
    <3> QED
      BY <3>1, <3>2 DEF Accept, Justified, Blocks, Allows
  <2>6. CASE Deny(h)
    <3> DEFINE t == answer[h].targets[next[h]]
    <3>1. config \in seen[h] /\ Blocks(config, t) /\ ~exempt[h]
      BY <2>6 DEF Deny, Inspecting, Progress, ProgressOf, policy, Blocks
    <3>2. answer[h].targets \in Seq(Seq(Label)) /\ next[h] \in DOMAIN answer[h].targets
      BY <2>6 DEF Deny, Inspecting, Progress, ProgressOf, Usable
    <3>3. \E c \in seen[h] : ~Allows(c, query[h].name)
      BY <2>6, <3>1 DEF Deny, Inspecting
    <3>4. pc'[h] = "send" /\ reply'[h] = "cname" /\ UNCHANGED <<seen, query, answer>>
      BY <2>6 DEF Deny, Answers
    <3> QED
      BY <3>1, <3>2, <3>3, <3>4 DEF Justified, Blocks, Allows
  <2>7. CASE Pass(h)
    <3>1. config \in seen[h] /\ ~Blocks(config, answer[h].targets[next[h]])
      BY <2>7 DEF Pass, Inspecting, Progress, ProgressOf, policy, Blocks
    <3>2. /\ pc[h] = "inspect" /\ reply[h] = "none" /\ next'[h] = next[h] + 1
          /\ UNCHANGED <<pc, seen, query, answer, exempt, reply>>
      BY <2>7 DEF Pass, Inspecting, Progress, ProgressOf, Active
    <3>3. answer[h].targets \in Seq(Seq(Label))
      BY <3>2 DEF Progress, ProgressOf, Usable
    <3>4. \A i \in DOMAIN answer[h].targets :
            i < next[h] + 1 => \E c \in seen[h] : ~Blocks(c, answer[h].targets[i])
      <4>1. TAKE i \in DOMAIN answer[h].targets
      <4>2. i \in Nat /\ next[h] \in Nat
        BY <3>3
      <4>3. CASE i < next[h]
        BY <3>2, <4>3
      <4>4. CASE i = next[h]
        BY <3>1, <4>4
      <4> QED
        BY <4>2, <4>3, <4>4
    <3> QED
      BY <3>2, <3>4 DEF Justified, Blocks, Allows
  <2>8. CASE Forward(h)
    <3>1. /\ pc[h] = "inspect" /\ pc'[h] = "send" /\ reply'[h] = "forwarded"
          /\ UNCHANGED <<seen, query, answer>>
      BY <2>8 DEF Forward, Answers
    <3>2. answer[h].targets \in Seq(Seq(Label))
      BY <3>1 DEF Progress, ProgressOf, Usable
    <3>3. \/ \E c \in seen[h] : Allows(c, query[h].name)
          \/ \A i \in DOMAIN answer[h].targets :
               \E c \in seen[h] : ~Blocks(c, answer[h].targets[i])
      <4>1. CASE exempt[h]
        BY <3>1, <4>1
      <4>2. CASE next[h] > Len(answer[h].targets)
        <5>1. \A i \in DOMAIN answer[h].targets : i < next[h]
          BY <3>2, <4>2
        <5> QED
          BY <3>1, <5>1
      <4> QED
        BY <2>8, <4>1, <4>2 DEF Forward
    <3> QED
      BY <3>1, <3>3 DEF Justified, Blocks, Allows
  <2>9. CASE Send(h)
    <3>1. CASE Forget(h)
      BY <3>1, WitnessNotNeeded DEF Forget, Bound, Judged
    <3>2. CASE pc'[h] = "record" /\ UNCHANGED <<query, exempt, answer, next, reply, seen>>
      BY <3>2, WitnessCarries DEF Bound
    <3> QED
      BY <2>9, <3>1, <3>2 DEF Send
  <2>10. CASE Record(h)
    BY <2>10, WitnessNotNeeded DEF Record, Forget, Bound, Judged
  <2> QED
    BY <1>4, <2>1, <2>2, <2>3, <2>4, <2>5, <2>6, <2>7, <2>8, <2>9, <2>10 DEF Step
<1> QED
  BY <1>1, <1>2, <1>3, <1>4 DEF Next, TurnAway, Overflow, Admit, RunCheck

(* Failover, from what is known of a goroutine that inspects or gives up. *)
LEMMA UntouchedFailover == ASSUME NEW g, Untouched(g), FailedOver(g) PROVE FailedOver(g)'
BY DEF Untouched, FailedOver

LEMMA FailoverCarries ==
  ASSUME NEW h, FailedOver(h), seen[h] \subseteq seen'[h], list'[h] = list[h], at'[h] = at[h],
         net'[h] = net[h], answer'[h] = answer[h], reply'[h] = reply[h]
  PROVE  FailedOver(h)'
BY DEF FailedOver

LEMMA FailoverNotNeeded ==
  ASSUME NEW h, reply'[h] \notin {"forwarded", "unavailable"}
  PROVE  FailedOver(h)'
BY DEF FailedOver

LEMMA StepFailover ==
  TypedProgress /\ FailoverIsComplete /\ [Next]_vars => FailoverIsComplete'
<1> SUFFICES ASSUME TypedProgress, FailoverIsComplete, [Next]_vars PROVE FailoverIsComplete'
  OBVIOUS
<1> USE DEF TypedProgress, FailoverIsComplete
<1>1. CASE UNCHANGED vars
  BY <1>1, UntouchedFailover DEF vars, Untouched
<1>2. ASSUME NEW c \in Config, Reconfigure(c) PROVE FailoverIsComplete'
  <2> SUFFICES ASSUME NEW g \in Handler PROVE FailedOver(g)'
    OBVIOUS
  <2>1. CASE pc[g] = "idle"
    BY <1>2, <2>1, FailoverNotNeeded DEF Reconfigure, Progress, ProgressOf
  <2>2. CASE pc[g] # "idle"
    BY <1>2, <2>2, FailoverCarries DEF Reconfigure
  <2> QED
    BY <2>1, <2>2
<1>3. ASSUME NEW h \in Handler, NEW q, NEW where, NEW r \in {"none", "busy", "foreign"},
             Start(h, q, where, r)
      PROVE  FailoverIsComplete'
  <2>1. FailedOver(h)'
    BY <1>3, FailoverNotNeeded DEF Start, TypeOK
  <2> QED
    BY <1>3, <2>1, StepIsLocal, UntouchedFailover
<1>4. ASSUME NEW h \in Handler, Step(h) PROVE FailoverIsComplete'
  <2> SUFFICES FailedOver(h)'
    BY <1>4, StepIsLocal, UntouchedFailover
  <2> USE DEF TypeOK
  <2>1. CASE Reject(h) \/ AnswerHealth(h) \/ Deny(h)
    BY <2>1, FailoverNotNeeded DEF Reject, AnswerHealth, Deny, Answers
  <2>2. CASE LookUp(h)
    <3>1. reply[h] = "none"
      BY <2>2 DEF LookUp, Progress, ProgressOf, Active
    <3> QED
      BY <2>2, <3>1, FailoverNotNeeded DEF LookUp, Answers
  <2>3. CASE pc[h] \in Active /\ reply' = reply
    BY <2>3, FailoverNotNeeded DEF Progress, ProgressOf
  <2>4. CASE GiveUp(h)
    <3>1. at[h] = Len(list[h]) + 1 /\ \E c \in seen[h] : list[h] = c.upstreams
      BY <2>4 DEF GiveUp, Progress, ProgressOf
    <3> QED
      BY <2>4, <3>1 DEF GiveUp, Answers, FailedOver
  <2>5. CASE Forward(h)
    <3>1. ProgressOf(h) /\ pc[h] = "inspect" /\ net[h] \in Transport
      BY <2>5 DEF Forward, Progress
    <3>2. /\ at[h] <= Len(list[h]) /\ Usable(answer[h]) /\ ~MustRetry(h, answer[h])
          /\ \E c \in seen[h] : list[h] = c.upstreams
      BY <3>1 DEF ProgressOf
    <3>3. reply'[h] = "forwarded" /\ UNCHANGED <<list, at, net, answer, seen>>
      BY <2>5 DEF Forward, Answers
    <3> QED
      BY <3>1, <3>2, <3>3 DEF FailedOver, Usable, MustRetry, Transport
  <2>6. CASE Send(h)
    <3>1. CASE Forget(h)
      BY <3>1, FailoverNotNeeded DEF Forget
    <3>2. CASE UNCHANGED <<list, at, net, answer, reply, seen>>
      BY <3>2, FailoverCarries
    <3> QED
      BY <2>6, <3>1, <3>2 DEF Send
  <2>7. CASE Record(h)
    BY <2>7, FailoverNotNeeded DEF Record, Forget
  <2>8. CASE ReadUpstreams(h) \/ Pass(h) \/ \E a \in Answer \cup {NoAnswer} :
               RetryOverTCP(h, a) \/ Accept(h, a) \/ NextServer(h, a)
    BY <2>3, <2>8 DEF ReadUpstreams, Pass, Inspecting, RetryOverTCP, Accept, NextServer, Asking, Active
  <2> QED
    BY <1>4, <2>1, <2>2, <2>4, <2>5, <2>6, <2>7, <2>8 DEF Step
<1> QED
  BY <1>1, <1>2, <1>3, <1>4 DEF Next, TurnAway, Overflow, Admit, RunCheck

(* The conjunction of all parts is inductive. *)
ResolverInv == TypedProgress /\ SlotsAccounted /\ Witnesses /\ FailoverIsComplete

LEMMA AlwaysResolver == Spec => []ResolverInv
<1>1. Init => ResolverInv
  <2>1. Init => SlotsAccounted
    <3> SUFFICES ASSUME Init PROVE SlotsAccounted
      OBVIOUS
    <3>1. {h \in Handler : HoldsSlot(h)} = {}
      <4>1. ASSUME NEW h \in Handler PROVE ~HoldsSlot(h)
        <5>1. query[h] = NoQuery
          BY DEF Init
        <5> QED
          BY <5>1, NotHolding
      <4> QED
        BY <4>1
    <3> QED
      <4>1. Cardinality({h \in Handler : HoldsSlot(h)}) = 0
        BY <3>1, FS_EmptySet
      <4> QED
        BY <4>1, ResolverAssumption DEF Init, SlotsAccounted
  <2>2. Init => FailoverIsComplete
    BY DEF Init, FailoverIsComplete, FailedOver
  <2> QED
    BY <2>1, <2>2, InitTyped, InitWitnesses DEF ResolverInv
<1>2. ResolverInv /\ [Next]_vars => ResolverInv'
  BY StepTypeOK, StepProgress, StepSlots, StepWitnesses, StepFailover DEF ResolverInv, TypedProgress
<1> QED
  BY <1>1, <1>2, PTL DEF Spec

(* The types of the resolver's state, for every set of constants. *)
THEOREM ResolverTypes == Spec => []TypeOK
<1>1. ResolverInv => TypeOK
  BY DEF ResolverInv, TypedProgress
<1> QED
  BY <1>1, AlwaysResolver, PTL

(* No path through ServeDNS loses a slot or gives one back twice. *)
THEOREM NoSlotLost == Spec => []SlotsAccounted
<1>1. ResolverInv => SlotsAccounted
  BY DEF ResolverInv
<1> QED
  BY <1>1, AlwaysResolver, PTL

(* Every verdict was in force at some moment of its query. *)
THEOREM VerdictsInForce == Spec => []DecisionInForce
<1>1. ResolverInv => DecisionInForce
  BY DEF ResolverInv, Witnesses, WitnessOf, DecisionInForce
<1> QED
  BY <1>1, AlwaysResolver, PTL

(* No server of the list is skipped, and no failure is passed on. *)
THEOREM FailoverNeverSkips == Spec => []FailoverIsComplete
<1>1. ResolverInv => FailoverIsComplete
  BY DEF ResolverInv
<1> QED
  BY <1>1, AlwaysResolver, PTL

(* A query of any kind, over any number of servers and CNAME targets, comes  *)
(* nearer its end with every step it takes.                                  *)
THEOREM QueriesAdvance == Spec => QueryAdvances
<1> DEFINE Nearer(h) == \/ Phases[pc'[h]] < Phases[pc[h]]
                        \/ pc'[h] = pc[h] /\ Left(h)' \in 0..Left(h) - 1
           Advances == \A h \in Handler :
                         pc[h] # "idle" /\ Locals(h)' # Locals(h) => Nearer(h)
<1>1. ASSUME TypedProgress, [Next]_vars PROVE [Advances]_vars
  <2> SUFFICES ASSUME Next, NEW g \in Handler, pc[g] # "idle", Locals(g)' # Locals(g)
               PROVE  Nearer(g)
    BY <1>1
  <2> USE <1>1 DEF Phases, TypedProgress
  <2>1. ASSUME NEW c, Reconfigure(c) PROVE FALSE
    BY <2>1 DEF Reconfigure, Locals
  <2>2. ASSUME NEW h \in Handler, NEW q, NEW where, NEW r, Start(h, q, where, r) PROVE FALSE
    <3>1. g # h
      BY <2>2 DEF Start
    <3>2. Untouched(g)
      BY <2>2, <3>1, StepIsLocal
    <3> QED
      BY <3>2 DEF Untouched, Locals
  <2>3. ASSUME NEW h \in Handler, Step(h), h # g PROVE FALSE
    <3>1. Untouched(g)
      BY <2>3, StepIsLocal
    <3> QED
      BY <3>1 DEF Untouched, Locals
  <2>4. CASE Step(g)
    <3> USE DEF TypeOK
    <3>1. CASE Reject(g) \/ AnswerHealth(g) \/ LookUp(g)
      BY <3>1 DEF Reject, AnswerHealth, LookUp, Answers, PC
    <3>2. CASE ReadUpstreams(g)
      BY <3>2 DEF ReadUpstreams, PC
    <3>3. CASE \E a \in Answer \cup {NoAnswer} : RetryOverTCP(g, a)
      <4>1. /\ pc[g] = "ask" /\ pc' = pc /\ at' = at /\ list' = list
            /\ net[g] = "udp" /\ net'[g] = "tcp" /\ at[g] <= Len(list[g])
        BY <3>3 DEF RetryOverTCP, Asking, MustRetry
      <4>2. Left(g) = 2 * (Len(list[g]) + 1 - at[g]) + 1 /\ Left(g)' = 2 * (Len(list[g]) + 1 - at[g])
        BY <4>1 DEF Left
      <4>3. Len(list[g]) \in Nat /\ at[g] \in Nat
        OBVIOUS
      <4> QED
        BY <4>1, <4>2, <4>3
    <3>4. CASE \E a \in Answer \cup {NoAnswer} : Accept(g, a)
      BY <3>4 DEF Accept, Asking
    <3>5. CASE \E a \in Answer \cup {NoAnswer} : NextServer(g, a)
      <4>1. /\ pc[g] = "ask" /\ pc' = pc /\ at'[g] = at[g] + 1 /\ list' = list
            /\ at[g] <= Len(list[g])
        BY <3>5 DEF NextServer, Asking
      <4>2. Len(list[g]) \in Nat /\ at[g] \in Nat
        OBVIOUS
      <4>3. PICK u \in {0, 1} : Left(g) = 2 * (Len(list[g]) + 1 - at[g]) + u
        BY <4>1 DEF Left
      <4>4. PICK v \in {0, 1} : Left(g)' = 2 * (Len(list[g]) + 1 - (at[g] + 1)) + v
        BY <4>1 DEF Left
      <4> DEFINE d == Len(list[g]) - at[g]
      <4>5. d \in Nat /\ Left(g) = 2 * d + 2 + u /\ Left(g)' = 2 * d + v
        BY <4>1, <4>2, <4>3, <4>4, SMTT(30)
      <4> HIDE DEF d
      <4>6. Left(g)' \in 0..Left(g) - 1
        BY <4>5
      <4> QED
        BY <4>1, <4>6
    <3>6. CASE GiveUp(g)
      BY <3>6 DEF GiveUp, Answers
    <3>7. CASE Deny(g) \/ Forward(g)
      BY <3>7 DEF Deny, Inspecting, Forward, Answers
    <3>8. CASE Pass(g)
      <4>1. /\ pc[g] = "inspect" /\ pc' = pc /\ answer' = answer /\ next'[g] = next[g] + 1
            /\ next[g] <= Len(answer[g].targets)
        BY <3>8 DEF Pass, Inspecting
      <4>2. /\ Left(g) = Len(answer[g].targets) + 1 - next[g]
            /\ Left(g)' = Len(answer[g].targets) + 1 - (next[g] + 1)
        BY <4>1 DEF Left
      <4>3. answer[g].targets \in Seq(Seq(Label))
        BY <4>1, ResolverAssumption DEF Progress, ProgressOf, Usable
      <4>4. Len(answer[g].targets) \in Nat /\ next[g] \in Nat
        BY <4>3
      <4> QED
        BY <4>1, <4>2, <4>4, SMTT(20)
    <3>9. CASE Send(g)
      BY <3>9 DEF Send, Forget
    <3>10. CASE Record(g)
      BY <3>10 DEF Record, Forget
    <3> QED
      BY <2>4, <3>1, <3>2, <3>3, <3>4, <3>5, <3>6, <3>7, <3>8, <3>9, <3>10 DEF Step
  <2> QED
    BY <2>1, <2>2, <2>3, <2>4 DEF Next, TurnAway, Overflow, Admit, RunCheck
<1>2. ResolverInv => TypedProgress
  BY DEF ResolverInv
<1> QED
  BY <1>1, <1>2, AlwaysResolver, PTL DEF Spec, QueryAdvances
=============================================================================
