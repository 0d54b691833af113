------------------------ MODULE PaymentRouter_proofs ------------------------
(***************************************************************************)
(* Theorems about PaymentRouter, for every finite set of gateways and any  *)
(* number of requests and health checks.  The properties are kept by one   *)
(* inductive invariant, Inv.                                               *)
(***************************************************************************)
EXTENDS PaymentRouter, FiniteSetTheorems, WellFoundedInduction, TLAPS

\* No two gateways share a seat, and the seats follow the priorities.
InOrder(place, prio) ==
    \A g, h \in Gateways :
        /\ place[g] = place[h] => g = h
        /\ place[g] < place[h] => prio[g] <= prio[h]

LineSound == InOrder(seat, priority)

Asked(r) == {g \in Gateways : order[r][g] # "none"}

\* The gateways asked and those still to be tried are MaxTries at most; what is
\* still to be tried was not asked, and an order is opened when it says so.
OrderSound(r) ==
    /\ call[r].pc = "idle" => Asked(r) = {}
    /\ call[r].todo \cap Asked(r) = {}
    /\ Cardinality(Asked(r) \cup call[r].todo) <= MaxTries
    /\ \A g \in Gateways :
          opened[r][g] = IF order[r][g] = "opened" THEN 1 ELSE 0

OrdersSound == \A r \in Requests : OrderSound(r)

\* An attempt under way has not failed yet.
CallSound(r) ==
    LET k == call[r] IN
    /\ k.pc \in {"idle", "looking"} => k.missed = {}
    /\ k.pc \in {"trying", "looking"} => k.at \in Gateways
    /\ k.pc = "trying" => k.at \notin k.missed \cup k.todo
    /\ k.pc \in {"trying", "recording"} => k.missed \cap k.todo = {}

CallsSound == \A r \in Requests : CallSound(r)

Won(g)    == {r \in Requests : call[r].pc = "done" /\ call[r].at = g}
Missed(g) == {r \in Requests : g \in call[r].missed}

\* The metrics, with the finiteness of the sets they count.
Counted(g) ==
    /\ IsFiniteSet(Won(g)) /\ success[g] = Cardinality(Won(g))
    /\ IsFiniteSet(Missed(g)) /\ failure[g] = Cardinality(Missed(g))

AllCounted == \A g \in Gateways : Counted(g)

\* What a request, or a gateway for it, does.
RequestStep(r) ==
    \/ RouteCreateOrder(r) \/ RouteLookup(r) \/ RouteStep(r)
    \/ LookupAnswered(r) \/ ResolveJob(r)
    \/ \E g \in Gateways : GatewayAnswers(r, g)

\* What an administrator or a health check does.
OtherStep == AdminNext \/ HealthNext

Inv == TypeOK /\ LineSound /\ OrdersSound /\ CallsSound /\ AllCounted

-----------------------------------------------------------------------------
(***************************************************************************)
(* Counting gateways                                                       *)
(***************************************************************************)

\* A set of gateways has a size.
LEMMA CountType ==
    ASSUME NEW S \in SUBSET Gateways
    PROVE  IsFiniteSet(S) /\ Cardinality(S) \in Nat
BY RouterAssumption, FS_Subset, FS_CardinalityType

\* A set that lacks an element of another one it lies in is smaller.
LEMMA CountLess ==
    ASSUME NEW T \in SUBSET Gateways, NEW S \in SUBSET T,
           NEW x \in T, x \notin S
    PROVE  Cardinality(S) < Cardinality(T)
<1>1. Cardinality(S) <= Cardinality(T) /\ Cardinality(S) # Cardinality(T)
  BY CountType, FS_Subset
<1> QED
  BY <1>1, CountType

\* Among gateways some one is the first.
LEMMA HasFirst ==
    ASSUME NEW S \in SUBSET Gateways, S # {}, NEW line \in [Gateways -> Nat]
    PROVE  \E m \in S : \A h \in S : line[m] <= line[h]
<1> DEFINE P == {line[h] : h \in S}
<1>1. P \subseteq Nat /\ P # {}
  OBVIOUS
<1>2. \E p \in P : \A q \in P : <<q, p>> \notin OpToRel(<, Nat)
  BY <1>1, WFMin, NatLessThanWellFounded
<1>3. PICK p \in P : \A q \in P : ~(q < p)
  BY <1>1, <1>2 DEF OpToRel
<1>4. PICK m \in S : line[m] = p
  BY <1>3
<1>5. \A h \in S : line[m] <= line[h]
  BY <1>3, <1>4
<1> QED
  BY <1>5

\* The gateways to try are n at most.
LEMMA FirstOfSize ==
    ASSUME NEW S \in SUBSET Gateways, NEW n \in Nat,
           NEW line \in [Gateways -> Nat],
           \A g, h \in Gateways : line[g] = line[h] => g = h
    PROVE  Cardinality(FirstOf(S, n, line)) <= n
<1> DEFINE T == FirstOf(S, n, line)
           Ahead(g) == {h \in S : line[h] < line[g]}
           rest == [g \in Gateways |-> IF g \in T THEN n - Cardinality(Ahead(g))
                                       ELSE 0]
<1>1. T \in SUBSET S /\ \A g \in T : Cardinality(Ahead(g)) < n
  BY DEF FirstOf
<1>2. \A g \in Gateways : Ahead(g) \in SUBSET Gateways /\ Cardinality(Ahead(g)) \in Nat
  BY CountType
<1>3. CASE T = {}
  BY <1>3, FS_EmptySet
<1>4. CASE T # {}
  <2>1. rest \in [Gateways -> Nat]
    BY <1>1, <1>2
  <2>2. PICK m \in T : \A h \in T : rest[m] <= rest[h]
    <3> HIDE DEF rest, T
    <3> QED
      BY <1>1, <1>4, <2>1, HasFirst
  <2>3. ASSUME NEW h \in T
        PROVE  Cardinality(Ahead(h)) <= Cardinality(Ahead(m))
    <3>1. h \in Gateways /\ m \in Gateways
      BY <1>1
    <3>2. rest[m] <= rest[h]
      BY <2>2
    <3>3. rest[m] = n - Cardinality(Ahead(m)) /\ rest[h] = n - Cardinality(Ahead(h))
      BY <3>1
    <3> HIDE DEF Ahead, rest, T
    <3> QED
      BY <1>2, <3>1, <3>2, <3>3
  <2>4. T \ {m} \subseteq Ahead(m)
    <3> SUFFICES ASSUME NEW h \in T, h # m, ~(line[h] < line[m])
                 PROVE  FALSE
      BY <1>1
    <3>1. line[m] < line[h] /\ m \in S /\ h \in S
      BY <1>1
    <3>2. Ahead(m) \in SUBSET Ahead(h) /\ m \in Ahead(h) /\ m \notin Ahead(m)
      BY <1>1, <3>1
    <3>3. Cardinality(Ahead(m)) < Cardinality(Ahead(h))
      <4> HIDE DEF Ahead
      <4> QED
        BY <1>1, <1>2, <3>2, CountLess
    <3>4. Cardinality(Ahead(h)) <= Cardinality(Ahead(m))
      BY <2>3
    <3>5. h \in Gateways /\ m \in Gateways
      BY <1>1
    <3> HIDE DEF Ahead
    <3> QED
      BY <1>2, <3>3, <3>4, <3>5
  <2>5. Cardinality(T \ {m}) <= Cardinality(Ahead(m))
    <3> HIDE DEF Ahead
    <3> QED
      BY <1>1, <1>2, <2>2, <2>4, CountType, FS_Subset
  <2>6. Cardinality(T) = Cardinality(T \ {m}) + 1
    BY <1>1, CountType, FS_RemoveElement
  <2> QED
    BY <1>1, <1>2, <2>2, <2>5, <2>6, CountType
<1> QED
  BY <1>3, <1>4

\* The first of the gateways to try is the first of those that can be used.
LEMMA FirstIsFirst ==
    ASSUME NEW S \in SUBSET Gateways, NEW n \in Nat \ {0},
           NEW line \in [Gateways -> Nat],
           NEW g \in FirstOf(S, n, line), IsHead(g, FirstOf(S, n, line), line)
    PROVE  \A h \in S : line[g] <= line[h]
<1>1. g \in S
  BY DEF FirstOf
<1>2. PICK m \in S : \A h \in S : line[m] <= line[h]
  BY <1>1, HasFirst
<1>3. {h \in S : line[h] < line[m]} = {}
  BY <1>2
<1>4. m \in FirstOf(S, n, line)
  BY <1>3, FS_EmptySet DEF FirstOf
<1> QED
  BY <1>1, <1>2, <1>4 DEF IsHead

\* Sorting puts the gateways in the order of their new priorities.
LEMMA SortedInOrder ==
    ASSUME NEW prio \in [Gateways -> Nat], TypeOK, LineSound
    PROVE  Sorted(prio) \in [Gateways -> Nat] /\ InOrder(Sorted(prio), prio)
<1> DEFINE Ahead(g) == {h \in Gateways : Before(h, g, prio)}
<1>0. seat \in [Gateways -> Nat]
  BY DEF TypeOK
<1>1. \A g \in Gateways : Ahead(g) \in SUBSET Gateways /\ Cardinality(Ahead(g)) \in Nat
  BY CountType
<1>2. Sorted(prio) \in [Gateways -> Nat]
      /\ \A g \in Gateways : Sorted(prio)[g] = 1 + Cardinality(Ahead(g))
  BY <1>1 DEF Sorted
<1>3. ASSUME NEW g \in Gateways, NEW h \in Gateways, Before(g, h, prio)
      PROVE  Sorted(prio)[g] < Sorted(prio)[h]
  <2>1. \A x \in Gateways : Before(x, g, prio) => Before(x, h, prio)
    BY <1>0, <1>3 DEF Before
  <2>2. Ahead(g) \in SUBSET Ahead(h) /\ g \in Ahead(h) /\ g \notin Ahead(g)
    BY <1>0, <1>3, <2>1 DEF Before
  <2>3. Cardinality(Ahead(g)) < Cardinality(Ahead(h))
    <3> HIDE DEF Ahead
    <3> QED
      BY <1>1, <2>2, CountLess
  <2> QED
    BY <1>1, <1>2, <2>3
<1>4. ASSUME NEW g \in Gateways, NEW h \in Gateways
      PROVE  g = h \/ Before(g, h, prio) \/ Before(h, g, prio)
  <2>1. seat[g] \in Nat /\ seat[h] \in Nat /\ prio[g] \in Nat /\ prio[h] \in Nat
    BY <1>0
  <2>2. seat[g] = seat[h] => g = h
    BY DEF LineSound, InOrder
  <2> QED
    BY <2>1, <2>2 DEF Before
<1>5. ASSUME NEW g \in Gateways, NEW h \in Gateways, Before(h, g, prio)
      PROVE  prio[h] <= prio[g]
  BY <1>5 DEF Before
<1>6. \A g \in Gateways : Sorted(prio)[g] \in Nat
  BY <1>2
<1>7. ASSUME NEW g \in Gateways, NEW h \in Gateways
      PROVE  /\ Sorted(prio)[g] = Sorted(prio)[h] => g = h
             /\ Sorted(prio)[g] < Sorted(prio)[h] => prio[g] <= prio[h]
  <2>1. CASE g = h
    BY <1>6, <2>1
  <2>2. CASE Before(g, h, prio)
    BY <1>3, <1>5, <1>6, <2>2
  <2>3. CASE Before(h, g, prio)
    BY <1>3, <1>6, <2>3
  <2> QED
    BY <1>4, <2>1, <2>2, <2>3
<1> QED
  BY <1>2, <1>7 DEF InOrder

-----------------------------------------------------------------------------
(***************************************************************************)
(* The invariant                                                           *)
(***************************************************************************)

\* The invariant holds before any request.
LEMMA InitInv == Init => Inv
<1> SUFFICES ASSUME Init PROVE Inv
  OBVIOUS
<1> USE DEF Init
<1>1. TypeOK
  BY RouterAssumption DEF TypeOK, Call
<1>2. LineSound
  BY RouterAssumption DEF LineSound, InOrder
<1>3. OrdersSound
  <2>1. \A r \in Requests : Asked(r) = {} /\ Asked(r) \cup call[r].todo = {}
    BY DEF Asked
  <2> QED
    <3>1. \A r \in Requests : Cardinality(Asked(r) \cup call[r].todo) = 0
      BY <2>1, FS_EmptySet
    <3>2. ASSUME NEW r \in Requests
          PROVE  OrderSound(r)
      <4>1. call[r].todo = {} /\ \A g \in Gateways : order[r][g] = "none" /\ opened[r][g] = 0
        OBVIOUS
      <4> QED
        <5> HIDE DEF Init
        <5>1. Cardinality(Asked(r) \cup call[r].todo) <= MaxTries
          BY <3>1, RouterAssumption
        <5> QED
          BY <2>1, <4>1, <5>1 DEF OrderSound
    <3> QED
      BY <3>2 DEF OrdersSound
<1>4. CallsSound
  BY DEF CallsSound, CallSound
<1>5. AllCounted
  <2>1. \A g \in Gateways : Won(g) = {} /\ Missed(g) = {}
    BY DEF Won, Missed
  <2> QED
    BY <2>1, FS_EmptySet DEF AllCounted, Counted
<1> QED
  BY <1>1, <1>2, <1>3, <1>4, <1>5 DEF Inv

Orders == [Requests -> [Gateways -> {"none", "asked", "opened", "rejected"}]]

\* Every update of a request, of an order and of a metric keeps its type.
LEMMA CallUpdate ==
    ASSUME NEW r \in Requests, call \in [Requests -> Call],
           NEW k \in Call
    PROVE  [call EXCEPT ![r] = k] \in [Requests -> Call]
OBVIOUS

PCs == {"idle", "trying", "looking", "recording", "done", "failed",
        "unavailable"}

LEMMA PcField ==
    ASSUME NEW k \in Call, NEW pc \in PCs
    PROVE  [k EXCEPT !.pc = pc] \in Call
BY DEF Call, PCs

LEMMA CallFields ==
    ASSUME NEW k \in Call, NEW pc \in PCs, NEW g \in Gateways,
           NEW S \in SUBSET Gateways
    PROVE  /\ [k EXCEPT !.pc = pc, !.at = g] \in Call
           /\ [k EXCEPT !.pc = pc, !.missed = S] \in Call
           /\ k.missed \in SUBSET Gateways
BY DEF Call, PCs

LEMMA OrderUpdate ==
    ASSUME NEW r \in Requests, NEW g \in Gateways, order \in Orders,
           NEW s \in {"asked", "opened", "rejected"}
    PROVE  [order EXCEPT ![r][g] = s] \in Orders
BY DEF Orders

LEMMA CountUpdate ==
    ASSUME NEW g \in Gateways, NEW f \in [Gateways -> Nat]
    PROVE  [f EXCEPT ![g] = @ + 1] \in [Gateways -> Nat]
OBVIOUS

\* A request that opens an order, or fails at a gateway, stays of its type.
LEMMA CreateType ==
    ASSUME TypeOK, NEW r \in Requests, RouteCreateOrder(r)
    PROVE  call' \in [Requests -> Call] /\ order' \in Orders
<1>0. /\ call \in [Requests -> Call] /\ order \in Orders
      /\ seat \in [Gateways -> Nat]
  BY DEF TypeOK, Orders
<1> DEFINE todo == FirstOf(Usable, MaxTries, seat)
<1>1. todo \in SUBSET Gateways
  BY DEF FirstOf, Usable
<1> HIDE DEF todo
<1>2. CASE Usable = {} /\ call' = [call EXCEPT ![r].pc = "unavailable"]
           /\ order' = order
  BY <1>0, <1>2, ZenonT(60) DEF Call
<1>3. ASSUME NEW g \in Gateways, Ask(r, g),
             call' = [call EXCEPT ![r] = [pc |-> "trying", todo |-> todo \ {g},
                                          turn |-> seat, at |-> g, missed |-> {}]]
      PROVE  call' \in [Requests -> Call] /\ order' \in Orders
  <2>1. [pc |-> "trying", todo |-> todo \ {g}, turn |-> seat, at |-> g,
         missed |-> {}] \in Call
    BY <1>0, <1>1 DEF Call
  <2>2. call' \in [Requests -> Call]
    BY <1>0, <1>3, <2>1, CallUpdate
  <2> QED
    BY <1>0, <1>3, <2>2, OrderUpdate DEF Ask
<1> QED
  BY <1>2, <1>3 DEF RouteCreateOrder, todo

LEMMA FailsType ==
    ASSUME TypeOK, NEW r \in Requests, call[r].at \in Gateways, AttemptFails(r)
    PROVE  /\ call' \in [Requests -> Call] /\ order' \in Orders
           /\ success' \in [Gateways -> Nat] /\ failure' \in [Gateways -> Nat]
<1>0. /\ call \in [Requests -> Call] /\ order \in Orders
      /\ success \in [Gateways -> Nat] /\ failure \in [Gateways -> Nat]
  BY DEF TypeOK, Orders
<1>1. success' \in [Gateways -> Nat] /\ failure' \in [Gateways -> Nat]
  BY <1>0, CountUpdate DEF AttemptFails
<1>2. CASE /\ order' = order
           /\ call' = [call EXCEPT ![r].pc = "recording",
                                   ![r].missed = @ \cup {call[r].at}]
  <2>1. call[r] \in Call
    BY <1>0
  <2>2. [call[r] EXCEPT !.pc = "recording", !.missed = @ \cup {call[r].at}] \in Call
    BY <2>1, CallFields DEF PCs
  <2>3. call' = [call EXCEPT ![r] = [call[r] EXCEPT !.pc = "recording",
                                          !.missed = @ \cup {call[r].at}]]
    BY <1>2
  <2> QED
    BY <1>0, <1>1, <1>2, <2>2, <2>3, CallUpdate
<1>3. ASSUME NEW g \in Gateways, Ask(r, g),
             call' = [call EXCEPT ![r].at = g, ![r].todo = @ \ {g},
                                  ![r].missed = @ \cup {call[r].at}]
      PROVE  call' \in [Requests -> Call] /\ order' \in Orders
  <2>1. call[r] \in Call
    BY <1>0
  <2>2. [call[r] EXCEPT !.at = g, !.todo = @ \ {g},
                        !.missed = @ \cup {call[r].at}] \in Call
    <3> DEFINE T == call[r].todo \ {g}
               S == call[r].missed \cup {call[r].at}
    <3>1. T \in SUBSET Gateways /\ S \in SUBSET Gateways
      BY <2>1 DEF Call
    <3>2. [call[r] EXCEPT !.at = g, !.todo = T, !.missed = S] \in Call
      <4> HIDE DEF T, S
      <4> QED
        BY <2>1, <3>1 DEF Call
    <3> QED
      BY <3>2
  <2>3. call' = [call EXCEPT ![r] = [call[r] EXCEPT !.at = g, !.todo = @ \ {g},
                                          !.missed = @ \cup {call[r].at}]]
    BY <1>3
  <2>4. call' \in [Requests -> Call]
    BY <1>0, <2>2, <2>3, CallUpdate
  <2> QED
    BY <1>0, <1>3, <2>4, OrderUpdate DEF Ask
<1> QED
  BY <1>1, <1>2, <1>3 DEF AttemptFails

LEMMA SucceedsType ==
    ASSUME TypeOK, NEW r \in Requests, call[r].at \in Gateways, Succeeds(r)
    PROVE  /\ call' \in [Requests -> Call]
           /\ success' \in [Gateways -> Nat] /\ failure' \in [Gateways -> Nat]
<1>0. /\ call \in [Requests -> Call]
      /\ success \in [Gateways -> Nat] /\ failure \in [Gateways -> Nat]
  BY DEF TypeOK
<1>1. call' \in [Requests -> Call]
  BY <1>0 DEF Succeeds, Call
<1> QED
  BY <1>0, <1>1, CountUpdate DEF Succeeds

\* The steps of a request keep the types.
LEMMA RequestType ==
    ASSUME TypeOK, CallsSound, NEW r \in Requests, RequestStep(r)
    PROVE  TypeOK'
<1> DEFINE Rest == UNCHANGED <<config, available, opened, job, probe, changes>>
           Metrics == success' \in [Gateways -> Nat] /\ failure' \in [Gateways -> Nat]
<1>0. /\ call \in [Requests -> Call] /\ order \in Orders
      /\ success \in [Gateways -> Nat] /\ failure \in [Gateways -> Nat]
      /\ job \in [Requests -> {"none", "pending", "resolved"}]
      /\ opened \in [Requests -> [Gateways -> Nat]]
  BY DEF TypeOK, Orders
<1>a. ASSUME Rest, Metrics, call' \in [Requests -> Call], order' \in Orders
      PROVE  TypeOK'
  BY <1>a DEF TypeOK, Orders, config
<1>1. CASE RouteCreateOrder(r)
  BY <1>0, <1>1, <1>a, CreateType DEF RouteCreateOrder, metrics
<1>2. CASE RouteLookup(r)
  <2>0. call[r] \in Call
    BY <1>0
  <2>a. ASSUME call' = [call EXCEPT ![r].pc = "unavailable"]
        PROVE  call' \in [Requests -> Call]
    <3>1. [call[r] EXCEPT !.pc = "unavailable"] \in Call
      BY <2>0, PcField DEF PCs
    <3>2. call' = [call EXCEPT ![r] = [call[r] EXCEPT !.pc = "unavailable"]]
      BY <2>a
    <3> QED
      BY <1>0, <3>1, <3>2, CallUpdate
  <2>b. ASSUME NEW g \in Gateways,
               call' = [call EXCEPT ![r].pc = "looking", ![r].at = g]
        PROVE  call' \in [Requests -> Call]
    <3>1. [call[r] EXCEPT !.pc = "looking", !.at = g] \in Call
      BY <2>0, CallFields DEF PCs
    <3>2. call' = [call EXCEPT ![r] = [call[r] EXCEPT !.pc = "looking", !.at = g]]
      BY <2>b
    <3> QED
      BY <1>0, <3>1, <3>2, CallUpdate
  <2>1. call' \in [Requests -> Call]
    BY <1>2, <2>a, <2>b DEF RouteLookup
  <2> QED
    BY <1>0, <1>2, <1>a, <2>1 DEF RouteLookup, remote, metrics
<1>3. CASE TimesOut(r) \/ Answered(r)
  <2>1. call[r].at \in Gateways
    BY <1>3 DEF TimesOut, Answered, CallsSound, CallSound
  <2>2. CASE TimesOut(r)
    BY <1>a, <2>1, <2>2, FailsType DEF TimesOut
  <2>3. CASE Answered(r)
    BY <1>0, <1>a, <2>1, <2>3, FailsType, SucceedsType DEF Answered
  <2> QED
    BY <1>3, <2>2, <2>3
<1>4. CASE RecordFailedAttempts(r)
  <2>1. call' \in [Requests -> Call]
    <3>1. call[r] \in Call
      BY <1>0
    <3>2. [call[r] EXCEPT !.pc = "failed"] \in Call
      BY <3>1, PcField DEF PCs
    <3>3. call' = [call EXCEPT ![r] = [call[r] EXCEPT !.pc = "failed"]]
      BY <1>4 DEF RecordFailedAttempts
    <3> QED
      BY <1>0, <3>2, <3>3, CallUpdate
  <2>2. job' \in [Requests -> {"none", "pending", "resolved"}]
    BY <1>0, <1>4 DEF RecordFailedAttempts
  <2> QED
    BY <1>4, <2>1, <2>2 DEF TypeOK, RecordFailedAttempts, config, metrics, remote
<1>5. CASE LookupAnswered(r)
  <2>1. call[r].at \in Gateways
    BY <1>5 DEF LookupAnswered, CallsSound, CallSound
  <2>2. CASE Succeeds(r)
    BY <1>0, <1>5, <1>a, <2>1, <2>2, SucceedsType DEF LookupAnswered, remote
  <2>3. CASE /\ call' = [call EXCEPT ![r].pc = "failed",
                                     ![r].missed = {call[r].at}]
             /\ failure' = [failure EXCEPT ![call[r].at] = @ + 1]
             /\ success' = success
    <3>1. call' \in [Requests -> Call]
      <4>1. call[r] \in Call
        BY <1>0
      <4>2. [call[r] EXCEPT !.pc = "failed", !.missed = {call[r].at}] \in Call
        BY <2>1, <4>1, CallFields DEF PCs
      <4>3. call' = [call EXCEPT ![r] = [call[r] EXCEPT !.pc = "failed",
                                              !.missed = {call[r].at}]]
        BY <2>3
      <4> QED
        BY <1>0, <4>2, <4>3, CallUpdate
    <3>2. Metrics
      BY <1>0, <2>1, <2>3, CountUpdate
    <3> QED
      BY <1>0, <1>5, <1>a, <3>1, <3>2 DEF LookupAnswered, remote
  <2> QED
    BY <1>5, <2>2, <2>3 DEF LookupAnswered
<1>6. CASE ResolveJob(r)
  <2>1. job' \in [Requests -> {"none", "pending", "resolved"}]
    BY <1>0, <1>6 DEF ResolveJob
  <2> QED
    BY <1>6, <2>1 DEF TypeOK, ResolveJob, config, metrics, remote
<1>7. ASSUME NEW g \in Gateways, GatewayAnswers(r, g)
      PROVE  TypeOK'
  <2>1. order' \in Orders
    <3>1. PICK s \in {"opened", "rejected"} : order' = [order EXCEPT ![r][g] = s]
      BY <1>7 DEF GatewayAnswers
    <3> QED
      BY <1>0, <3>1, OrderUpdate
  <2>2. opened' \in [Requests -> [Gateways -> Nat]]
    BY <1>0, <1>7 DEF GatewayAnswers
  <2> QED
    BY <1>7, <2>1, <2>2 DEF TypeOK, Orders, GatewayAnswers, config, metrics
<1> QED
  BY <1>1, <1>2, <1>3, <1>4, <1>5, <1>6, <1>7 DEF RequestStep, RouteStep

\* So do those of administrators and health checks.
LEMMA OtherType ==
    ASSUME TypeOK, LineSound, OtherStep
    PROVE  TypeOK'
<1>0. /\ priority \in [Gateways -> Nat] /\ enabled \in [Gateways -> BOOLEAN]
      /\ available \in [Gateways -> BOOLEAN] /\ Priorities \subseteq Nat
      /\ probe \in [Sweeps -> SUBSET Gateways]
  BY RouterAssumption DEF TypeOK
<1>1. Change => changes' \in 0 .. MaxChanges
  BY RouterAssumption DEF TypeOK, Change
<1>2. ASSUME NEW g \in Gateways, NEW on \in BOOLEAN, SetEnabled(g, on)
      PROVE  TypeOK'
  <2>1. enabled' \in [Gateways -> BOOLEAN]
    BY <1>0, <1>2 DEF SetEnabled
  <2> QED
    BY <1>1, <1>2, <2>1 DEF TypeOK, SetEnabled, metrics, remote
<1>3. ASSUME NEW g \in Gateways, NEW p \in Priorities, SetPriority(g, p)
      PROVE  TypeOK'
  <2>1. priority' \in [Gateways -> Nat]
    BY <1>0, <1>3 DEF SetPriority
  <2>2. seat' \in [Gateways -> Nat]
    BY <1>3, <2>1, SortedInOrder DEF SetPriority
  <2> QED
    BY <1>1, <1>3, <2>1, <2>2 DEF TypeOK, SetPriority, metrics, remote
<1>4. ASSUME NEW s \in Sweeps, PerformHealthChecks(s)
      PROVE  TypeOK'
  <2>1. probe' \in [Sweeps -> SUBSET Gateways]
    BY <1>0, <1>4 DEF PerformHealthChecks
  <2> QED
    BY <1>1, <1>4, <2>1 DEF TypeOK, PerformHealthChecks, config, metrics, remote
<1>5. ASSUME NEW s \in Sweeps, NEW g \in Gateways, HealthChecked(s, g)
      PROVE  TypeOK'
  <2>1. probe' \in [Sweeps -> SUBSET Gateways]
    BY <1>0, <1>5 DEF HealthChecked
  <2>2. available' \in [Gateways -> BOOLEAN]
    BY <1>0, <1>5 DEF HealthChecked
  <2> QED
    BY <1>5, <2>1, <2>2 DEF TypeOK, HealthChecked, config, metrics, remote
<1> QED
  BY <1>2, <1>3, <1>4, <1>5 DEF OtherStep, AdminNext, HealthNext

\* Only a new priority moves the line, and it is sorted then.
LEMMA LineStep ==
    ASSUME TypeOK, LineSound, Next
    PROVE  LineSound'
<1>1. CASE UNCHANGED <<seat, priority>>
  BY <1>1 DEF LineSound, InOrder
<1>2. ASSUME NEW g \in Gateways, NEW p \in Priorities, SetPriority(g, p)
      PROVE  LineSound'
  <2>1. priority' \in [Gateways -> Nat]
    BY <1>2, RouterAssumption DEF SetPriority, TypeOK
  <2> QED
    BY <1>2, <2>1, SortedInOrder DEF SetPriority, LineSound
<1>3. \/ UNCHANGED <<seat, priority>>
      \/ \E g \in Gateways, p \in Priorities : SetPriority(g, p)
  BY DEF Next, RequestNext, AdminNext, HealthNext, RouteCreateOrder, RouteLookup,
         RouteStep, TimesOut, Answered, RecordFailedAttempts, LookupAnswered,
         ResolveJob, GatewayAnswers, PerformHealthChecks, HealthChecked,
         SetEnabled, config
<1> QED
  BY <1>1, <1>2, <1>3

\* What is no request leaves the requests, the orders and the metrics alone.
LEMMA OtherLeaves ==
    ASSUME OtherStep
    PROVE  UNCHANGED <<call, order, opened, success, failure>>
BY DEF OtherStep, AdminNext, HealthNext, SetEnabled, SetPriority,
       PerformHealthChecks, HealthChecked, metrics, remote

\* A step is one of a request or none.
LEMMA NextSplit ==
    ASSUME Next
    PROVE  (\E r \in Requests : RequestStep(r)) \/ OtherStep
BY DEF Next, RequestNext, RequestStep, OtherStep

\* A step of one request leaves the others as they are.
LEMMA OthersUntouched ==
    ASSUME TypeOK, NEW r \in Requests, RequestStep(r),
           NEW q \in Requests, q # r
    PROVE  call'[q] = call[q] /\ order'[q] = order[q] /\ opened'[q] = opened[q]
<1>0. /\ call \in [Requests -> Call] /\ order \in [Requests -> [Gateways ->
             {"none", "asked", "opened", "rejected"}]]
      /\ opened \in [Requests -> [Gateways -> Nat]]
  BY DEF TypeOK
<1>1. CASE RouteCreateOrder(r)
  BY <1>0, <1>1 DEF RouteCreateOrder, Ask
<1>2. CASE RouteLookup(r)
  BY <1>0, <1>2 DEF RouteLookup, remote
<1>3. CASE RouteStep(r)
  BY <1>0, <1>3 DEF RouteStep, TimesOut, Answered, Succeeds, AttemptFails, Ask,
                    RecordFailedAttempts, remote
<1>4. CASE LookupAnswered(r)
  BY <1>0, <1>4 DEF LookupAnswered, Succeeds, remote
<1>5. CASE ResolveJob(r)
  BY <1>5 DEF ResolveJob, remote
<1>6. CASE \E g \in Gateways : GatewayAnswers(r, g)
  BY <1>0, <1>6 DEF GatewayAnswers
<1> QED
  BY <1>1, <1>2, <1>3, <1>4, <1>5, <1>6 DEF RequestStep

\* Asking a gateway moves it from those to be tried to those asked.
LEMMA AskMoves ==
    ASSUME TypeOK, NEW r \in Requests, OrderSound(r), NEW g \in Gateways,
           order[r][g] = "none", Ask(r, g), UNCHANGED opened
    PROVE  /\ Asked(r)' = Asked(r) \cup {g}
           /\ \A h \in Gateways :
                 opened'[r][h] = IF order'[r][h] = "opened" THEN 1 ELSE 0
<1>1. \A h \in Gateways :
          order'[r][h] = IF h = g THEN "asked" ELSE order[r][h]
  BY DEF TypeOK, Ask
<1> QED
  BY <1>1 DEF Asked, OrderSound

LEMMA FailsOrder ==
    ASSUME Inv, NEW r \in Requests, AttemptFails(r), call[r].pc = "trying",
           UNCHANGED opened
    PROVE  OrderSound(r)'
<1>0. TypeOK /\ OrderSound(r) /\ call \in [Requests -> Call]
  BY DEF Inv, OrdersSound, TypeOK
<1>1. CASE /\ call' = [call EXCEPT ![r].pc = "recording",
                                   ![r].missed = @ \cup {call[r].at}]
           /\ order' = order
  <2>1. call'[r].pc = "recording" /\ call'[r].todo = call[r].todo
    BY <1>0, <1>1 DEF Call
  <2>2. Asked(r)' = Asked(r)
    BY <1>1 DEF Asked
  <2> QED
    BY <1>0, <1>1, <2>1, <2>2 DEF OrderSound
<1>2. ASSUME NEW g \in Gateways, IsHead(g, call[r].todo, call[r].turn), Ask(r, g),
             call' = [call EXCEPT ![r].at = g, ![r].todo = @ \ {g},
                                  ![r].missed = @ \cup {call[r].at}]
      PROVE  OrderSound(r)'
  <2>1. call'[r].pc = "trying" /\ call'[r].todo = call[r].todo \ {g}
    BY <1>0, <1>2 DEF Call
  <2>2. g \in call[r].todo /\ order[r][g] = "none"
    BY <1>0, <1>2 DEF IsHead, OrderSound, Asked
  <2>3. /\ Asked(r)' = Asked(r) \cup {g}
        /\ \A h \in Gateways :
              opened'[r][h] = IF order'[r][h] = "opened" THEN 1 ELSE 0
    BY <1>0, <1>2, <2>2, AskMoves
  <2>4. Asked(r)' \cup call'[r].todo = Asked(r) \cup call[r].todo
    BY <2>1, <2>2, <2>3
  <2> QED
    BY <1>0, <2>1, <2>2, <2>3, <2>4 DEF OrderSound
<1> QED
  BY <1>1, <1>2 DEF AttemptFails

LEMMA CreateOrder ==
    ASSUME Inv, NEW r \in Requests, RouteCreateOrder(r)
    PROVE  OrderSound(r)'
<1> DEFINE todo == FirstOf(Usable, MaxTries, seat)
<1>0. /\ TypeOK /\ OrderSound(r) /\ call \in [Requests -> Call]
      /\ seat \in [Gateways -> Nat]
  BY DEF Inv, OrdersSound, TypeOK
<1>1. todo \in SUBSET Gateways
  BY DEF FirstOf, Usable
<1>2. Cardinality(todo) <= MaxTries
  BY <1>0, FirstOfSize, RouterAssumption DEF Usable, Inv, LineSound, InOrder
<1>3. Asked(r) = {} /\ opened' = opened
  BY <1>0 DEF RouteCreateOrder, OrderSound
<1> HIDE DEF todo
<1>4. CASE order' = order /\ call' = [call EXCEPT ![r].pc = "unavailable"]
  <2>1. call'[r].todo = call[r].todo /\ call'[r].pc = "unavailable"
    BY <1>0, <1>4 DEF Call
  <2>2. Asked(r)' = Asked(r)
    BY <1>4 DEF Asked
  <2> QED
    BY <1>0, <1>3, <1>4, <2>1, <2>2 DEF OrderSound
<1>5. ASSUME NEW g \in Gateways, g \in todo, Ask(r, g),
             call' = [call EXCEPT ![r] = [pc |-> "trying", todo |-> todo \ {g},
                                          turn |-> seat, at |-> g, missed |-> {}]]
      PROVE  OrderSound(r)'
  <2>1. call'[r].pc = "trying" /\ call'[r].todo = todo \ {g}
    BY <1>0, <1>5
  <2>2. order[r][g] = "none"
    BY <1>3 DEF Asked
  <2>3. /\ Asked(r)' = {g}
        /\ \A h \in Gateways :
              opened'[r][h] = IF order'[r][h] = "opened" THEN 1 ELSE 0
    BY <1>0, <1>3, <1>5, <2>2, AskMoves
  <2>4. Asked(r)' \cup call'[r].todo = todo
    BY <1>5, <2>1, <2>3
  <2> QED
    BY <1>2, <2>1, <2>3, <2>4 DEF OrderSound
<1> QED
  BY <1>4, <1>5 DEF RouteCreateOrder, IsHead, todo

LEMMA OwnOrder ==
    ASSUME Inv, NEW r \in Requests, RequestStep(r)
    PROVE  OrderSound(r)'
<1>0. TypeOK /\ OrderSound(r) /\ call \in [Requests -> Call]
  BY DEF Inv, OrdersSound, TypeOK
<1>a. ASSUME UNCHANGED <<order, opened>>, call'[r].todo = call[r].todo,
             call'[r].pc # "idle"
      PROVE  OrderSound(r)'
  <2>1. Asked(r)' = Asked(r)
    BY <1>a DEF Asked
  <2> QED
    BY <1>0, <1>a, <2>1 DEF OrderSound
<1>1. CASE RouteCreateOrder(r)
  BY <1>1, CreateOrder
<1>2. CASE RouteLookup(r)
  BY <1>0, <1>2, <1>a DEF RouteLookup, remote, Call
<1>3. CASE TimesOut(r)
  BY <1>3, FailsOrder DEF TimesOut
<1>4. CASE Answered(r)
  <2>1. CASE Succeeds(r) /\ order' = order
    BY <1>0, <1>4, <1>a, <2>1 DEF Answered, Succeeds, Call
  <2>2. CASE AttemptFails(r)
    BY <1>4, <2>2, FailsOrder DEF Answered
  <2> QED
    BY <1>4, <2>1, <2>2 DEF Answered
<1>5. CASE RecordFailedAttempts(r)
  BY <1>0, <1>5, <1>a DEF RecordFailedAttempts, remote, Call
<1>6. CASE LookupAnswered(r)
  BY <1>0, <1>6, <1>a DEF LookupAnswered, Succeeds, remote, Call
<1>7. CASE ResolveJob(r)
  BY <1>0, <1>7 DEF ResolveJob, remote, OrderSound, Asked
<1>8. ASSUME NEW g \in Gateways, GatewayAnswers(r, g)
      PROVE  OrderSound(r)'
  <2>1. \A h \in Gateways \ {g} : /\ order'[r][h] = order[r][h]
                                  /\ opened'[r][h] = opened[r][h]
    BY <1>8 DEF GatewayAnswers, TypeOK, Inv
  <2>2. /\ order[r][g] = "asked" /\ order'[r][g] \in {"opened", "rejected"}
        /\ opened'[r][g] = IF order'[r][g] = "opened" THEN opened[r][g] + 1
                           ELSE opened[r][g]
    BY <1>8 DEF GatewayAnswers, TypeOK, Inv
  <2>3. Asked(r)' = Asked(r) /\ call' = call
    BY <1>8, <2>1, <2>2 DEF Asked, GatewayAnswers
  <2> QED
    BY <1>0, <2>1, <2>2, <2>3 DEF OrderSound
<1> QED
  BY <1>1, <1>2, <1>3, <1>4, <1>5, <1>6, <1>7, <1>8 DEF RequestStep, RouteStep

\* So do orders stay sound.
LEMMA OrdersStep ==
    ASSUME Inv, NEW r \in Requests, RequestStep(r)
    PROVE  OrdersSound'
<1>1. ASSUME NEW q \in Requests, q # r
      PROVE  OrderSound(q)'
  <2>1. /\ call'[q] = call[q] /\ order'[q] = order[q] /\ opened'[q] = opened[q]
        /\ OrderSound(q)
    BY <1>1, OthersUntouched DEF Inv, OrdersSound
  <2>2. Asked(q)' = Asked(q)
    BY <2>1 DEF Asked
  <2> QED
    BY <2>1, <2>2 DEF OrderSound
<1> QED
  BY <1>1, OwnOrder DEF OrdersSound

\* What a request made of its gateways stays told apart from what is left.
LEMMA FailsCall ==
    ASSUME Inv, NEW r \in Requests, AttemptFails(r), call[r].pc = "trying"
    PROVE  /\ CallSound(r)'
           /\ call'[r].missed = call[r].missed \cup {call[r].at}
           /\ call'[r].pc \in {"trying", "recording"}
<1>0. CallSound(r) /\ call \in [Requests -> Call]
  BY DEF Inv, CallsSound, TypeOK
<1>1. ASSUME call' = [call EXCEPT ![r].pc = "recording",
                                  ![r].missed = @ \cup {call[r].at}]
      PROVE  /\ call'[r].pc = "recording" /\ call'[r].todo = call[r].todo
             /\ call'[r].missed = call[r].missed \cup {call[r].at}
  BY <1>0, <1>1 DEF Call
<1>2. ASSUME NEW g \in Gateways,
             call' = [call EXCEPT ![r].at = g, ![r].todo = @ \ {g},
                                  ![r].missed = @ \cup {call[r].at}]
      PROVE  /\ call'[r].pc = "trying" /\ call'[r].todo = call[r].todo \ {g}
             /\ call'[r].missed = call[r].missed \cup {call[r].at}
             /\ call'[r].at = g
  BY <1>0, <1>2 DEF Call
<1>3. CASE call' = [call EXCEPT ![r].pc = "recording",
                                ![r].missed = @ \cup {call[r].at}]
  BY <1>0, <1>1, <1>3 DEF CallSound
<1>4. ASSUME NEW g \in Gateways, g \in call[r].todo,
             call' = [call EXCEPT ![r].at = g, ![r].todo = @ \ {g},
                                  ![r].missed = @ \cup {call[r].at}]
      PROVE  /\ CallSound(r)'
             /\ call'[r].missed = call[r].missed \cup {call[r].at}
             /\ call'[r].pc \in {"trying", "recording"}
  <2>1. /\ call'[r].pc = "trying" /\ call'[r].todo = call[r].todo \ {g}
        /\ call'[r].missed = call[r].missed \cup {call[r].at}
        /\ call'[r].at = g
    BY <1>2, <1>4
  <2>2. call[r].at \notin call[r].missed \cup call[r].todo
        /\ call[r].missed \cap call[r].todo = {}
    BY <1>0 DEF CallSound
  <2> QED
    BY <1>4, <2>1, <2>2, ZenonT(60) DEF CallSound
<1> QED
  BY <1>3, <1>4 DEF AttemptFails, IsHead

LEMMA OwnCall ==
    ASSUME Inv, NEW r \in Requests, RequestStep(r)
    PROVE  CallSound(r)'
<1>0. CallSound(r) /\ call \in [Requests -> Call]
  BY DEF Inv, CallsSound, TypeOK
<1>a. ASSUME call'[r].pc \in {"done", "failed", "unavailable"}
      PROVE  CallSound(r)'
  BY <1>a DEF CallSound
<1>1. CASE RouteCreateOrder(r)
  <2>1. \/ call'[r].pc = "unavailable"
        \/ \E g \in Gateways :
              LET k == call'[r] IN
              k.pc = "trying" /\ k.at = g /\ g \notin k.todo /\ k.missed = {}
    BY <1>0, <1>1 DEF RouteCreateOrder, Call
  <2> QED
    BY <2>1, <1>a DEF CallSound
<1>2. CASE RouteLookup(r)
  <2>1. \/ call'[r].pc = "unavailable"
        \/ call'[r].pc = "looking" /\ call'[r].at \in Gateways
           /\ call'[r].missed = call[r].missed
    BY <1>0, <1>2 DEF RouteLookup, Call
  <2> QED
    BY <1>0, <1>2, <2>1, <1>a DEF CallSound, RouteLookup
<1>3. CASE TimesOut(r)
  BY <1>3, FailsCall DEF TimesOut
<1>4. CASE Answered(r)
  <2>1. Succeeds(r) => call'[r].pc = "done"
    BY <1>0 DEF Succeeds, Call
  <2> QED
    BY <1>4, <1>a, <2>1, FailsCall DEF Answered
<1>5. CASE RecordFailedAttempts(r)
  BY <1>0, <1>5, <1>a DEF RecordFailedAttempts, Call
<1>6. CASE LookupAnswered(r)
  BY <1>0, <1>6, <1>a DEF LookupAnswered, Succeeds, Call
<1>7. CASE ResolveJob(r) \/ \E g \in Gateways : GatewayAnswers(r, g)
  BY <1>0, <1>7 DEF ResolveJob, GatewayAnswers, CallSound
<1> QED
  BY <1>1, <1>2, <1>3, <1>4, <1>5, <1>6, <1>7 DEF RequestStep, RouteStep

LEMMA CallsStep ==
    ASSUME Inv, NEW r \in Requests, RequestStep(r)
    PROVE  CallsSound'
<1>1. ASSUME NEW q \in Requests, q # r
      PROVE  CallSound(q)'
  BY <1>1, OthersUntouched DEF Inv, CallsSound, CallSound
<1> QED
  BY <1>1, OwnCall DEF CallsSound

\* The metrics count what the request has made of its gateways, when the step
\* counts the gateway it has just won, or missed, or neither.
LEMMA CountsStay ==
    ASSUME Inv, NEW r \in Requests, RequestStep(r), UNCHANGED metrics,
           call'[r].missed = call[r].missed,
           \/ call[r].pc # "done" /\ call'[r].pc # "done"
           \/ UNCHANGED call
    PROVE  AllCounted'
<1>1. ASSUME NEW g \in Gateways
      PROVE  Won(g)' = Won(g) /\ Missed(g)' = Missed(g)
  BY OthersUntouched DEF Won, Missed, Inv
<1> QED
  BY <1>1 DEF AllCounted, Counted, Inv, metrics

LEMMA CountWon ==
    ASSUME Inv, NEW r \in Requests, RequestStep(r), Succeeds(r),
           call[r].pc \in {"trying", "looking"}
    PROVE  AllCounted'
<1>0. /\ call \in [Requests -> Call] /\ success \in [Gateways -> Nat]
      /\ call[r].at \in Gateways
  BY DEF Inv, TypeOK, CallsSound, CallSound
<1>1. /\ call'[r].pc = "done" /\ call'[r].at = call[r].at
      /\ call'[r].missed = call[r].missed
  BY <1>0 DEF Succeeds, Call
<1>2. ASSUME NEW g \in Gateways
      PROVE  /\ Won(g)' = IF g = call[r].at THEN Won(g) \cup {r} ELSE Won(g)
             /\ Missed(g)' = Missed(g) /\ r \notin Won(g)
  BY <1>1, OthersUntouched DEF Won, Missed, Inv
<1>3. ASSUME NEW g \in Gateways
      PROVE  /\ success'[g] = IF g = call[r].at THEN success[g] + 1 ELSE success[g]
             /\ failure'[g] = failure[g]
  BY <1>0 DEF Succeeds
<1>4. ASSUME NEW g \in Gateways
      PROVE  Counted(g)'
  <2>1. Counted(g)
    BY DEF Inv, AllCounted
  <2>2. IsFiniteSet(Won(g) \cup {r})
        /\ Cardinality(Won(g) \cup {r}) = Cardinality(Won(g)) + 1
    BY <1>2, <2>1, FS_AddElement DEF Counted
  <2> QED
    BY <1>2, <1>3, <2>1, <2>2 DEF Counted
<1> QED
  BY <1>4 DEF AllCounted

LEMMA CountMissed ==
    ASSUME Inv, NEW r \in Requests, RequestStep(r), NEW a \in Gateways,
           a \notin call[r].missed, call'[r].missed = call[r].missed \cup {a},
           call[r].pc # "done", call'[r].pc # "done",
           failure' = [failure EXCEPT ![a] = @ + 1], UNCHANGED success
    PROVE  AllCounted'
<1>0. failure \in [Gateways -> Nat]
  BY DEF Inv, TypeOK
<1>2. ASSUME NEW g \in Gateways
      PROVE  /\ Missed(g)' = IF g = a THEN Missed(g) \cup {r} ELSE Missed(g)
             /\ Won(g)' = Won(g) /\ (g = a => r \notin Missed(g))
  BY OthersUntouched DEF Won, Missed, Inv
<1>3. ASSUME NEW g \in Gateways
      PROVE  /\ failure'[g] = IF g = a THEN failure[g] + 1 ELSE failure[g]
             /\ success'[g] = success[g]
  BY <1>0
<1>4. ASSUME NEW g \in Gateways
      PROVE  Counted(g)'
  <2>1. Counted(g)
    BY DEF Inv, AllCounted
  <2>2. g = a => /\ IsFiniteSet(Missed(g) \cup {r})
                 /\ Cardinality(Missed(g) \cup {r}) = Cardinality(Missed(g)) + 1
    BY <1>2, <2>1, FS_AddElement DEF Counted
  <2> QED
    BY <1>2, <1>3, <2>1, <2>2 DEF Counted
<1> QED
  BY <1>4 DEF AllCounted

LEMMA FailsCount ==
    ASSUME Inv, NEW r \in Requests, RequestStep(r), AttemptFails(r),
           call[r].pc = "trying"
    PROVE  AllCounted'
<1>1. CallSound(r)
  BY DEF Inv, CallsSound
<1>2. call[r].at \in Gateways /\ call[r].at \notin call[r].missed
  BY <1>1 DEF CallSound
<1> QED
  BY <1>2, FailsCall, CountMissed DEF AttemptFails

\* So the metrics add up after every step of a request.
LEMMA CountStep ==
    ASSUME Inv, NEW r \in Requests, RequestStep(r)
    PROVE  AllCounted'
<1>0. CallSound(r) /\ call \in [Requests -> Call]
  BY DEF Inv, CallsSound, TypeOK
<1>1. CASE RouteCreateOrder(r)
  <2>1. call[r].pc = "idle" /\ call[r].missed = {}
    BY <1>0, <1>1 DEF RouteCreateOrder, CallSound
  <2>2. call'[r].missed = {} /\ call'[r].pc \in {"unavailable", "trying"}
    BY <1>0, <1>1, <2>1 DEF RouteCreateOrder, Call
  <2> QED
    BY <1>1, <2>1, <2>2, CountsStay DEF RouteCreateOrder
<1>2. CASE RouteLookup(r)
  <2>1. call[r].pc = "idle" /\ call'[r].missed = call[r].missed
        /\ call'[r].pc \in {"unavailable", "looking"}
    BY <1>0, <1>2 DEF RouteLookup, Call
  <2> QED
    BY <1>2, <2>1, CountsStay DEF RouteLookup
<1>3. CASE TimesOut(r)
  BY <1>3, FailsCount DEF TimesOut
<1>4. CASE Answered(r)
  BY <1>4, FailsCount, CountWon DEF Answered
<1>5. CASE RecordFailedAttempts(r)
  <2>1. call[r].pc = "recording" /\ call'[r].missed = call[r].missed
        /\ call'[r].pc = "failed"
    BY <1>0, <1>5 DEF RecordFailedAttempts, Call
  <2> QED
    BY <1>5, <2>1, CountsStay DEF RecordFailedAttempts
<1>6. CASE LookupAnswered(r)
  <2>1. CASE Succeeds(r)
    BY <1>6, <2>1, CountWon DEF LookupAnswered
  <2>2. CASE /\ call' = [call EXCEPT ![r].pc = "failed",
                                     ![r].missed = {call[r].at}]
             /\ failure' = [failure EXCEPT ![call[r].at] = @ + 1]
             /\ success' = success
    <3>1. call'[r].pc = "failed" /\ call'[r].missed = {call[r].at}
      BY <1>0, <2>2 DEF Call
    <3>2. call[r].pc = "looking" /\ call[r].at \in Gateways /\ call[r].missed = {}
      BY <1>0, <1>6 DEF LookupAnswered, CallSound
    <3> QED
      BY <2>2, <3>1, <3>2, CountMissed
  <2> QED
    BY <1>6, <2>1, <2>2 DEF LookupAnswered
<1>7. CASE ResolveJob(r)
  BY <1>7, CountsStay DEF ResolveJob
<1>8. ASSUME NEW g \in Gateways, GatewayAnswers(r, g)
      PROVE  AllCounted'
  BY <1>8, CountsStay DEF GatewayAnswers
<1> QED
  BY <1>1, <1>2, <1>3, <1>4, <1>5, <1>6, <1>7, <1>8 DEF RequestStep, RouteStep

\* Every step keeps the invariant.
LEMMA NextInv == Inv /\ [Next]_vars => Inv'
<1> SUFFICES ASSUME Inv, [Next]_vars PROVE Inv'
  OBVIOUS
<1>1. CASE UNCHANGED vars
  <2> USE <1>1 DEF vars
  <2>1. TypeOK'
    BY DEF Inv, TypeOK
  <2>2. LineSound'
    BY DEF Inv, LineSound, InOrder
  <2>3. OrdersSound'
    BY DEF Inv, OrdersSound, OrderSound, Asked
  <2>4. CallsSound'
    BY DEF Inv, CallsSound, CallSound
  <2>5. AllCounted'
    BY DEF Inv, AllCounted, Counted, Won, Missed
  <2> QED
    BY <2>1, <2>2, <2>3, <2>4, <2>5 DEF Inv
<1>2. ASSUME NEW r \in Requests, RequestStep(r), Next
      PROVE  Inv'
  BY <1>2, RequestType, LineStep, OrdersStep, CallsStep, CountStep DEF Inv
<1>3. ASSUME OtherStep, Next
      PROVE  Inv'
  <2>1. UNCHANGED <<call, order, opened, success, failure>>
    BY <1>3, OtherLeaves
  <2>2. OrdersSound' /\ CallsSound' /\ AllCounted'
    BY <2>1 DEF Inv, OrdersSound, OrderSound, Asked, CallsSound, CallSound,
                AllCounted, Counted, Won, Missed
  <2> QED
    BY <1>3, <2>2, OtherType, LineStep DEF Inv
<1> QED
  BY <1>1, <1>2, <1>3, NextSplit

LEMMA InvAlways == Spec => []Inv
BY InitInv, NextInv, PTL DEF Spec

-----------------------------------------------------------------------------
(***************************************************************************)
(* Theorems                                                                *)
(***************************************************************************)

\* The variables of the router keep their types, its line included, however
\* often it is sorted anew.
THEOREM TypeCorrect == Spec => []TypeOK
BY InvAlways, PTL DEF Inv

\* However late the gateways answer, however often they are configured and
\* checked meanwhile, a request opens one order at a gateway, and orders at
\* MaxTries gateways, at most.
THEOREM OrdersBoundedAlways == Spec => []OrdersBounded
<1>1. Inv => OrdersBounded
  <2> SUFFICES ASSUME Inv, NEW r \in Requests
               PROVE  /\ \A g \in Gateways : opened[r][g] <= 1
                      /\ Cardinality({g \in Gateways : opened[r][g] > 0}) <= MaxTries
    BY DEF OrdersBounded
  <2> DEFINE Open == {g \in Gateways : opened[r][g] > 0}
             All  == Asked(r) \cup call[r].todo
  <2>1. OrderSound(r) /\ call[r] \in Call
    BY DEF Inv, OrdersSound, TypeOK
  <2>2. \A g \in Gateways : opened[r][g] <= 1
    BY <2>1 DEF OrderSound
  <2>3. Open \in SUBSET All /\ All \in SUBSET Gateways
    BY <2>1 DEF OrderSound, Asked, Call
  <2>4. Cardinality(All) <= MaxTries
    BY <2>1 DEF OrderSound
  <2>5. Cardinality(Open) <= Cardinality(All)
    <3> HIDE DEF Open, All
    <3> QED
      BY <2>3, CountType, FS_Subset
  <2>6. Cardinality(Open) \in Nat /\ Cardinality(All) \in Nat /\ MaxTries \in Nat
    <3> HIDE DEF Open, All
    <3> QED
      BY <2>3, CountType, RouterAssumption
  <2>7. Cardinality(Open) <= MaxTries
    <3> HIDE DEF Open, All
    <3> QED
      BY <2>4, <2>5, <2>6
  <2> QED
    BY <2>2, <2>7
<1> QED
  BY <1>1, InvAlways, PTL

\* The metrics of a gateway count the requests it served and those it failed,
\* for any number of requests at once.
THEOREM MetricsAddUpAlways == Spec => []MetricsAddUp
<1>1. Inv => MetricsAddUp
  BY DEF Inv, AllCounted, Counted, Won, Missed, MetricsAddUp
<1> QED
  BY <1>1, InvAlways, PTL

\* Every request goes first to a gateway of the highest priority there is at
\* that moment.
THEOREM HighestFirstAlways == Spec => HighestFirst
<1>1. ASSUME Inv, Next, NEW r \in Requests, call[r].pc = "idle",
             call'[r].pc \in {"trying", "looking"}, NEW h \in Usable
      PROVE  priority[call'[r].at] <= priority[h]
  <2>0. /\ call \in [Requests -> Call] /\ seat \in [Gateways -> Nat]
        /\ priority \in [Gateways -> Nat] /\ h \in Gateways
        /\ InOrder(seat, priority)
    BY <1>1 DEF Inv, TypeOK, LineSound, Usable
  <2>1. PICK g \in Gateways : call'[r].at = g /\ \A x \in Usable : seat[g] <= seat[x]
    <3>1. RouteCreateOrder(r) \/ RouteLookup(r)
      <4>1. call' # call
        BY <1>1
      <4>2. ~OtherStep
        BY <4>1, OtherLeaves
      <4>3. PICK q \in Requests : RequestStep(q)
        BY <1>1, <4>2, NextSplit
      <4>4. q = r
        BY <1>1, <4>3, OthersUntouched DEF Inv
      <4> QED
        BY <1>1, <4>1, <4>3, <4>4 DEF RequestStep, RouteStep, TimesOut, Answered,
           RecordFailedAttempts, LookupAnswered, ResolveJob, GatewayAnswers
    <3>2. CASE RouteCreateOrder(r)
      <4>1. PICK g \in Gateways :
                /\ IsHead(g, FirstOf(Usable, MaxTries, seat), seat)
                /\ call'[r].at = g
        BY <1>1, <2>0, <3>2 DEF RouteCreateOrder, Call
      <4>2. \A x \in Usable : seat[g] <= seat[x]
        <5>1. Usable \in SUBSET Gateways /\ MaxTries \in Nat \ {0}
          BY RouterAssumption DEF Usable
        <5>2. g \in FirstOf(Usable, MaxTries, seat)
          BY <4>1 DEF IsHead
        <5> QED
          BY <2>0, <4>1, <5>1, <5>2, FirstIsFirst
      <4> QED
        BY <4>1, <4>2
    <3>3. CASE RouteLookup(r)
      BY <1>1, <2>0, <3>3 DEF RouteLookup, SelectGateway, IsHead, Call
    <3> QED
      BY <3>1, <3>2, <3>3
  <2>2. seat[g] <= seat[h]
    BY <1>1, <2>1
  <2>3. seat[g] \in Nat /\ seat[h] \in Nat /\ priority[g] \in Nat /\ priority[h] \in Nat
    BY <2>0
  <2>4. seat[g] < seat[h] \/ seat[g] = seat[h]
    BY <2>2, <2>3
  <2> QED
    BY <2>0, <2>1, <2>3, <2>4 DEF InOrder
<1>2. Inv /\ [Next]_vars =>
          [\A r \in Requests :
              call[r].pc = "idle" /\ call'[r].pc \in {"trying", "looking"} =>
                  \A g \in Usable : priority[call'[r].at] <= priority[g]]_vars
  BY <1>1
<1> QED
  BY <1>2, InvAlways, PTL DEF Spec, HighestFirst

=============================================================================
