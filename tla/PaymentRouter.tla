--------------------------- MODULE PaymentRouter ---------------------------
(***************************************************************************)
(* The router between the payment service and its gateways: it opens an    *)
(* order at the first gateway in line that is enabled and healthy, turns   *)
(* to the next one when that fails or does not answer in time, looks       *)
(* payments up, checks the health of the gateways in the background and is *)
(* configured while requests are under way.  Whatever lies between two     *)
(* awaits is one step.  The gateways are external; they answer a request   *)
(* in their own time, also after the router has given up on it.            *)
(***************************************************************************)
EXTENDS Naturals, FiniteSets

CONSTANTS
    Gateways,
    Line,        \* Line[g]: the place of g in the configuration, from 1
    Priorities,  \* the priorities an administrator sets; the lowest goes first
    Requests,    \* calls of routeCreateOrder, routeFetchPaymentDetails, ...
    Sweeps,      \* health checks that may be under way at once
    MaxTries,    \* gateways tried for one order (3)
    MaxChanges,  \* bound: changes of the configuration and health checks begun
    None

ASSUME RouterAssumption ==
    /\ IsFiniteSet(Gateways) /\ None \notin Gateways
    /\ Line \in [Gateways -> Nat]
    /\ \A g, h \in Gateways : Line[g] = Line[h] => g = h
    /\ Priorities \subseteq Nat
    /\ MaxTries \in Nat \ {0} /\ MaxChanges \in Nat

VARIABLES
    seat,       \* the place of each gateway in this.gateways
    priority, enabled,
    available,  \* gatewayHealth
    success, failure,  \* performanceMetrics
    call,       \* the requests
    order,      \* at the gateways: what became of the order asked for
    opened,     \* at the gateways: how many orders were opened for a request
    job,        \* the FailedJob of a request
    probe,      \* gateways whose answer a health check awaits
    changes

vars == <<seat, priority, enabled, available, success, failure, call, order,
          opened, job, probe, changes>>

config  == <<seat, priority, enabled>>
metrics == <<success, failure>>
remote  == <<order, opened>>

Call == [pc : {"idle", "trying", "looking", "recording", "done", "failed",
               "unavailable"},
         todo   : SUBSET Gateways,       \* gateways still to be tried
         turn   : [Gateways -> Nat],     \* in the order they had at the start
         at     : Gateways \cup {None},  \* the gateway being tried
         missed : SUBSET Gateways]       \* failedAttempts

TypeOK ==
    /\ seat \in [Gateways -> Nat]
    /\ priority \in [Gateways -> Nat]
    /\ enabled \in [Gateways -> BOOLEAN]
    /\ available \in [Gateways -> BOOLEAN]
    /\ success \in [Gateways -> Nat] /\ failure \in [Gateways -> Nat]
    /\ call \in [Requests -> Call]
    /\ order \in [Requests -> [Gateways -> {"none", "asked", "opened", "rejected"}]]
    /\ opened \in [Requests -> [Gateways -> Nat]]
    /\ job \in [Requests -> {"none", "pending", "resolved"}]
    /\ probe \in [Sweeps -> SUBSET Gateways]
    /\ changes \in 0 .. MaxChanges

\* The gateways come sorted by priority from the configuration, and healthy.
Init ==
    /\ seat = Line
    /\ priority = Line
    /\ enabled = [g \in Gateways |-> TRUE]
    /\ available = [g \in Gateways |-> TRUE]
    /\ success = [g \in Gateways |-> 0] /\ failure = [g \in Gateways |-> 0]
    /\ call = [r \in Requests |-> [pc |-> "idle", todo |-> {}, turn |-> Line,
                                   at |-> None, missed |-> {}]]
    /\ order = [r \in Requests |-> [g \in Gateways |-> "none"]]
    /\ opened = [r \in Requests |-> [g \in Gateways |-> 0]]
    /\ job = [r \in Requests |-> "none"]
    /\ probe = [s \in Sweeps |-> {}]
    /\ changes = 0

Usable == {g \in Gateways : enabled[g] /\ available[g]}

\* Mutant: one gateway too many.
FirstOfUpTo(S, n, line) ==
    {g \in S : Cardinality({h \in S : line[h] < line[g]}) <= n}

\* The members of S with fewer than n others before them in the line.
FirstOf(S, n, line) ==
    {g \in S : Cardinality({h \in S : line[h] < line[g]}) < n}

IsHead(g, S, line) == g \in S /\ \A h \in S : line[g] <= line[h]

-----------------------------------------------------------------------------
(***************************************************************************)
(* routeCreateOrder                                                        *)
(***************************************************************************)
Ask(r, g) == order' = [order EXCEPT ![r][g] = "asked"]

\* The gateways to try are taken from the line as it is now.
RouteCreateOrder(r) ==
    LET todo == FirstOf(Usable, MaxTries, seat) IN
    /\ call[r].pc = "idle"
    /\ \/ /\ Usable = {}
          /\ call' = [call EXCEPT ![r].pc = "unavailable"]
          /\ UNCHANGED order
       \/ \E g \in Gateways :
             /\ IsHead(g, todo, seat)
             /\ call' = [call EXCEPT ![r] = [pc |-> "trying", todo |-> todo \ {g},
                                             turn |-> seat, at |-> g,
                                             missed |-> {}]]
             /\ Ask(r, g)
    /\ UNCHANGED <<config, available, metrics, opened, job, probe, changes>>

Succeeds(r) ==
    /\ call' = [call EXCEPT ![r].pc = "done"]
    /\ success' = [success EXCEPT ![call[r].at] = @ + 1]
    /\ UNCHANGED failure

\* The next gateway is asked; after the last one the attempts are recorded.
AttemptFails(r) ==
    LET k == call[r] IN
    /\ failure' = [failure EXCEPT ![k.at] = @ + 1]
    /\ \/ /\ k.todo = {}
          /\ call' = [call EXCEPT ![r].pc = "recording", ![r].missed = @ \cup {k.at}]
          /\ UNCHANGED order
       \/ \E g \in Gateways :
             /\ IsHead(g, k.todo, k.turn)
             /\ call' = [call EXCEPT ![r].at = g, ![r].todo = @ \ {g},
                                     ![r].missed = @ \cup {k.at}]
             /\ Ask(r, g)
    /\ UNCHANGED success

\* The gateway's answer is in time.
Answered(r) ==
    /\ call[r].pc = "trying"
    /\ \/ /\ order[r][call[r].at] = "opened"
          /\ Succeeds(r) /\ UNCHANGED order
       \/ /\ order[r][call[r].at] = "rejected"
          /\ AttemptFails(r)
    /\ UNCHANGED <<config, available, opened, job, probe, changes>>

\* Mutant: only a gateway that has rejected the order is given up.
TimesOutRejected(r) ==
    /\ call[r].pc = "trying" /\ order[r][call[r].at] = "rejected"
    /\ AttemptFails(r)
    /\ UNCHANGED <<config, available, opened, job, probe, changes>>

\* Five seconds are over, whether the order is opened by now or not.
TimesOut(r) ==
    /\ call[r].pc = "trying"
    /\ AttemptFails(r)
    /\ UNCHANGED <<config, available, opened, job, probe, changes>>

\* Mutant: the job is saved with a status its schema does not know.
RecordFailedRaw(r) ==
    /\ call[r].pc = "recording"
    /\ call' = [call EXCEPT ![r].pc = "failed"]
    /\ job' = [job EXCEPT ![r] = "failed"]
    /\ UNCHANGED <<config, available, metrics, remote, probe, changes>>

\* recordFailedAttempts; an error in saving the job is swallowed.
RecordFailedAttempts(r) ==
    /\ call[r].pc = "recording"
    /\ call' = [call EXCEPT ![r].pc = "failed"]
    /\ \E saved \in {"none", "pending"} : job' = [job EXCEPT ![r] = saved]
    /\ UNCHANGED <<config, available, metrics, remote, probe, changes>>

\* The retry worker knows no job of this type: it resolves it and does nothing.
ResolveJob(r) ==
    /\ job[r] = "pending"
    /\ job' = [job EXCEPT ![r] = "resolved"]
    /\ UNCHANGED <<config, available, metrics, call, remote, probe, changes>>

\* The gateway opens the order or rejects it (external).
GatewayAnswers(r, g) ==
    /\ order[r][g] = "asked"
    /\ \/ /\ order' = [order EXCEPT ![r][g] = "opened"]
          /\ opened' = [opened EXCEPT ![r][g] = @ + 1]
       \/ order' = [order EXCEPT ![r][g] = "rejected"] /\ UNCHANGED opened
    /\ UNCHANGED <<config, available, metrics, call, job, probe, changes>>

-----------------------------------------------------------------------------
(***************************************************************************)
(* routeFetchPaymentDetails and routeVerifyPayment: the first gateway in   *)
(* the line is asked, for as long as it takes                              *)
(***************************************************************************)
SelectGateway(g) == IsHead(g, Usable, seat)

RouteLookup(r) ==
    /\ call[r].pc = "idle"
    /\ \/ Usable = {} /\ call' = [call EXCEPT ![r].pc = "unavailable"]
       \/ \E g \in Gateways :
             /\ SelectGateway(g)
             /\ call' = [call EXCEPT ![r].pc = "looking", ![r].at = g]
    /\ UNCHANGED <<config, available, metrics, remote, job, probe, changes>>

\* Mutant: an answer is a success, whatever it says.
LookupAnsweredWell(r) ==
    /\ call[r].pc = "looking"
    /\ \/ Succeeds(r)
       \/ /\ call' = [call EXCEPT ![r].pc = "failed", ![r].missed = {call[r].at}]
          /\ success' = [success EXCEPT ![call[r].at] = @ + 1]
          /\ UNCHANGED failure
    /\ UNCHANGED <<config, available, remote, job, probe, changes>>

\* The details of the payment, or whether its signature is valid.
LookupAnswered(r) ==
    /\ call[r].pc = "looking"
    /\ \/ Succeeds(r)
       \/ /\ call' = [call EXCEPT ![r].pc = "failed", ![r].missed = {call[r].at}]
          /\ failure' = [failure EXCEPT ![call[r].at] = @ + 1]
          /\ UNCHANGED success
    /\ UNCHANGED <<config, available, remote, job, probe, changes>>

-----------------------------------------------------------------------------
(***************************************************************************)
(* Health checks and configuration                                         *)
(***************************************************************************)
Change == changes < MaxChanges /\ changes' = changes + 1

PerformHealthChecks(s) ==
    /\ Change
    /\ probe[s] = {}
    /\ probe' = [probe EXCEPT ![s] = Gateways]
    /\ UNCHANGED <<config, available, metrics, call, remote, job>>

\* A gateway that is not well says so, or the check of it throws.
HealthChecked(s, g) ==
    /\ g \in probe[s]
    /\ probe' = [probe EXCEPT ![s] = @ \ {g}]
    /\ \E ok \in BOOLEAN : available' = [available EXCEPT ![g] = ok]
    /\ UNCHANGED <<config, metrics, call, remote, job, changes>>

\* updateGatewayConfig, enableGateway, disableGateway.
SetEnabled(g, on) ==
    /\ Change
    /\ enabled' = [enabled EXCEPT ![g] = on]
    /\ UNCHANGED <<seat, priority, available, metrics, call, remote, job, probe>>

\* The line is sorted again; gateways of one priority keep their order.
Before(h, g, prio) ==
    prio[h] < prio[g] \/ (prio[h] = prio[g] /\ seat[h] < seat[g])

Sorted(prio) == [g \in Gateways |->
                    1 + Cardinality({h \in Gateways : Before(h, g, prio)})]

\* Mutant: the line is not sorted again.
SetPriorityOnly(g, p) ==
    /\ Change
    /\ priority' = [priority EXCEPT ![g] = p]
    /\ UNCHANGED <<seat, enabled, available, metrics, call, remote, job, probe>>

SetPriority(g, p) ==
    /\ Change
    /\ priority' = [priority EXCEPT ![g] = p]
    /\ seat' = Sorted(priority')
    /\ UNCHANGED <<enabled, available, metrics, call, remote, job, probe>>

-----------------------------------------------------------------------------
RouteStep(r) == TimesOut(r) \/ Answered(r) \/ RecordFailedAttempts(r)

RequestNext ==
    \E r \in Requests :
        \/ RouteCreateOrder(r) \/ RouteLookup(r) \/ RouteStep(r)
        \/ LookupAnswered(r) \/ ResolveJob(r)
        \/ \E g \in Gateways : GatewayAnswers(r, g)

AdminNext == \E g \in Gateways : \/ \E on \in BOOLEAN : SetEnabled(g, on)
                                 \/ \E p \in Priorities : SetPriority(g, p)

HealthNext == \E s \in Sweeps : \/ PerformHealthChecks(s)
                                \/ \E g \in Gateways : HealthChecked(s, g)

Next == RequestNext \/ AdminNext \/ HealthNext

Spec == Init /\ [][Next]_vars

\* A timer fires, and what follows it is done, whatever the gateways do.
FairSpec == Spec /\ \A r \in Requests : WF_vars(RouteStep(r))

-----------------------------------------------------------------------------
(***************************************************************************)
(* Properties                                                              *)
(***************************************************************************)

\* However late the gateways answer and however the line is sorted meanwhile, a
\* request opens one order at a gateway, and orders at MaxTries gateways, at
\* most.
OrdersBounded ==
    \A r \in Requests :
        /\ \A g \in Gateways : opened[r][g] <= 1
        /\ Cardinality({g \in Gateways : opened[r][g] > 0}) <= MaxTries

\* The metrics count each attempt once, by what the request made of it: an
\* order that is opened after its time is a failure and stays one.
MetricsAddUp ==
    \A g \in Gateways :
        /\ success[g] = Cardinality({r \in Requests : call[r].pc = "done" /\
                                                      call[r].at = g})
        /\ failure[g] = Cardinality({r \in Requests : g \in call[r].missed})

\* A request is first sent to a gateway of the highest priority among those that
\* are enabled and healthy at that moment, whatever was configured before.
HighestFirst ==
    [][\A r \in Requests :
           call[r].pc = "idle" /\ call'[r].pc \in {"trying", "looking"} =>
               \A g \in Usable : priority[call'[r].at] <= priority[g]]_vars

\* A request to open an order comes to an end, even if no gateway ever answers.
Ends == \A r \in Requests :
            call[r].pc = "trying" ~> call[r].pc \in {"done", "failed"}

=============================================================================
