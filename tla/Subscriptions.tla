--------------------------- MODULE Subscriptions ---------------------------
(***************************************************************************)
(* Subscriptions of hosts: paid orders verified by the client, mandates    *)
(* charged by the gateway and told by webhooks, cancellation, and the job  *)
(* that expires them.  Each call works in steps between its commands to    *)
(* Mongo, and the steps of different calls interleave.  The gateway is     *)
(* external.  Time counts in months, the unit a payment is granted in.     *)
(***************************************************************************)
EXTENDS Naturals, Sequences, FiniteSets

CONSTANTS
    Hosts,
    PaidPlans,   \* the plans there are besides FREE (PRO and PREMIUM)
    Orders,      \* paid orders whose signature a host can present, each known
                 \* by its payment: his own or another's, of a plan or a quiz
    Mandates,    \* subscriptions at the gateway, charged month by month
    Owner,       \* Owner[g]: the host a mandate is for
    PlanOf,      \* PlanOf[g]: and the plan it pays
    Clients,     \* slots for calls of the clients
    Hooks,       \* slots for webhook deliveries being handled
    Job,         \* the expiry job
    Ops,         \* the operations and the faults exercised
    FreeMonths,  \* how long a FREE subscription lasts (12)
    MaxMonth,    \* bound: the clock
    MaxCycles,   \* bound: charges of a mandate
    MaxSubs,     \* bound: documents; a create beyond it fails
    None

Actors  == Clients \cup Hooks \cup {Job}
OpNames == {"free", "cancel", "charge", "end", "expire", "crash", "fail"}
Plans   == {"FREE"} \cup PaidPlans

ASSUME SubscriptionsAssumption ==
    /\ Owner \in [Mandates -> Hosts]
    /\ PlanOf \in [Mandates -> PaidPlans] /\ "FREE" \notin PaidPlans
    /\ Job \notin Clients \cup Hooks /\ Clients \cap Hooks = {}
    /\ Orders \cap Mandates = {} /\ None \notin Orders \cup Mandates
    /\ (Mandates \X (1 .. MaxCycles)) \cap (Orders \cup Mandates \cup {None}) = {}
    /\ Ops \subseteq OpNames
    /\ {FreeMonths, MaxMonth, MaxCycles, MaxSubs} \subseteq Nat

VARIABLES
    subs,       \* the Subscription documents, in the order of their creation
    plan,       \* the plan noted on each User
    call,       \* what each actor is doing
    verified,   \* orders in the idempotency set of verifySubscriptionPayment
    processed,  \* events whose WebhookLog says processed
    paid,       \* at the gateway: orders that were paid
    cycles,     \* at the gateway: how often each mandate was charged
    ended,      \* at the gateway: how each mandate ended
    now

vars == <<subs, plan, call, verified, processed, paid, cycles, ended, now>>

gateway == <<paid, cycles, ended>>

Cycle  == 1 .. MaxCycles
Ids    == Orders \cup Mandates \cup (Mandates \X Cycle) \cup {None}
Event  == [kind : {"charged"}, of : Mandates, cycle : Cycle]
          \cup [kind : {"cancelled", "completed"}, of : Mandates, cycle : {0}]
Status == {"active", "replaced", "cancelled", "expired"}

Subscription == [host : Hosts, plan : Plans, status : Status,
                 id : Ids,             \* razorpaySubscriptionId
                 until : Nat,          \* expiryDate
                 paidCycles : Nat]

NoEvent == [kind |-> "none"]
Idle    == [task |-> "none", pc |-> "idle", host |-> None, plan |-> "FREE",
            id |-> None, sub |-> 0, until |-> 0, paidCycles |-> 0,
            event |-> NoEvent, batch |-> {}]

Call == [task : {"none", "verify", "free", "cancel", "charge", "expire"},
         pc   : {"idle", "check", "handle", "save", "expire", "read", "replace",
                 "create", "sync", "resync", "link", "next", "mark"},
         host : Hosts \cup {None}, plan : Plans, id : Ids,
         sub  : 0 .. MaxSubs,                   \* the document in hand
         until : Nat, paidCycles : Nat,         \* read from it, or the clock
         event : Event \cup {NoEvent},
         batch : SUBSET (1 .. MaxSubs)]         \* what the job has found

TypeOK ==
    /\ subs \in Seq(Subscription) /\ Len(subs) <= MaxSubs
    /\ plan \in [Hosts -> Plans]
    /\ call \in [Actors -> Call]
    /\ verified \subseteq Orders /\ processed \subseteq Event
    /\ paid \subseteq Orders
    /\ cycles \in [Mandates -> 0 .. MaxCycles]
    /\ ended \in [Mandates -> {"no", "cancelled", "completed"}]
    /\ now \in 0 .. MaxMonth

Init ==
    /\ subs = <<>>
    /\ plan = [h \in Hosts |-> "FREE"]
    /\ call = [c \in Actors |-> Idle]
    /\ verified = {} /\ processed = {} /\ paid = {}
    /\ cycles = [g \in Mandates |-> 0]
    /\ ended = [g \in Mandates |-> "no"]
    /\ now = 0

Active(i) == subs[i].status = "active"

Running(h) == {i \in 1 .. Len(subs) : subs[i].host = h /\ Active(i)}

Valid(h) == {i \in Running(h) : subs[i].until > now}

\* getActiveSubscription: the one that lasts longest, of these the newest.
Current(h) ==
    CHOOSE i \in Valid(h) : \A j \in Valid(h) :
        \/ subs[j].until < subs[i].until
        \/ subs[j].until = subs[i].until /\ j <= i

At(c, pc) == call[c].pc = pc

Go(c, pc) == call' = [call EXCEPT ![c].pc = pc]

Quit(c) == call' = [call EXCEPT ![c] = Idle]

-----------------------------------------------------------------------------
(***************************************************************************)
(* The gateway (external) and the clock                                    *)
(***************************************************************************)
Pay(o) ==
    /\ o \notin paid /\ paid' = paid \cup {o}
    /\ UNCHANGED <<subs, plan, call, verified, processed, cycles, ended, now>>

Charge(g) ==
    /\ ended[g] = "no" /\ cycles[g] < MaxCycles
    /\ cycles' = [cycles EXCEPT ![g] = @ + 1]
    /\ UNCHANGED <<subs, plan, call, verified, processed, paid, ended, now>>

EndMandate(g) ==
    /\ ended[g] = "no" /\ cycles[g] > 0
    /\ \E how \in {"cancelled", "completed"} : ended' = [ended EXCEPT ![g] = how]
    /\ UNCHANGED <<subs, plan, call, verified, processed, paid, cycles, now>>

Occurred(e) == IF e.kind = "charged" THEN e.cycle <= cycles[e.of]
               ELSE ended[e.of] = e.kind

MonthPasses ==
    /\ now < MaxMonth /\ now' = now + 1
    /\ UNCHANGED <<subs, plan, call, verified, processed, gateway>>

-----------------------------------------------------------------------------
(***************************************************************************)
(* createSubscription: what the host has is read, replaced, and a new      *)
(* document is created                                                     *)
(***************************************************************************)

\* Where a task goes on when createSubscription returns.  The call of a client
\* syncs no user, the other tasks do so.
AfterCreate(c) ==
    IF call[c].task \in {"verify", "free"} THEN Quit(c) ELSE Go(c, "sync")

\* The job goes on with its next document.
GoOn(c) ==
    call' = [call EXCEPT ![c] = [Idle EXCEPT !.task = "expire", !.pc = "next",
                                             !.batch = call[c].batch]]

\* Mutant: a failure ends the run of the job, with what it has not looked at yet.
AfterFailureAborts(c) == Quit(c)

\* Where a call goes on when a command fails.
AfterFailure(c) == IF c = Job THEN GoOn(c) ELSE Quit(c)

\* A command of the call fails, or is reported to: it may have been carried out.
\* (A run of the job that finds nothing, or whose find fails, is no step.)
Fail(c) ==
    /\ "fail" \in Ops
    /\ call[c].pc \notin {"idle", "next"}
    /\ AfterFailure(c)
    /\ UNCHANGED <<subs, plan, verified, processed, gateway, now>>

Verified(c) == verified' = IF call[c].task = "verify"
                           THEN verified \cup {call[c].id} ELSE verified

ReadCurrent(c) ==
    LET k == call[c] IN
    /\ At(c, "read")
    /\ IF Valid(k.host) # {} /\ subs[Current(k.host)].plan = k.plan
       THEN AfterCreate(c) /\ Verified(c)
       ELSE /\ call' = [call EXCEPT ![c].pc = "replace", ![c].until = now]
            /\ UNCHANGED verified
    /\ UNCHANGED <<subs, plan, processed, gateway, now>>

ReplaceActive(c) ==
    /\ At(c, "replace")
    /\ subs' = [i \in 1 .. Len(subs) |->
                   IF i \in Running(call[c].host)
                   THEN [subs[i] EXCEPT !.status = "replaced",
                                        !.until = call[c].until]
                   ELSE subs[i]]
    /\ Go(c, "create")
    /\ UNCHANGED <<plan, verified, processed, gateway, now>>

\* Mutant: no index.
FreeAnyhow(id) == id \in Ids

\* The unique index on razorpaySubscriptionId: it is sparse, but a document
\* without an id stores null, so one of them at most is accepted.
Free(id) == \A i \in 1 .. Len(subs) : subs[i].id # id

\* A FREE subscription is created without an id, whatever payment was verified.
NewId(k) == IF k.plan = "FREE" THEN None ELSE k.id

Create(c) ==
    LET k == call[c] IN
    /\ At(c, "create")
    /\ Free(NewId(k)) /\ Len(subs) < MaxSubs
    /\ subs' = Append(subs, [host |-> k.host, plan |-> k.plan, status |-> "active",
                             id |-> NewId(k), paidCycles |-> 0,
                             until |-> k.until + (IF k.plan = "FREE"
                                                  THEN FreeMonths ELSE 1)])
    /\ AfterCreate(c) /\ Verified(c)
    /\ UNCHANGED <<plan, processed, gateway, now>>

CreateRefused(c) ==
    /\ At(c, "create")
    /\ ~Free(NewId(call[c])) \/ Len(subs) = MaxSubs
    /\ AfterFailure(c)
    /\ UNCHANGED <<subs, plan, verified, processed, gateway, now>>

\* syncUserPlan, which handleSubscriptionExpiry calls once more, and which
\* swallows its own failure.
SyncUserPlan(c) ==
    LET k == call[c] IN
    /\ At(c, "sync") \/ At(c, "resync")
    /\ \/ plan' = [plan EXCEPT ![k.host] = k.plan]
       \/ "fail" \in Ops /\ UNCHANGED plan
    /\ \/ k.task = "charge" /\ k.sub = 0 /\ Go(c, "link")
       \/ k.task = "charge" /\ k.sub # 0 /\ Go(c, "mark")
       \/ k.task # "charge" /\ At(c, "sync") /\ Go(c, "resync")
       \/ /\ k.task # "charge" /\ At(c, "resync")
          /\ IF c = Job THEN GoOn(c) ELSE Quit(c)
    /\ UNCHANGED <<subs, verified, processed, gateway, now>>

CreateSubscription(c) ==
    \/ ReadCurrent(c) \/ ReplaceActive(c) \/ Create(c) \/ CreateRefused(c)
    \/ SyncUserPlan(c)

-----------------------------------------------------------------------------
(***************************************************************************)
(* The calls of the clients                                                *)
(***************************************************************************)
Begin(c, k) ==
    /\ At(c, "idle") /\ call' = [call EXCEPT ![c] = k]
    /\ UNCHANGED <<subs, plan, verified, processed, gateway, now>>

\* verifySubscriptionPayment, with the signature of a payment that was made.  The
\* host is the one logged in and the plan the one he names: nothing ties the
\* order to them.
BeginVerify(c, o, h, p) ==
    /\ o \in paid \ verified
    /\ Begin(c, [Idle EXCEPT !.task = "verify", !.pc = "read", !.host = h,
                             !.plan = p, !.id = o])

\* createSubscriptionOrder for the plan FREE.
BeginFree(c, h) ==
    Begin(c, [Idle EXCEPT !.task = "free", !.pc = "read", !.host = h])

\* cancelHostSubscription: any active document of the host is expired.
BeginCancel(c, h) ==
    \E i \in Running(h) :
        Begin(c, [Idle EXCEPT !.task = "cancel", !.pc = "expire", !.host = h,
                              !.sub = i])

\* Mutant: the default status of the schema is saved, which is no status the
\* program gives a subscription.
SaveInactive(c) ==
    /\ At(c, "expire")
    /\ subs' = [subs EXCEPT ![call[c].sub].status = "inactive"]
    /\ Go(c, "read")
    /\ UNCHANGED <<plan, verified, processed, gateway, now>>

\* handleSubscriptionExpiry goes on to create a FREE subscription.
SaveExpired(c) ==
    /\ At(c, "expire")
    /\ subs' = [subs EXCEPT ![call[c].sub].status = "expired"]
    /\ Go(c, "read")
    /\ UNCHANGED <<plan, verified, processed, gateway, now>>

\* Ten minutes later the idempotency set has forgotten the order.
Forget(o) ==
    /\ o \in verified /\ verified' = verified \ {o}
    /\ UNCHANGED <<subs, plan, call, processed, gateway, now>>

-----------------------------------------------------------------------------
(***************************************************************************)
(* Webhooks                                                                *)
(***************************************************************************)
Deliver(c, e) ==
    /\ Occurred(e)
    /\ Begin(c, [Idle EXCEPT !.task = "charge", !.pc = "check", !.event = e])

CheckLog(c) ==
    /\ At(c, "check")
    /\ IF call[c].event \in processed THEN Quit(c) ELSE Go(c, "handle")
    /\ UNCHANGED <<subs, plan, verified, processed, gateway, now>>

Holding(id) == {i \in 1 .. Len(subs) : subs[i].id = id}

\* Mutant: every charge is taken for the first one.
HandleChargedAsFirst(c) ==
    LET e == call[c].event IN
    /\ At(c, "handle") /\ e.kind = "charged"
    /\ call' = [call EXCEPT ![c] =
           [@ EXCEPT !.pc = "read", !.host = Owner[e.of],
                     !.plan = PlanOf[e.of], !.id = <<e.of, e.cycle>>]]
    /\ UNCHANGED <<subs, plan, verified, processed, gateway, now>>

\* handleSubscriptionCharged: the document of the mandate is read, or created.
HandleCharged(c) ==
    LET e == call[c].event IN
    /\ At(c, "handle") /\ e.kind = "charged"
    /\ \/ \E i \in Holding(e.of) :
             call' = [call EXCEPT ![c] =
                 [@ EXCEPT !.pc = "save", !.sub = i, !.host = subs[i].host,
                           !.plan = subs[i].plan, !.until = subs[i].until,
                           !.paidCycles = subs[i].paidCycles]]
       \/ /\ Holding(e.of) = {}
          /\ call' = [call EXCEPT ![c] =
                 [@ EXCEPT !.pc = "read", !.host = Owner[e.of],
                           !.plan = PlanOf[e.of], !.id = <<e.of, e.cycle>>]]
    /\ UNCHANGED <<subs, plan, verified, processed, gateway, now>>

\* Mutant: the payment makes the subscription active.
SavePaymentRenews(c) ==
    LET k == call[c] IN
    /\ At(c, "save")
    /\ subs' = [subs EXCEPT ![k.sub].until = k.until + 1,
                            ![k.sub].paidCycles = k.paidCycles + 1,
                            ![k.sub].status = "active"]
    /\ Go(c, "sync")
    /\ UNCHANGED <<plan, verified, processed, gateway, now>>

\* processSubscriptionPayment: one month more than was read.
SavePayment(c) ==
    LET k == call[c] IN
    /\ At(c, "save")
    /\ subs' = [subs EXCEPT ![k.sub].until = k.until + 1,
                            ![k.sub].paidCycles = k.paidCycles + 1]
    /\ Go(c, "sync")
    /\ UNCHANGED <<plan, verified, processed, gateway, now>>

\* The id of the mandate is set on an active document of the plan, if there is
\* one and no other document has the id.
Link(c) ==
    LET k == call[c]
        Fit == {i \in Running(k.host) : subs[i].plan = k.plan} IN
    /\ At(c, "link")
    /\ \/ \E i \in Fit :
             /\ Holding(k.event.of) \subseteq {i}
             /\ subs' = [subs EXCEPT ![i].id = k.event.of]
             /\ Go(c, "mark")
       \/ Fit = {} /\ Go(c, "mark") /\ UNCHANGED subs
       \/ /\ \E i \in Fit : ~(Holding(k.event.of) \subseteq {i})
          /\ Quit(c) /\ UNCHANGED subs
    /\ UNCHANGED <<plan, verified, processed, gateway, now>>

\* handleSubscriptionCancelled and handleSubscriptionCompleted.
HandleEnded(c) ==
    LET e == call[c].event IN
    /\ At(c, "handle") /\ e.kind \in {"cancelled", "completed"}
    /\ subs' = [i \in 1 .. Len(subs) |->
                   IF subs[i].id # e.of THEN subs[i]
                   ELSE IF e.kind = "completed"
                   THEN [subs[i] EXCEPT !.status = "expired"]
                   ELSE IF Active(i) THEN [subs[i] EXCEPT !.status = "cancelled"]
                   ELSE subs[i]]
    /\ Go(c, "mark")
    /\ UNCHANGED <<plan, verified, processed, gateway, now>>

MarkProcessed(c) ==
    /\ At(c, "mark")
    /\ processed' = processed \cup {call[c].event}
    /\ Quit(c)
    /\ UNCHANGED <<subs, plan, verified, gateway, now>>

HookStep(c) ==
    \/ CheckLog(c) \/ HandleCharged(c) \/ SavePayment(c) \/ Link(c)
    \/ HandleEnded(c) \/ MarkProcessed(c) \/ CreateSubscription(c)

-----------------------------------------------------------------------------
(***************************************************************************)
(* The expiry job                                                          *)
(***************************************************************************)
Overdue(i) == Active(i) /\ subs[i].until <= now

\* The job finds the documents that are overdue.
FindOverdue ==
    /\ \E i \in 1 .. Len(subs) : Overdue(i)
    /\ Begin(Job, [Idle EXCEPT !.task = "expire", !.pc = "next",
                               !.batch = {i \in 1 .. Len(subs) : Overdue(i)}])

\* It takes one after the other, and looks at none of them again.
NextOverdue ==
    /\ At(Job, "next")
    /\ IF call[Job].batch = {} THEN Quit(Job)
       ELSE \E i \in call[Job].batch :
                call' = [call EXCEPT ![Job].pc = "expire", ![Job].sub = i,
                                     ![Job].host = subs[i].host,
                                     ![Job].batch = @ \ {i}]
    /\ UNCHANGED <<subs, plan, verified, processed, gateway, now>>

JobStep == NextOverdue \/ SaveExpired(Job) \/ CreateSubscription(Job)

-----------------------------------------------------------------------------
\* The process restarts.
Crash ==
    /\ "crash" \in Ops
    /\ call' = [c \in Actors |-> Idle] /\ verified' = {}
    /\ UNCHANGED <<subs, plan, processed, gateway, now>>

GatewayNext ==
    \/ \E o \in Orders : Pay(o)
    \/ "charge" \in Ops /\ \E g \in Mandates : Charge(g)
    \/ "end" \in Ops /\ \E g \in Mandates : EndMandate(g)

ClientStep(c) == SaveExpired(c) \/ CreateSubscription(c)

ClientNext ==
    \E c \in Clients :
        \/ ClientStep(c)
        \/ \E o \in Orders, h \in Hosts, p \in Plans : BeginVerify(c, o, h, p)
        \/ "free" \in Ops /\ \E h \in Hosts : BeginFree(c, h)
        \/ "cancel" \in Ops /\ \E h \in Hosts : BeginCancel(c, h)

HookNext == \E c \in Hooks : HookStep(c) \/ \E e \in Event : Deliver(c, e)

JobNext == "expire" \in Ops /\ (FindOverdue \/ JobStep)

Next ==
    \/ GatewayNext \/ MonthPasses \/ ClientNext \/ HookNext \/ JobNext \/ Crash
    \/ \E o \in Orders : Forget(o)
    \/ \E c \in Actors : Fail(c)

Spec == Init /\ [][Next]_vars

\* Where SUBSCRIPTION_JOBS_ENABLED is set (it is not by default) the job runs every
\* hour, its find succeeds now and then, and a run goes on to its end.
FairSpec == Spec /\ WF_vars(JobNext)

-----------------------------------------------------------------------------
(***************************************************************************)
(* Properties                                                              *)
(***************************************************************************)
PaidSubs == {i \in 1 .. Len(subs) : subs[i].plan # "FREE"}

\* The months of a plan that were granted with these documents: one with each, and
\* one with each payment added to it.
Months(is)  == UNION {{i} \X (0 .. subs[i].paidCycles) : i \in is}
Granted(is) == Cardinality(Months(is))

\* A payment is good for one month: without mandates the hosts are granted no more
\* months than payments were made, however often, by whomever, for whatever plan
\* and whenever they are verified.  What the idempotency set lets through again,
\* at once or ten minutes later, the unique index stops.
MonthsArePaid ==
    (\A g \in Mandates : cycles[g] = 0)
        => Granted(PaidSubs) <= Cardinality(paid)

\* When no event is being handled, hosts who pay by mandate alone have been granted
\* one month for each charge that was processed, whatever their clients and the
\* expiry job did to the subscriptions between the steps of the handlers.
ChargesCounted ==
    (\A c \in Hooks : At(c, "idle")) /\ paid = {}
    => \A h \in Hosts :
          Granted({i \in PaidSubs : subs[i].host = h})
              = Cardinality({e \in processed : e.kind = "charged" /\
                                               Owner[e.of] = h})

\* No step, whatever it read before, brings a subscription back that was
\* replaced, cancelled or expired.
RetiredStays == [][\A i \in 1 .. Len(subs) : ~Active(i) => ~Active(i)']_vars

\* The step fails that was to take subscription i from its host.
ExpiryFails(i) == At(Job, "expire") /\ call[Job].sub = i /\ Fail(Job)

\* A subscription that is overdue does not stay active, however often the downgrade
\* of the others fails, or its own later on, unless the process restarts again and
\* again or the save of this very document keeps failing.
ExpiryTaken ==
    \A i \in 1 .. MaxSubs :
        <>[][~Crash /\ ~ExpiryFails(i)]_vars =>
            ((i \in DOMAIN subs /\ Overdue(i)) ~> (i \in DOMAIN subs /\ ~Active(i)))

\* When nothing is in progress, a host whose subscription has expired and who
\* has no other is on the plan FREE.
ExpiryDowngrades ==
    \A h \in Hosts :
        /\ \A c \in Actors : At(c, "idle")
        /\ \E i \in 1 .. Len(subs) : subs[i].host = h /\ subs[i].status = "expired"
        /\ Running(h) = {}
        => plan[h] = "FREE"

=============================================================================
