------------------------------ MODULE Payments ------------------------------
(***************************************************************************)
(* The payment service between the buyers of paid quizzes, the gateway and *)
(* the hosts: orders, verification by the client, webhooks, the jobs that  *)
(* are kept of failed webhooks, and payouts.  The handlers share Mongo:    *)
(* findOneAndUpdate is one atomic step, a document that is read, changed   *)
(* and saved is two, and a save writes the fields that were changed.       *)
(* The gateway is external.  Payments are enabled, so no order is a mock.  *)
(***************************************************************************)
EXTENDS Integers, FiniteSets

CONSTANTS
    Orders,      \* calls of createQuizOrder, each with the order it opens
    Buyer,       \* Buyer[o]: the pair of user and quiz that order o is for
    Attempts,    \* the payments a buyer may try on one order
    Hooks,       \* slots for webhook deliveries being handled
    Checkers,    \* slots for calls of verifyQuizPayment
    Ops,         \* the operations and the faults exercised
    MaxAttempts, \* MAX_ATTEMPTS of the retry worker (5)
    MaxMoves,    \* bound: transfers of the payout job for one order
    MaxFailures, \* bound: webhook events with a job, and failures of each
    None

OpNames == {"kyc", "refund", "verify", "retry", "payout", "crash", "database"}

ASSUME PaymentsAssumption ==
    /\ Buyer \in [Orders -> Orders]
    /\ None \notin Attempts \cup Orders
    /\ Ops \subseteq OpNames
    /\ MaxAttempts \in Nat
    /\ MaxMoves \in Nat
    /\ MaxFailures \in Nat

VARIABLES
    account,    \* HostAccount of the host
    request,    \* createQuizOrder, per order
    payment,    \* the Payment documents
    charge,     \* at the gateway: what became of each attempt on an order
    acked,      \* events the gateway has been told were received
    hook,       \* webhook deliveries being handled
    processed,  \* events whose WebhookLog says processed
    job,        \* the FailedJob of each event
    worker,     \* the event whose job the retry worker has in hand
    check,      \* calls of verifyQuizPayment
    verified,   \* orders in the idempotency set of verifyQuizPayment
    run,        \* the run of the payout job
    paidOut,    \* orders in the idempotency set of the payout job
    moved       \* at the gateway: transfers the payout job made, per order

vars == <<account, request, payment, charge, acked, hook, processed, job, worker,
          check, verified, run, paidOut, moved>>

ordering == <<account, request>>
hooking  == <<acked, hook, processed, job, worker>>
checking == <<check, verified>>
paying   == <<run, paidOut, moved>>

Event == [kind : {"captured", "failed", "refunded"}, order : Orders,
          attempt : Attempts]
         \cup [kind : {"transferred", "notTransferred"}, order : Orders,
               attempt : {None}]

Modes    == {"route", "manual", "none"}
Payouts  == {"not_applicable", "pending", "processing", "transferred",
             "blocked_kyc", "reversed", "failed"}

Payment  == [status : {"created", "completed", "failed", "refunded"},
             pid    : Attempts \cup {None},  \* razorpayPaymentId
             mode   : Modes,
             payout : Payouts,
             tid    : BOOLEAN]               \* razorpayTransferId is set

NoPayment == [status |-> "none", pid |-> None, mode |-> "none",
              payout |-> "not_applicable", tid |-> FALSE]

Account  == [linked : BOOLEAN, verified : BOOLEAN, enabled : BOOLEAN]
Request  == [pc     : {"idle", "host", "route", "store", "done", "refused"},
             mode   : Modes,
             payout : {"not_applicable", "processing", "blocked_kyc"}]

NoJob    == [status |-> "none", attempts |-> 0]
Job      == [status : {"none", "pending", "retrying", "resolved", "dead_letter"},
             attempts : Nat]

NoEvent  == [kind |-> "none"]
HookPc   == {"idle", "check", "handle", "payout", "mark", "unmark", "report"}
Delivery == [pc : HookPc, event : Event \cup {NoEvent}, payout : Payouts]
IdleHook == [pc |-> "idle", event |-> NoEvent, payout |-> "not_applicable"]

Call     == [pc : {"idle", "fetch"}, order : Orders \cup {None},
             attempt : Attempts \cup {None}]
IdleCall == [pc |-> "idle", order |-> None, attempt |-> None]

Run      == [pc : {"idle", "next", "block", "transfer", "save"},
             batch : SUBSET Orders, order : Orders \cup {None}]
IdleRun  == [pc |-> "idle", batch |-> {}, order |-> None]

TypeOK ==
    /\ account \in Account
    /\ request \in [Orders -> Request]
    /\ payment \in [Orders -> Payment \cup {NoPayment}]
    /\ charge \in [Orders -> [Attempts ->
                       {"none", "failed", "captured", "refunded"}]]
    /\ acked \subseteq Event
    /\ hook \in [Hooks -> Delivery]
    /\ processed \subseteq Event
    /\ job \in [Event -> Job]
    /\ worker \in Event \cup {NoEvent}
    /\ check \in [Checkers -> Call]
    /\ verified \subseteq Orders
    /\ run \in Run
    /\ paidOut \subseteq Orders
    /\ moved \in [Orders -> Nat]

Init ==
    /\ account = [linked |-> FALSE, verified |-> FALSE, enabled |-> FALSE]
    /\ request = [o \in Orders |-> [pc |-> "idle", mode |-> "none",
                                    payout |-> "not_applicable"]]
    /\ payment = [o \in Orders |-> NoPayment]
    /\ charge = [o \in Orders |-> [a \in Attempts |-> "none"]]
    /\ acked = {}
    /\ hook = [h \in Hooks |-> IdleHook]
    /\ processed = {}
    /\ job = [e \in Event |-> NoJob]
    /\ worker = NoEvent
    /\ check = [v \in Checkers |-> IdleCall]
    /\ verified = {}
    /\ run = IdleRun
    /\ paidOut = {}
    /\ moved = [o \in Orders |-> 0]

Stored(o)   == payment[o].status # "none"
Captured(o) == \E a \in Attempts : charge[o][a] \in {"captured", "refunded"}

-----------------------------------------------------------------------------
(***************************************************************************)
(* createQuizOrder and the account of the host                             *)
(***************************************************************************)

\* A buyer who has already paid for the quiz is refused (409).
CheckExistingPayment(o) ==
    /\ request[o].pc = "idle"
    /\ request' = [request EXCEPT ![o].pc =
           IF \E p \in Orders : /\ Buyer[p] = Buyer[o]
                                /\ payment[p].status = "completed"
           THEN "refused" ELSE "host"]
    /\ UNCHANGED <<account, payment, charge, hooking, checking, paying>>

\* How the host of the quiz is to be paid, if the split leaves a share.
DeterminePayout(share) ==
    IF ~share THEN [mode |-> "none", payout |-> "not_applicable"]
    ELSE IF account.linked /\ account.verified /\ account.enabled
    THEN [mode |-> "route", payout |-> "processing"]
    ELSE [mode |-> "manual", payout |-> "blocked_kyc"]

ReadHostAccount(o) ==
    /\ request[o].pc = "host"
    /\ \E share \in BOOLEAN :
           request' = [request EXCEPT
               ![o] = [pc |-> "route", mode |-> DeterminePayout(share).mode,
                       payout |-> DeterminePayout(share).payout]]
    /\ UNCHANGED <<account, payment, charge, hooking, checking, paying>>

\* The router finds a gateway that opens the order, or none does.
RouteCreateOrder(o) ==
    /\ request[o].pc = "route"
    /\ \E pc \in {"store", "refused"} : request' = [request EXCEPT ![o].pc = pc]
    /\ UNCHANGED <<account, payment, charge, hooking, checking, paying>>

\* Payment.create.  The unique index on razorpayPaymentId is sparse, but the
\* field is stored as null, so a second document without a payment is refused.
StorePayment(o) ==
    /\ request[o].pc = "store"
    /\ \/ /\ \A p \in Orders : ~(Stored(p) /\ payment[p].pid = None)
          /\ payment' = [payment EXCEPT ![o] =
                 [status |-> "created", pid |-> None, mode |-> request[o].mode,
                  payout |-> request[o].payout, tid |-> FALSE]]
          /\ request' = [request EXCEPT ![o].pc = "done"]
       \/ /\ \E p \in Orders : Stored(p) /\ payment[p].pid = None
          /\ request' = [request EXCEPT ![o].pc = "refused"]
          /\ UNCHANGED payment
    /\ UNCHANGED <<account, charge, hooking, checking, paying>>

CreateQuizOrder(o) ==
    \/ CheckExistingPayment(o) \/ ReadHostAccount(o)
    \/ RouteCreateOrder(o) \/ StorePayment(o)

\* createConnectedAccount.
CreateAccount ==
    /\ ~account.linked
    /\ account' = [account EXCEPT !.linked = TRUE, !.verified = FALSE]
    /\ UNCHANGED <<request, payment, charge, hooking, checking, paying>>

\* checkKycStatus: what the gateway says of the account.
CheckKycStatus ==
    /\ account.linked
    /\ \E ok \in BOOLEAN :
           account' = [account EXCEPT !.verified = ok, !.enabled = ok]
    /\ UNCHANGED <<request, payment, charge, hooking, checking, paying>>

\* upsertHostAccountData: the status is one of the request's, or pending.
UpsertHostAccount ==
    /\ \E ok \in BOOLEAN :
           account' = [account EXCEPT !.linked = TRUE, !.verified = ok]
    /\ UNCHANGED <<request, payment, charge, hooking, checking, paying>>

-----------------------------------------------------------------------------
(***************************************************************************)
(* The gateway (external): attempts fail or are captured, refunds are made *)
(* on its dashboard.  An order of mode route carries the host's transfer,  *)
(* which the gateway makes when the payment is captured.                   *)
(***************************************************************************)
Settle(o, a, how) ==
    /\ charge' = [charge EXCEPT ![o][a] = how]
    /\ UNCHANGED <<ordering, payment, hooking, checking, paying>>

PayAttempt(o, a) ==
    /\ Stored(o) /\ ~Captured(o) /\ charge[o][a] = "none"
    /\ \E how \in {"failed", "captured"} : Settle(o, a, how)

RefundAttempt(o, a) == charge[o][a] = "captured" /\ Settle(o, a, "refunded")

\* The events the gateway has to tell.
Occurred(e) ==
    CASE e.kind = "failed"   -> charge[e.order][e.attempt] = "failed"
      [] e.kind = "captured" -> charge[e.order][e.attempt] \in
                                    {"captured", "refunded"}
      [] e.kind = "refunded" -> charge[e.order][e.attempt] = "refunded"
      [] OTHER               -> moved[e.order] > 0

-----------------------------------------------------------------------------
(***************************************************************************)
(* Webhooks: handleWebhook and the handlers it calls                       *)
(***************************************************************************)
HookAt(h, pc) == hook[h].pc = pc

Go(h, pc) == hook' = [hook EXCEPT ![h].pc = pc]

HookDone(h) == hook' = [hook EXCEPT ![h] = IdleHook]

\* A delivery, the first one or another one, is acknowledged at once.
Deliver(h, e) ==
    /\ HookAt(h, "idle") /\ Occurred(e)
    /\ acked' = acked \cup {e}
    /\ hook' = [hook EXCEPT ![h] = [IdleHook EXCEPT !.pc = "check", !.event = e]]
    /\ UNCHANGED <<ordering, payment, charge, processed, job, worker, checking,
                   paying>>

\* Mutant: a delivery waits while the same event is being handled.
CheckLogWaits(h) ==
    /\ HookAt(h, "check")
    /\ \A k \in Hooks \ {h} : hook[k].event # hook[h].event
    /\ IF hook[h].event \in processed THEN HookDone(h) ELSE Go(h, "handle")
    /\ UNCHANGED <<ordering, payment, charge, acked, processed, job, worker,
                   checking, paying>>

\* An event that is logged as processed is not handled again.
CheckLog(h) ==
    /\ HookAt(h, "check")
    /\ IF hook[h].event \in processed THEN HookDone(h) ELSE Go(h, "handle")
    /\ UNCHANGED <<ordering, payment, charge, acked, processed, job, worker,
                   checking, paying>>

\* Mutant: the word of the gateway for the transfer is stored.
RoutedPayoutRaw(o) == IF payment[o].tid THEN "processed" ELSE "processing"

\* What a capture makes of the payout of a routed order.
RoutedPayout(o) == IF payment[o].tid THEN "transferred" ELSE "processing"

\* Mutant: only a payment that is still open is completed.
ReconcileOpen(h, o, a) ==
    IF payment[o].status # "created" THEN Go(h, "mark") /\ UNCHANGED payment
    ELSE /\ payment' = [payment EXCEPT ![o].status = "completed", ![o].pid = a]
         /\ Go(h, "mark")

\* One atomic update, then a save of the payout if the update calls for one.
ReconcileCapturedPayment(h, o, a) ==
    IF payment[o].status = "completed" THEN Go(h, "mark") /\ UNCHANGED payment
    ELSE /\ payment' = [payment EXCEPT ![o].status = "completed", ![o].pid = a]
         /\ IF payment[o].mode = "route" /\ payment[o].payout # RoutedPayout(o)
            THEN hook' = [hook EXCEPT ![h].pc = "payout",
                                      ![h].payout = RoutedPayout(o)]
            ELSE Go(h, "mark")

\* Mutant: a completed payment fails as well.
FailAnyPayment(h, o, a) ==
    /\ payment' = [payment EXCEPT ![o] =
           IF @.status = "failed" THEN @
           ELSE [@ EXCEPT !.status = "failed", !.pid = a, !.payout = "failed"]]
    /\ Go(h, "mark")

HandlePaymentFailed(h, o, a) ==
    /\ payment' = [payment EXCEPT ![o] =
           IF @.status \in {"completed", "failed"} THEN @
           ELSE [@ EXCEPT !.status = "failed", !.pid = a, !.payout = "failed"]]
    /\ Go(h, "mark")

\* The payment is found by its payment id.
HandlePaymentRefunded(h, o, a) ==
    /\ payment' = [payment EXCEPT ![o] =
           IF @.pid = a /\ @.status \in {"completed", "refunded"}
           THEN [@ EXCEPT !.status = "refunded", !.payout = "reversed"] ELSE @]
    /\ Go(h, "mark")

\* Only the payout job names the order in its transfers (the transfers of an
\* order name its receipt), and only transfer.processed is a success.
HandleTransferUpdate(h, o, kind) ==
    /\ payment' = [payment EXCEPT ![o] = [@ EXCEPT !.tid = TRUE,
           !.payout = IF kind = "transferred" THEN "transferred" ELSE "failed"]]
    /\ Go(h, "mark")

HandleEvent(h) ==
    LET e == hook[h].event IN
    /\ HookAt(h, "handle")
    /\ \/ e.kind = "captured" /\ ReconcileCapturedPayment(h, e.order, e.attempt)
       \/ e.kind = "failed"   /\ HandlePaymentFailed(h, e.order, e.attempt)
       \/ e.kind = "refunded" /\ HandlePaymentRefunded(h, e.order, e.attempt)
       \/ /\ e.kind \in {"transferred", "notTransferred"}
          /\ HandleTransferUpdate(h, e.order, e.kind)
    /\ UNCHANGED <<ordering, charge, acked, processed, job, worker, checking,
                   paying>>

SavePayout(h) ==
    /\ HookAt(h, "payout")
    /\ payment' = [payment EXCEPT ![hook[h].event.order].payout = hook[h].payout]
    /\ Go(h, "mark")
    /\ UNCHANGED <<ordering, charge, acked, processed, job, worker, checking,
                   paying>>

MarkProcessed(h) ==
    /\ HookAt(h, "mark")
    /\ processed' = processed \cup {hook[h].event}
    /\ HookDone(h)
    /\ UNCHANGED <<ordering, payment, charge, acked, job, worker, checking,
                   paying>>

\* A command to Mongo fails: a handler's error is logged and kept as a job, any
\* other is only written to the log of the process.
HookFails(h) ==
    /\ "database" \in Ops
    /\ \/ /\ hook[h].pc \in {"handle", "payout", "mark"}
          /\ job[hook[h].event].attempts < MaxFailures
          /\ Cardinality({e \in Event : job[e].attempts > 0}) < MaxFailures
          /\ Go(h, "unmark")
       \/ hook[h].pc \in {"check", "unmark", "report"} /\ HookDone(h)
    /\ UNCHANGED <<ordering, payment, charge, acked, processed, job, worker,
                   checking, paying>>

\* The log of the event is saved as failed, whatever another delivery wrote.
MarkFailed(h) ==
    /\ HookAt(h, "unmark")
    /\ processed' = processed \ {hook[h].event}
    /\ Go(h, "report")
    /\ UNCHANGED <<ordering, payment, charge, acked, job, worker, checking,
                   paying>>

LogFailedWebhookJob(h) ==
    /\ HookAt(h, "report")
    /\ job' = [job EXCEPT ![hook[h].event] =
                  [status |-> "pending", attempts |-> @.attempts + 1]]
    /\ HookDone(h)
    /\ UNCHANGED <<ordering, payment, charge, acked, processed, worker, checking,
                   paying>>

HookStep(h) ==
    \/ CheckLog(h) \/ HandleEvent(h) \/ SavePayout(h) \/ MarkProcessed(h)
    \/ MarkFailed(h) \/ LogFailedWebhookJob(h)

-----------------------------------------------------------------------------
(***************************************************************************)
(* The retry worker of failed jobs                                         *)
(***************************************************************************)

\* The job holds the body of the request, and the worker looks for the payment
\* one level too deep in it: it finds none, whatever the event.
RetryWebhookJob(e) == UNCHANGED payment

TakeJob(e) ==
    /\ worker = NoEvent /\ job[e].status \in {"pending", "retrying"}
    /\ job' = [job EXCEPT ![e].status = "retrying"]
    /\ worker' = e
    /\ UNCHANGED <<ordering, payment, charge, acked, hook, processed, checking,
                   paying>>

FinishJob ==
    /\ worker # NoEvent
    /\ RetryWebhookJob(worker)
    /\ job' = [job EXCEPT ![worker].status = "resolved"]
    /\ worker' = NoEvent
    /\ UNCHANGED <<ordering, charge, acked, hook, processed, checking, paying>>

\* A command fails: the job is put off or given up, if that can be saved.
JobFails ==
    /\ "database" \in Ops /\ worker # NoEvent
    /\ job' = [job EXCEPT ![worker] =
           [status   |-> IF @.attempts + 1 >= MaxAttempts THEN "dead_letter"
                         ELSE "pending",
            attempts |-> @.attempts + 1]]
    /\ worker' = NoEvent
    /\ UNCHANGED <<ordering, payment, charge, acked, hook, processed, checking,
                   paying>>

-----------------------------------------------------------------------------
(***************************************************************************)
(* verifyQuizPayment                                                       *)
(***************************************************************************)

\* Mutant: any attempt will do, as if the signature were not verified.
BeginVerifyUnsigned(v, o, a) ==
    /\ check[v].pc = "idle" /\ Stored(o) /\ o \notin verified
    /\ charge[o][a] # "none"
    /\ IF payment[o].status = "completed"
       THEN verified' = verified \cup {o} /\ UNCHANGED check
       ELSE /\ check' = [check EXCEPT ![v] =
                           [pc |-> "fetch", order |-> o, attempt |-> a]]
            /\ UNCHANGED verified
    /\ UNCHANGED <<ordering, payment, charge, hooking, paying>>

\* The client has a signature for an attempt that paid.  The order is added
\* to the idempotency set only once a call has succeeded.
BeginVerify(v, o, a) ==
    /\ check[v].pc = "idle" /\ Stored(o) /\ o \notin verified
    /\ charge[o][a] \in {"captured", "refunded"}
    /\ IF payment[o].status = "completed"
       THEN verified' = verified \cup {o} /\ UNCHANGED check
       ELSE /\ check' = [check EXCEPT ![v] =
                           [pc |-> "fetch", order |-> o, attempt |-> a]]
            /\ UNCHANGED verified
    /\ UNCHANGED <<ordering, payment, charge, hooking, paying>>

\* The payment that was read before the gateway was asked is saved.
SaveVerified(v) ==
    /\ check[v].pc = "fetch"
    /\ payment' = [payment EXCEPT ![check[v].order].status = "completed",
                                  ![check[v].order].pid = check[v].attempt]
    /\ verified' = verified \cup {check[v].order}
    /\ check' = [check EXCEPT ![v] = IdleCall]
    /\ UNCHANGED <<ordering, charge, hooking, paying>>

SaveVerifiedFails(v) ==
    /\ check[v].pc = "fetch"
    /\ check' = [check EXCEPT ![v] = IdleCall]
    /\ UNCHANGED <<ordering, payment, charge, hooking, verified, paying>>

\* Ten minutes later both idempotency sets have forgotten the order.
Forget(o) ==
    /\ o \in verified \cup paidOut
    /\ \/ verified' = verified \ {o} /\ UNCHANGED paidOut
       \/ paidOut' = paidOut \ {o} /\ UNCHANGED verified
    /\ UNCHANGED <<ordering, payment, charge, hooking, check, run, moved>>

-----------------------------------------------------------------------------
(***************************************************************************)
(* processPendingPayouts                                                   *)
(***************************************************************************)

\* o is dealt with; the run ends with its last payment.
NextPayout(o) == run' = [pc    |-> IF run.batch = {o} THEN "idle" ELSE "next",
                         batch |-> run.batch \ {o}, order |-> None]

Due(o) == /\ payment[o].status = "completed"
          /\ payment[o].payout = "processing"
          /\ payment[o].mode = "route"

FindPayouts ==
    /\ run.pc = "idle" /\ \E o \in Orders : Due(o)
    /\ run' = [pc |-> "next", batch |-> {o \in Orders : Due(o)}, order |-> None]
    /\ UNCHANGED <<ordering, payment, charge, hooking, checking, paidOut, moved>>

\* The account is looked up for a payment that is not in the idempotency set.
CheckPayout(o) ==
    /\ run.pc = "next" /\ o \in run.batch
    /\ IF o \in paidOut THEN NextPayout(o)
       ELSE run' = [run EXCEPT !.order = o,
                       !.pc = IF account.verified THEN "transfer" ELSE "block"]
    /\ UNCHANGED <<ordering, payment, charge, hooking, checking, paidOut, moved>>

BlockPayout(o) ==
    /\ run.pc = "block" /\ run.order = o
    /\ payment' = [payment EXCEPT ![o].payout = "blocked_kyc"]
    /\ paidOut' = paidOut \cup {o}
    /\ NextPayout(o)
    /\ UNCHANGED <<ordering, charge, hooking, checking, moved>>

\* Mutant: a transfer the gateway refused is saved like one it made.
MakeTransferAnyhow(o) ==
    /\ run.pc = "transfer" /\ run.order = o
    /\ \/ moved[o] < MaxMoves /\ moved' = [moved EXCEPT ![o] = @ + 1]
       \/ UNCHANGED moved
    /\ run' = [run EXCEPT !.pc = "save"]
    /\ UNCHANGED <<ordering, payment, charge, hooking, checking, paidOut>>

\* transfers.create at the gateway; if it fails the payment waits for the next
\* run.
MakeTransfer(o) ==
    /\ run.pc = "transfer" /\ run.order = o
    /\ \/ /\ moved[o] < MaxMoves
          /\ moved' = [moved EXCEPT ![o] = @ + 1]
          /\ run' = [run EXCEPT !.pc = "save"]
       \/ NextPayout(o) /\ UNCHANGED moved
    /\ UNCHANGED <<ordering, payment, charge, hooking, checking, paidOut>>

SaveTransfer(o) ==
    /\ run.pc = "save" /\ run.order = o
    /\ payment' = [payment EXCEPT ![o].payout = "transferred", ![o].tid = TRUE]
    /\ paidOut' = paidOut \cup {o}
    /\ NextPayout(o)
    /\ UNCHANGED <<ordering, charge, hooking, checking, moved>>

PayoutFails(o) ==
    /\ "database" \in Ops /\ run.pc \in {"block", "save"} /\ run.order = o
    /\ NextPayout(o)
    /\ UNCHANGED <<ordering, payment, charge, hooking, checking, paidOut, moved>>

PayoutStep(o) ==
    \/ CheckPayout(o) \/ BlockPayout(o) \/ MakeTransfer(o) \/ SaveTransfer(o)
    \/ PayoutFails(o)

-----------------------------------------------------------------------------
\* The process restarts: calls in progress and the idempotency sets are gone.
Crash ==
    /\ "crash" \in Ops
    /\ request' = [o \in Orders |-> IF request[o].pc \in {"host", "route", "store"}
                                    THEN [request[o] EXCEPT !.pc = "refused"]
                                    ELSE request[o]]
    /\ hook' = [h \in Hooks |-> IdleHook]
    /\ check' = [v \in Checkers |-> IdleCall]
    /\ worker' = NoEvent
    /\ run' = IdleRun
    /\ verified' = {} /\ paidOut' = {}
    /\ UNCHANGED <<account, payment, charge, acked, processed, job, moved>>

HostNext == "kyc" \in Ops /\ (CreateAccount \/ CheckKycStatus \/ UpsertHostAccount)

GatewayNext ==
    \E o \in Orders, a \in Attempts :
        PayAttempt(o, a) \/ ("refund" \in Ops /\ RefundAttempt(o, a))

HookNext ==
    \E h \in Hooks : \/ HookStep(h) \/ HookFails(h)
                     \/ \E e \in Event : Deliver(h, e)

WorkerNext ==
    /\ "retry" \in Ops
    /\ \/ FinishJob \/ JobFails
       \/ \E e \in Event : TakeJob(e)

CheckNext ==
    /\ "verify" \in Ops
    /\ \E v \in Checkers : \/ SaveVerified(v) \/ SaveVerifiedFails(v)
                           \/ \E o \in Orders, a \in Attempts :
                                  BeginVerify(v, o, a)

PayoutNext ==
    /\ "payout" \in Ops
    /\ \/ FindPayouts
       \/ \E o \in Orders : PayoutStep(o)

ForgetNext == \E o \in Orders : Forget(o)

Next ==
    \/ \E o \in Orders : CreateQuizOrder(o)
    \/ HostNext \/ GatewayNext \/ HookNext \/ WorkerNext \/ CheckNext
    \/ PayoutNext \/ ForgetNext \/ Crash

Spec == Init /\ [][Next]_vars

DeliverNew(h, e) == e \notin acked /\ Deliver(h, e)

\* The gateway delivers what it has not delivered yet, and a handler that has
\* begun goes on.  The number of handlers at work is a bound of the model, so
\* a delivery that finds a free slot again and again is made: SF.
FairSpec ==
    /\ Spec
    /\ \A h \in Hooks : WF_vars(HookStep(h))
    /\ SF_vars(\E h \in Hooks, e \in Event : DeliverNew(h, e))

-----------------------------------------------------------------------------
(***************************************************************************)
(* Properties                                                              *)
(***************************************************************************)

\* Whoever wrote it last, a payment is completed only if the attempt it names
\* was captured at the gateway, and refunded only if that was refunded.
CompletedIsPaid ==
    \A o \in Orders :
        LET p == payment[o] IN
        /\ p.status = "completed" => /\ p.pid \in Attempts
                                     /\ charge[o][p.pid] \in {"captured", "refunded"}
        /\ p.status = "refunded"  => /\ p.pid \in Attempts
                                     /\ charge[o][p.pid] = "refunded"

\* A capture that is logged as processed is on record for as long as the money
\* has not been returned: no other event, late or repeated, undoes it.
ProcessedCaptureStands ==
    \A e \in processed : e.kind = "captured" =>
        \/ payment[e.order].status = "completed"
        \/ charge[e.order][e.attempt] = "refunded"

\* A payout is recorded as transferred only if the payout job has made it.
TransferredIsMoved ==
    \A o \in Orders : payment[o].payout = "transferred" => moved[o] > 0

\* What the buyers see implements the promise.
Promise == INSTANCE PaymentPromise WITH
    access <- [o \in Orders |-> payment[o].status = "completed"],
    money  <- [o \in Orders |->
                  IF \E a \in Attempts : charge[o][a] = "captured" THEN "paid"
                  ELSE IF Captured(o) THEN "returned" ELSE "none"]
PromiseKept == Promise!Spec

\* e was acknowledged, nothing handles it and nothing says it was done.
Lost(e) == /\ e \in acked \ processed
           /\ \A h \in Hooks : hook[h].event # e

\* Every captured payment gets on record, unless its event was lost on the way.
CaptureRecorded ==
    \A o \in Orders, a \in Attempts :
        charge[o][a] = "captured" ~>
            \/ payment[o].status \in {"completed", "refunded"}
            \/ Lost([kind |-> "captured", order |-> o, attempt |-> a])

\* The host is paid once for an order: by the transfer the order carries, or by
\* the payout job.
HostPaidOnce ==
    \A o \in Orders :
        (IF payment[o].mode = "route" /\ Captured(o) THEN 1 ELSE 0) + moved[o] <= 1

=============================================================================
