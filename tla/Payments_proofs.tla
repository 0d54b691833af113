-------------------------- MODULE Payments_proofs --------------------------
(***************************************************************************)
(* Theorems about Payments, for every set of orders, attempts, deliveries  *)
(* and calls.  The properties are kept by one inductive invariant, Inv.    *)
(***************************************************************************)
EXTENDS Payments, TLAPS

Paid(o, a) == charge[o][a] \in {"captured", "refunded"}

\* A document is stored by the request that asked for it, and only an order
\* that is stored has a life at the gateway, where one attempt at most pays.
OrderSound(o) ==
    /\ request[o].pc # "done" => payment[o] = NoPayment
    /\ ~Stored(o) => moved[o] = 0 /\ \A a \in Attempts : charge[o][a] = "none"
    /\ payment[o].tid => moved[o] > 0
    /\ \A a, b \in Attempts : Paid(o, a) /\ Paid(o, b) => a = b

OrdersSound == \A o \in Orders : OrderSound(o)

Stands(e) == \/ payment[e.order].status = "completed"
             \/ charge[e.order][e.attempt] = "refunded"

\* A handler works on an event that occurred; past the update of a capture the
\* capture stands, and the payout it may still save is one the gateway backs.
HookSound(h) ==
    LET e == hook[h].event IN
    hook[h].pc # "idle" =>
        /\ e \in Event /\ Occurred(e)
        /\ hook[h].pc = "payout" => e.kind = "captured"
        /\ hook[h].payout = "transferred" => moved[e.order] > 0
        /\ hook[h].pc \in {"payout", "mark"} /\ e.kind = "captured" => Stands(e)

HooksSound == \A h \in Hooks : HookSound(h)

\* A verification has a signature for an attempt that paid.
ChecksSound ==
    \A v \in Checkers : check[v].pc = "fetch" =>
        /\ check[v].order \in Orders /\ check[v].attempt \in Attempts
        /\ Paid(check[v].order, check[v].attempt)

\* The payout job works on stored payments and saves transfers it has made.
RunSound ==
    /\ \A o \in run.batch : Stored(o)
    /\ run.pc \in {"block", "transfer", "save"} =>
           run.order \in Orders /\ Stored(run.order)
    /\ run.pc = "save" => moved[run.order] > 0

EventSound(e) == Occurred(e) /\ (e.kind = "captured" => Stands(e))

ProcessedSound == \A e \in processed : EventSound(e)

\* The status and the payout of a document are backed by the gateway.
Backed(o) ==
    LET p == payment[o] IN
    /\ p.status = "completed" => p.pid \in Attempts /\ Paid(o, p.pid)
    /\ p.status = "refunded"  => /\ p.pid \in Attempts
                                 /\ charge[o][p.pid] = "refunded"
    /\ p.payout = "transferred" => moved[o] > 0

PaymentsBacked == \A o \in Orders : Backed(o)

Inv == /\ TypeOK /\ OrdersSound /\ PaymentsBacked /\ HooksSound /\ ChecksSound
       /\ RunSound /\ ProcessedSound

-----------------------------------------------------------------------------
(***************************************************************************)
(* What the assignments of the handlers do to the types.  The sets of      *)
(* events are never looked into here.                                      *)
(***************************************************************************)
LEMMA Values ==
  /\ IdleHook \in Delivery /\ IdleCall \in Call /\ IdleRun \in Run
  /\ NoJob \in Job /\ NoPayment \notin Payment
  BY DEF IdleHook, Delivery, HookPc, IdleCall, Call, IdleRun, Run, NoJob, Job,
         NoPayment, Payment, Payouts

LEMMA GoKeeps ==
  ASSUME hook \in [Hooks -> Delivery], NEW h \in Hooks, NEW pc \in HookPc, Go(h, pc)
  PROVE  /\ hook' \in [Hooks -> Delivery]
         /\ hook'[h].pc = pc /\ hook'[h].event = hook[h].event
         /\ hook'[h].payout = hook[h].payout
         /\ \A g \in Hooks \ {h} : hook'[g] = hook[g]
  BY DEF Go, Delivery

LEMMA HookDoneKeeps ==
  ASSUME hook \in [Hooks -> Delivery], NEW h \in Hooks, HookDone(h)
  PROVE  /\ hook' \in [Hooks -> Delivery]
         /\ hook'[h] = IdleHook
         /\ \A g \in Hooks \ {h} : hook'[g] = hook[g]
  BY Values DEF HookDone

LEMMA WritePayment ==
  ASSUME payment \in [Orders -> Payment \cup {NoPayment}], NEW o \in Orders,
         NEW p \in Payment, payment' = [payment EXCEPT ![o] = p]
  PROVE  /\ payment' \in [Orders -> Payment \cup {NoPayment}]
         /\ payment'[o] = p
         /\ \A q \in Orders \ {o} : payment'[q] = payment[q]
  OBVIOUS

\* A document that is stored has the fields of one.
LEMMA StoredIsPayment ==
  ASSUME TypeOK, NEW o \in Orders, Stored(o)
  PROVE  payment[o] \in Payment
  BY DEF TypeOK, Stored, NoPayment

LEMMA EventFields ==
  ASSUME NEW e \in Event
  PROVE  /\ e.order \in Orders
         /\ e.kind \in {"captured", "failed", "refunded", "transferred",
                        "notTransferred"}
         /\ e.kind \in {"captured", "failed", "refunded"} => e.attempt \in Attempts
         /\ e # NoEvent
  BY DEF Event, NoEvent

\* What the handlers write is a payment, if the document is one.
LEMMA PaymentFields ==
  ASSUME NEW p \in Payment
  PROVE  /\ \A s \in {"created", "completed", "failed", "refunded"},
               x \in Attempts \cup {None} : [p EXCEPT !.status = s, !.pid = x] \in Payment
         /\ \A x \in Payouts : [p EXCEPT !.payout = x] \in Payment
         /\ \A x \in Attempts : [p EXCEPT !.status = "failed", !.pid = x,
                                         !.payout = "failed"] \in Payment
         /\ [p EXCEPT !.status = "refunded", !.payout = "reversed"] \in Payment
         /\ \A x \in Payouts : [p EXCEPT !.payout = x, !.tid = TRUE] \in Payment
         /\ \A x \in Payouts : [p EXCEPT !.tid = TRUE, !.payout = x] \in Payment
  BY DEF Payment, Payouts

-----------------------------------------------------------------------------
(***************************************************************************)
(* What the rest of the invariant needs of a step: that the gateway only   *)
(* goes forward, and that no write undoes a capture.                       *)
(***************************************************************************)
Forward ==
    /\ \A o \in Orders : moved[o] > 0 => moved'[o] > 0
    /\ \A o \in Orders, a \in Attempts :
           /\ charge[o][a] = "failed" => charge'[o][a] = "failed"
           /\ charge[o][a] = "refunded" => charge'[o][a] = "refunded"
           /\ Paid(o, a) => charge'[o][a] \in {"captured", "refunded"}

Upheld ==
    /\ \A o \in Orders : Stored(o) => payment'[o].status # "none"
    /\ \A e \in Event : e.kind = "captured" /\ Occurred(e) /\ Stands(e) => Stands(e)'

LEMMA OccurredStays ==
  ASSUME Forward, NEW e \in Event, Occurred(e)
  PROVE  Occurred(e)'
<1>1. /\ e.order \in Orders
      /\ e.kind \in {"captured", "failed", "refunded"} => e.attempt \in Attempts
  BY EventFields
<1> QED BY <1>1, EventFields DEF Forward, Occurred, Paid

\* A step that leaves the deliveries alone, all but one of them.
LEMMA HooksFollow ==
  ASSUME HooksSound, Forward, Upheld, NEW h \in Hooks, HookSound(h)',
         \A g \in Hooks \ {h} : hook'[g] = hook[g]
  PROVE  HooksSound'
<1> SUFFICES ASSUME NEW g \in Hooks \ {h} PROVE HookSound(g)'
  BY DEF HooksSound
<1> DEFINE e == hook[g].event
<1>1. hook'[g] = hook[g] /\ HookSound(g)
  BY DEF HooksSound
<1>2. CASE hook[g].pc = "idle"
  BY <1>1, <1>2 DEF HookSound
<1>3. CASE hook[g].pc # "idle"
  <2>1. e \in Event /\ Occurred(e) /\ e.order \in Orders
    BY <1>1, <1>3, EventFields DEF HookSound
  <2>2. Occurred(e)'
    BY <2>1, <1>1, OccurredStays
  <2>3. hook[g].payout = "transferred" => moved'[e.order] > 0
    BY <2>1, <1>1, <1>3 DEF HookSound, Forward
  <2>4. hook[g].pc \in {"payout", "mark"} /\ e.kind = "captured" => Stands(e)'
    BY <2>1, <1>1, <1>3 DEF HookSound, Upheld, Stands
  <2> QED BY <1>1, <1>3, <2>1, <2>2, <2>3, <2>4 DEF HookSound, Stands, Occurred
<1> QED BY <1>2, <1>3

LEMMA HooksStay ==
  ASSUME HooksSound, Forward, Upheld, UNCHANGED hook
  PROVE  HooksSound'
<1> SUFFICES ASSUME NEW h \in Hooks PROVE HookSound(h)'
  BY DEF HooksSound
<1>1. HookSound(h)
  BY DEF HooksSound
<1>2. CASE hook[h].pc = "idle"
  BY <1>2 DEF HookSound
<1>3. CASE hook[h].pc # "idle"
  <2> DEFINE e == hook[h].event
  <2>1. e \in Event /\ Occurred(e) /\ e.order \in Orders
    BY <1>1, <1>3, EventFields DEF HookSound
  <2>2. Occurred(e)'
    BY <2>1, OccurredStays
  <2> QED BY <1>1, <1>3, <2>1, <2>2 DEF HookSound, Forward, Upheld, Stands, Occurred
<1> QED BY <1>2, <1>3

LEMMA EventSoundStays ==
  ASSUME Forward, Upheld, NEW e \in Event, EventSound(e)
  PROVE  EventSound(e)'
<1>1. Occurred(e)'
  BY OccurredStays DEF EventSound
<1> QED BY <1>1 DEF EventSound, Upheld

\* A step at which neither the gateway nor a document changes.
LEMMA NothingMoves ==
  ASSUME UNCHANGED <<payment, charge, moved>>
  PROVE  Forward /\ Upheld /\ (PaymentsBacked => PaymentsBacked')
         /\ (OrdersSound /\ UNCHANGED request => OrdersSound')
  BY DEF Forward, Upheld, Stands, Stored, Paid, PaymentsBacked, Backed, OrdersSound,
         OrderSound

\* The document of a stored order is written, and the gateway does nothing.
LEMMA DocumentWritten ==
  ASSUME Inv, NEW o \in Orders, Stored(o), NEW p \in Payment,
         payment' = [payment EXCEPT ![o] = p], UNCHANGED <<request, charge, moved>>,
         p.tid \/ p.payout = "transferred" => moved[o] > 0,
         p.status = "completed" => p.pid \in Attempts /\ Paid(o, p.pid),
         p.status = "refunded" => p.pid \in Attempts /\ charge[o][p.pid] = "refunded",
         payment[o].status = "completed" /\ p.status # "completed" =>
             \A a \in Attempts : charge[o][a] # "captured"
  PROVE  /\ payment' \in [Orders -> Payment \cup {NoPayment}]
         /\ OrdersSound' /\ PaymentsBacked' /\ Forward /\ Upheld
<1>1. /\ payment' \in [Orders -> Payment \cup {NoPayment}]
      /\ payment'[o] = p /\ \A q \in Orders \ {o} : payment'[q] = payment[q]
  BY WritePayment DEF Inv, TypeOK
<1>2. p.status # "none"
  BY DEF Payment
<1>3. OrdersSound'
  <2> SUFFICES ASSUME NEW q \in Orders PROVE OrderSound(q)'
    BY DEF OrdersSound
  <2>1. OrderSound(q) /\ OrderSound(o)
    BY DEF Inv, OrdersSound
  <2>2. CASE q = o
    <3>1. request[o].pc = "done"
      BY <2>1 DEF OrderSound, Stored, NoPayment
    <3> QED BY <1>1, <1>2, <2>1, <2>2, <3>1 DEF OrderSound, Stored, Paid
  <2>3. CASE q # o
    BY <1>1, <2>1, <2>3 DEF OrderSound, Stored, Paid
  <2> QED BY <2>2, <2>3
<1>4. PaymentsBacked'
  BY <1>1 DEF Inv, PaymentsBacked, Backed, Paid
<1>5. Upheld
  <2>1. \A q \in Orders : Stored(q) => payment'[q].status # "none"
    BY <1>1, <1>2 DEF Stored
  <2>2. ASSUME NEW e \in Event, e.kind = "captured", Occurred(e), Stands(e)
        PROVE  Stands(e)'
    <3>1. e.order \in Orders /\ e.attempt \in Attempts
      BY <2>2, EventFields
    <3>2. Paid(e.order, e.attempt)
      BY <2>2 DEF Occurred, Paid
    <3> QED BY <1>1, <2>2, <3>1, <3>2 DEF Stands, Paid
  <2> QED BY <2>1, <2>2 DEF Upheld
<1> QED BY <1>1, <1>3, <1>4, <1>5 DEF Forward, Paid

-----------------------------------------------------------------------------
(***************************************************************************)
(* createQuizOrder, the account of the host, and the gateway               *)
(***************************************************************************)

\* The calls, the run and the deliveries are sound after a step of another.
LEMMA OthersStay ==
  ASSUME Inv, Forward, Upheld
  PROVE  /\ UNCHANGED hook => HooksSound'
         /\ UNCHANGED check => ChecksSound'
         /\ UNCHANGED run => RunSound'
         /\ UNCHANGED processed => ProcessedSound'
<1>1. UNCHANGED hook => HooksSound'
  BY HooksStay DEF Inv
<1>2. UNCHANGED check => ChecksSound'
  BY DEF Inv, ChecksSound, Forward, Paid
<1>3. UNCHANGED run => RunSound'
  BY DEF Inv, TypeOK, Run, RunSound, Forward, Upheld, Stored
<1>4. UNCHANGED processed => ProcessedSound'
  BY EventSoundStays DEF Inv, TypeOK, ProcessedSound
<1> QED BY <1>1, <1>2, <1>3, <1>4

LEMMA RequestInv ==
  ASSUME Inv, NEW o \in Orders, request' \in [Orders -> Request],
         request[o].pc # "done", request'[o].pc # "done",
         \A q \in Orders \ {o} : request'[q] = request[q],
         UNCHANGED <<account, payment, charge, hooking, checking, paying>>
  PROVE  Inv'
<1>1. TypeOK'
  BY DEF Inv, TypeOK, hooking, checking, paying
<1>2. OrdersSound'
  BY DEF Inv, OrdersSound, OrderSound, Stored, Paid, paying
<1>3. Forward /\ Upheld /\ PaymentsBacked'
  BY NothingMoves DEF Inv, paying
<1> QED BY <1>1, <1>2, <1>3, OthersStay DEF Inv, hooking, checking, paying

LEMMA CheckExistingPaymentInv ==
  ASSUME Inv, NEW o \in Orders, CheckExistingPayment(o)
  PROVE  Inv'
<1>1. /\ request' \in [Orders -> Request]
      /\ request[o].pc # "done" /\ request'[o].pc # "done"
      /\ \A q \in Orders \ {o} : request'[q] = request[q]
  BY ZenonT(60) DEF CheckExistingPayment, Inv, TypeOK, Request
<1> QED BY <1>1, RequestInv DEF CheckExistingPayment

LEMMA ReadHostAccountInv ==
  ASSUME Inv, NEW o \in Orders, ReadHostAccount(o)
  PROVE  Inv'
<1>1. /\ request' \in [Orders -> Request]
      /\ request[o].pc # "done" /\ request'[o].pc # "done"
      /\ \A q \in Orders \ {o} : request'[q] = request[q]
  BY DEF ReadHostAccount, DeterminePayout, Inv, TypeOK, Request, Modes
<1> QED BY <1>1, RequestInv DEF ReadHostAccount

LEMMA RouteCreateOrderInv ==
  ASSUME Inv, NEW o \in Orders, RouteCreateOrder(o)
  PROVE  Inv'
<1>1. /\ request' \in [Orders -> Request]
      /\ request[o].pc # "done" /\ request'[o].pc # "done"
      /\ \A q \in Orders \ {o} : request'[q] = request[q]
  BY DEF RouteCreateOrder, Inv, TypeOK, Request
<1> QED BY <1>1, RequestInv DEF RouteCreateOrder

LEMMA StorePaymentInv ==
  ASSUME Inv, NEW o \in Orders, StorePayment(o)
  PROVE  Inv'
<1>1. CASE request' = [request EXCEPT ![o].pc = "refused"] /\ UNCHANGED payment
  <2>1. /\ request' \in [Orders -> Request]
        /\ request[o].pc # "done" /\ request'[o].pc # "done"
        /\ \A q \in Orders \ {o} : request'[q] = request[q]
    BY <1>1 DEF StorePayment, Inv, TypeOK, Request
  <2> QED BY <1>1, <2>1, RequestInv DEF StorePayment
<1>2. CASE /\ payment' = [payment EXCEPT ![o] =
                 [status |-> "created", pid |-> None, mode |-> request[o].mode,
                  payout |-> request[o].payout, tid |-> FALSE]]
           /\ request' = [request EXCEPT ![o].pc = "done"]
  <2> DEFINE p == [status |-> "created", pid |-> None, mode |-> request[o].mode,
                   payout |-> request[o].payout, tid |-> FALSE]
  <2>1. request[o] \in Request /\ request[o].pc = "store"
    BY DEF StorePayment, Inv, TypeOK
  <2>2. p \in Payment /\ p.payout # "transferred"
    BY <2>1 DEF Request, Payment, Payouts
  <2>3. payment[o] = NoPayment /\ ~Stored(o)
    <3>1. payment[o] = NoPayment
      BY <2>1 DEF Inv, OrdersSound, OrderSound
    <3> QED BY <3>1 DEF Stored, NoPayment
  <2>4. /\ request' \in [Orders -> Request] /\ request'[o].pc = "done"
        /\ \A q \in Orders \ {o} : request'[q] = request[q]
    BY <1>2 DEF Inv, TypeOK, Request
  <2>5. payment' = [payment EXCEPT ![o] = p]
    BY <1>2
  <2>6. p.status = "created" /\ p.tid = FALSE
    OBVIOUS
  <2> HIDE DEF p
  <2>7. /\ payment' \in [Orders -> Payment \cup {NoPayment}] /\ payment'[o] = p
        /\ \A q \in Orders \ {o} : payment'[q] = payment[q]
    BY <2>2, <2>5, WritePayment DEF Inv, TypeOK
  <2>8. UNCHANGED <<account, charge, hooking, checking, paying>>
    BY DEF StorePayment
  <2>9. TypeOK'
    BY <2>4, <2>7, <2>8 DEF Inv, TypeOK, hooking, checking, paying
  <2>10. OrdersSound'
    BY <2>3, <2>4, <2>6, <2>7, <2>8 DEF Inv, OrdersSound, OrderSound, Stored, Paid, paying
  <2>11. PaymentsBacked'
    BY <2>2, <2>6, <2>7, <2>8 DEF Inv, PaymentsBacked, Backed, Paid, paying
  <2>12. Forward
    BY <2>8 DEF Forward, Paid, paying
  <2>13. \A q \in Orders : Stored(q) => payment'[q].status # "none"
    BY <2>3, <2>7 DEF Stored
  <2>14. \A q \in Orders :
            payment[q].status = "completed" => payment'[q].status = "completed"
    BY <2>3, <2>7 DEF Stored, NoPayment
  <2>15. Upheld
    BY <2>8, <2>13, <2>14, EventFields DEF Upheld, Stands
  <2> QED BY <2>8, <2>9, <2>10, <2>11, <2>12, <2>15, OthersStay
          DEF Inv, hooking, checking, paying
<1> QED BY <1>1, <1>2 DEF StorePayment

LEMMA HostInv ==
  ASSUME Inv, HostNext
  PROVE  Inv'
<1>1. account' \in Account
  BY DEF HostNext, CreateAccount, CheckKycStatus, UpsertHostAccount, Inv, TypeOK,
         Account
<1>2. UNCHANGED <<request, payment, charge, hooking, checking, paying>>
  BY DEF HostNext, CreateAccount, CheckKycStatus, UpsertHostAccount
<1>3. TypeOK'
  BY <1>1, <1>2 DEF Inv, TypeOK, hooking, checking, paying
<1> QED BY <1>2, <1>3, NothingMoves, OthersStay DEF Inv, hooking, checking, paying

\* An attempt ends at the gateway.
LEMMA SettleInv ==
  ASSUME Inv, NEW o \in Orders, NEW a \in Attempts,
         NEW how \in {"failed", "captured", "refunded"}, Settle(o, a, how),
         Stored(o),
         \/ charge[o][a] = "none" /\ (how = "failed" \/ (how = "captured" /\ ~Captured(o)))
         \/ charge[o][a] = "captured" /\ how = "refunded"
  PROVE  Inv'
<1>1. UNCHANGED <<ordering, payment, hooking, checking, paying>>
  BY DEF Settle
<1>2. /\ charge' \in [Orders -> [Attempts ->
                          {"none", "failed", "captured", "refunded"}]]
      /\ charge'[o][a] = how
      /\ \A q \in Orders, b \in Attempts :
             q # o \/ b # a => charge'[q][b] = charge[q][b]
  BY DEF Settle, Inv, TypeOK
<1>3. TypeOK'
  BY <1>1, <1>2 DEF Inv, TypeOK, ordering, hooking, checking, paying
<1>4. Forward
  BY <1>1, <1>2 DEF Forward, Paid, paying
<1>5. OrdersSound'
  BY <1>1, <1>2 DEF Inv, OrdersSound, OrderSound, Stored, Paid, Captured, ordering,
                    paying
<1>6. PaymentsBacked'
  BY <1>1, <1>2 DEF Inv, PaymentsBacked, Backed, Paid, paying
<1>7. Upheld
  BY <1>1, <1>4, EventFields DEF Upheld, Stands, Stored, Forward
<1> QED BY <1>1, <1>3, <1>4, <1>5, <1>6, <1>7, OthersStay
        DEF Inv, ordering, hooking, checking, paying

LEMMA GatewayInv ==
  ASSUME Inv, GatewayNext
  PROVE  Inv'
<1>1. ASSUME NEW o \in Orders, NEW a \in Attempts, PayAttempt(o, a) PROVE Inv'
  BY <1>1, SettleInv DEF PayAttempt
<1>2. ASSUME NEW o \in Orders, NEW a \in Attempts, RefundAttempt(o, a) PROVE Inv'
  <2>1. Stored(o)
    BY <1>2 DEF RefundAttempt, Inv, OrdersSound, OrderSound
  <2> QED BY <1>2, <2>1, SettleInv DEF RefundAttempt
<1> QED BY <1>1, <1>2 DEF GatewayNext

-----------------------------------------------------------------------------
(***************************************************************************)
(* Webhooks                                                                *)
(***************************************************************************)

\* A handler moves on and writes no document: what is left to show is that the
\* event it goes on with is sound, and the events logged as processed are.
LEMMA HookMoves ==
  ASSUME Inv, NEW h \in Hooks, hook' \in [Hooks -> Delivery], acked' \subseteq Event,
         \A g \in Hooks \ {h} : hook'[g] = hook[g], HookSound(h)',
         processed' \subseteq Event, ProcessedSound',
         job' \in [Event -> Job], worker' \in Event \cup {NoEvent},
         UNCHANGED <<ordering, payment, charge, checking, paying>>
  PROVE  Inv'
<1>1. TypeOK'
  BY DEF Inv, TypeOK, ordering, checking, paying
<1>2. Forward /\ Upheld /\ OrdersSound' /\ PaymentsBacked'
  BY NothingMoves DEF Inv, ordering, paying
<1>3. HooksSound'
  BY <1>2, HooksFollow DEF Inv
<1> QED BY <1>1, <1>2, <1>3, OthersStay DEF Inv, checking, paying

\* The events that were sound are sound after a step that writes no document.
LEMMA EventsSame ==
  ASSUME UNCHANGED <<payment, charge, moved>>
  PROVE  \A e : EventSound(e)' <=> EventSound(e)
  BY DEF EventSound, Occurred, Stands

LEMMA DeliverInv ==
  ASSUME Inv, NEW h \in Hooks, NEW e \in Event, Deliver(h, e)
  PROVE  Inv'
<1>1. /\ hook' \in [Hooks -> Delivery]
      /\ hook'[h].pc = "check" /\ hook'[h].event = e
      /\ hook'[h].payout = "not_applicable"
      /\ \A g \in Hooks \ {h} : hook'[g] = hook[g]
  BY DEF Deliver, IdleHook, Delivery, HookPc, Payouts, Inv, TypeOK
<1>2. UNCHANGED <<ordering, payment, charge, processed, job, worker, checking, paying>>
  BY DEF Deliver
<1>3. HookSound(h)'
  BY <1>1, <1>2 DEF Deliver, HookSound, Occurred, paying
<1>4. ProcessedSound'
  BY <1>2, EventsSame DEF Inv, ProcessedSound, paying
<1>5. acked' \subseteq Event
  BY DEF Deliver, Inv, TypeOK
<1> QED BY <1>1, <1>2, <1>3, <1>4, <1>5, HookMoves DEF Inv, TypeOK

\* An idle handler, and one that reports a failure, has nothing to keep.
LEMMA HookEnds ==
  ASSUME Inv, NEW h \in Hooks, hook' \in [Hooks -> Delivery],
         \A g \in Hooks \ {h} : hook'[g] = hook[g],
         \/ hook'[h].pc = "idle"
         \/ /\ hook[h].pc # "idle" /\ hook'[h].pc \notin {"payout", "mark"}
            /\ hook'[h].event = hook[h].event /\ hook'[h].payout = hook[h].payout,
         processed' \subseteq processed, acked' = acked,
         job' \in [Event -> Job], worker' \in Event \cup {NoEvent},
         UNCHANGED <<ordering, payment, charge, checking, paying>>
  PROVE  Inv'
<1>1. HookSound(h)'
  BY DEF Inv, HooksSound, HookSound, Occurred, paying
<1>2. ProcessedSound'
  BY EventsSame DEF Inv, ProcessedSound, paying
<1> QED BY <1>1, <1>2, HookMoves DEF Inv, TypeOK

LEMMA CheckLogInv ==
  ASSUME Inv, NEW h \in Hooks, CheckLog(h)
  PROVE  Inv'
<1>1. CASE HookDone(h)
  BY <1>1, HookDoneKeeps, HookEnds, SMTT(30) DEF CheckLog, IdleHook, Inv, TypeOK
<1>2. CASE Go(h, "handle")
  <2>1. "handle" \in HookPc
    BY DEF HookPc
  <2> QED BY <1>2, <2>1, GoKeeps, HookEnds DEF CheckLog, HookAt, Inv, TypeOK
<1> QED BY <1>1, <1>2 DEF CheckLog

\* A handler that has dealt with its event goes on to mark it, or to save the
\* payout of a capture, with a document that is backed.
LEMMA HookWrites ==
  ASSUME Inv, NEW h \in Hooks, hook[h].pc # "idle", hook' \in [Hooks -> Delivery],
         \A g \in Hooks \ {h} : hook'[g] = hook[g],
         hook'[h].event = hook[h].event,
         hook'[h].pc = "payout" => hook[h].event.kind = "captured",
         hook'[h].payout = "transferred" =>
             \/ hook[h].payout = "transferred"
             \/ moved[hook[h].event.order] > 0,
         hook[h].event.kind = "captured" =>
             \/ payment'[hook[h].event.order].status = "completed"
             \/ charge[hook[h].event.order][hook[h].event.attempt] = "refunded",
         payment' \in [Orders -> Payment \cup {NoPayment}],
         OrdersSound', PaymentsBacked', Forward, Upheld,
         UNCHANGED <<ordering, charge, acked, processed, job, worker, checking, paying>>
  PROVE  Inv'
<1> DEFINE e == hook[h].event
<1>1. e \in Event /\ Occurred(e)
  BY DEF Inv, HooksSound, HookSound
<1>2. Occurred(e)'
  BY DEF Inv, HooksSound, HookSound, Occurred, paying
<1>3. HookSound(h)'
  BY <1>1, <1>2 DEF Inv, HooksSound, HookSound, Occurred, Stands, paying
<1>4. HooksSound'
  BY <1>3, HooksFollow DEF Inv
<1>5. TypeOK'
  BY DEF Inv, TypeOK, ordering, checking, paying
<1> QED BY <1>4, <1>5, OthersStay DEF Inv, checking, paying

\* An event is about an order that is stored.
LEMMA EventStored ==
  ASSUME Inv, NEW e \in Event, Occurred(e)
  PROVE  Stored(e.order)
<1>1. OrderSound(e.order)
  BY EventFields DEF Inv, OrdersSound
<1> QED BY <1>1, EventFields DEF OrderSound, Occurred, Inv, TypeOK

LEMMA CapturedInv ==
  ASSUME Inv, NEW h \in Hooks, HandleEvent(h), hook[h].event.kind = "captured"
  PROVE  Inv'
<1> DEFINE e == hook[h].event
           o == e.order
           a == e.attempt
<1>1. /\ e \in Event /\ o \in Orders /\ a \in Attempts /\ Occurred(e)
      /\ e.kind = "captured" /\ hook[h].pc = "handle"
  BY EventFields DEF HandleEvent, HookAt, Inv, HooksSound, HookSound
<1>2. ReconcileCapturedPayment(h, o, a)
  BY DEF HandleEvent
<1>3. UNCHANGED <<ordering, charge, acked, processed, job, worker, checking, paying>>
  BY DEF HandleEvent
<1>4. "mark" \in HookPc /\ "payout" \in HookPc
  BY DEF HookPc
<1>5. Stored(o) /\ payment[o] \in Payment
  BY <1>1, EventStored, StoredIsPayment DEF Inv
<1> HIDE DEF e, o, a
<1>6. CASE payment[o].status = "completed"
  <2>1. Go(h, "mark") /\ UNCHANGED payment
    BY <1>2, <1>6 DEF ReconcileCapturedPayment
  <2>2. OrdersSound' /\ PaymentsBacked' /\ Forward /\ Upheld
    BY <1>3, <2>1, NothingMoves DEF Inv, ordering, paying
  <2>3. payment'[o].status = "completed"
    BY <2>1, <1>6
  <2>4. payment' \in [Orders -> Payment \cup {NoPayment}]
    BY <2>1 DEF Inv, TypeOK
  <2> QED BY <1>1, <1>3, <1>4, <2>1, <2>2, <2>3, <2>4, GoKeeps, HookWrites
          DEF Inv, TypeOK, e, o
<1>7. CASE payment[o].status # "completed"
  <2> DEFINE p == [payment[o] EXCEPT !.status = "completed", !.pid = a]
  <2>1. payment' = [payment EXCEPT ![o] = p]
    BY <1>1, <1>2, <1>5, <1>7 DEF ReconcileCapturedPayment, Inv, TypeOK
  <2>2. p \in Payment
    BY <1>1, <1>5, PaymentFields
  <2>3. /\ p.status = "completed" /\ p.pid = a /\ p.tid = payment[o].tid
        /\ p.payout = payment[o].payout
    BY <1>5 DEF Payment
  <2>4. Paid(o, a)
    BY <1>1 DEF Occurred, Paid, o, a
  <2>5. p.tid \/ p.payout = "transferred" => moved[o] > 0
    BY <1>1, <2>3 DEF Inv, OrdersSound, OrderSound, PaymentsBacked, Backed
  <2> HIDE DEF p
  <2>6. /\ payment' \in [Orders -> Payment \cup {NoPayment}]
        /\ OrdersSound' /\ PaymentsBacked' /\ Forward /\ Upheld
    BY <1>1, <1>3, <1>5, <2>1, <2>2, <2>3, <2>4, <2>5, DocumentWritten
       DEF ordering, paying
  <2>7. payment'[o].status = "completed"
    BY <1>1, <2>1, <2>3 DEF Inv, TypeOK
  <2>8. CASE Go(h, "mark")
    BY <1>1, <1>3, <1>4, <2>6, <2>7, <2>8, GoKeeps, HookWrites
       DEF Inv, TypeOK, e, o
  <2>9. CASE hook' = [hook EXCEPT ![h].pc = "payout", ![h].payout = RoutedPayout(o)]
    <3>1. RoutedPayout(o) \in Payouts
      BY DEF RoutedPayout, Payouts
    <3>2. RoutedPayout(o) = "transferred" => moved[o] > 0
      BY <1>1 DEF RoutedPayout, Inv, OrdersSound, OrderSound
    <3>3. hook \in [Hooks -> Delivery]
      BY DEF Inv, TypeOK
    <3>4. /\ hook' \in [Hooks -> Delivery] /\ hook'[h].event = hook[h].event
          /\ hook'[h].payout = RoutedPayout(o)
          /\ \A g \in Hooks \ {h} : hook'[g] = hook[g]
      BY <1>4, <2>9, <3>1, <3>3 DEF Delivery
    <3> QED BY <1>1, <1>3, <2>6, <2>7, <3>2, <3>4, HookWrites DEF e, o
  <2> QED BY <1>2, <1>7, <2>8, <2>9 DEF ReconcileCapturedPayment
<1> QED BY <1>6, <1>7

\* The other handlers write a document and go on to mark the event.
LEMMA OtherEventInv ==
  ASSUME Inv, NEW h \in Hooks, HandleEvent(h), hook[h].event.kind # "captured"
  PROVE  Inv'
<1> DEFINE e == hook[h].event
           o == e.order
<1>1. /\ e \in Event /\ o \in Orders /\ Occurred(e) /\ hook[h].pc = "handle"
      /\ e.kind \in {"failed", "refunded", "transferred", "notTransferred"}
      /\ e.kind \in {"failed", "refunded"} => e.attempt \in Attempts
  BY EventFields DEF HandleEvent, HookAt, Inv, HooksSound, HookSound
<1>2. UNCHANGED <<ordering, charge, acked, processed, job, worker, checking, paying>>
  BY DEF HandleEvent
<1>3. Go(h, "mark") /\ "mark" \in HookPc
  BY <1>1 DEF HandleEvent, HandlePaymentFailed, HandlePaymentRefunded,
              HandleTransferUpdate, HookPc
<1>4. Stored(o) /\ payment[o] \in Payment /\ payment \in [Orders -> Payment \cup {NoPayment}]
  BY <1>1, EventStored, StoredIsPayment DEF Inv, TypeOK
<1>5. OrderSound(o) /\ Backed(o)
  BY <1>1 DEF Inv, OrdersSound, PaymentsBacked
<1>6. SUFFICES /\ payment' \in [Orders -> Payment \cup {NoPayment}]
               /\ OrdersSound' /\ PaymentsBacked' /\ Forward /\ Upheld
  <2>1. e.kind # "captured"
    OBVIOUS
  <2> QED BY <1>1, <1>2, <1>3, <1>6, <2>1, GoKeeps, HookWrites DEF Inv, TypeOK
<1>7. CASE UNCHANGED payment
  BY <1>2, <1>4, <1>7, NothingMoves DEF Inv, ordering, paying
<1>8. CASE e.kind = "failed" /\ payment' # payment
  <2> DEFINE p == [payment[o] EXCEPT !.status = "failed", !.pid = e.attempt,
                                     !.payout = "failed"]
  <2>1. payment' = [payment EXCEPT ![o] = p] /\ payment[o].status # "completed"
    BY <1>1, <1>4, <1>8 DEF HandleEvent, HandlePaymentFailed
  <2>2. p \in Payment
    BY <1>1, <1>4, <1>8, PaymentFields
  <2>3. p.status = "failed" /\ p.payout = "failed" /\ p.tid = payment[o].tid
    BY <1>4 DEF Payment
  <2>4. p.tid => moved[o] > 0
    BY <1>5, <2>3 DEF OrderSound
  <2> HIDE DEF p
  <2> QED BY <1>1, <1>2, <1>4, <2>1, <2>2, <2>3, <2>4, DocumentWritten
          DEF ordering, paying
<1>9. CASE e.kind = "refunded" /\ payment' # payment
  <2> DEFINE p == [payment[o] EXCEPT !.status = "refunded", !.payout = "reversed"]
  <2>1. payment' = [payment EXCEPT ![o] = p] /\ payment[o].pid = e.attempt
    BY <1>1, <1>4, <1>9 DEF HandleEvent, HandlePaymentRefunded
  <2>2. p \in Payment
    BY <1>4, PaymentFields
  <2>3. /\ p.status = "refunded" /\ p.payout = "reversed" /\ p.tid = payment[o].tid
        /\ p.pid = payment[o].pid
    BY <1>4 DEF Payment
  <2>4. p.tid => moved[o] > 0
    BY <1>5, <2>3 DEF OrderSound
  <2>5. charge[o][e.attempt] = "refunded"
    BY <1>1, <1>9 DEF Occurred
  <2>6. \A b \in Attempts : charge[o][b] # "captured"
    BY <1>1, <1>5, <1>9, <2>5 DEF OrderSound, Paid
  <2>7. p.pid \in Attempts /\ charge[o][p.pid] = "refunded"
    BY <1>1, <1>9, <2>1, <2>3, <2>5
  <2>8. UNCHANGED <<request, charge, moved>>
    BY <1>2 DEF ordering, paying
  <2> HIDE DEF p, o
  <2> QED BY <1>1, <1>4, <2>1, <2>2, <2>3, <2>4, <2>6, <2>7, <2>8, DocumentWritten
<1>10. CASE e.kind \in {"transferred", "notTransferred"}
  <2> DEFINE p == [payment[o] EXCEPT !.tid = TRUE,
                     !.payout = IF e.kind = "transferred" THEN "transferred" ELSE "failed"]
  <2>1. payment' = [payment EXCEPT ![o] = p]
    BY <1>1, <1>4, <1>10 DEF HandleEvent, HandleTransferUpdate
  <2>2. p \in Payment
    BY <1>4, PaymentFields DEF Payouts
  <2>3. p.status = payment[o].status /\ p.pid = payment[o].pid
    BY <1>4 DEF Payment
  <2>4. moved[o] > 0
    BY <1>1, <1>10 DEF Occurred
  <2> HIDE DEF p
  <2> QED BY <1>1, <1>2, <1>4, <1>5, <2>1, <2>2, <2>3, <2>4, DocumentWritten
          DEF Backed, ordering, paying
<1> QED BY <1>1, <1>7, <1>8, <1>9, <1>10

LEMMA SavePayoutInv ==
  ASSUME Inv, NEW h \in Hooks, SavePayout(h)
  PROVE  Inv'
<1> DEFINE e == hook[h].event
           o == e.order
           p == [payment[o] EXCEPT !.payout = hook[h].payout]
<1>1. /\ e \in Event /\ o \in Orders /\ Occurred(e) /\ hook[h].pc = "payout"
      /\ e.kind = "captured" /\ Stands(e) /\ hook[h].payout \in Payouts
      /\ hook[h].payout = "transferred" => moved[o] > 0
  BY EventFields DEF SavePayout, HookAt, Inv, HooksSound, HookSound, TypeOK, Delivery
<1>2. UNCHANGED <<ordering, charge, acked, processed, job, worker, checking, paying>>
  BY DEF SavePayout
<1>3. Go(h, "mark") /\ "mark" \in HookPc
  BY DEF SavePayout, HookPc
<1>4. Stored(o) /\ payment[o] \in Payment
  BY <1>1, EventStored, StoredIsPayment DEF Inv
<1>5. OrderSound(o) /\ Backed(o)
  BY <1>1 DEF Inv, OrdersSound, PaymentsBacked
<1>6. payment' = [payment EXCEPT ![o] = p]
  BY DEF SavePayout
<1>7. p \in Payment
  BY <1>1, <1>4, PaymentFields
<1>8. /\ p.status = payment[o].status /\ p.pid = payment[o].pid
      /\ p.tid = payment[o].tid /\ p.payout = hook[h].payout
  BY <1>4 DEF Payment
<1>9. p.tid \/ p.payout = "transferred" => moved[o] > 0
  BY <1>1, <1>5, <1>8 DEF OrderSound
<1> HIDE DEF p
<1>10. /\ payment' \in [Orders -> Payment \cup {NoPayment}]
       /\ OrdersSound' /\ PaymentsBacked' /\ Forward /\ Upheld
  BY <1>1, <1>2, <1>4, <1>5, <1>6, <1>7, <1>8, <1>9, DocumentWritten
     DEF Backed, ordering, paying
<1>11. payment'[o].status = "completed" \/ charge[o][e.attempt] = "refunded"
  BY <1>1, <1>2, <1>10 DEF Upheld, Stands
<1> QED BY <1>1, <1>2, <1>3, <1>10, <1>11, GoKeeps, HookWrites DEF Inv, TypeOK

LEMMA MarkProcessedInv ==
  ASSUME Inv, NEW h \in Hooks, MarkProcessed(h)
  PROVE  Inv'
<1>1. hook[h].event \in Event /\ EventSound(hook[h].event)
  BY DEF MarkProcessed, HookAt, Inv, HooksSound, HookSound, EventSound
<1>2. ProcessedSound'
  BY <1>1, EventsSame DEF MarkProcessed, Inv, ProcessedSound, paying
<1>3. /\ hook' \in [Hooks -> Delivery] /\ hook'[h] = IdleHook
      /\ \A g \in Hooks \ {h} : hook'[g] = hook[g]
  BY HookDoneKeeps DEF MarkProcessed, Inv, TypeOK
<1>4. HookSound(h)'
  BY <1>3 DEF HookSound, IdleHook
<1>5. processed' \subseteq Event
  BY <1>1 DEF MarkProcessed, Inv, TypeOK
<1> QED BY <1>2, <1>3, <1>4, <1>5, HookMoves DEF MarkProcessed, Inv, TypeOK

LEMMA HookFailureInv ==
  ASSUME Inv, NEW h \in Hooks, HookFails(h) \/ MarkFailed(h) \/ LogFailedWebhookJob(h)
  PROVE  Inv'
<1>1. {"unmark", "report"} \subseteq HookPc
  BY DEF HookPc
<1>2. ASSUME HookFails(h) PROVE Inv'
  <2>1. UNCHANGED <<ordering, payment, charge, acked, processed, job, worker,
                    checking, paying>>
    BY <1>2 DEF HookFails
  <2>2. CASE HookDone(h)
    BY <2>1, <2>2, HookDoneKeeps, HookEnds DEF IdleHook, Inv, TypeOK
  <2>3. CASE Go(h, "unmark") /\ hook[h].pc # "idle"
    BY <1>1, <2>1, <2>3, GoKeeps, HookEnds DEF Inv, TypeOK
  <2> QED BY <1>2, <2>2, <2>3 DEF HookFails
<1>3. CASE MarkFailed(h)
  BY <1>1, <1>3, GoKeeps, HookEnds DEF MarkFailed, HookAt, Inv, TypeOK
<1>4. CASE LogFailedWebhookJob(h)
  <2>1. hook[h].event \in Event
    BY <1>4 DEF LogFailedWebhookJob, HookAt, Inv, HooksSound, HookSound
  <2>2. job' \in [Event -> Job]
    BY <1>4, <2>1 DEF LogFailedWebhookJob, Inv, TypeOK, Job
  <2> QED BY <1>4, <2>2, HookDoneKeeps, HookEnds
          DEF LogFailedWebhookJob, IdleHook, Inv, TypeOK
<1> QED BY <1>2, <1>3, <1>4

LEMMA HookInv ==
  ASSUME Inv, HookNext
  PROVE  Inv'
  BY DeliverInv, CheckLogInv, CapturedInv, OtherEventInv, SavePayoutInv,
     MarkProcessedInv, HookFailureInv DEF HookNext, HookStep

-----------------------------------------------------------------------------
(***************************************************************************)
(* The retry worker, verification, and the payout job                      *)
(***************************************************************************)
LEMMA WorkerInv ==
  ASSUME Inv, WorkerNext
  PROVE  Inv'
<1>1. UNCHANGED <<ordering, payment, charge, acked, hook, processed, checking, paying>>
  BY DEF WorkerNext, TakeJob, FinishJob, JobFails, RetryWebhookJob
<1>2. job' \in [Event -> Job] /\ worker' \in Event \cup {NoEvent}
  <2> USE DEF Inv, TypeOK, Job
  <2>1. CASE FinishJob
    BY <2>1 DEF FinishJob
  <2>2. CASE JobFails
    BY <2>2 DEF JobFails
  <2>3. ASSUME NEW e \in Event, TakeJob(e)
        PROVE  job' \in [Event -> Job] /\ worker' \in Event \cup {NoEvent}
    BY <2>3 DEF TakeJob
  <2> QED BY <2>1, <2>2, <2>3 DEF WorkerNext
<1>3. TypeOK'
  BY <1>1, <1>2 DEF Inv, TypeOK, ordering, checking, paying
<1>4. Forward /\ Upheld /\ OrdersSound' /\ PaymentsBacked'
  BY <1>1, NothingMoves DEF Inv, ordering, paying
<1> QED BY <1>1, <1>3, <1>4, OthersStay DEF Inv, checking, paying

\* A step of verifyQuizPayment, or of Forget, that writes no document.
LEMMA CheckMoves ==
  ASSUME Inv, check' \in [Checkers -> Call], ChecksSound', verified' \subseteq Orders,
         paidOut' \subseteq Orders,
         UNCHANGED <<ordering, payment, charge, hooking, run, moved>>
  PROVE  Inv'
<1>1. TypeOK'
  BY DEF Inv, TypeOK, ordering, hooking
<1>2. Forward /\ Upheld /\ OrdersSound' /\ PaymentsBacked'
  BY NothingMoves DEF Inv, ordering
<1> QED BY <1>1, <1>2, OthersStay DEF Inv, hooking

LEMMA BeginVerifyInv ==
  ASSUME Inv, NEW v \in Checkers, NEW o \in Orders, NEW a \in Attempts,
         BeginVerify(v, o, a)
  PROVE  Inv'
<1>1. UNCHANGED <<ordering, payment, charge, hooking, paying>>
  BY DEF BeginVerify
<1>2. Paid(o, a)
  BY DEF BeginVerify, Paid
<1>3. verified' \subseteq Orders
  BY DEF BeginVerify, Inv, TypeOK
<1>4. CASE UNCHANGED check
  BY <1>1, <1>3, <1>4, CheckMoves DEF Inv, TypeOK, ChecksSound, Paid, paying
<1>5. CASE check' = [check EXCEPT ![v] = [pc |-> "fetch", order |-> o, attempt |-> a]]
  <2>1. [pc |-> "fetch", order |-> o, attempt |-> a] \in Call
    BY DEF Call
  <2>2. check' \in [Checkers -> Call]
    BY <1>5, <2>1 DEF Inv, TypeOK
  <2>3. ChecksSound'
    BY <1>1, <1>2, <1>5 DEF Inv, TypeOK, ChecksSound, Paid
  <2> QED BY <1>1, <1>3, <2>2, <2>3, CheckMoves DEF Inv, TypeOK, paying
<1> QED BY <1>4, <1>5 DEF BeginVerify

LEMMA SaveVerifiedInv ==
  ASSUME Inv, NEW v \in Checkers, SaveVerified(v)
  PROVE  Inv'
<1> DEFINE o == check[v].order
           a == check[v].attempt
           p == [payment[o] EXCEPT !.status = "completed", !.pid = a]
<1>1. o \in Orders /\ a \in Attempts /\ Paid(o, a)
  BY DEF SaveVerified, Inv, ChecksSound
<1>2. UNCHANGED <<ordering, charge, hooking, paying>>
  BY DEF SaveVerified
<1>3. OrderSound(o) /\ Backed(o)
  BY <1>1 DEF Inv, OrdersSound, PaymentsBacked
<1>4. Stored(o) /\ payment[o] \in Payment
  BY <1>1, <1>3, StoredIsPayment DEF OrderSound, Paid, Inv
<1>5. payment' = [payment EXCEPT ![o] = p]
  BY <1>1 DEF SaveVerified, Inv, TypeOK
<1>6. p \in Payment
  BY <1>1, <1>4, PaymentFields
<1>7. /\ p.status = "completed" /\ p.pid = a /\ p.tid = payment[o].tid
      /\ p.payout = payment[o].payout
  BY <1>4 DEF Payment
<1>8. p.tid \/ p.payout = "transferred" => moved[o] > 0
  BY <1>3, <1>7 DEF OrderSound, Backed
<1>9. /\ check' = [check EXCEPT ![v] = IdleCall] /\ verified' = verified \cup {o}
  BY DEF SaveVerified
<1> HIDE DEF o, a, p
<1>10. /\ payment' \in [Orders -> Payment \cup {NoPayment}]
       /\ OrdersSound' /\ PaymentsBacked' /\ Forward /\ Upheld
  BY <1>1, <1>2, <1>4, <1>5, <1>6, <1>7, <1>8, DocumentWritten DEF ordering, paying
<1>11. TypeOK'
  BY <1>1, <1>2, <1>9, <1>10, Values DEF Inv, TypeOK, ordering, hooking, paying
<1>12. ChecksSound'
  BY <1>2, <1>9 DEF Inv, TypeOK, ChecksSound, Paid, IdleCall
<1> QED BY <1>2, <1>10, <1>11, <1>12, OthersStay DEF Inv, hooking, paying

LEMMA CheckInv ==
  ASSUME Inv, CheckNext
  PROVE  Inv'
<1>1. ASSUME NEW v \in Checkers, SaveVerifiedFails(v) PROVE Inv'
  <2>1. check' \in [Checkers -> Call]
    BY <1>1, Values DEF SaveVerifiedFails, Inv, TypeOK
  <2>2. ChecksSound'
    BY <1>1 DEF SaveVerifiedFails, Inv, TypeOK, ChecksSound, Paid, IdleCall
  <2> QED BY <1>1, <2>1, <2>2, CheckMoves DEF SaveVerifiedFails, Inv, TypeOK, paying
<1> QED BY <1>1, BeginVerifyInv, SaveVerifiedInv DEF CheckNext

LEMMA ForgetInv ==
  ASSUME Inv, NEW o \in Orders, Forget(o)
  PROVE  Inv'
<1>1. verified' \subseteq Orders /\ paidOut' \subseteq Orders
  BY DEF Forget, Inv, TypeOK
<1>2. ChecksSound'
  BY DEF Forget, Inv, ChecksSound, Paid
<1> QED BY <1>1, <1>2, CheckMoves DEF Forget, Inv, TypeOK

\* A step of the payout job that writes no document.
LEMMA RunMoves ==
  ASSUME Inv, run' \in Run, RunSound', moved' \in [Orders -> Nat],
         \A o \in Orders : /\ moved[o] > 0 => moved'[o] > 0
                           /\ moved'[o] > 0 => moved[o] > 0 \/ Stored(o),
         UNCHANGED <<ordering, payment, charge, hooking, checking, paidOut>>
  PROVE  Inv'
<1>1. TypeOK'
  BY DEF Inv, TypeOK, ordering, hooking, checking
<1>2. OrdersSound'
  BY DEF Inv, TypeOK, OrdersSound, OrderSound, Stored, Paid, ordering
<1>3. PaymentsBacked'
  BY DEF Inv, PaymentsBacked, Backed, Paid
<1>4. Forward /\ Upheld
  BY DEF Forward, Upheld, Stored, Stands, Paid
<1> QED BY <1>1, <1>2, <1>3, <1>4, OthersStay DEF Inv, hooking, checking

LEMMA NextPayoutSound ==
  ASSUME Inv, NEW o \in Orders, NextPayout(o),
         \A q \in Orders : Stored(q) => payment'[q].status # "none"
  PROVE  run' \in Run /\ RunSound'
  BY DEF NextPayout, Inv, TypeOK, Run, RunSound, Stored

\* The job saves a payout it has settled, and goes on.
LEMMA PayoutSaved ==
  ASSUME Inv, NEW o \in Orders, Stored(o), NEW p \in Payment,
         payment' = [payment EXCEPT ![o] = p],
         p.status = payment[o].status, p.pid = payment[o].pid,
         p.tid \/ p.payout = "transferred" => moved[o] > 0,
         paidOut' \subseteq Orders, NextPayout(o),
         UNCHANGED <<ordering, charge, hooking, checking, moved>>
  PROVE  Inv'
<1>1. Backed(o)
  BY DEF Inv, PaymentsBacked
<1>2. /\ payment' \in [Orders -> Payment \cup {NoPayment}]
      /\ OrdersSound' /\ PaymentsBacked' /\ Forward /\ Upheld
  BY <1>1, DocumentWritten DEF Backed, ordering
<1>3. run' \in Run /\ RunSound'
  BY <1>2, NextPayoutSound DEF Upheld
<1>4. TypeOK'
  BY <1>2, <1>3 DEF Inv, TypeOK, ordering, hooking, checking
<1> QED BY <1>2, <1>3, <1>4, OthersStay DEF Inv, hooking, checking

LEMMA FindPayoutsInv ==
  ASSUME Inv, FindPayouts
  PROVE  Inv'
<1>1. run' \in Run
  BY DEF FindPayouts, Run
<1>2. RunSound'
  BY DEF FindPayouts, RunSound, Due, Stored
<1> QED BY <1>1, <1>2, RunMoves DEF FindPayouts, Inv, TypeOK

LEMMA PayoutInv ==
  ASSUME Inv, NEW o \in Orders, PayoutStep(o)
  PROVE  Inv'
<1>1. \A q \in Orders : Stored(q) => payment[q].status # "none"
  BY DEF Stored
<1>2. CASE CheckPayout(o)
  <2>1. run' \in Run /\ RunSound'
    <3>1. CASE NextPayout(o)
      BY <1>1, <1>2, <3>1, NextPayoutSound DEF CheckPayout
    <3>2. CASE run' = [run EXCEPT !.order = o,
                          !.pc = IF account.verified THEN "transfer" ELSE "block"]
      BY <1>2, <3>2 DEF CheckPayout, Inv, TypeOK, Run, RunSound, Stored
    <3> QED BY <1>2, <3>1, <3>2 DEF CheckPayout
  <2> QED BY <1>2, <2>1, RunMoves DEF CheckPayout, Inv, TypeOK
<1>3. CASE BlockPayout(o)
  <2> DEFINE p == [payment[o] EXCEPT !.payout = "blocked_kyc"]
  <2>1. Stored(o) /\ payment[o] \in Payment /\ OrderSound(o)
    BY <1>3, StoredIsPayment DEF BlockPayout, Inv, RunSound, OrdersSound
  <2>2. p \in Payment
    BY <2>1, PaymentFields DEF Payouts
  <2>3. /\ p.status = payment[o].status /\ p.pid = payment[o].pid
        /\ p.payout = "blocked_kyc" /\ p.tid = payment[o].tid
    BY <2>1 DEF Payment
  <2>4. payment' = [payment EXCEPT ![o] = p]
    BY <1>3 DEF BlockPayout
  <2>5. p.tid \/ p.payout = "transferred" => moved[o] > 0
    BY <2>1, <2>3 DEF OrderSound
  <2>6. /\ paidOut' \subseteq Orders /\ NextPayout(o)
        /\ UNCHANGED <<ordering, charge, hooking, checking, moved>>
    BY <1>3 DEF BlockPayout, Inv, TypeOK
  <2> HIDE DEF p
  <2> QED BY <2>1, <2>2, <2>3, <2>4, <2>5, <2>6, PayoutSaved
<1>4. CASE MakeTransfer(o)
  <2>1. /\ Stored(o)
        /\ UNCHANGED <<ordering, payment, charge, hooking, checking, paidOut>>
    BY <1>4 DEF MakeTransfer, Inv, RunSound
  <2>2. CASE NextPayout(o) /\ UNCHANGED moved
    BY <1>1, <2>1, <2>2, NextPayoutSound, RunMoves DEF Inv, TypeOK
  <2>3. CASE /\ moved' = [moved EXCEPT ![o] = @ + 1]
             /\ run' = [run EXCEPT !.pc = "save"]
    <3>1. /\ moved' \in [Orders -> Nat] /\ moved'[o] > 0
          /\ \A q \in Orders \ {o} : moved'[q] = moved[q]
      BY <2>3 DEF Inv, TypeOK
    <3>2. run' \in Run /\ RunSound'
      BY <1>4, <2>1, <2>3, <3>1 DEF MakeTransfer, Inv, TypeOK, Run, RunSound, Stored
    <3> QED BY <2>1, <3>1, <3>2, RunMoves
  <2> QED BY <1>4, <2>2, <2>3 DEF MakeTransfer
<1>5. CASE SaveTransfer(o)
  <2> DEFINE p == [payment[o] EXCEPT !.payout = "transferred", !.tid = TRUE]
  <2>1. Stored(o) /\ payment[o] \in Payment /\ moved[o] > 0
    BY <1>5, StoredIsPayment DEF SaveTransfer, Inv, RunSound
  <2>2. p \in Payment
    BY <2>1, PaymentFields DEF Payouts
  <2>3. p.status = payment[o].status /\ p.pid = payment[o].pid
    BY <2>1 DEF Payment
  <2>4. payment' = [payment EXCEPT ![o] = p]
    BY <1>5, <2>1 DEF SaveTransfer, Inv, TypeOK
  <2>5. /\ paidOut' \subseteq Orders /\ NextPayout(o)
        /\ UNCHANGED <<ordering, charge, hooking, checking, moved>>
    BY <1>5 DEF SaveTransfer, Inv, TypeOK
  <2> HIDE DEF p
  <2> QED BY <2>1, <2>2, <2>3, <2>4, <2>5, PayoutSaved
<1>6. CASE PayoutFails(o)
  BY <1>1, <1>6, NextPayoutSound, RunMoves DEF PayoutFails, Inv, TypeOK
<1> QED BY <1>2, <1>3, <1>4, <1>5, <1>6 DEF PayoutStep

LEMMA CrashInv ==
  ASSUME Inv, Crash
  PROVE  Inv'
<1>1. \A o \in Orders : /\ request'[o] \in Request
                        /\ request'[o].pc = "done" <=> request[o].pc = "done"
  BY DEF Crash, Inv, TypeOK, Request
<1>2. request' \in [Orders -> Request]
  BY <1>1 DEF Crash
<1>3. UNCHANGED <<account, payment, charge, acked, processed, job, moved>>
  BY DEF Crash
<1>4. TypeOK'
  BY <1>2, <1>3, Values DEF Crash, Inv, TypeOK
<1>5. OrdersSound'
  BY <1>1, <1>3 DEF Inv, OrdersSound, OrderSound, Stored, Paid
<1>6. Forward /\ Upheld /\ PaymentsBacked'
  BY <1>3, NothingMoves DEF Inv
<1>7. HooksSound' /\ ChecksSound' /\ RunSound'
  BY DEF Crash, HooksSound, HookSound, ChecksSound, RunSound, IdleHook, IdleCall, IdleRun
<1> QED BY <1>3, <1>4, <1>5, <1>6, <1>7, OthersStay DEF Inv

-----------------------------------------------------------------------------
LEMMA InitInv == Init => Inv
<1> SUFFICES ASSUME Init PROVE Inv
  OBVIOUS
<1>1. account \in Account /\ request \in [Orders -> Request] /\ NoEvent \notin {}
  BY DEF Init, Account, Request, Modes
<1>2. TypeOK
  BY <1>1, Values DEF Init, TypeOK
<1>3. OrdersSound /\ PaymentsBacked
  BY DEF Init, OrdersSound, OrderSound, PaymentsBacked, Backed, Stored, Paid, NoPayment
<1>4. HooksSound /\ ChecksSound /\ RunSound /\ ProcessedSound
  BY DEF Init, HooksSound, HookSound, ChecksSound, RunSound, ProcessedSound, IdleHook,
         IdleCall, IdleRun
<1> QED BY <1>2, <1>3, <1>4 DEF Inv

LEMMA Invariance == Spec => []Inv
<1>1. Inv /\ [Next]_vars => Inv'
  <2> SUFFICES ASSUME Inv, [Next]_vars PROVE Inv'
    OBVIOUS
  <2>1. CASE UNCHANGED vars
    <3>1. TypeOK'
      BY <2>1 DEF Inv, TypeOK, vars
    <3>2. Forward /\ Upheld /\ OrdersSound' /\ PaymentsBacked'
      BY <2>1, NothingMoves DEF Inv, vars
    <3> QED BY <2>1, <3>1, <3>2, OthersStay DEF Inv, vars
  <2>2. ASSUME NEW o \in Orders, CreateQuizOrder(o) PROVE Inv'
    BY <2>2, CheckExistingPaymentInv, ReadHostAccountInv, RouteCreateOrderInv,
       StorePaymentInv DEF CreateQuizOrder
  <2>3. CASE PayoutNext
    BY <2>3, FindPayoutsInv, PayoutInv DEF PayoutNext
  <2>4. CASE ForgetNext
    BY <2>4, ForgetInv DEF ForgetNext
  <2> QED BY <2>1, <2>2, <2>3, <2>4, HostInv, GatewayInv, HookInv, WorkerInv, CheckInv,
             CrashInv DEF Next
<1> QED BY <1>1, InitInv, PTL DEF Spec

\* The state of the service has its types, whatever fails and however often the
\* process restarts.
THEOREM TypeCorrect == Spec => []TypeOK
<1>1. Inv => TypeOK
  BY DEF Inv
<1> QED BY <1>1, Invariance, PTL

\* No order of captures, failures, refunds, verifications and saves makes a
\* payment completed that was not paid, or refunded that was not returned.
THEOREM CompletedIsPaidAlways == Spec => []CompletedIsPaid
<1>1. Inv => CompletedIsPaid
  BY DEF Inv, PaymentsBacked, Backed, Paid, CompletedIsPaid
<1> QED BY <1>1, Invariance, PTL

\* A capture that was processed is not undone by an event that comes later, nor
\* by a handler that read the payment before it.
THEOREM ProcessedCaptureStandsAlways == Spec => []ProcessedCaptureStands
<1>1. Inv => ProcessedCaptureStands
  BY DEF Inv, ProcessedSound, EventSound, Stands, ProcessedCaptureStands
<1> QED BY <1>1, Invariance, PTL

\* No payout is recorded as transferred that the payout job has not made, also
\* when a handler saves a payout it chose before the job or a restart.
THEOREM TransferredIsMovedAlways == Spec => []TransferredIsMoved
<1>1. Inv => TransferredIsMoved
  BY DEF Inv, PaymentsBacked, Backed, TransferredIsMoved
<1> QED BY <1>1, Invariance, PTL

-----------------------------------------------------------------------------
(***************************************************************************)
(* The refinement                                                          *)
(***************************************************************************)
Access == [o \in Orders |-> payment[o].status = "completed"]

MoneyOf(o) == IF \E a \in Attempts : charge[o][a] = "captured" THEN "paid"
              ELSE IF Captured(o) THEN "returned" ELSE "none"

Money == [o \in Orders |-> MoneyOf(o)]

\* A step that is not the gateway's writes one document at most.
LEMMA OneDocument ==
  ASSUME Inv, Next
  PROVE  \/ GatewayNext
         \/ UNCHANGED <<payment, charge>>
         \/ /\ UNCHANGED charge
            /\ \E o \in Orders : \A q \in Orders \ {o} : payment'[q] = payment[q]
<1> DEFINE One == \E o \in Orders : \A q \in Orders \ {o} : payment'[q] = payment[q]
<1>1. CASE \E o \in Orders : CreateQuizOrder(o)
  BY <1>1 DEF CreateQuizOrder, CheckExistingPayment, ReadHostAccount,
              RouteCreateOrder, StorePayment, Inv, TypeOK
<1>2. CASE HostNext \/ WorkerNext \/ ForgetNext \/ Crash
  BY <1>2 DEF HostNext, CreateAccount, CheckKycStatus, UpsertHostAccount, WorkerNext,
              TakeJob, FinishJob, JobFails, RetryWebhookJob, ForgetNext, Forget, Crash
<1>3. CASE HookNext
  <2>1. ASSUME NEW h \in Hooks, HandleEvent(h) \/ SavePayout(h)
        PROVE  UNCHANGED charge /\ One
    <3>1. hook[h].event.order \in Orders
      BY <2>1, EventFields DEF HandleEvent, SavePayout, HookAt, Inv, HooksSound, HookSound
    <3>2. UNCHANGED charge
      BY <2>1 DEF HandleEvent, SavePayout
    <3>3. \A q \in Orders \ {hook[h].event.order} : payment'[q] = payment[q]
      BY <2>1, <3>1 DEF HandleEvent, SavePayout, ReconcileCapturedPayment, Inv, TypeOK,
               HandlePaymentFailed, HandlePaymentRefunded, HandleTransferUpdate
    <3> QED BY <3>1, <3>2, <3>3
  <2>2. ASSUME NEW h \in Hooks,
               \/ CheckLog(h) \/ MarkProcessed(h) \/ MarkFailed(h)
               \/ LogFailedWebhookJob(h) \/ HookFails(h)
               \/ \E e \in Event : Deliver(h, e)
        PROVE  UNCHANGED <<payment, charge>>
    BY <2>2 DEF CheckLog, MarkProcessed, MarkFailed, LogFailedWebhookJob, HookFails,
                Deliver
  <2> QED BY <1>3, <2>1, <2>2 DEF HookNext, HookStep
<1>4. CASE CheckNext
  <2>1. ASSUME NEW v \in Checkers, SaveVerified(v) PROVE UNCHANGED charge /\ One
    <3>1. check[v].order \in Orders
      BY <2>1 DEF SaveVerified, Inv, ChecksSound
    <3> QED BY <2>1, <3>1 DEF SaveVerified, Inv, TypeOK
  <2>2. ASSUME NEW v \in Checkers,
               \/ SaveVerifiedFails(v)
               \/ \E o \in Orders, a \in Attempts : BeginVerify(v, o, a)
        PROVE  UNCHANGED <<payment, charge>>
    BY <2>2 DEF SaveVerifiedFails, BeginVerify
  <2> QED BY <1>4, <2>1, <2>2 DEF CheckNext
<1>5. CASE PayoutNext
  BY <1>5 DEF PayoutNext, FindPayouts, PayoutStep, CheckPayout, BlockPayout,
              MakeTransfer, SaveTransfer, PayoutFails, Inv, TypeOK
<1> QED BY <1>1, <1>2, <1>3, <1>4, <1>5 DEF Next

\* Access is only withdrawn by a step that finds the money returned.
LEMMA AccessKept ==
  ASSUME Inv, Next, UNCHANGED charge, NEW o \in Orders,
         payment[o].status = "completed", payment'[o].status # "completed"
  PROVE  MoneyOf(o) = "returned"
<1>1. /\ payment[o].pid \in Attempts /\ Paid(o, payment[o].pid) /\ OrderSound(o)
      /\ payment[o] \in Payment /\ payment[o] # NoPayment
  BY StoredIsPayment DEF Inv, PaymentsBacked, Backed, OrdersSound, Stored, NoPayment
<1>2. PICK h \in Hooks : HandleEvent(h)
  <2>1. ASSUME NEW q \in Orders, CreateQuizOrder(q) PROVE FALSE
    <3>1. StorePayment(q)
      BY <2>1 DEF CreateQuizOrder, CheckExistingPayment, ReadHostAccount,
                  RouteCreateOrder
    <3>2. payment[q] = NoPayment
      BY <3>1 DEF StorePayment, Inv, OrdersSound, OrderSound
    <3>3. q # o
      BY <1>1, <3>2
    <3> QED BY <3>1, <3>3 DEF StorePayment, Inv, TypeOK
  <2>2. ~(HostNext \/ WorkerNext \/ ForgetNext \/ Crash \/ GatewayNext)
    BY DEF HostNext, CreateAccount, CheckKycStatus, UpsertHostAccount, WorkerNext,
       TakeJob, FinishJob, JobFails, RetryWebhookJob, ForgetNext, Forget, Crash,
       GatewayNext, PayAttempt, RefundAttempt, Settle
  <2>3. ASSUME NEW v \in Checkers, SaveVerified(v) PROVE FALSE
    <3> DEFINE p == [payment[o] EXCEPT !.status = "completed", !.pid = check[v].attempt]
    <3>1. check[v].order \in Orders
      BY <2>3 DEF SaveVerified, Inv, ChecksSound
    <3>2. payment'[o] = payment[o] \/ payment'[o] = p
      BY <2>3, <3>1 DEF SaveVerified, Inv, TypeOK
    <3>3. p.status = "completed"
      BY <1>1 DEF Payment
    <3> QED BY <3>2, <3>3
  <2>4. ~CheckNext
    BY <2>3 DEF CheckNext, SaveVerifiedFails, BeginVerify
  <2>5. \A x : [payment[o] EXCEPT !.payout = x].status = "completed"
    BY <1>1 DEF Payment
  <2>6. ASSUME NEW q \in Orders, PayoutStep(q) PROVE FALSE
    <3>1. BlockPayout(q) \/ SaveTransfer(q)
      BY <2>6 DEF PayoutStep, CheckPayout, MakeTransfer, PayoutFails
    <3>2. CASE BlockPayout(q)
      BY <2>5, <3>2 DEF BlockPayout, Inv, TypeOK
    <3>3. CASE SaveTransfer(q)
      <4> DEFINE p == [payment[o] EXCEPT !.payout = "transferred", !.tid = TRUE]
      <4>1. payment'[o] = payment[o] \/ payment'[o] = p
        BY <3>3 DEF SaveTransfer, Inv, TypeOK
      <4>2. p.status = "completed"
        BY <1>1 DEF Payment
      <4> QED BY <4>1, <4>2
    <3> QED BY <3>1, <3>2, <3>3
  <2>7. ~PayoutNext
    BY <2>6 DEF PayoutNext, FindPayouts
  <2>8. ASSUME NEW h \in Hooks, SavePayout(h) PROVE FALSE
    BY <2>5, <2>8 DEF SavePayout, Inv, TypeOK
  <2>9. ASSUME NEW h \in Hooks
        PROVE  /\ ~CheckLog(h) /\ ~MarkProcessed(h) /\ ~MarkFailed(h)
               /\ ~LogFailedWebhookJob(h) /\ ~HookFails(h)
               /\ ~(\E e \in Event : Deliver(h, e))
    BY DEF CheckLog, MarkProcessed, MarkFailed, LogFailedWebhookJob, HookFails, Deliver
  <2> QED BY <2>1, <2>2, <2>4, <2>7, <2>8, <2>9 DEF Next, HookNext, HookStep
<1>3. /\ hook[h].event \in Event /\ Occurred(hook[h].event)
      /\ hook[h].event.order \in Orders
  BY <1>2, EventFields DEF HandleEvent, HookAt, Inv, HooksSound, HookSound
<1>4. /\ hook[h].event.kind = "refunded" /\ hook[h].event.order = o
      /\ hook[h].event.attempt = payment[o].pid
  <2> DEFINE e == hook[h].event
  <2>1. ~ReconcileCapturedPayment(h, e.order, e.attempt) \/ e.order # o
    BY <1>3 DEF ReconcileCapturedPayment
  <2>2. ~HandlePaymentFailed(h, e.order, e.attempt) \/ e.order # o
    BY <1>3 DEF HandlePaymentFailed, Inv, TypeOK
  <2>3. ASSUME HandleTransferUpdate(h, e.order, e.kind), e.order = o PROVE FALSE
    <3> DEFINE p == [payment[o] EXCEPT !.tid = TRUE,
                       !.payout = IF e.kind = "transferred" THEN "transferred" ELSE "failed"]
    <3>1. p.status = "completed"
      BY <1>1 DEF Payment
    <3>2. payment'[o] = p
      BY <1>3, <2>3 DEF HandleTransferUpdate, Inv, TypeOK
    <3> QED BY <3>1, <3>2
  <2>4. e.order = o
    BY <1>2, <1>3 DEF HandleEvent, ReconcileCapturedPayment, HandlePaymentFailed,
       HandlePaymentRefunded, HandleTransferUpdate, Inv, TypeOK
  <2>5. e.kind = "refunded" /\ HandlePaymentRefunded(h, o, e.attempt)
    BY <1>2, <2>1, <2>2, <2>3, <2>4 DEF HandleEvent
  <2> QED BY <2>4, <2>5 DEF HandlePaymentRefunded, Inv, TypeOK
<1>5. charge[o][payment[o].pid] = "refunded"
  BY <1>3, <1>4 DEF Occurred
<1>6. \A a \in Attempts : charge[o][a] # "captured"
  BY <1>1, <1>5 DEF OrderSound, Paid
<1> QED BY <1>1, <1>5, <1>6 DEF MoneyOf, Captured

\* The service implements the promise made to the buyers: the step that first
\* records a capture maps to Grant, the handling of a refund to Withdraw.
THEOREM KeepsPromise == Spec => PromiseKept
<1>1. Init => Promise!Init
  <2> SUFFICES ASSUME Init PROVE Promise!Init
    OBVIOUS
  <2>1. Access = [o \in Orders |-> FALSE]
    BY DEF Init, Access, NoPayment
  <2>2. Money = [o \in Orders |-> "none"]
    BY DEF Init, Money, MoneyOf, Captured
  <2> QED BY <2>1, <2>2 DEF Promise!Init, Access, Money, MoneyOf
<1>2. Inv /\ Inv' /\ [Next]_vars => [Promise!Next]_<<Access, Money>>
  <2> SUFFICES ASSUME Inv, Inv', [Next]_vars
               PROVE  Promise!Next \/ UNCHANGED <<Access, Money>>
    BY DEF Promise!Next, Promise!Take, Promise!GiveBack, Promise!Grant,
           Promise!Withdraw, Access, Money, MoneyOf
  <2>1. CASE UNCHANGED <<payment, charge>>
    BY <2>1 DEF Access, Money, MoneyOf, Captured
  <2>2. CASE GatewayNext
    <3>1. PICK o \in Orders, a \in Attempts :
             PayAttempt(o, a) \/ RefundAttempt(o, a)
      BY <2>2 DEF GatewayNext
    <3>2. /\ payment' = payment
          /\ \A q \in Orders, b \in Attempts :
                 q # o \/ b # a => charge'[q][b] = charge[q][b]
      BY <3>1 DEF PayAttempt, RefundAttempt, Settle, Inv, TypeOK
    <3>3. UNCHANGED Access /\ \A q \in Orders \ {o} : MoneyOf(q)' = MoneyOf(q)
      BY <3>2 DEF Access, MoneyOf, Captured
    <3>4. Money' = [Money EXCEPT ![o] = MoneyOf(o)']
      BY <3>3 DEF Money
    <3>5. CASE PayAttempt(o, a) /\ charge'[o][a] = "captured"
      <4>1. MoneyOf(o) = "none" /\ MoneyOf(o)' = "paid"
        BY <3>5 DEF PayAttempt, MoneyOf, Captured
      <4>2. Promise!Take(o)
        BY <3>3, <3>4, <4>1 DEF Promise!Take, Access, Money, MoneyOf
      <4> QED BY <4>2 DEF Promise!Next
    <3>6. CASE PayAttempt(o, a) /\ charge'[o][a] = "failed"
      <4>1. MoneyOf(o) = "none" /\ MoneyOf(o)' = "none"
        BY <3>2, <3>6 DEF PayAttempt, MoneyOf, Captured
      <4> QED BY <3>3, <3>4, <4>1 DEF Money
    <3>7. CASE RefundAttempt(o, a)
      <4>1. charge[o][a] = "captured" /\ charge'[o][a] = "refunded"
        BY <3>7 DEF RefundAttempt, Settle, Inv, TypeOK
      <4>2. \A b \in Attempts : charge[o][b] = "captured" => b = a
        BY <4>1 DEF Inv, OrdersSound, OrderSound, Paid
      <4>3. MoneyOf(o) = "paid" /\ MoneyOf(o)' = "returned"
        BY <3>2, <4>1, <4>2 DEF MoneyOf, Captured
      <4>4. Promise!GiveBack(o)
        BY <3>3, <3>4, <4>3 DEF Promise!GiveBack, Access, Money, MoneyOf
      <4> QED BY <4>4 DEF Promise!Next
    <3>8. PayAttempt(o, a) => charge'[o][a] \in {"failed", "captured"}
      BY DEF PayAttempt, Settle, Inv, TypeOK
    <3> QED BY <3>1, <3>5, <3>6, <3>7, <3>8
  <2>3. ASSUME UNCHANGED charge, Next, NEW o \in Orders,
               \A q \in Orders \ {o} : payment'[q] = payment[q]
        PROVE  Promise!Next \/ UNCHANGED <<Access, Money>>
    <3>1. UNCHANGED Money
      BY <2>3 DEF Money, MoneyOf, Captured
    <3>2. Access' = [Access EXCEPT ![o] = payment'[o].status = "completed"]
      BY <2>3 DEF Access
    <3>3. CASE payment'[o].status = "completed"
      <4>1. MoneyOf(o) # "none"
        BY <2>3, <3>3 DEF Inv, PaymentsBacked, Backed, Paid, MoneyOf, Captured
      <4>2. Promise!Grant(o)
        BY <3>1, <3>2, <3>3, <4>1 DEF Promise!Grant, Access, Money, MoneyOf
      <4> QED BY <4>2 DEF Promise!Next
    <3>4. CASE payment[o].status = "completed" /\ payment'[o].status # "completed"
      <4>1. MoneyOf(o) = "returned"
        BY <2>3, <3>4, AccessKept
      <4>2. Promise!Withdraw(o)
        BY <3>1, <3>2, <3>4, <4>1 DEF Promise!Withdraw, Access, Money, MoneyOf
      <4> QED BY <4>2 DEF Promise!Next
    <3>5. CASE payment[o].status # "completed" /\ payment'[o].status # "completed"
      BY <3>1, <3>2, <3>5 DEF Access
    <3> QED BY <3>3, <3>4, <3>5
  <2> QED BY <2>1, <2>2, <2>3, OneDocument DEF vars
<1> QED BY <1>1, <1>2, Invariance, PTL DEF Spec, PromiseKept, Promise!Spec, Access, Money,
          MoneyOf
=============================================================================
