------------------------ MODULE Subscriptions_proofs ------------------------
(***************************************************************************)
(* Theorems about Subscriptions, for any hosts, orders, mandates and calls *)
(* at once.  The properties are kept by one inductive invariant, Inv.      *)
(***************************************************************************)
EXTENDS Subscriptions, FiniteSetTheorems, TLAPS

\* A mandate was charged.
Mandated == \E g \in Mandates : cycles[g] > 0

\* What was got under this id was paid for: by the order of that id, or by a
\* mandate.
Backed(id) == id \in paid \/ Mandated

\* k is a call actor c may have in hand: what it will write is backed.
Sound(c, k) ==
    /\ k.pc \in {"save", "expire", "read", "replace", "create", "sync", "resync",
                 "link"} => k.host \in Hosts
    /\ k.sub <= Len(subs) /\ k.batch \subseteq 1 .. Len(subs)
    /\ k.pc \in {"save", "expire"} => k.sub # 0
    /\ k.pc = "expire" => k.task # "charge" /\ k.plan = "FREE"
    /\ c = Job => k.task \in {"none", "expire"} /\ k.plan = "FREE"
    /\ k.pc \in {"check", "handle", "save", "link", "mark"} => k.task = "charge"
    /\ k.task = "charge" =>
          /\ k.event \in Event
          /\ k.event.kind = "charged" => k.event.cycle <= cycles[k.event.of]
    /\ k.task = "charge" /\
       k.pc \in {"save", "read", "replace", "create", "sync", "resync", "link"}
       => Mandated
    /\ k.task = "verify" => k.id \in paid
    /\ k.pc \in {"read", "replace", "create"} /\ k.plan # "FREE" => Backed(k.id)

CallsSound == \A c \in Actors : Sound(c, call[c])

\* A document with a paid plan is backed, and where no mandate was charged it
\* stands for one month.
SubSound(s) ==
    s.plan # "FREE" => (s.id \in paid /\ s.paidCycles = 0) \/ Mandated

SubsSound == \A i \in 1 .. Len(subs) : SubSound(subs[i])

\* The unique index.
UniqueIds == \A i, j \in 1 .. Len(subs) : subs[i].id = subs[j].id => i = j

Inv == TypeOK /\ CallsSound /\ SubsSound /\ UniqueIds /\ IsFiniteSet(paid)

\* A step may change documents and add some; it gives none to another host or
\* plan.
Grows ==
    /\ subs' \in Seq(Subscription)
    /\ Len(subs') \in Nat /\ Len(subs) <= Len(subs') /\ Len(subs') <= MaxSubs
    /\ \A i \in 1 .. Len(subs) : /\ subs'[i].host = subs[i].host
                                 /\ subs'[i].plan = subs[i].plan

\* A step of one call keeps the invariant if what the call has in hand afterwards
\* is sound, and so are the documents.
LEMMA StepKeeps ==
    ASSUME Inv, NEW c \in Actors, NEW k \in Call, Sound(c, k),
           call' = [call EXCEPT ![c] = k], Grows, SubsSound', UniqueIds',
           plan' \in [Hosts -> Plans], verified' \subseteq Orders,
           processed' \subseteq Event, UNCHANGED <<gateway, now>>
    PROVE  Inv'
<1>0. Len(subs) \in Nat
  BY DEF Inv, TypeOK
<1>1. TypeOK'
  BY DEF Inv, TypeOK, Grows, gateway
<1>2. ASSUME NEW d \in Actors, NEW m \in Call, Sound(d, m)
      PROVE  Sound(d, m)'
  <2>1. m.sub \in Nat
    BY DEF Call
  <2>2. 1 .. Len(subs) \subseteq 1 .. Len(subs')
    BY <1>0 DEF Grows
  <2>3. m.sub <= Len(subs')
    BY <2>1, <1>0, <1>2 DEF Grows, Sound
  <2> QED
    BY <1>2, <2>2, <2>3 DEF Sound, Mandated, Backed, gateway
<1>3. CallsSound'
  <2> SUFFICES ASSUME NEW d \in Actors PROVE Sound(d, call[d])'
    BY DEF CallsSound
  <2>1. call'[d] \in Call /\ Sound(d, call'[d])
    BY DEF Inv, TypeOK, CallsSound
  <2> QED
    BY <2>1, <1>2
<1>4. IsFiniteSet(paid)'
  BY DEF Inv, gateway
<1> QED
  BY <1>1, <1>3, <1>4 DEF Inv

\* A step that changes no document.
LEMMA CallKeeps ==
    ASSUME Inv, NEW c \in Actors, NEW k \in Call, Sound(c, k),
           call' = [call EXCEPT ![c] = k],
           plan' \in [Hosts -> Plans], verified' \subseteq Orders,
           processed' \subseteq Event, UNCHANGED <<subs, gateway, now>>
    PROVE  Inv'
<1>1. Grows
  BY DEF Inv, TypeOK, Grows
<1>2. SubsSound' /\ UniqueIds'
  BY DEF Inv, SubsSound, SubSound, UniqueIds, Mandated, gateway
<1> QED
  BY <1>1, <1>2, StepKeeps, Zenon

LEMMA Bounds == {FreeMonths, MaxMonth, MaxCycles, MaxSubs} \subseteq Nat
BY SubscriptionsAssumption

\* An actor with nothing to do.
LEMMA IdleSound == ASSUME Inv, NEW c \in Actors PROVE Idle \in Call /\ Sound(c, Idle)
<1>1. Idle \in Call
  BY Bounds DEF Idle, Call, Plans, Ids
<1>2. Len(subs) \in Nat
  BY DEF Inv, TypeOK
<1>3. Sound(c, Idle)
  BY <1>2 DEF Idle, Sound
<1> QED
  BY <1>1, <1>3

\* What is true of the call of an actor.
LEMMA InHand ==
    ASSUME Inv, NEW c \in Actors
    PROVE  call[c] \in Call /\ Sound(c, call[c])
BY DEF Inv, TypeOK, CallsSound

LEMMA QuitKeeps ==
    ASSUME Inv, NEW c \in Actors, Quit(c),
           plan' \in [Hosts -> Plans], verified' \subseteq Orders,
           processed' \subseteq Event, UNCHANGED <<subs, gateway, now>>
    PROVE  Inv'
BY IdleSound, CallKeeps DEF Quit

\* The job goes on to its next document.
LEMMA GoOnKeeps ==
    ASSUME Inv, NEW c \in Actors, GoOn(c),
           plan' \in [Hosts -> Plans], verified' \subseteq Orders,
           processed' \subseteq Event, UNCHANGED <<subs, gateway, now>>
    PROVE  Inv'
<1> DEFINE k == [Idle EXCEPT !.task = "expire", !.pc = "next",
                             !.batch = call[c].batch]
<1>1. Idle \in Call /\ call[c] \in Call /\ Len(subs) \in Nat
      /\ call[c].batch \subseteq 1 .. Len(subs)
  BY IdleSound, InHand DEF Sound, Inv, TypeOK
<1>2. k \in Call
  BY <1>1 DEF Call, Idle
<1>3. Sound(c, k)
  BY <1>1 DEF Sound, Idle
<1>4. call' = [call EXCEPT ![c] = k]
  BY DEF GoOn
<1> HIDE DEF k
<1> QED
  BY <1>2, <1>3, <1>4, CallKeeps

LEMMA AfterFailureKeeps ==
    ASSUME Inv, NEW c \in Actors, AfterFailure(c),
           UNCHANGED <<subs, plan, verified, processed, gateway, now>>
    PROVE  Inv'
<1>1. /\ plan' \in [Hosts -> Plans] /\ verified' \subseteq Orders
      /\ processed' \subseteq Event /\ UNCHANGED <<subs, gateway, now>>
  BY DEF Inv, TypeOK
<1> QED
  BY <1>1, QuitKeeps, GoOnKeeps DEF AfterFailure

LEMMA FailKeeps ==
    ASSUME Inv, NEW c \in Actors, Fail(c)
    PROVE  Inv'
BY AfterFailureKeeps DEF Fail

-----------------------------------------------------------------------------
(***************************************************************************)
(* createSubscription                                                      *)
(***************************************************************************)

\* The step that a task takes once its document is there keeps what was sound.
LEMMA CreatedSound ==
    ASSUME Inv, NEW c \in Actors, AfterCreate(c),
           call[c].pc \in {"read", "create"}
    PROVE  \E k \in Call : Sound(c, k) /\ call' = [call EXCEPT ![c] = k]
<1>1. CASE call[c].task \in {"verify", "free"}
  BY <1>1, IdleSound DEF AfterCreate, Quit
<1>2. CASE call[c].task \notin {"verify", "free"}
  <2> DEFINE k == [call[c] EXCEPT !.pc = "sync"]
  <2>1. k \in Call
    BY InHand DEF Call
  <2>2. call' = [call EXCEPT ![c] = k]
    BY <1>2 DEF AfterCreate, Go, Inv, TypeOK
  <2>3. Sound(c, k)
    BY <1>2, InHand DEF Sound, Call
  <2> QED
    BY <2>1, <2>2, <2>3
<1> QED
  BY <1>1, <1>2

LEMMA VerifiedIsOrder ==
    ASSUME Inv, NEW c \in Actors, Verified(c)
    PROVE  verified' \subseteq Orders
BY InHand DEF Verified, Sound, Inv, TypeOK

LEMMA ReadCurrentKeeps ==
    ASSUME Inv, NEW c \in Actors, ReadCurrent(c)
    PROVE  Inv'
<1>0. /\ UNCHANGED <<subs, plan, processed, gateway, now>>
      /\ plan' \in [Hosts -> Plans] /\ processed' \subseteq Event
  BY DEF ReadCurrent, Inv, TypeOK
<1>1. CASE AfterCreate(c) /\ Verified(c)
  <2>1. PICK k \in Call : Sound(c, k) /\ call' = [call EXCEPT ![c] = k]
    BY <1>1, CreatedSound DEF ReadCurrent, At
  <2>2. verified' \subseteq Orders
    BY <1>1, VerifiedIsOrder
  <2> QED
    BY <1>0, <2>1, <2>2, CallKeeps
<1>2. CASE /\ call' = [call EXCEPT ![c].pc = "replace", ![c].until = now]
           /\ UNCHANGED verified
  <2> DEFINE k == [call[c] EXCEPT !.pc = "replace", !.until = now]
  <2>0. now \in Nat
    BY Bounds DEF Inv, TypeOK
  <2>1. k \in Call
    BY <2>0, InHand, ZenonT(60) DEF Call
  <2>2. call' = [call EXCEPT ![c] = k]
    BY <1>2 DEF Inv, TypeOK
  <2>3. Sound(c, k)
    BY InHand DEF Sound, Call, ReadCurrent, At
  <2>4. verified' \subseteq Orders
    BY <1>2 DEF Inv, TypeOK
  <2> HIDE DEF k
  <2> QED
    BY <1>0, <2>1, <2>2, <2>3, <2>4, CallKeeps
<1> QED
  BY <1>1, <1>2 DEF ReadCurrent

\* The documents are rewritten in place.
LEMMA SameLength ==
    ASSUME Inv, subs' \in [1 .. Len(subs) -> Subscription]
    PROVE  /\ subs' \in Seq(Subscription) /\ Len(subs') = Len(subs)
           /\ Len(subs) \in Nat /\ Len(subs) <= MaxSubs
BY DEF Inv, TypeOK

\* They are rewritten, but for what they were paid with.
LEMMA Rewritten ==
    ASSUME Inv, subs' \in [1 .. Len(subs) -> Subscription],
           \A i \in 1 .. Len(subs) :
               /\ subs'[i].host = subs[i].host /\ subs'[i].plan = subs[i].plan
               /\ subs'[i].id = subs[i].id
               /\ subs'[i].paidCycles = subs[i].paidCycles,
           UNCHANGED gateway
    PROVE  Grows /\ SubsSound' /\ UniqueIds'
<1>1. Grows
  BY SameLength DEF Grows
<1>2. SubsSound'
  BY SameLength DEF Inv, SubsSound, SubSound, Mandated, gateway
<1>3. UniqueIds'
  BY SameLength DEF Inv, UniqueIds
<1> QED
  BY <1>1, <1>2, <1>3

LEMMA Documents ==
    ASSUME Inv
    PROVE  /\ Len(subs) \in Nat
           /\ \A i \in 1 .. Len(subs) : subs[i] \in Subscription
           /\ subs = [i \in 1 .. Len(subs) |-> subs[i]]
BY DEF Inv, TypeOK

LEMMA ReplaceActiveKeeps ==
    ASSUME Inv, NEW c \in Actors, ReplaceActive(c)
    PROVE  Inv'
<1> DEFINE k == [call[c] EXCEPT !.pc = "create"]
           new(i) == IF i \in Running(call[c].host)
                     THEN [subs[i] EXCEPT !.status = "replaced",
                                          !.until = call[c].until]
                     ELSE subs[i]
<1>1. k \in Call /\ Sound(c, k)
  BY InHand, ZenonT(60) DEF Call, Sound, ReplaceActive, At
<1>2. call' = [call EXCEPT ![c] = k]
  BY DEF ReplaceActive, Go, Inv, TypeOK
<1>3. ASSUME NEW i \in 1 .. Len(subs)
      PROVE  /\ new(i) \in Subscription
             /\ new(i).host = subs[i].host /\ new(i).plan = subs[i].plan
             /\ new(i).id = subs[i].id /\ new(i).paidCycles = subs[i].paidCycles
  <2>1. subs[i] \in Subscription /\ call[c].until \in Nat
    BY Documents, InHand DEF Call
  <2> QED
    BY <2>1 DEF Subscription, Status
<1>4. subs' = [i \in 1 .. Len(subs) |-> new(i)]
  BY DEF ReplaceActive
<1> HIDE DEF k, new
<1>5. Grows /\ SubsSound' /\ UniqueIds'
  BY <1>3, <1>4, Rewritten DEF ReplaceActive
<1> QED
  BY <1>1, <1>2, <1>5, StepKeeps DEF ReplaceActive, Inv, TypeOK

LEMMA CreateKeeps ==
    ASSUME Inv, NEW c \in Actors, Create(c)
    PROVE  Inv'
<1> DEFINE k == call[c]
           n == Len(subs)
           doc == [host |-> k.host, plan |-> k.plan, status |-> "active",
                   id |-> NewId(k), paidCycles |-> 0,
                   until |-> k.until + (IF k.plan = "FREE" THEN FreeMonths ELSE 1)]
<1>1. k \in Call /\ Sound(c, k) /\ k.pc = "create"
  BY InHand DEF Create, At
<1>2. doc \in Subscription
  <2>1. NewId(k) \in Ids
    BY <1>1 DEF NewId, Call, Ids
  <2> QED
    BY <1>1, <2>1, Bounds DEF Call, Sound, Subscription, Status
<1>3. subs' = Append(subs, doc) /\ n \in Nat /\ n < MaxSubs
  BY Documents DEF Create
<1>4. /\ subs' \in Seq(Subscription) /\ Len(subs') = n + 1
      /\ \A i \in 1 .. n : subs'[i] = subs[i]
      /\ subs'[n + 1] = doc
  BY <1>2, <1>3 DEF Inv, TypeOK
<1>5. Grows
  BY <1>3, <1>4, Bounds DEF Grows
<1>6. SubsSound'
  <2>1. ASSUME NEW i \in 1 .. Len(subs'), subs'[i].plan # "FREE"
        PROVE  (subs'[i].id \in paid /\ subs'[i].paidCycles = 0) \/ Mandated
    <3>1. CASE i \in 1 .. n
      BY <2>1, <3>1, <1>4 DEF Inv, SubsSound, SubSound
    <3>2. CASE i = n + 1
      BY <2>1, <3>2, <1>1, <1>4 DEF Sound, Backed, NewId
    <3> QED
      BY <1>3, <1>4, <3>1, <3>2
  <2> QED
    BY <2>1 DEF SubsSound, SubSound, Mandated, Create, gateway
<1>7. UniqueIds'
  <2>1. \A i \in 1 .. n : subs[i].id # doc.id
    BY DEF Create, Free
  <2> QED
    BY <1>3, <1>4, <2>1 DEF Inv, UniqueIds
<1>8. PICK m \in Call : Sound(c, m) /\ call' = [call EXCEPT ![c] = m]
  BY <1>1, CreatedSound DEF Create
<1>9. verified' \subseteq Orders
  BY VerifiedIsOrder DEF Create
<1> QED
  BY <1>5, <1>6, <1>7, <1>8, <1>9, StepKeeps DEF Create, Inv, TypeOK

LEMMA CreateRefusedKeeps ==
    ASSUME Inv, NEW c \in Actors, CreateRefused(c)
    PROVE  Inv'
BY AfterFailureKeeps DEF CreateRefused

LEMMA SyncUserPlanKeeps ==
    ASSUME Inv, NEW c \in Actors, SyncUserPlan(c)
    PROVE  Inv'
<1>1. call[c] \in Call /\ Sound(c, call[c]) /\ call[c].pc \in {"sync", "resync"}
  BY InHand DEF SyncUserPlan, At
<1>2. /\ UNCHANGED <<subs, gateway, now>>
      /\ plan' \in [Hosts -> Plans]
      /\ verified' \subseteq Orders /\ processed' \subseteq Event
  BY <1>1 DEF SyncUserPlan, Inv, TypeOK, Call
<1>3. ASSUME NEW pc \in {"link", "mark", "resync"}, Go(c, pc),
             pc \in {"link", "mark"} => call[c].task = "charge"
      PROVE  Inv'
  <2> DEFINE k == [call[c] EXCEPT !.pc = pc]
  <2>1. k \in Call
    BY <1>1 DEF Call
  <2>2. call' = [call EXCEPT ![c] = k]
    BY <1>3 DEF Go, Inv, TypeOK
  <2>3. Sound(c, k)
    BY <1>1, <1>3 DEF Sound, Call
  <2> HIDE DEF k
  <2> QED
    BY <1>2, <2>1, <2>2, <2>3, CallKeeps
<1>4. CASE Quit(c)
  BY <1>2, <1>4, QuitKeeps
<1>5. \/ Quit(c)
      \/ call[c].task = "charge" /\ Go(c, "link")
      \/ call[c].task = "charge" /\ Go(c, "mark")
      \/ Go(c, "resync") \/ GoOn(c)
  BY DEF SyncUserPlan
<1>6. CASE GoOn(c)
  BY <1>2, <1>6, GoOnKeeps
<1> QED
  BY <1>3, <1>4, <1>5, <1>6

LEMMA CreateSubscriptionKeeps ==
    ASSUME Inv, NEW c \in Actors, CreateSubscription(c)
    PROVE  Inv'
BY ReadCurrentKeeps, ReplaceActiveKeeps, CreateKeeps, CreateRefusedKeeps,
   SyncUserPlanKeeps DEF CreateSubscription

-----------------------------------------------------------------------------
(***************************************************************************)
(* The calls of the clients                                                *)
(***************************************************************************)

\* A call begins.
LEMMA BeginKeeps ==
    ASSUME Inv, NEW c \in Actors, NEW k \in Call, Sound(c, k), Begin(c, k)
    PROVE  Inv'
<1>1. /\ plan' \in [Hosts -> Plans] /\ verified' \subseteq Orders
      /\ processed' \subseteq Event /\ UNCHANGED <<subs, gateway, now>>
  BY DEF Begin, Inv, TypeOK
<1> QED
  BY <1>1, CallKeeps DEF Begin

LEMMA BeginVerifyKeeps ==
    ASSUME Inv, NEW c \in Clients, NEW o \in Orders, NEW h \in Hosts,
           NEW p \in Plans, BeginVerify(c, o, h, p)
    PROVE  Inv'
<1> DEFINE k == [Idle EXCEPT !.task = "verify", !.pc = "read", !.host = h,
                             !.plan = p, !.id = o]
<1>0. c \in Actors /\ c # Job /\ Len(subs) \in Nat /\ o \in paid
  BY SubscriptionsAssumption, Documents DEF Actors, BeginVerify
<1>1. k \in Call
  BY <1>0, IdleSound DEF Call, Ids, Idle
<1>2. Sound(c, k)
  BY <1>0 DEF Sound, Idle, Backed
<1>3. Begin(c, k)
  BY DEF BeginVerify
<1> HIDE DEF k
<1> QED
  BY <1>0, <1>1, <1>2, <1>3, BeginKeeps

LEMMA BeginFreeKeeps ==
    ASSUME Inv, NEW c \in Clients, NEW h \in Hosts, BeginFree(c, h)
    PROVE  Inv'
<1> DEFINE k == [Idle EXCEPT !.task = "free", !.pc = "read", !.host = h]
<1>0. c \in Actors /\ c # Job /\ Len(subs) \in Nat
  BY SubscriptionsAssumption, Documents DEF Actors
<1>1. k \in Call
  BY <1>0, IdleSound DEF Call, Idle
<1>2. Sound(c, k)
  BY <1>0 DEF Sound, Idle
<1>3. Begin(c, k)
  BY DEF BeginFree
<1> HIDE DEF k
<1> QED
  BY <1>0, <1>1, <1>2, <1>3, BeginKeeps

LEMMA BeginCancelKeeps ==
    ASSUME Inv, NEW c \in Clients, NEW h \in Hosts, BeginCancel(c, h)
    PROVE  Inv'
<1>0. c \in Actors /\ c # Job /\ Len(subs) \in Nat /\ Len(subs) <= MaxSubs
      /\ MaxSubs \in Nat
  BY SubscriptionsAssumption, Documents DEF Actors, Inv, TypeOK
<1>1. PICK i \in Running(h) :
          Begin(c, [Idle EXCEPT !.task = "cancel", !.pc = "expire", !.host = h,
                                !.sub = i])
  BY DEF BeginCancel
<1> DEFINE k == [Idle EXCEPT !.task = "cancel", !.pc = "expire", !.host = h,
                             !.sub = i]
<1>2. i \in 1 .. Len(subs) /\ i \in 0 .. MaxSubs
  BY <1>0 DEF Running
<1>3. k \in Call
  BY <1>0, <1>2, IdleSound DEF Call, Idle
<1>4. Sound(c, k)
  BY <1>0, <1>2 DEF Sound, Idle
<1> HIDE DEF k
<1>5. Begin(c, k)
  BY <1>1 DEF k
<1> QED
  BY <1>0, <1>3, <1>4, <1>5, BeginKeeps

LEMMA SaveExpiredKeeps ==
    ASSUME Inv, NEW c \in Actors, SaveExpired(c)
    PROVE  Inv'
<1> DEFINE k == [call[c] EXCEPT !.pc = "read"]
           s == call[c].sub
<1>1. call[c] \in Call /\ Sound(c, call[c]) /\ call[c].pc = "expire"
  BY InHand DEF SaveExpired, At
<1>2. k \in Call /\ Sound(c, k)
  BY <1>1 DEF Call, Sound
<1>3. call' = [call EXCEPT ![c] = k]
  BY DEF SaveExpired, Go, Inv, TypeOK
<1>4. s \in 1 .. Len(subs)
  BY <1>1, Documents DEF Sound, Call
<1>5. subs' = [i \in 1 .. Len(subs) |->
                  IF i = s THEN [subs[i] EXCEPT !.status = "expired"] ELSE subs[i]]
  BY <1>4, Documents DEF SaveExpired, Inv, TypeOK
<1>6. ASSUME NEW i \in 1 .. Len(subs)
      PROVE  /\ subs'[i] \in Subscription
             /\ subs'[i].host = subs[i].host /\ subs'[i].plan = subs[i].plan
             /\ subs'[i].id = subs[i].id
             /\ subs'[i].paidCycles = subs[i].paidCycles
  BY <1>5, Documents DEF Subscription, Status
<1>7. Grows /\ SubsSound' /\ UniqueIds'
  BY <1>5, <1>6, Rewritten DEF SaveExpired
<1> HIDE DEF k
<1> QED
  BY <1>2, <1>3, <1>7, StepKeeps DEF SaveExpired, Inv, TypeOK

\* The steps of the environment leave the documents and the calls alone.
LEMMA OutsideKeeps ==
    ASSUME Inv, UNCHANGED <<subs, call, plan, processed>>, TypeOK',
           paid \subseteq paid', IsFiniteSet(paid'),
           \A g \in Mandates : cycles[g] <= cycles'[g]
    PROVE  Inv'
<1>0. cycles \in [Mandates -> Nat] /\ cycles' \in [Mandates -> Nat]
  BY Bounds DEF Inv, TypeOK
<1>1. ASSUME Mandated PROVE Mandated'
  BY <1>0, <1>1 DEF Mandated
<1>2. ASSUME NEW id, Backed(id) PROVE Backed(id)'
  BY <1>1, <1>2 DEF Backed
<1>3. ASSUME NEW c \in Actors PROVE Sound(c, call[c])'
  <2> DEFINE k == call[c]
  <2>1. k \in Call /\ Sound(c, k) /\ k = call'[c]
    BY InHand
  <2>2. k.task = "charge" =>
            /\ k.event \in Event
            /\ k.event.kind = "charged" => k.event.cycle <= cycles'[k.event.of]
    <3> SUFFICES ASSUME k.task = "charge", k.event.kind = "charged"
                 PROVE  k.event.cycle <= cycles'[k.event.of]
      BY <2>1 DEF Sound
    <3>1. k.event \in Event /\ k.event.cycle <= cycles[k.event.of]
      BY <2>1 DEF Sound
    <3>2. k.event.of \in Mandates /\ k.event.cycle \in Nat
      BY <3>1, Bounds DEF Event, Cycle
    <3> QED
      BY <1>0, <3>1, <3>2
  <2> HIDE DEF k
  <2> QED
    BY <2>1, <2>2, <1>1, <1>2 DEF Sound
<1>4. SubsSound' /\ UniqueIds'
  BY <1>1 DEF Inv, SubsSound, SubSound, UniqueIds
<1> QED
  BY <1>3, <1>4 DEF Inv, CallsSound

LEMMA ForgetKeeps ==
    ASSUME Inv, NEW o \in Orders, Forget(o)
    PROVE  Inv'
<1>1. cycles \in [Mandates -> Nat]
  BY Bounds DEF Inv, TypeOK
<1>2. TypeOK'
  BY DEF Forget, Inv, TypeOK, gateway
<1> QED
  BY <1>1, <1>2, OutsideKeeps DEF Forget, Inv, gateway

LEMMA PayKeeps ==
    ASSUME Inv, NEW o \in Orders, Pay(o)
    PROVE  Inv'
<1>1. cycles \in [Mandates -> Nat]
  BY Bounds DEF Inv, TypeOK
<1>2. IsFiniteSet(paid')
  BY FS_AddElement DEF Pay, Inv
<1>3. TypeOK'
  BY DEF Pay, Inv, TypeOK
<1> QED
  BY <1>1, <1>2, <1>3, OutsideKeeps DEF Pay

LEMMA ChargeKeeps ==
    ASSUME Inv, NEW g \in Mandates, Charge(g)
    PROVE  Inv'
<1>1. MaxCycles \in Nat /\ cycles \in [Mandates -> 0 .. MaxCycles]
  BY Bounds DEF Inv, TypeOK
<1>2. cycles' \in [Mandates -> 0 .. MaxCycles]
  BY <1>1 DEF Charge
<1>3. \A m \in Mandates : cycles[m] <= cycles'[m]
  BY <1>1 DEF Charge
<1>4. TypeOK'
  BY <1>2 DEF Charge, Inv, TypeOK
<1> QED
  BY <1>3, <1>4, OutsideKeeps DEF Charge, Inv

LEMMA EndMandateKeeps ==
    ASSUME Inv, NEW g \in Mandates, EndMandate(g)
    PROVE  Inv'
<1>1. cycles \in [Mandates -> Nat]
  BY Bounds DEF Inv, TypeOK
<1>2. TypeOK'
  BY DEF EndMandate, Inv, TypeOK
<1> QED
  BY <1>1, <1>2, OutsideKeeps DEF EndMandate, Inv

LEMMA MonthPassesKeeps ==
    ASSUME Inv, MonthPasses
    PROVE  Inv'
<1>1. cycles \in [Mandates -> Nat]
  BY Bounds DEF Inv, TypeOK
<1>2. TypeOK'
  BY Bounds DEF MonthPasses, Inv, TypeOK, gateway
<1> QED
  BY <1>1, <1>2, OutsideKeeps DEF MonthPasses, Inv, gateway

-----------------------------------------------------------------------------
(***************************************************************************)
(* Webhooks                                                                *)
(***************************************************************************)
LEMMA DeliverKeeps ==
    ASSUME Inv, NEW c \in Hooks, NEW e \in Event, Deliver(c, e)
    PROVE  Inv'
<1> DEFINE k == [Idle EXCEPT !.task = "charge", !.pc = "check", !.event = e]
<1>0. c \in Actors /\ c # Job /\ Len(subs) \in Nat /\ Occurred(e)
  BY SubscriptionsAssumption, Documents DEF Actors, Deliver
<1>1. k \in Call
  BY <1>0, IdleSound DEF Call, Idle
<1>2. Sound(c, k)
  BY <1>0 DEF Sound, Idle, Occurred
<1>3. Begin(c, k)
  BY DEF Deliver
<1> HIDE DEF k
<1> QED
  BY <1>0, <1>1, <1>2, <1>3, BeginKeeps

LEMMA CheckLogKeeps ==
    ASSUME Inv, NEW c \in Actors, CheckLog(c)
    PROVE  Inv'
<1>0. /\ UNCHANGED <<subs, gateway, now>> /\ plan' \in [Hosts -> Plans]
      /\ verified' \subseteq Orders /\ processed' \subseteq Event
  BY DEF CheckLog, Inv, TypeOK
<1>1. CASE Quit(c)
  BY <1>0, <1>1, QuitKeeps
<1>2. CASE Go(c, "handle")
  <2> DEFINE k == [call[c] EXCEPT !.pc = "handle"]
  <2>1. k \in Call /\ Sound(c, k)
    BY InHand DEF Call, Sound, CheckLog, At
  <2>2. call' = [call EXCEPT ![c] = k]
    BY <1>2 DEF Go, Inv, TypeOK
  <2> HIDE DEF k
  <2> QED
    BY <1>0, <2>1, <2>2, CallKeeps
<1> QED
  BY <1>1, <1>2 DEF CheckLog

LEMMA HandleChargedKeeps ==
    ASSUME Inv, NEW c \in Actors, HandleCharged(c)
    PROVE  Inv'
<1> DEFINE e == call[c].event
<1>0. /\ UNCHANGED <<subs, gateway, now>> /\ plan' \in [Hosts -> Plans]
      /\ verified' \subseteq Orders /\ processed' \subseteq Event
  BY DEF HandleCharged, Inv, TypeOK
<1>1. /\ call[c] \in Call /\ Sound(c, call[c]) /\ call[c].pc = "handle"
      /\ call[c].task = "charge" /\ c # Job
  BY InHand DEF HandleCharged, At, Sound
<1>2. /\ e \in Event /\ e.of \in Mandates /\ e.cycle \in Cycle
      /\ e.cycle <= cycles[e.of]
  BY <1>1 DEF HandleCharged, Sound, Event
<1>3. cycles[e.of] > 0
  BY <1>2, Bounds DEF Cycle, Inv, TypeOK
<1>4. Mandated
  BY <1>2, <1>3 DEF Mandated
<1>5. ASSUME NEW i \in Holding(e.of),
             call' = [call EXCEPT ![c] =
                 [@ EXCEPT !.pc = "save", !.sub = i, !.host = subs[i].host,
                           !.plan = subs[i].plan, !.until = subs[i].until,
                           !.paidCycles = subs[i].paidCycles]]
      PROVE  Inv'
  <2> DEFINE k == [call[c] EXCEPT !.pc = "save", !.sub = i, !.host = subs[i].host,
                           !.plan = subs[i].plan, !.until = subs[i].until,
                           !.paidCycles = subs[i].paidCycles]
  <2>1. i \in 1 .. Len(subs) /\ subs[i] \in Subscription /\ subs[i].id = e.of
    BY Documents DEF Holding
  <2>2. i \in 0 .. MaxSubs
    BY <2>1, Bounds DEF Inv, TypeOK
  <2>3. k \in Call
    BY <1>1, <2>1, <2>2 DEF Call, Subscription
  <2>5. Sound(c, k)
    <3>1. k.sub <= Len(subs) /\ k.sub # 0 /\ k.host \in Hosts
      BY <1>1, <2>1, Documents DEF Subscription, Call
    <3>2. k.pc = "save" /\ k.task = "charge" /\ k.event = e /\ k.sub = i
          /\ k.batch = call[c].batch
      BY <1>1 DEF Call
    <3> HIDE DEF k
    <3> QED
      BY <1>1, <1>4, <3>1, <3>2 DEF Sound
  <2>6. call' = [call EXCEPT ![c] = k]
    BY <1>5 DEF Inv, TypeOK
  <2> HIDE DEF k
  <2> QED
    BY <1>0, <2>3, <2>5, <2>6, CallKeeps
<1>6. ASSUME call' = [call EXCEPT ![c] =
                 [@ EXCEPT !.pc = "read", !.host = Owner[e.of],
                           !.plan = PlanOf[e.of], !.id = <<e.of, e.cycle>>]]
      PROVE  Inv'
  <2> DEFINE k == [call[c] EXCEPT !.pc = "read", !.host = Owner[e.of],
                           !.plan = PlanOf[e.of], !.id = <<e.of, e.cycle>>]
  <2>1. /\ <<e.of, e.cycle>> \in Ids /\ Owner[e.of] \in Hosts
        /\ PlanOf[e.of] \in Plans
    BY <1>2, SubscriptionsAssumption DEF Ids, Plans
  <2>2. k \in Call
    BY <1>1, <2>1 DEF Call
  <2>3. Sound(c, k)
    <3>1. /\ k.pc = "read" /\ k.task = "charge" /\ k.event = e
          /\ k.host = Owner[e.of] /\ k.sub = call[c].sub
          /\ k.batch = call[c].batch
      BY <1>1 DEF Call
    <3> HIDE DEF k
    <3> QED
      BY <1>1, <1>4, <2>1, <3>1 DEF Sound, Backed
  <2>4. call' = [call EXCEPT ![c] = k]
    BY <1>6 DEF Inv, TypeOK
  <2> HIDE DEF k
  <2> QED
    BY <1>0, <2>2, <2>3, <2>4, CallKeeps
<1> QED
  BY <1>5, <1>6 DEF HandleCharged

LEMMA SavePaymentKeeps ==
    ASSUME Inv, NEW c \in Actors, SavePayment(c)
    PROVE  Inv'
<1> DEFINE k == [call[c] EXCEPT !.pc = "sync"]
           s == call[c].sub
<1>1. call[c] \in Call /\ Sound(c, call[c]) /\ call[c].pc = "save"
  BY InHand DEF SavePayment, At
<1>2. k \in Call /\ Sound(c, k)
  BY <1>1 DEF Call, Sound
<1>3. call' = [call EXCEPT ![c] = k]
  BY DEF SavePayment, Go, Inv, TypeOK
<1>4. s \in 1 .. Len(subs)
  BY <1>1, Documents DEF Sound, Call
<1>5. subs' = [i \in 1 .. Len(subs) |->
                  IF i = s THEN [subs[i] EXCEPT !.until = call[c].until + 1,
                                                !.paidCycles = call[c].paidCycles + 1]
                  ELSE subs[i]]
  BY <1>4, Documents DEF SavePayment, Inv, TypeOK, Subscription
<1>6. ASSUME NEW i \in 1 .. Len(subs)
      PROVE  /\ subs'[i] \in Subscription
             /\ subs'[i].host = subs[i].host /\ subs'[i].plan = subs[i].plan
             /\ subs'[i].id = subs[i].id
             /\ i # s => subs'[i].paidCycles = subs[i].paidCycles
  <2>1. subs[i] \in Subscription /\ call[c].until + 1 \in Nat
        /\ call[c].paidCycles + 1 \in Nat
    BY <1>1, Documents DEF Call
  <2>2. subs'[i] = IF i = s
                   THEN [subs[i] EXCEPT !.until = call[c].until + 1,
                                        !.paidCycles = call[c].paidCycles + 1]
                   ELSE subs[i]
    BY <1>5
  <2> HIDE DEF s
  <2> QED
    BY <2>1, <2>2 DEF Subscription
<1>7. subs' \in [1 .. Len(subs) -> Subscription]
  <2>1. DOMAIN subs' = 1 .. Len(subs) /\ subs' = [i \in DOMAIN subs' |-> subs'[i]]
    BY Documents DEF SavePayment, Inv, TypeOK
  <2> QED
    BY <2>1, <1>6
<1>8. Grows
  BY <1>6, <1>7, SameLength DEF Grows
<1>9. UniqueIds'
  BY <1>6, <1>7, SameLength DEF Inv, UniqueIds
<1>10. SubsSound'
  <2>1. ASSUME NEW i \in 1 .. Len(subs), subs'[i].plan # "FREE"
        PROVE  (subs'[i].id \in paid /\ subs'[i].paidCycles = 0) \/ Mandated
    <3>1. Mandated
      BY <1>1 DEF Sound
    <3> HIDE DEF s
    <3> QED
      BY <2>1, <3>1, <1>6 DEF Inv, SubsSound, SubSound
  <2> QED
    BY <2>1, <1>7, SameLength, ZenonT(60)
    DEF SubsSound, SubSound, Mandated, SavePayment, gateway
<1> HIDE DEF k
<1> QED
  BY <1>2, <1>3, <1>8, <1>9, <1>10, StepKeeps DEF SavePayment, Inv, TypeOK

LEMMA GoMarkKeeps ==
    ASSUME Inv, NEW c \in Actors, Go(c, "mark"), call[c].task = "charge",
           Grows, SubsSound', UniqueIds',
           UNCHANGED <<plan, verified, processed, gateway, now>>
    PROVE  Inv'
<1> DEFINE k == [call[c] EXCEPT !.pc = "mark"]
<1>1. k \in Call
  BY InHand DEF Call
<1>2. Sound(c, k)
  BY InHand DEF Call, Sound
<1>3. call' = [call EXCEPT ![c] = k]
  BY DEF Go, Inv, TypeOK
<1>4. /\ plan' \in [Hosts -> Plans] /\ verified' \subseteq Orders
      /\ processed' \subseteq Event /\ UNCHANGED <<gateway, now>>
  BY DEF Inv, TypeOK
<1> HIDE DEF k
<1> QED
  BY <1>1, <1>2, <1>3, <1>4, StepKeeps

LEMMA LinkKeeps ==
    ASSUME Inv, NEW c \in Actors, Link(c)
    PROVE  Inv'
<1> DEFINE k == call[c]
           g == call[c].event.of
           Fit == {i \in Running(k.host) : subs[i].plan = k.plan}
<1>0. UNCHANGED <<plan, verified, processed, gateway, now>>
  BY DEF Link
<1>1. /\ k \in Call /\ Sound(c, k) /\ k.pc = "link" /\ k.task = "charge"
      /\ Mandated /\ k.event \in Event /\ g \in Mandates
  <2>1. k \in Call /\ Sound(c, k) /\ k.pc = "link"
    BY InHand DEF Link, At
  <2>2. k.task = "charge" /\ Mandated /\ k.event \in Event
    BY <2>1 DEF Sound
  <2> QED
    BY <2>1, <2>2 DEF Event
<1>2. CASE Go(c, "mark") /\ UNCHANGED subs
  <2>1. Grows /\ SubsSound' /\ UniqueIds'
    BY <1>0, <1>2, Documents DEF Grows, Inv, TypeOK, SubsSound, SubSound, UniqueIds,
                                 Mandated, gateway
  <2> QED
    BY <1>0, <1>1, <1>2, <2>1, GoMarkKeeps
<1>3. CASE Quit(c) /\ UNCHANGED subs
  BY <1>0, <1>3, QuitKeeps DEF Inv, TypeOK
<1>4. ASSUME NEW i \in Fit, Holding(g) \subseteq {i}, Go(c, "mark"),
             subs' = [subs EXCEPT ![i].id = g]
      PROVE  Inv'
  <2>1. i \in 1 .. Len(subs) /\ subs[i].host = k.host
    BY DEF Running
  <2>2. subs' = [j \in 1 .. Len(subs) |->
                    IF j = i THEN [subs[j] EXCEPT !.id = g] ELSE subs[j]]
    BY <1>4, <2>1, Documents
  <2>3. ASSUME NEW j \in 1 .. Len(subs)
        PROVE  /\ subs'[j] \in Subscription
               /\ subs'[j].host = subs[j].host /\ subs'[j].plan = subs[j].plan
               /\ subs'[j].id = IF j = i THEN g ELSE subs[j].id
               /\ subs'[j].paidCycles = subs[j].paidCycles
    <3>1. g \in Ids
      BY <1>1 DEF Ids
    <3> HIDE DEF g, k
    <3> QED
      BY <2>2, <3>1, Documents DEF Subscription
  <2>4. subs' \in [1 .. Len(subs) -> Subscription]
    BY <2>2, <2>3
  <2>5. Grows
    BY <2>3, <2>4, SameLength DEF Grows
  <2>6. UniqueIds'
    <3>1. \A j \in 1 .. Len(subs) : subs[j].id = g => j = i
      BY <1>4 DEF Holding
    <3> HIDE DEF g
    <3> QED
      BY <2>3, <2>4, <3>1, SameLength DEF Inv, UniqueIds
  <2>7. SubsSound'
    <3>1. ASSUME NEW j \in 1 .. Len(subs), subs'[j].plan # "FREE"
          PROVE  (subs'[j].id \in paid /\ subs'[j].paidCycles = 0) \/ Mandated
      <4> HIDE DEF g, k
      <4> QED
        BY <1>1, <2>1, <2>3, <3>1 DEF Inv, SubsSound, SubSound
    <3> QED
      BY <3>1, <2>4, <1>0, SameLength DEF SubsSound, SubSound, Mandated, gateway
  <2> QED
    BY <1>0, <1>1, <1>4, <2>5, <2>6, <2>7, GoMarkKeeps
<1> QED
  BY <1>2, <1>3, <1>4 DEF Link

LEMMA HandleEndedKeeps ==
    ASSUME Inv, NEW c \in Actors, HandleEnded(c)
    PROVE  Inv'
<1> DEFINE e == call[c].event
           new(i) == IF subs[i].id # e.of THEN subs[i]
                     ELSE IF e.kind = "completed"
                     THEN [subs[i] EXCEPT !.status = "expired"]
                     ELSE IF Active(i) THEN [subs[i] EXCEPT !.status = "cancelled"]
                     ELSE subs[i]
<1>1. call[c].task = "charge"
  BY InHand DEF HandleEnded, At, Sound
<1>2. ASSUME NEW i \in 1 .. Len(subs)
      PROVE  /\ new(i) \in Subscription
             /\ new(i).host = subs[i].host /\ new(i).plan = subs[i].plan
             /\ new(i).id = subs[i].id /\ new(i).paidCycles = subs[i].paidCycles
  <2>1. subs[i] \in Subscription
    BY Documents
  <2> QED
    BY <2>1 DEF Subscription, Status
<1>3. subs' = [i \in 1 .. Len(subs) |-> new(i)]
  BY DEF HandleEnded
<1> HIDE DEF e, new
<1>4. Grows /\ SubsSound' /\ UniqueIds'
  BY <1>2, <1>3, Rewritten DEF HandleEnded
<1> QED
  BY <1>1, <1>4, GoMarkKeeps DEF HandleEnded

LEMMA MarkProcessedKeeps ==
    ASSUME Inv, NEW c \in Actors, MarkProcessed(c)
    PROVE  Inv'
<1>1. call[c].event \in Event
  BY InHand DEF MarkProcessed, At, Sound
<1>2. /\ plan' \in [Hosts -> Plans] /\ verified' \subseteq Orders
      /\ processed' \subseteq Event /\ UNCHANGED <<subs, gateway, now>>
  BY <1>1 DEF MarkProcessed, Inv, TypeOK
<1> QED
  BY <1>2, QuitKeeps DEF MarkProcessed

-----------------------------------------------------------------------------
(***************************************************************************)
(* The expiry job, and the restart                                         *)
(***************************************************************************)
LEMMA FindOverdueKeeps ==
    ASSUME Inv, FindOverdue
    PROVE  Inv'
<1> DEFINE Late == {i \in 1 .. Len(subs) : Overdue(i)}
           k == [Idle EXCEPT !.task = "expire", !.pc = "next", !.batch = Late]
<1>0. Job \in Actors /\ Len(subs) \in Nat /\ Late \subseteq 1 .. MaxSubs
  BY Documents, Bounds DEF Actors, Inv, TypeOK
<1>1. k \in Call
  BY <1>0, IdleSound DEF Call, Idle
<1>2. Sound(Job, k)
  BY <1>0 DEF Sound, Idle
<1>3. Begin(Job, k)
  BY DEF FindOverdue
<1> HIDE DEF k
<1> QED
  BY <1>0, <1>1, <1>2, <1>3, BeginKeeps

LEMMA NextOverdueKeeps ==
    ASSUME Inv, NextOverdue
    PROVE  Inv'
<1>0. /\ Job \in Actors /\ UNCHANGED <<subs, gateway, now>>
      /\ plan' \in [Hosts -> Plans]
      /\ verified' \subseteq Orders /\ processed' \subseteq Event
  BY DEF NextOverdue, Actors, Inv, TypeOK
<1>1. /\ call[Job] \in Call /\ Sound(Job, call[Job]) /\ call[Job].pc = "next"
  BY <1>0, InHand DEF NextOverdue, At
<1>2. CASE Quit(Job)
  BY <1>0, <1>2, QuitKeeps
<1>3. ASSUME NEW i \in call[Job].batch,
             call' = [call EXCEPT ![Job].pc = "expire", ![Job].sub = i,
                                  ![Job].host = subs[i].host,
                                  ![Job].batch = @ \ {i}]
      PROVE  Inv'
  <2> DEFINE k == [call[Job] EXCEPT !.pc = "expire", !.sub = i,
                       !.host = subs[i].host, !.batch = @ \ {i}]
  <2>1. i \in 1 .. Len(subs) /\ subs[i].host \in Hosts
    BY <1>1, Documents DEF Sound, Subscription
  <2>2. i \in 0 .. MaxSubs
    BY <2>1, Bounds DEF Inv, TypeOK
  <2>3. k \in Call
    BY <1>1, <2>1, <2>2 DEF Call
  <2>4. Sound(Job, k)
    BY <1>1, <2>1, Documents DEF Sound, Call
  <2>5. call' = [call EXCEPT ![Job] = k]
    BY <1>0, <1>3 DEF Inv, TypeOK
  <2> HIDE DEF k
  <2> QED
    BY <1>0, <2>3, <2>4, <2>5, CallKeeps
<1> QED
  BY <1>2, <1>3 DEF NextOverdue

LEMMA CrashKeeps ==
    ASSUME Inv, Crash
    PROVE  Inv'
<1>1. TypeOK'
  BY IdleSound DEF Crash, Inv, TypeOK, gateway
<1>2. CallsSound'
  <2> SUFFICES ASSUME NEW c \in Actors PROVE Sound(c, call[c])'
    BY DEF CallsSound
  <2>1. call'[c] = Idle /\ Len(subs) \in Nat /\ subs' = subs
    BY Documents DEF Crash
  <2> QED
    BY <2>1 DEF Sound, Idle
<1>3. SubsSound' /\ UniqueIds' /\ IsFiniteSet(paid')
  BY DEF Crash, Inv, SubsSound, SubSound, UniqueIds, Mandated, gateway
<1> QED
  BY <1>1, <1>2, <1>3 DEF Inv

-----------------------------------------------------------------------------
LEMMA InvInit == Init => Inv
<1> SUFFICES ASSUME Init PROVE Inv
  OBVIOUS
<1>1. Idle \in Call
  BY Bounds DEF Idle, Call, Plans, Ids
<1>2. TypeOK
  BY <1>1, Bounds DEF Init, TypeOK, Plans
<1>3. CallsSound
  BY DEF Init, CallsSound, Sound, Idle
<1> QED
  BY <1>2, <1>3, FS_EmptySet DEF Init, Inv, SubsSound, UniqueIds

LEMMA InvNext == Inv /\ [Next]_vars => Inv'
<1> SUFFICES ASSUME Inv, [Next]_vars PROVE Inv'
  OBVIOUS
<1>0. Clients \subseteq Actors /\ Hooks \subseteq Actors /\ Job \in Actors
  BY DEF Actors
<1>1. CASE GatewayNext
  BY <1>1, PayKeeps, ChargeKeeps, EndMandateKeeps DEF GatewayNext
<1>2. CASE MonthPasses
  BY <1>2, MonthPassesKeeps
<1>3. CASE ClientNext
  BY <1>0, <1>3, SaveExpiredKeeps, CreateSubscriptionKeeps, BeginVerifyKeeps,
     BeginFreeKeeps, BeginCancelKeeps DEF ClientNext, ClientStep
<1>4. CASE HookNext
  BY <1>0, <1>4, CheckLogKeeps, HandleChargedKeeps, SavePaymentKeeps, LinkKeeps,
     HandleEndedKeeps, MarkProcessedKeeps, CreateSubscriptionKeeps, DeliverKeeps
  DEF HookNext, HookStep
<1>5. CASE JobNext
  BY <1>0, <1>5, FindOverdueKeeps, NextOverdueKeeps, SaveExpiredKeeps,
     CreateSubscriptionKeeps DEF JobNext, JobStep
<1>6. CASE Crash
  BY <1>6, CrashKeeps
<1>7. CASE \E o \in Orders : Forget(o)
  BY <1>7, ForgetKeeps
<1>8. CASE UNCHANGED vars
  <2>1. cycles \in [Mandates -> Nat]
    BY Bounds DEF Inv, TypeOK
  <2>2. TypeOK'
    BY <1>8 DEF vars, Inv, TypeOK
  <2> QED
    BY <1>8, <2>1, <2>2, OutsideKeeps DEF vars, Inv
<1>9. CASE \E c \in Actors : Fail(c)
  BY <1>9, FailKeeps
<1> QED
  BY <1>1, <1>2, <1>3, <1>4, <1>5, <1>6, <1>7, <1>8, <1>9 DEF Next

\* What the documents and the calls hold is always backed by a payment.
THEOREM InvAlways == Spec => []Inv
BY InvInit, InvNext, PTL DEF Spec

\* Every variable has its type, whichever calls interleave.
THEOREM TypeCorrect == Spec => []TypeOK
<1>1. Inv => TypeOK
  BY DEF Inv
<1> QED
  BY <1>1, InvAlways, PTL

-----------------------------------------------------------------------------
\* No document that is not active is active afterwards.
Retired == \A i \in 1 .. Len(subs) : ~Active(i) => ~Active(i)'

LEMMA UnchangedRetired == ASSUME UNCHANGED subs PROVE Retired
BY DEF Retired, Active

LEMMA CreateSubscriptionRetires ==
    ASSUME Inv, NEW c \in Actors, CreateSubscription(c)
    PROVE  Retired
<1>1. CASE ReadCurrent(c) \/ CreateRefused(c) \/ SyncUserPlan(c)
  BY <1>1, UnchangedRetired DEF ReadCurrent, CreateRefused, SyncUserPlan
<1>2. CASE ReplaceActive(c)
  <2> SUFFICES ASSUME NEW i \in 1 .. Len(subs), ~Active(i)
               PROVE  subs'[i] = subs[i]
    BY DEF Retired, Active
  <2> QED
    BY <1>2 DEF ReplaceActive, Running
<1>3. CASE Create(c)
  <2>1. PICK doc : subs' = Append(subs, doc)
    BY <1>3 DEF Create
  <2>2. \A i \in 1 .. Len(subs) : subs'[i] = subs[i]
    BY <2>1, Documents DEF Inv, TypeOK
  <2> QED
    BY <2>2 DEF Retired, Active
<1> QED
  BY <1>1, <1>2, <1>3 DEF CreateSubscription

LEMMA SaveExpiredRetires ==
    ASSUME Inv, NEW c \in Actors, SaveExpired(c)
    PROVE  Retired
<1> SUFFICES ASSUME NEW i \in 1 .. Len(subs), ~Active(i)
             PROVE  subs'[i].status # "active"
  BY DEF Retired, Active
<1>1. subs[i] \in Subscription
  BY Documents
<1> QED
  BY <1>1, Documents DEF SaveExpired, Active, Subscription

LEMMA HookStepRetires ==
    ASSUME Inv, NEW c \in Actors, HookStep(c)
    PROVE  Retired
<1>1. CASE CheckLog(c) \/ HandleCharged(c) \/ MarkProcessed(c)
  BY <1>1, UnchangedRetired DEF CheckLog, HandleCharged, MarkProcessed
<1>2. CASE SavePayment(c)
  <2> SUFFICES ASSUME NEW i \in 1 .. Len(subs), ~Active(i)
               PROVE  subs'[i].status # "active"
    BY DEF Retired, Active
  <2>1. subs[i] \in Subscription
    BY Documents
  <2>2. subs'[i] = subs[i] \/
        \E u, n : subs'[i] = [subs[i] EXCEPT !.until = u, !.paidCycles = n]
    BY <1>2, Documents DEF SavePayment
  <2> QED
    BY <2>1, <2>2 DEF Active, Subscription
<1>3. CASE Link(c)
  <2> SUFFICES ASSUME NEW i \in 1 .. Len(subs), ~Active(i)
               PROVE  subs'[i].status # "active"
    BY DEF Retired, Active
  <2> QED
    BY <1>3, Documents DEF Link, Running, Active
<1>4. CASE HandleEnded(c)
  <2> SUFFICES ASSUME NEW i \in 1 .. Len(subs), ~Active(i)
               PROVE  subs'[i].status # "active"
    BY DEF Retired, Active
  <2>1. subs[i] \in Subscription
    BY Documents
  <2> QED
    BY <1>4, <2>1 DEF HandleEnded, Active, Subscription
<1> QED
  BY <1>1, <1>2, <1>3, <1>4, CreateSubscriptionRetires DEF HookStep

\* A subscription that was replaced, cancelled or expired is never brought back,
\* whatever a payment, a webhook or the job had read before.
THEOREM RetiredStaysAlways == Spec => RetiredStays
<1>1. Inv /\ [Next]_vars => [Retired]_vars
  <2> SUFFICES ASSUME Inv, Next PROVE Retired
    OBVIOUS
  <2>0. Clients \subseteq Actors /\ Hooks \subseteq Actors /\ Job \in Actors
    BY DEF Actors
  <2>1. CASE GatewayNext \/ MonthPasses \/ Crash \/ \E o \in Orders : Forget(o)
    BY <2>1, UnchangedRetired
    DEF GatewayNext, Pay, Charge, EndMandate, MonthPasses, Crash, Forget
  <2>2. CASE ClientNext
    BY <2>0, <2>2, CreateSubscriptionRetires, SaveExpiredRetires, UnchangedRetired
    DEF ClientNext, ClientStep, BeginVerify, BeginFree, BeginCancel, Begin
  <2>3. CASE HookNext
    BY <2>0, <2>3, HookStepRetires, UnchangedRetired
    DEF HookNext, Deliver, Begin
  <2>4. CASE JobNext
    BY <2>0, <2>4, CreateSubscriptionRetires, SaveExpiredRetires, UnchangedRetired
    DEF JobNext, JobStep, FindOverdue, NextOverdue, Begin
  <2>5. CASE \E c \in Actors : Fail(c)
    BY <2>5, UnchangedRetired DEF Fail
  <2> QED
    BY <2>1, <2>2, <2>3, <2>4, <2>5 DEF Next
<1> QED
  BY <1>1, InvAlways, PTL DEF Spec, RetiredStays, Retired

\* Without mandates the hosts are never granted more months than orders were paid,
\* however often, by whomever and whenever they are verified, for whatever plan,
\* and whatever is forgotten: each document stands for one month, and the unique
\* index gives each its own order.
THEOREM MonthsArePaidAlways == Spec => []MonthsArePaid
<1>1. Inv => MonthsArePaid
  <2> SUFFICES ASSUME Inv, \A g \in Mandates : cycles[g] = 0
               PROVE  Granted(PaidSubs) <= Cardinality(paid)
    BY DEF MonthsArePaid
  <2> DEFINE M == Months(PaidSubs)
             f == [m \in M |-> subs[m[1]].id]
  <2>1. ~Mandated
    BY DEF Mandated
  <2>2. ASSUME NEW i \in PaidSubs
        PROVE  /\ i \in 1 .. Len(subs) /\ subs[i].id \in paid
               /\ subs[i].paidCycles = 0
    BY <2>1 DEF PaidSubs, Inv, SubsSound, SubSound
  <2>3. ASSUME NEW m \in M
        PROVE  m[1] \in PaidSubs /\ m = <<m[1], 0>>
    <3>1. PICK i \in PaidSubs : m \in {i} \X (0 .. subs[i].paidCycles)
      BY DEF Months
    <3> QED
      BY <3>1, <2>2
  <2> HIDE DEF M
  <2>4. f \in [M -> paid]
    BY <2>2, <2>3
  <2>5. \A m, n \in M : f[m] = f[n] => m = n
    BY <2>2, <2>3 DEF Inv, UniqueIds
  <2>6. f \in Injection(M, paid)
    BY <2>4, <2>5 DEF Injection, IsInjective
  <2>7. IsFiniteSet(paid)
    BY DEF Inv
  <2> HIDE DEF f
  <2>8. Cardinality(M) <= Cardinality(paid)
    BY <2>6, <2>7, FS_Injection
  <2> QED
    BY <2>8 DEF Granted, M
<1> QED
  BY <1>1, InvAlways, PTL

=============================================================================
