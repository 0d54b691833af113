----------------------- MODULE StatePersistence_proofs -----------------------
(***************************************************************************)
(* Theorems about StatePersistence, for any submissions, calls and         *)
(* overlapping runs, and any limits.                                       *)
(***************************************************************************)
EXTENDS StatePersistence, TLAPS

\* A call at work has a submission, and a run puts back an entry it has.
Busy ==
    /\ \A c \in Calls : call[c].pc # "idle" => call[c].item \in Items
    /\ \A p \in Runs : run[p].pc = "requeue" => run[p].items # <<>>

Inv == TypeOK /\ Busy /\ NothingForgotten

\* i is held by a call, by a run, in memory or in Redis: Waiting, spelt out.
Held(i) ==
    \/ \E c \in Calls : call[c].pc # "idle" /\ call[c].item = i
    \/ \E p \in Runs : i \in ItemsOf(run[p].items)
    \/ i \in ItemsOf(memory)
    \/ i \in ItemsOf(redis)

Settled(i) == stored[i] > 0 \/ i \in refused \cup givenUp \cup lost

\* What a step owes to NothingForgotten: what was held or settled still is.
Keeps ==
    /\ \A i \in begun' \ begun : Held(i)'
    /\ \A i \in begun : Held(i) => Held(i)' \/ Settled(i)'
    /\ \A i \in begun : Settled(i) => Settled(i)'

-----------------------------------------------------------------------------
(* What the entries of a sequence are after each operation on it. *)

LEMMA ItemsOfAppend ==
    ASSUME NEW s \in Seq(Entry), NEW e \in Entry
    PROVE  /\ Append(s, e) \in Seq(Entry)
           /\ ItemsOf(Append(s, e)) = ItemsOf(s) \cup {e.item}
  <1>1. /\ Len(Append(s, e)) = Len(s) + 1 /\ Len(s) \in Nat
        /\ \A n \in 1 .. Len(s) : Append(s, e)[n] = s[n]
        /\ Append(s, e)[Len(s) + 1] = e
    OBVIOUS
  <1>2. 1 .. Len(s) + 1 = (1 .. Len(s)) \cup {Len(s) + 1}
    BY <1>1
  <1> QED BY <1>1, <1>2 DEF ItemsOf

LEMMA ItemsOfTail ==
    ASSUME NEW s \in Seq(Entry), s # <<>>
    PROVE  /\ Tail(s) \in Seq(Entry) /\ Head(s) \in Entry /\ Head(s) = s[1]
           /\ ItemsOf(s) = {Head(s).item} \cup ItemsOf(Tail(s))
  <1>1. /\ Len(s) \in Nat /\ Len(s) > 0 /\ Len(Tail(s)) = Len(s) - 1
        /\ Tail(s) \in Seq(Entry) /\ Head(s) = s[1] /\ Head(s) \in Entry
        /\ \A n \in 1 .. Len(s) - 1 : Tail(s)[n] = s[n + 1]
    OBVIOUS
  <1>2. ItemsOf(s) \subseteq {Head(s).item} \cup ItemsOf(Tail(s))
    <2> SUFFICES ASSUME NEW i \in ItemsOf(s) PROVE i \in {Head(s).item} \cup ItemsOf(Tail(s))
      OBVIOUS
    <2>1. PICK n \in 1 .. Len(s) : i = s[n].item
      BY DEF ItemsOf
    <2>2. CASE n = 1 BY <2>1, <2>2, <1>1
    <2>3. CASE n # 1
      <3>1. n - 1 \in 1 .. Len(s) - 1 /\ (n - 1) + 1 = n
        BY <2>3, <1>1
      <3> QED BY <3>1, <2>1, <1>1 DEF ItemsOf
    <2> QED BY <2>2, <2>3
  <1>3. ItemsOf(Tail(s)) \subseteq ItemsOf(s)
    <2> SUFFICES ASSUME NEW i \in ItemsOf(Tail(s)) PROVE i \in ItemsOf(s)
      OBVIOUS
    <2>1. PICK n \in 1 .. Len(s) - 1 : i = Tail(s)[n].item
      BY <1>1 DEF ItemsOf
    <2>2. n + 1 \in 1 .. Len(s)
      BY <1>1
    <2> QED BY <2>1, <2>2, <1>1 DEF ItemsOf
  <1>4. Head(s).item \in ItemsOf(s)
    BY <1>1 DEF ItemsOf
  <1> QED BY <1>1, <1>2, <1>3, <1>4

LEMMA ItemsOfConcat ==
    ASSUME NEW s \in Seq(Entry), NEW t \in Seq(Entry)
    PROVE  s \o t \in Seq(Entry) /\ ItemsOf(s \o t) = ItemsOf(s) \cup ItemsOf(t)
  <1>1. /\ Len(s) \in Nat /\ Len(t) \in Nat /\ Len(s \o t) = Len(s) + Len(t)
        /\ \A n \in 1 .. Len(s) + Len(t) :
              (s \o t)[n] = IF n <= Len(s) THEN s[n] ELSE t[n - Len(s)]
        /\ s \o t \in Seq(Entry)
    OBVIOUS
  <1>2. ItemsOf(s \o t) \subseteq ItemsOf(s) \cup ItemsOf(t)
    <2> SUFFICES ASSUME NEW i \in ItemsOf(s \o t) PROVE i \in ItemsOf(s) \cup ItemsOf(t)
      OBVIOUS
    <2>1. PICK n \in 1 .. Len(s) + Len(t) : i = (s \o t)[n].item
      BY <1>1 DEF ItemsOf
    <2>2. CASE n <= Len(s)
      <3>1. n \in 1 .. Len(s) /\ (s \o t)[n] = s[n]
        BY <2>2, <1>1
      <3> QED BY <3>1, <2>1 DEF ItemsOf
    <2>3. CASE n > Len(s)
      <3>1. n - Len(s) \in 1 .. Len(t) /\ (s \o t)[n] = t[n - Len(s)]
        BY <2>3, <1>1
      <3> QED BY <3>1, <2>1 DEF ItemsOf
    <2> QED BY <2>2, <2>3, <1>1
  <1>3. ItemsOf(s) \subseteq ItemsOf(s \o t)
    <2> SUFFICES ASSUME NEW i \in ItemsOf(s) PROVE i \in ItemsOf(s \o t)
      OBVIOUS
    <2>1. PICK n \in 1 .. Len(s) : i = s[n].item
      BY DEF ItemsOf
    <2>2. n \in 1 .. Len(s \o t) /\ (s \o t)[n] = s[n]
      BY <1>1
    <2> QED BY <2>1, <2>2 DEF ItemsOf
  <1>4. ItemsOf(t) \subseteq ItemsOf(s \o t)
    <2> SUFFICES ASSUME NEW i \in ItemsOf(t) PROVE i \in ItemsOf(s \o t)
      OBVIOUS
    <2>1. PICK n \in 1 .. Len(t) : i = t[n].item
      BY DEF ItemsOf
    <2>2. n + Len(s) \in 1 .. Len(s \o t) /\ (s \o t)[n + Len(s)] = t[n]
      BY <1>1
    <2> QED BY <2>1, <2>2 DEF ItemsOf
  <1> QED BY <1>1, <1>2, <1>3, <1>4

LEMMA ItemsOfEmpty == <<>> \in Seq(Entry) /\ ItemsOf(<<>>) = {}
  BY DEF ItemsOf

\* Counting a try of the entry at the head changes no submission.
LEMMA ItemsOfCounted ==
    ASSUME NEW s \in Seq(Entry), s # <<>>, Head(s).retryCount + 1 < MaxRetries
    PROVE  /\ Counted(s) \in Seq(Entry) /\ Counted(s) # <<>>
           /\ ItemsOf(Counted(s)) = ItemsOf(s)
  <1> DEFINE e == [Head(s) EXCEPT !.retryCount = @ + 1]
  <1>1. MaxRetries \in Nat /\ Head(s) \in Entry
    BY ItemsOfTail, StatePersistenceAssumption
  <1>2. e \in Entry /\ e.item = Head(s).item
    <2>1. e = [item |-> Head(s).item, retryCount |-> Head(s).retryCount + 1]
      BY <1>1 DEF Entry
    <2>2. Head(s).item \in Items /\ Head(s).retryCount \in Nat
      BY <1>1 DEF Entry
    <2> QED BY <1>1, <2>1, <2>2 DEF Entry
  <1> HIDE DEF e
  <1>3. <<e>> \in Seq(Entry) /\ ItemsOf(<<e>>) = {e.item}
    BY <1>2 DEF ItemsOf
  <1>4. /\ <<e>> \o Tail(s) \in Seq(Entry)
        /\ ItemsOf(<<e>> \o Tail(s)) = {e.item} \cup ItemsOf(Tail(s))
    <2> DEFINE one == <<e>>  rest == Tail(s)
    <2>1. one \in Seq(Entry) /\ rest \in Seq(Entry) /\ ItemsOf(one) = {e.item}
      BY <1>3, ItemsOfTail
    <2> HIDE DEF one, rest
    <2>2. one \o rest \in Seq(Entry) /\ ItemsOf(one \o rest) = {e.item} \cup ItemsOf(rest)
      BY <2>1, ItemsOfConcat
    <2> QED BY <2>2 DEF one, rest
  <1>5. <<e>> \o Tail(s) # <<>>
    BY <1>2, ItemsOfTail
  <1> QED BY <1>2, <1>4, <1>5, ItemsOfTail DEF Counted, e

-----------------------------------------------------------------------------
LEMMA WaitingIsHeld == \A i : i \in Waiting <=> Held(i)
  BY DEF Waiting, InHand, Held

\* A step that keeps what is held or settled forgets nothing.
LEMMA Remembers ==
    ASSUME NothingForgotten, Keeps
    PROVE  NothingForgotten'
  <1>1. \A i \in begun : Held(i) \/ Settled(i)
    BY WaitingIsHeld DEF NothingForgotten, Settled
  <1>2. \A i \in begun' : Held(i)' \/ Settled(i)'
    BY <1>1 DEF Keeps
  <1>3. (\A i : i \in Waiting <=> Held(i))'
    BY DEF Waiting, InHand, Held
  <1> QED BY <1>2, <1>3 DEF NothingForgotten, Settled

LEMMA Limits ==
    /\ MaxAttempts \in Nat /\ MaxRetries \in Nat /\ MaxFaults \in Nat
    /\ MaxAttempts > 0 /\ MaxRetries > 0
  BY StatePersistenceAssumption

LEMMA InitInv == Init => Inv
  <1> SUFFICES ASSUME Init PROVE Inv
    OBVIOUS
  <1>1. TypeOK
    BY Limits, ItemsOfEmpty DEF Init, TypeOK, IdleCall, IdleRun
  <1> QED BY <1>1 DEF Init, Inv, Busy, NothingForgotten, IdleCall, IdleRun

\* Queueing an entry: it is in one of the two queues afterwards, and nothing
\* leaves them.
LEMMA Pushed ==
    ASSUME TypeOK, NEW entry \in Entry, Push(entry)
    PROVE  /\ redis' \in Seq(Entry) /\ memory' \in Seq(Entry)
           /\ hidden' \in [Items -> Nat] /\ faults' \in 0 .. MaxFaults
           /\ entry.item \in ItemsOf(redis') \cup ItemsOf(memory')
           /\ ItemsOf(redis) \subseteq ItemsOf(redis')
           /\ ItemsOf(memory) \subseteq ItemsOf(memory')
  <1>1. redis \in Seq(Entry) /\ memory \in Seq(Entry) /\ entry.item \in Items
    BY DEF TypeOK, Entry
  <1>2. /\ redis' = redis \/ redis' = Append(redis, entry)
        /\ memory' = memory \/ memory' = Append(memory, entry)
        /\ redis' = Append(redis, entry) \/ memory' = Append(memory, entry)
    BY DEF Push
  <1>3. hidden' \in [Items -> Nat] /\ faults' \in 0 .. MaxFaults
    <2>1. hidden' = hidden \/ hidden' = [hidden EXCEPT ![entry.item] = @ + 1]
      BY DEF Push
    <2>2. faults' = faults \/ (faults < MaxFaults /\ faults' = faults + 1)
      BY DEF Push, Fault
    <2>3. hidden' \in [Items -> Nat]
      <3>1. hidden \in [Items -> Nat]
        BY DEF TypeOK
      <3>2. CASE hidden' = [hidden EXCEPT ![entry.item] = @ + 1]
        <4> DEFINE i == entry.item
        <4>1. i \in Items /\ hidden' = [hidden EXCEPT ![i] = @ + 1]
          BY <1>1, <3>2
        <4> HIDE DEF i
        <4> QED BY <3>1, <4>1
      <3> QED BY <2>1, <3>1, <3>2
    <2>4. faults' \in 0 .. MaxFaults
      BY <2>2, Limits DEF TypeOK
    <2> QED BY <2>3, <2>4
  <1>4. /\ Append(redis, entry) \in Seq(Entry) /\ Append(memory, entry) \in Seq(Entry)
        /\ ItemsOf(Append(redis, entry)) = ItemsOf(redis) \cup {entry.item}
        /\ ItemsOf(Append(memory, entry)) = ItemsOf(memory) \cup {entry.item}
    BY <1>1, ItemsOfAppend
  <1> QED BY <1>1, <1>2, <1>3, <1>4

\* A command to Mongo counts, and takes no document away.
LEMMA Commanded ==
    ASSUME TypeOK, NEW i \in Items, Succeeds(i) \/ Fails(i)
    PROVE  /\ stored' \in [Items -> Nat] /\ tries' \in [Items -> Nat]
           /\ hidden' \in [Items -> Nat] /\ faults' \in 0 .. MaxFaults
           /\ \A j \in Items : stored[j] > 0 => stored'[j] > 0
           /\ Succeeds(i) => stored'[i] > 0
  <1>1. stored' = stored \/ stored' = [stored EXCEPT ![i] = @ + 1]
    BY DEF Succeeds, Fails
  <1>2. tries' = [tries EXCEPT ![i] = @ + 1]
    BY DEF Succeeds, Fails
  <1>3. hidden' = hidden \/ hidden' = [hidden EXCEPT ![i] = @ + 1]
    BY DEF Succeeds, Fails
  <1>4. faults' = faults \/ (faults < MaxFaults /\ faults' = faults + 1)
    BY DEF Succeeds, Fails, Fault
  <1>5. Succeeds(i) => stored' = [stored EXCEPT ![i] = @ + 1]
    BY DEF Succeeds
  <1>6. stored' \in [Items -> Nat] /\ \A j \in Items : stored[j] > 0 => stored'[j] > 0
    <2>1. stored \in [Items -> Nat]
      BY DEF TypeOK
    <2>2. CASE stored' = stored
      BY <2>1, <2>2
    <2>3. CASE stored' = [stored EXCEPT ![i] = @ + 1]
      BY <2>1, <2>3
    <2> QED BY <1>1, <2>2, <2>3
  <1>7. Succeeds(i) => stored'[i] > 0
    BY <1>5 DEF TypeOK
  <1>8. tries' \in [Items -> Nat] /\ hidden' \in [Items -> Nat]
    BY <1>2, <1>3 DEF TypeOK
  <1>9. faults' \in 0 .. MaxFaults
    BY <1>4, Limits DEF TypeOK
  <1> QED BY <1>6, <1>7, <1>8, <1>9

-----------------------------------------------------------------------------
CallRecord == [pc : {"idle", "try", "queue"}, item : Items \cup {None},
               attempt : 0 .. MaxAttempts]
RunRecord  == [pc : {"idle", "pull", "work", "requeue"}, items : Seq(Entry)]

\* A step of the call c.
LEMMA CallMoves ==
    ASSUME TypeOK, Busy, NEW c \in Calls, NEW k \in CallRecord,
           k.pc # "idle" => k.item \in Items,
           call' = [call EXCEPT ![c] = k], run' = run,
           ItemsOf(redis) \subseteq ItemsOf(redis'),
           ItemsOf(memory) \subseteq ItemsOf(memory')
    PROVE  /\ call' \in [Calls -> CallRecord] /\ run' \in [Runs -> RunRecord]
           /\ Busy'
           /\ call'[c] = k
           /\ \A i : Held(i) => Held(i)' \/ (call[c].pc # "idle" /\ i = call[c].item)
  <1>1. call \in [Calls -> CallRecord] /\ run \in [Runs -> RunRecord]
    BY DEF TypeOK, CallRecord, RunRecord
  <1>2. /\ call' \in [Calls -> CallRecord] /\ call'[c] = k
        /\ \A d \in Calls : d # c => call'[d] = call[d]
    BY <1>1
  <1>3. Busy'
    BY <1>2 DEF Busy
  <1>4. \A i : Held(i) => Held(i)' \/ (call[c].pc # "idle" /\ i = call[c].item)
    BY <1>2 DEF Held
  <1> QED BY <1>1, <1>2, <1>3, <1>4

\* A step of the run p.
LEMMA RunMoves ==
    ASSUME TypeOK, Busy, NEW p \in Runs, NEW k \in RunRecord,
           k.pc = "requeue" => k.items # <<>>,
           run' = [run EXCEPT ![p] = k], call' = call
    PROVE  /\ call' \in [Calls -> CallRecord] /\ run' \in [Runs -> RunRecord]
           /\ Busy'
           /\ run'[p] = k
           /\ \A i : Held(i) => \/ Held(i)'
                                \/ i \in ItemsOf(run[p].items)
                                \/ i \in ItemsOf(memory) \/ i \in ItemsOf(redis)
           /\ \A i : \/ i \in ItemsOf(k.items)
                     \/ i \in ItemsOf(memory') \/ i \in ItemsOf(redis')
                   => Held(i)'
  <1>1. call \in [Calls -> CallRecord] /\ run \in [Runs -> RunRecord]
    BY DEF TypeOK, CallRecord, RunRecord
  <1>2. /\ run' \in [Runs -> RunRecord] /\ run'[p] = k
        /\ \A q \in Runs : q # p => run'[q] = run[q]
    BY <1>1
  <1>3. Busy'
    BY <1>2 DEF Busy
  <1>4. \A i : Held(i) => \/ Held(i)'
                         \/ i \in ItemsOf(run[p].items)
                         \/ i \in ItemsOf(memory) \/ i \in ItemsOf(redis)
    BY <1>2 DEF Held
  <1>5. \A i : \/ i \in ItemsOf(k.items)
              \/ i \in ItemsOf(memory') \/ i \in ItemsOf(redis')
            => Held(i)'
    BY <1>2 DEF Held
  <1> QED BY <1>1, <1>2, <1>3, <1>4, <1>5

-----------------------------------------------------------------------------
\* The types, with the records by name.
LEMMA Types ==
    /\ TypeOK <=> /\ call \in [Calls -> CallRecord] /\ run \in [Runs -> RunRecord]
                  /\ redis \in Seq(Entry) /\ memory \in Seq(Entry)
                  /\ begun \subseteq Items /\ refused \subseteq Items
                  /\ givenUp \subseteq Items /\ lost \subseteq Items
                  /\ stored \in [Items -> Nat] /\ tries \in [Items -> Nat]
                  /\ hidden \in [Items -> Nat] /\ faults \in 0 .. MaxFaults
  BY DEF TypeOK, CallRecord, RunRecord

Preserved == TypeOK' /\ Busy' /\ Keeps

LEMMA BeginKeeps ==
    ASSUME Inv, NEW c \in Calls, NEW i \in Items, Begin(c, i)
    PROVE  Preserved
  <1> DEFINE k == [pc |-> "try", item |-> i, attempt |-> 1]
  <1>1. TypeOK /\ Busy /\ k \in CallRecord /\ k.pc # "idle" /\ k.item = i
    BY Limits DEF Inv, CallRecord
  <1>2. /\ call[c].pc = "idle" /\ begun' = begun \cup {i}
        /\ call' = [call EXCEPT ![c] = k]
        /\ UNCHANGED <<run, redis, memory, refused, givenUp, lost, stored, tries,
                      hidden, faults>>
    BY DEF Begin, queue, fates
  <1> HIDE DEF k
  <1>3. /\ call' \in [Calls -> CallRecord] /\ run' \in [Runs -> RunRecord] /\ Busy'
        /\ call'[c] = k /\ \A j : Held(j) => Held(j)'
    BY <1>1, <1>2, CallMoves
  <1>4. Held(i)'
    BY <1>1, <1>3 DEF Held
  <1>5. Keeps
    BY <1>2, <1>3, <1>4 DEF Keeps, Settled
  <1>6. TypeOK'
    <2>1. begun' \subseteq Items
      BY <1>1, <1>2, Types
    <2> QED BY <1>1, <1>2, <1>3, <2>1, Types DEF CallRecord, RunRecord, TypeOK
  <1> QED BY <1>3, <1>5, <1>6 DEF Preserved

LEMMA TrySucceedsKeeps ==
    ASSUME Inv, NEW c \in Calls, TrySucceeds(c)
    PROVE  Preserved
  <1> DEFINE i == call[c].item
  <1>1. TypeOK /\ Busy /\ IdleCall \in CallRecord /\ IdleCall.pc = "idle"
    BY Limits DEF Inv, CallRecord, IdleCall
  <1>2. /\ call[c].pc = "try" /\ Succeeds(i)
        /\ call' = [call EXCEPT ![c] = IdleCall]
        /\ UNCHANGED <<run, redis, memory, begun, refused, givenUp, lost>>
    BY DEF TrySucceeds, queue, fates
  <1>3. i \in Items
    BY <1>1, <1>2 DEF Busy
  <1> HIDE DEF i
  <1>4. /\ stored' \in [Items -> Nat] /\ tries' \in [Items -> Nat]
        /\ hidden' \in [Items -> Nat] /\ faults' \in 0 .. MaxFaults
        /\ \A j \in Items : stored[j] > 0 => stored'[j] > 0
        /\ stored'[i] > 0
    BY <1>1, <1>2, <1>3, Commanded
  <1>5. /\ call' \in [Calls -> CallRecord] /\ run' \in [Runs -> RunRecord] /\ Busy'
        /\ \A j : Held(j) => Held(j)' \/ j = i
    BY <1>1, <1>2, CallMoves DEF i
  <1>6. begun \subseteq Items
    BY <1>1, Types
  <1>7. Keeps
    BY <1>2, <1>4, <1>5, <1>6 DEF Keeps, Settled
  <1>8. TypeOK'
    BY <1>1, <1>2, <1>4, <1>5, Types DEF TypeOK, CallRecord, RunRecord
  <1> QED BY <1>5, <1>7, <1>8 DEF Preserved

LEMMA TryIsRefusedKeeps ==
    ASSUME Inv, NEW c \in Calls, TryIsRefused(c)
    PROVE  Preserved
  <1> DEFINE i == call[c].item
  <1>1. TypeOK /\ Busy /\ IdleCall \in CallRecord /\ IdleCall.pc = "idle"
    BY Limits DEF Inv, CallRecord, IdleCall
  <1>2. /\ call[c].pc = "try" /\ refused' = refused \cup {i}
        /\ tries' = [tries EXCEPT ![i] = @ + 1]
        /\ call' = [call EXCEPT ![c] = IdleCall]
        /\ UNCHANGED <<run, redis, memory, begun, givenUp, lost, stored, hidden, faults>>
    BY DEF TryIsRefused, queue
  <1>3. i \in Items
    BY <1>1, <1>2 DEF Busy
  <1> HIDE DEF i
  <1>4. tries' \in [Items -> Nat] /\ refused' \subseteq Items
    BY <1>1, <1>2, <1>3, Types
  <1>5. /\ call' \in [Calls -> CallRecord] /\ run' \in [Runs -> RunRecord] /\ Busy'
        /\ \A j : Held(j) => Held(j)' \/ j = i
    BY <1>1, <1>2, CallMoves DEF i
  <1>6. Keeps
    BY <1>2, <1>5 DEF Keeps, Settled
  <1>7. TypeOK'
    BY <1>1, <1>2, <1>4, <1>5, Types DEF TypeOK, CallRecord, RunRecord
  <1> QED BY <1>5, <1>6, <1>7 DEF Preserved

LEMMA TryFailsKeeps ==
    ASSUME Inv, NEW c \in Calls, TryFails(c)
    PROVE  Preserved
  <1>1. TypeOK /\ Busy /\ call[c] \in CallRecord /\ call \in [Calls -> CallRecord]
    BY Types DEF Inv
  <1>2. PICK i \in Items : i = call[c].item
    BY <1>1 DEF Busy, TryFails
  <1>3. /\ call[c].pc = "try" /\ Fails(i)
        /\ UNCHANGED <<run, redis, memory, begun, refused, givenUp, lost>>
    BY <1>2 DEF TryFails, queue, fates
  <1>4. PICK k \in CallRecord :
            k.pc # "idle" /\ k.item = i /\ call' = [call EXCEPT ![c] = k]
    <2>1. CASE call[c].attempt < MaxAttempts
      <3> DEFINE k == [pc |-> "try", item |-> i, attempt |-> call[c].attempt + 1]
      <3>1. k \in CallRecord
        BY <1>1, <2>1, Limits DEF CallRecord
      <3>2. [call[c] EXCEPT !.attempt = @ + 1] = k
        BY <1>1, <1>2, <1>3 DEF CallRecord
      <3>3. call' = [call EXCEPT ![c] = [call[c] EXCEPT !.attempt = @ + 1]]
        BY <2>1, <1>1 DEF TryFails
      <3> QED BY <3>1, <3>2, <3>3
    <2>2. CASE ~(call[c].attempt < MaxAttempts)
      <3> DEFINE k == [pc |-> "queue", item |-> i, attempt |-> call[c].attempt]
      <3>1. k \in CallRecord
        BY <1>1 DEF CallRecord
      <3>2. [call[c] EXCEPT !.pc = "queue"] = k
        BY <1>1, <1>2 DEF CallRecord
      <3>3. call' = [call EXCEPT ![c] = [call[c] EXCEPT !.pc = "queue"]]
        BY <2>2, <1>1 DEF TryFails
      <3> QED BY <3>1, <3>2, <3>3
    <2> QED BY <2>1, <2>2
  <1>6. /\ stored' \in [Items -> Nat] /\ tries' \in [Items -> Nat]
        /\ hidden' \in [Items -> Nat] /\ faults' \in 0 .. MaxFaults
        /\ \A j \in Items : stored[j] > 0 => stored'[j] > 0
    BY <1>1, <1>3, Commanded
  <1>7. /\ call' \in [Calls -> CallRecord] /\ run' \in [Runs -> RunRecord] /\ Busy'
        /\ call'[c] = k /\ \A j : Held(j) => Held(j)' \/ j = i
    BY <1>1, <1>2, <1>3, <1>4, CallMoves, ZenonT(60)
  <1>8. begun \subseteq Items /\ Held(i)'
    BY <1>1, <1>4, <1>7, Types DEF Held
  <1>9. Keeps
    BY <1>3, <1>6, <1>7, <1>8 DEF Keeps, Settled
  <1>10. TypeOK'
    BY <1>1, <1>3, <1>6, <1>7, Types DEF TypeOK, CallRecord, RunRecord
  <1> QED BY <1>7, <1>9, <1>10 DEF Preserved

LEMMA QueueFailedKeeps ==
    ASSUME Inv, NEW c \in Calls, QueueFailed(c)
    PROVE  Preserved
  <1>1. TypeOK /\ Busy /\ IdleCall \in CallRecord /\ IdleCall.pc = "idle"
    BY Limits DEF Inv, CallRecord, IdleCall
  <1>2. PICK i \in Items : i = call[c].item
    BY <1>1 DEF Busy, QueueFailed
  <1> DEFINE entry == [item |-> i, retryCount |-> 0]
  <1>3. /\ call[c].pc = "queue" /\ Push(entry)
        /\ call' = [call EXCEPT ![c] = IdleCall]
        /\ UNCHANGED <<run, begun, refused, givenUp, lost, stored, tries>>
    BY <1>2 DEF QueueFailed, fates
  <1>4. entry \in Entry /\ entry.item = i
    BY Limits DEF Entry
  <1> HIDE DEF entry
  <1>5. /\ redis' \in Seq(Entry) /\ memory' \in Seq(Entry)
        /\ hidden' \in [Items -> Nat] /\ faults' \in 0 .. MaxFaults
        /\ i \in ItemsOf(redis') \cup ItemsOf(memory')
        /\ ItemsOf(redis) \subseteq ItemsOf(redis')
        /\ ItemsOf(memory) \subseteq ItemsOf(memory')
    BY <1>1, <1>3, <1>4, Pushed
  <1>6. /\ call' \in [Calls -> CallRecord] /\ run' \in [Runs -> RunRecord] /\ Busy'
        /\ \A j : Held(j) => Held(j)' \/ j = i
    BY <1>1, <1>2, <1>3, <1>5, CallMoves
  <1>7. Held(i)'
    BY <1>5 DEF Held
  <1>8. Keeps
    BY <1>3, <1>6, <1>7 DEF Keeps, Settled
  <1>9. TypeOK'
    BY <1>1, <1>3, <1>5, <1>6, Types DEF TypeOK, CallRecord, RunRecord
  <1> QED BY <1>6, <1>8, <1>9 DEF Preserved

-----------------------------------------------------------------------------
LEMMA StartRunKeeps ==
    ASSUME Inv, NEW p \in Runs, StartRun(p)
    PROVE  Preserved
  <1>1. TypeOK /\ Busy /\ run[p] \in RunRecord
    BY Types DEF Inv
  <1> DEFINE k == [run[p] EXCEPT !.pc = "pull"]
  <1>2. k \in RunRecord /\ k.pc = "pull" /\ k.items = run[p].items
    BY <1>1 DEF RunRecord
  <1>3. /\ run' = [run EXCEPT ![p] = k]
        /\ UNCHANGED <<call, redis, memory, begun, refused, givenUp, lost, stored,
                      tries, hidden, faults>>
    BY DEF StartRun, queue, fates
  <1> HIDE DEF k
  <1>4. /\ call' \in [Calls -> CallRecord] /\ run' \in [Runs -> RunRecord] /\ Busy'
        /\ \A i : Held(i) => Held(i)'
    BY <1>1, <1>2, <1>3, RunMoves
  <1>5. Keeps
    BY <1>3, <1>4 DEF Keeps, Settled
  <1>6. TypeOK'
    BY <1>1, <1>3, <1>4, Types DEF TypeOK, CallRecord, RunRecord
  <1> QED BY <1>4, <1>5, <1>6 DEF Preserved

LEMMA PopKeeps ==
    ASSUME Inv, NEW p \in Runs, Pop(p)
    PROVE  Preserved
  <1>1. /\ TypeOK /\ Busy /\ run[p] \in RunRecord /\ redis \in Seq(Entry)
        /\ run[p].items \in Seq(Entry)
    BY Types DEF Inv, RunRecord
  <1> DEFINE k == [run[p] EXCEPT !.items = Append(@, Head(redis))]
  <1>2. /\ redis # <<>> /\ run[p].pc = "pull" /\ redis' = Tail(redis)
        /\ run' = [run EXCEPT ![p] = k]
        /\ UNCHANGED <<call, memory, begun, refused, givenUp, lost, stored, tries,
                      hidden, faults>>
    BY DEF Pop, fates
  <1>3. /\ Tail(redis) \in Seq(Entry) /\ Head(redis) \in Entry
        /\ ItemsOf(redis) = {Head(redis).item} \cup ItemsOf(Tail(redis))
    BY <1>1, <1>2, ItemsOfTail
  <1>4. /\ Append(run[p].items, Head(redis)) \in Seq(Entry)
        /\ ItemsOf(Append(run[p].items, Head(redis)))
              = ItemsOf(run[p].items) \cup {Head(redis).item}
    BY <1>1, <1>3, ItemsOfAppend
  <1>5. /\ k \in RunRecord /\ k.pc = "pull"
        /\ k.items = Append(run[p].items, Head(redis))
    BY <1>1, <1>2, <1>4 DEF RunRecord
  <1> HIDE DEF k
  <1>6. /\ call' \in [Calls -> CallRecord] /\ run' \in [Runs -> RunRecord] /\ Busy'
        /\ \A i : Held(i) => Held(i)'
    BY <1>1, <1>2, <1>3, <1>4, <1>5, RunMoves
  <1>7. Keeps
    BY <1>2, <1>6 DEF Keeps, Settled
  <1>8. TypeOK'
    BY <1>1, <1>2, <1>3, <1>6, Types DEF TypeOK, CallRecord, RunRecord
  <1> QED BY <1>6, <1>7, <1>8 DEF Preserved

\* A pull that ends takes what is in memory along.
LEMMA MemoryTaken ==
    ASSUME TypeOK, NEW p \in Runs, TakeMemory(p)
    PROVE  \E k \in RunRecord :
              /\ k.pc = "work" /\ run' = [run EXCEPT ![p] = k]
              /\ ItemsOf(k.items) = ItemsOf(run[p].items) \cup ItemsOf(memory)
              /\ memory' = <<>> /\ memory' \in Seq(Entry)
  <1>1. /\ run[p] \in RunRecord /\ run \in [Runs -> RunRecord]
        /\ run[p].items \in Seq(Entry) /\ memory \in Seq(Entry)
    BY Types DEF RunRecord
  <1>2. /\ run[p].items \o memory \in Seq(Entry)
        /\ ItemsOf(run[p].items \o memory) = ItemsOf(run[p].items) \cup ItemsOf(memory)
    BY <1>1, ItemsOfConcat
  <1> DEFINE k == [pc |-> "work", items |-> run[p].items \o memory]
  <1>3. /\ k \in RunRecord /\ k.pc = "work" /\ k.items = run[p].items \o memory
    BY <1>2 DEF RunRecord
  <1>4. run' = [run EXCEPT ![p] = k]
    BY <1>1 DEF TakeMemory, RunRecord
  <1>5. memory' = <<>> /\ memory' \in Seq(Entry)
    BY ItemsOfEmpty DEF TakeMemory
  <1> HIDE DEF k
  <1> QED BY <1>2, <1>3, <1>4, <1>5

LEMMA PullEndsKeeps ==
    ASSUME Inv, NEW p \in Runs, PullEnds(p)
    PROVE  Preserved
  <1>1. TypeOK /\ Busy
    BY DEF Inv
  <1>2. /\ TakeMemory(p) /\ redis = <<>>
        /\ UNCHANGED <<call, redis, begun, refused, givenUp, lost, stored, tries,
                      hidden, faults>>
    BY DEF PullEnds, fates
  <1>3. PICK k \in RunRecord :
            /\ k.pc = "work" /\ run' = [run EXCEPT ![p] = k]
            /\ ItemsOf(k.items) = ItemsOf(run[p].items) \cup ItemsOf(memory)
            /\ memory' = <<>> /\ memory' \in Seq(Entry)
    BY <1>1, <1>2, MemoryTaken
  <1>4. /\ call' \in [Calls -> CallRecord] /\ run' \in [Runs -> RunRecord] /\ Busy'
        /\ \A i : Held(i) => Held(i)'
    BY <1>1, <1>2, <1>3, RunMoves
  <1>5. Keeps
    BY <1>2, <1>4 DEF Keeps, Settled
  <1>6. TypeOK'
    BY <1>1, <1>2, <1>3, <1>4, Types DEF TypeOK, CallRecord, RunRecord
  <1> QED BY <1>4, <1>5, <1>6 DEF Preserved

LEMMA PullFailsKeeps ==
    ASSUME Inv, NEW p \in Runs, PullFails(p)
    PROVE  Preserved
  <1>1. TypeOK /\ Busy /\ redis \in Seq(Entry) /\ faults \in 0 .. MaxFaults
    BY Types DEF Inv
  <1>2. /\ TakeMemory(p) /\ faults < MaxFaults /\ faults' = faults + 1
        /\ UNCHANGED <<call, begun, refused, givenUp, stored, tries, hidden>>
    BY DEF PullFails, Fault
  <1>3. \/ redis' = redis /\ lost' = lost
        \/ redis # <<>> /\ redis' = Tail(redis) /\ lost' = lost \cup {Head(redis).item}
    BY DEF PullFails
  <1>4. PICK k \in RunRecord :
            /\ k.pc = "work" /\ run' = [run EXCEPT ![p] = k]
            /\ ItemsOf(k.items) = ItemsOf(run[p].items) \cup ItemsOf(memory)
            /\ memory' = <<>> /\ memory' \in Seq(Entry)
    BY <1>1, <1>2, MemoryTaken
  <1>5. /\ redis' \in Seq(Entry) /\ lost' \subseteq Items /\ lost \subseteq lost'
        /\ ItemsOf(redis) \subseteq ItemsOf(redis') \cup lost'
    <2>1. redis # <<>> => /\ Tail(redis) \in Seq(Entry) /\ Head(redis) \in Entry
                          /\ ItemsOf(redis) = {Head(redis).item} \cup ItemsOf(Tail(redis))
      BY <1>1, ItemsOfTail
    <2>2. lost \subseteq Items /\ (redis # <<>> => Head(redis).item \in Items)
      BY <1>1, <2>1, Types DEF Entry
    <2> QED BY <1>1, <1>3, <2>1, <2>2
  <1>6. /\ call' \in [Calls -> CallRecord] /\ run' \in [Runs -> RunRecord] /\ Busy'
        /\ \A i : Held(i) => Held(i)' \/ i \in lost'
    BY <1>1, <1>2, <1>4, <1>5, RunMoves
  <1>7. faults' \in 0 .. MaxFaults
    BY <1>1, <1>2, Limits
  <1>8. Keeps
    BY <1>2, <1>5, <1>6 DEF Keeps, Settled
  <1>9. TypeOK'
    BY <1>1, <1>2, <1>4, <1>5, <1>6, <1>7, Types DEF TypeOK, CallRecord, RunRecord
  <1> QED BY <1>6, <1>8, <1>9 DEF Preserved

LEMMA WorkSucceedsKeeps ==
    ASSUME Inv, NEW p \in Runs, WorkSucceeds(p)
    PROVE  Preserved
  <1>1. /\ TypeOK /\ Busy /\ run[p] \in RunRecord /\ begun \subseteq Items
        /\ run[p].items \in Seq(Entry) /\ run[p].items # <<>> /\ run[p].pc = "work"
    BY Types DEF Inv, RunRecord, WorkSucceeds
  <1>2. /\ Tail(run[p].items) \in Seq(Entry) /\ Current(p) \in Entry
        /\ ItemsOf(run[p].items) = {Current(p).item} \cup ItemsOf(Tail(run[p].items))
    BY <1>1, ItemsOfTail DEF Current
  <1>3. PICK i \in Items : i = Current(p).item
    BY <1>2 DEF Entry
  <1> DEFINE k == [run[p] EXCEPT !.items = Tail(@)]
  <1>4. k \in RunRecord /\ k.pc = "work" /\ k.items = Tail(run[p].items)
    BY <1>1, <1>2 DEF RunRecord
  <1>5. /\ Succeeds(i) /\ run' = [run EXCEPT ![p] = k]
        /\ UNCHANGED <<call, redis, memory, begun, refused, givenUp, lost>>
    BY <1>3 DEF WorkSucceeds, queue, fates
  <1> HIDE DEF k
  <1>6. /\ stored' \in [Items -> Nat] /\ tries' \in [Items -> Nat]
        /\ hidden' \in [Items -> Nat] /\ faults' \in 0 .. MaxFaults
        /\ \A j \in Items : stored[j] > 0 => stored'[j] > 0
        /\ stored'[i] > 0
    BY <1>1, <1>5, Commanded
  <1>7. /\ call' \in [Calls -> CallRecord] /\ run' \in [Runs -> RunRecord] /\ Busy'
        /\ \A j : Held(j) => Held(j)' \/ j = i
    BY <1>1, <1>2, <1>3, <1>4, <1>5, RunMoves
  <1>8. Keeps
    BY <1>1, <1>5, <1>6, <1>7 DEF Keeps, Settled
  <1>9. TypeOK'
    BY <1>1, <1>5, <1>6, <1>7, Types DEF TypeOK, CallRecord, RunRecord
  <1> QED BY <1>7, <1>8, <1>9 DEF Preserved


LEMMA WorkFailsKeeps ==
    ASSUME Inv, NEW p \in Runs, WorkFails(p)
    PROVE  Preserved
  <1>1. /\ TypeOK /\ Busy /\ run[p] \in RunRecord /\ begun \subseteq Items
        /\ run[p].items \in Seq(Entry) /\ run[p].items # <<>> /\ run[p].pc = "work"
    BY Types DEF Inv, RunRecord, WorkFails
  <1>2. /\ Tail(run[p].items) \in Seq(Entry) /\ Current(p) \in Entry
        /\ ItemsOf(run[p].items) = {Current(p).item} \cup ItemsOf(Tail(run[p].items))
    BY <1>1, ItemsOfTail DEF Current
  <1>3. PICK i \in Items : i = Current(p).item
    BY <1>2 DEF Entry
  <1>4. /\ Fails(i) /\ UNCHANGED <<call, redis, memory, begun, refused, lost>>
    BY <1>3 DEF WorkFails, queue
  <1>5. /\ stored' \in [Items -> Nat] /\ tries' \in [Items -> Nat]
        /\ hidden' \in [Items -> Nat] /\ faults' \in 0 .. MaxFaults
        /\ \A j \in Items : stored[j] > 0 => stored'[j] > 0
    BY <1>1, <1>4, Commanded
  <1>6. PICK k \in RunRecord :
            /\ k.pc = "requeue" => k.items # <<>>
            /\ run' = [run EXCEPT ![p] = k]
            /\ givenUp' \subseteq Items /\ givenUp \subseteq givenUp'
            /\ ItemsOf(run[p].items) \subseteq ItemsOf(k.items) \cup givenUp'
    <2>1. CASE Current(p).retryCount + 1 < MaxRetries
      <3> DEFINE k == [pc |-> "requeue", items |-> Counted(run[p].items)]
      <3>1. /\ Counted(run[p].items) \in Seq(Entry) /\ Counted(run[p].items) # <<>>
            /\ ItemsOf(Counted(run[p].items)) = ItemsOf(run[p].items)
        BY <1>1, <2>1, ItemsOfCounted DEF Current
      <3>2. k \in RunRecord /\ k.items = Counted(run[p].items)
        BY <3>1 DEF RunRecord
      <3>3. run' = [run EXCEPT ![p] = k] /\ givenUp' = givenUp
        BY <2>1 DEF WorkFails
      <3> HIDE DEF k
      <3> QED BY <1>1, <3>1, <3>2, <3>3, Types
    <2>2. CASE ~(Current(p).retryCount + 1 < MaxRetries)
      <3> DEFINE k == [run[p] EXCEPT !.items = Tail(@)]
      <3>1. k \in RunRecord /\ k.pc = "work" /\ k.items = Tail(run[p].items)
        BY <1>1, <1>2 DEF RunRecord
      <3>2. run' = [run EXCEPT ![p] = k] /\ givenUp' = givenUp \cup {i}
        BY <1>3, <2>2 DEF WorkFails
      <3> HIDE DEF k
      <3> QED BY <1>1, <1>2, <1>3, <3>1, <3>2, Types
    <2> QED BY <2>1, <2>2
  <1>7. /\ call' \in [Calls -> CallRecord] /\ run' \in [Runs -> RunRecord] /\ Busy'
        /\ \A j : Held(j) => Held(j)' \/ j \in givenUp'
    BY <1>1, <1>4, <1>6, RunMoves
  <1>8. Keeps
    BY <1>1, <1>4, <1>5, <1>6, <1>7 DEF Keeps, Settled
  <1>9. TypeOK'
    BY <1>1, <1>4, <1>5, <1>6, <1>7, Types DEF TypeOK, CallRecord, RunRecord
  <1> QED BY <1>7, <1>8, <1>9 DEF Preserved

LEMMA RequeueKeeps ==
    ASSUME Inv, NEW p \in Runs, Requeue(p)
    PROVE  Preserved
  <1>1. /\ TypeOK /\ Busy /\ run[p].items \in Seq(Entry) /\ run[p].items # <<>>
    BY Types DEF Inv, Busy, RunRecord, Requeue
  <1>2. /\ Tail(run[p].items) \in Seq(Entry) /\ Current(p) \in Entry
        /\ ItemsOf(run[p].items) = {Current(p).item} \cup ItemsOf(Tail(run[p].items))
    BY <1>1, ItemsOfTail DEF Current
  <1>3. PICK entry \in Entry : entry = Current(p)
    BY <1>2
  <1> DEFINE k == [pc |-> "work", items |-> Tail(run[p].items)]
  <1>4. k \in RunRecord /\ k.pc = "work" /\ k.items = Tail(run[p].items)
    BY <1>2 DEF RunRecord
  <1>5. /\ Push(entry) /\ run' = [run EXCEPT ![p] = k]
        /\ UNCHANGED <<call, begun, refused, givenUp, lost, stored, tries>>
    BY <1>3 DEF Requeue, fates
  <1> HIDE DEF k
  <1>6. /\ redis' \in Seq(Entry) /\ memory' \in Seq(Entry)
        /\ hidden' \in [Items -> Nat] /\ faults' \in 0 .. MaxFaults
        /\ entry.item \in ItemsOf(redis') \cup ItemsOf(memory')
        /\ ItemsOf(redis) \subseteq ItemsOf(redis')
        /\ ItemsOf(memory) \subseteq ItemsOf(memory')
    BY <1>1, <1>5, Pushed
  <1>7. /\ call' \in [Calls -> CallRecord] /\ run' \in [Runs -> RunRecord] /\ Busy'
        /\ \A i : Held(i) => Held(i)'
    <2>1. /\ call' \in [Calls -> CallRecord] /\ run' \in [Runs -> RunRecord] /\ Busy'
          /\ \A i : Held(i) => \/ Held(i)'
                               \/ i \in ItemsOf(run[p].items)
                               \/ i \in ItemsOf(memory) \/ i \in ItemsOf(redis)
          /\ \A i : \/ i \in ItemsOf(k.items)
                    \/ i \in ItemsOf(memory') \/ i \in ItemsOf(redis')
                  => Held(i)'
      BY <1>1, <1>4, <1>5, RunMoves
    <2>2. \A i \in ItemsOf(run[p].items) : i = entry.item \/ i \in ItemsOf(k.items)
      BY <1>2, <1>3, <1>4
    <2> QED BY <2>1, <2>2, <1>6
  <1>8. Keeps
    BY <1>5, <1>7 DEF Keeps, Settled
  <1>9. TypeOK'
    BY <1>1, <1>5, <1>6, <1>7, Types DEF TypeOK, CallRecord, RunRecord
  <1> QED BY <1>7, <1>8, <1>9 DEF Preserved

LEMMA RunEndsKeeps ==
    ASSUME Inv, NEW p \in Runs, RunEnds(p)
    PROVE  Preserved
  <1>1. /\ TypeOK /\ Busy /\ ItemsOf(run[p].items) = {}
        /\ IdleRun \in RunRecord /\ IdleRun.pc = "idle"
    BY ItemsOfEmpty DEF Inv, RunRecord, IdleRun, RunEnds
  <1>2. /\ run' = [run EXCEPT ![p] = IdleRun]
        /\ UNCHANGED <<call, redis, memory, begun, refused, givenUp, lost, stored,
                      tries, hidden, faults>>
    BY DEF RunEnds, queue, fates
  <1>3. /\ call' \in [Calls -> CallRecord] /\ run' \in [Runs -> RunRecord] /\ Busy'
        /\ \A i : Held(i) => Held(i)'
    BY <1>1, <1>2, RunMoves
  <1>4. Keeps
    BY <1>2, <1>3 DEF Keeps, Settled
  <1>5. TypeOK'
    BY <1>1, <1>2, <1>3, Types DEF TypeOK, CallRecord, RunRecord
  <1> QED BY <1>3, <1>4, <1>5 DEF Preserved

\* A crash leaves in Redis or among the lost whatever was held.
LEMMA CrashKeeps ==
    ASSUME Inv, Crash
    PROVE  Preserved
  <1>1. TypeOK /\ Busy
    BY DEF Inv
  <1>2. /\ lost' = lost \cup InHand /\ memory' = <<>> /\ memory' \in Seq(Entry)
        /\ call' = [c \in Calls |-> IdleCall] /\ run' = [p \in Runs |-> IdleRun]
        /\ UNCHANGED <<redis, begun, refused, givenUp, stored, tries, hidden, faults>>
    BY ItemsOfEmpty DEF Crash
  <1>3. /\ call' \in [Calls -> CallRecord] /\ run' \in [Runs -> RunRecord]
    BY <1>2, ItemsOfEmpty, Limits DEF CallRecord, RunRecord, IdleCall, IdleRun
  <1>4. Busy'
    BY <1>2 DEF Busy, IdleCall, IdleRun
  <1>5. \A i : Held(i) => i \in InHand \/ i \in ItemsOf(redis)
    BY WaitingIsHeld DEF Waiting
  <1>6. InHand \subseteq Items
    <2>1. ASSUME NEW s \in Seq(Entry)
          PROVE  ItemsOf(s) \subseteq Items
      <3>1. \A n \in 1 .. Len(s) : s[n] \in Entry
        OBVIOUS
      <3>2. \A e \in Entry : e.item \in Items
        BY DEF Entry
      <3> QED BY <3>1, <3>2 DEF ItemsOf
    <2>2. \A p \in Runs : ItemsOf(run[p].items) \subseteq Items
      BY <1>1, <2>1, Types DEF RunRecord
    <2>3. ItemsOf(memory) \subseteq Items
      BY <1>1, <2>1, Types
    <2> QED BY <1>1, <2>2, <2>3 DEF InHand, Busy
  <1>7. \A i : i \in ItemsOf(redis) => Held(i)'
    BY <1>2 DEF Held
  <1>8. Keeps
    BY <1>2, <1>5, <1>7 DEF Keeps, Settled
  <1>9. TypeOK'
    BY <1>1, <1>2, <1>3, <1>6, Types DEF TypeOK, CallRecord, RunRecord
  <1> QED BY <1>4, <1>8, <1>9 DEF Preserved


-----------------------------------------------------------------------------
LEMMA NextKeeps ==
    ASSUME Inv, [Next]_vars
    PROVE  Inv'
  <1>1. CASE Next
    <2>1. Preserved
      <3>1. ASSUME NEW c \in Calls, CallStep(c)
            PROVE  Preserved
        BY <3>1, TrySucceedsKeeps, TryIsRefusedKeeps, TryFailsKeeps, QueueFailedKeeps
           DEF CallStep
      <3>2. ASSUME NEW c \in Calls, NEW i \in Items, Begin(c, i)
            PROVE  Preserved
        BY <3>2, BeginKeeps
      <3>3. ASSUME NEW p \in Runs, RunStep(p)
            PROVE  Preserved
        BY <3>3, StartRunKeeps, PopKeeps, PullEndsKeeps, PullFailsKeeps,
           WorkSucceedsKeeps, WorkFailsKeeps, RequeueKeeps, RunEndsKeeps DEF RunStep
      <3> QED BY <1>1, <3>1, <3>2, <3>3, CrashKeeps DEF Next
    <2>2. NothingForgotten'
      BY <2>1, Remembers DEF Inv, Preserved
    <2> QED BY <2>1, <2>2 DEF Inv, Preserved
  <1>2. CASE UNCHANGED vars
    <2>1. TypeOK'
      BY <1>2 DEF Inv, TypeOK, vars
    <2>2. Busy'
      BY <1>2 DEF Inv, Busy, vars
    <2>3. Keeps
      BY <1>2 DEF Keeps, Held, Settled, vars
    <2> QED BY <2>1, <2>2, <2>3, Remembers DEF Inv
  <1> QED BY <1>1, <1>2

\* Every call, run, queue and counter keeps its type, however often the
\* processor runs and the process restarts: no call makes more than MaxAttempts
\* tries, and no entry that has had its MaxRetries tries is queued again.
THEOREM TypeCorrect == Spec => []TypeOK
  <1>1. Init => Inv
    BY InitInv
  <1>2. Inv /\ [Next]_vars => Inv'
    BY NextKeeps
  <1>3. Inv => TypeOK
    BY DEF Inv
  <1> QED BY <1>1, <1>2, <1>3, PTL DEF Spec

\* An accepted answer that was given to persistSubmission is in the database, on
\* its way there, or known to be refused, given up or lost: nothing drops it on
\* the way between the call, the two queues and the overlapping runs.
THEOREM NothingForgottenAlways == Spec => []NothingForgotten
  <1>1. Init => Inv
    BY InitInv
  <1>2. Inv /\ [Next]_vars => Inv'
    BY NextKeeps
  <1>3. Inv => NothingForgotten
    BY DEF Inv
  <1> QED BY <1>1, <1>2, <1>3, PTL DEF Spec

=============================================================================
