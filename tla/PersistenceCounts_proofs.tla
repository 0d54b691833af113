---------------------- MODULE PersistenceCounts_proofs ----------------------
(***************************************************************************)
(* How often a submission is tried and stored (StatePersistence).  Whoever *)
(* has a submission in hand has a number of tries left for it: a call its  *)
(* own and a round of the queue, an entry of a queue what its retryCount   *)
(* leaves.  A step spends a try or hands it on; only an error that hid a   *)
(* success grants a new round.  So what is spent and what is left together *)
(* stay below what was granted, however the runs overlap.                  *)
(***************************************************************************)
EXTENDS StatePersistence_proofs, FiniteSetTheorems

-----------------------------------------------------------------------------
(* The sum of a function, as the number of the units it is made of.        *)

Units(d)  == {t \in (DOMAIN d) \X (Nat \ {0}) : t[2] <= d[t[1]]}
Total(d)  == Cardinality(Units(d))
Finite(d) == IsFiniteSet(Units(d))

LEMMA Column ==
    ASSUME NEW p, NEW n \in Nat
    PROVE  IsFiniteSet({p} \X (1 .. n)) /\ Cardinality({p} \X (1 .. n)) = n
  <1>1. IsFiniteSet({p}) /\ Cardinality({p}) = 1
    BY FS_Singleton
  <1>2. IsFiniteSet(1 .. n) /\ Cardinality(1 .. n) = n
    <2>1. IsFiniteSet(1 .. n) /\ Cardinality(1 .. n) = IF 1 > n THEN 0 ELSE n - 1 + 1
      BY FS_Interval
    <2> QED BY <2>1
  <1>3. /\ IsFiniteSet({p} \X (1 .. n))
        /\ Cardinality({p} \X (1 .. n)) = Cardinality({p}) * Cardinality(1 .. n)
    BY <1>1, <1>2, FS_Product
  <1> QED BY <1>1, <1>2, <1>3

LEMMA Apart ==
    ASSUME NEW S, NEW T, IsFiniteSet(S), IsFiniteSet(T), S \cap T = {}
    PROVE  /\ IsFiniteSet(S \cup T)
           /\ Cardinality(S \cup T) = Cardinality(S) + Cardinality(T)
           /\ Cardinality(S) \in Nat /\ Cardinality(T) \in Nat
  <1>1. Cardinality(S) \in Nat /\ Cardinality(T) \in Nat
    BY FS_CardinalityType
  <1>2. /\ IsFiniteSet(S \cup T)
        /\ Cardinality(S \cup T)
             = Cardinality(S) + Cardinality(T) - Cardinality(S \cap T)
    BY FS_Union
  <1>3. Cardinality(S \cap T) = 0
    BY FS_EmptySet
  <1> QED BY <1>1, <1>2, <1>3

LEMMA TotalIsNat ==
    ASSUME NEW d, Finite(d)
    PROVE  Total(d) \in Nat
  BY FS_CardinalityType DEF Finite, Total

LEMMA UnitsShape ==
    ASSUME NEW P, NEW d \in [P -> Nat]
    PROVE  /\ \A t \in Units(d) : /\ t[1] \in P /\ t[2] \in Nat \ {0}
                                  /\ t = <<t[1], t[2]>> /\ t[2] <= d[t[1]]
           /\ \A p \in P, n \in Nat \ {0} : n <= d[p] => <<p, n>> \in Units(d)
  BY DEF Units

\* The units of all arguments but p.
Others(d, p) == {t \in Units(d) : t[1] # p}

LEMMA OneArgument ==
    ASSUME NEW P, NEW d \in [P -> Nat], NEW p \in P, IsFiniteSet(Others(d, p))
    PROVE  Finite(d) /\ Total(d) = Cardinality(Others(d, p)) + d[p]
  <1> DEFINE C == {p} \X (1 .. d[p])
  <1>1. Units(d) = Others(d, p) \cup C
    <2>1. \A t \in Units(d) : t \in Others(d, p) \/ t \in C
      BY UnitsShape DEF Others
    <2>2. \A t \in C : t \in Units(d)
      BY DEF Units
    <2> QED BY <2>1, <2>2 DEF Others
  <1>2. Others(d, p) \cap C = {}
    BY DEF Others
  <1>3. IsFiniteSet(C) /\ Cardinality(C) = d[p]
    BY Column
  <1> HIDE DEF C
  <1>4. /\ IsFiniteSet(Others(d, p) \cup C)
        /\ Cardinality(Others(d, p) \cup C) = Cardinality(Others(d, p)) + Cardinality(C)
    BY <1>2, <1>3, Apart
  <1> QED BY <1>1, <1>3, <1>4 DEF Finite, Total

\* A function that changes at one argument.
LEMMA OneChanges ==
    ASSUME NEW P, NEW d \in [P -> Nat], NEW e \in [P -> Nat], NEW p \in P,
           \A q \in P : q # p => e[q] = d[q], Finite(d)
    PROVE  Finite(e) /\ Total(e) + d[p] = Total(d) + e[p]
  <1>1. IsFiniteSet(Others(d, p))
    <2>1. Others(d, p) \in SUBSET Units(d)
      BY DEF Others
    <2> QED BY <2>1, FS_Subset DEF Finite
  <1>2. Others(e, p) = Others(d, p)
    BY DEF Others, Units
  <1>3. Cardinality(Others(d, p)) \in Nat
    BY <1>1, FS_CardinalityType
  <1>4. Total(d) = Cardinality(Others(d, p)) + d[p]
    BY <1>1, OneArgument
  <1>5. Finite(e) /\ Total(e) = Cardinality(Others(d, p)) + e[p]
    BY <1>1, <1>2, OneArgument
  <1> QED BY <1>3, <1>4, <1>5

\* A function that is zero everywhere.
LEMMA NothingAtAll ==
    ASSUME NEW P, NEW d \in [P -> Nat], \A p \in P : d[p] = 0
    PROVE  Finite(d) /\ Total(d) = 0
  <1>1. Units(d) = {}
    BY DEF Units
  <1> QED BY <1>1, FS_EmptySet DEF Finite, Total

\* A total of zero leaves nothing at any argument.
LEMMA NothingAnywhere ==
    ASSUME NEW P, NEW d \in [P -> Nat], Finite(d), Total(d) = 0
    PROVE  \A p \in P : d[p] = 0
  <1>1. Units(d) = {}
    BY FS_EmptySet DEF Finite, Total
  <1> SUFFICES ASSUME NEW p \in P, d[p] # 0 PROVE FALSE
    OBVIOUS
  <1>2. <<p, 1>> \in Units(d)
    BY DEF Units
  <1> QED BY <1>1, <1>2

\* A table with finitely many rows and bounded values.
LEMMA TableIsFinite ==
    ASSUME NEW k \in Nat, NEW n \in Nat, NEW d \in [1 .. k -> 0 .. n]
    PROVE  Finite(d)
  <1>1. IsFiniteSet(1 .. k) /\ IsFiniteSet(1 .. n)
    BY FS_Interval
  <1>2. IsFiniteSet((1 .. k) \X (1 .. n))
    BY <1>1, FS_Product
  <1>3. Units(d) \in SUBSET ((1 .. k) \X (1 .. n))
    BY DEF Units
  <1> QED BY <1>2, <1>3, FS_Subset DEF Finite

\* A table that continues another one.
LEMMA TableContinued ==
    ASSUME NEW k \in Nat, NEW l \in Nat,
           NEW a \in [1 .. k -> Nat], NEW b \in [1 .. l -> Nat],
           NEW c \in [1 .. k + l -> Nat],
           \A n \in 1 .. k : c[n] = a[n], \A n \in 1 .. l : c[k + n] = b[n],
           Finite(a), Finite(b)
    PROVE  Finite(c) /\ Total(c) = Total(a) + Total(b)
  <1> DEFINE S == {t \in Units(c) : t[1] > k}
             f == [t \in Units(b) |-> <<k + t[1], t[2]>>]
  <1>1. Units(c) = Units(a) \cup S /\ Units(a) \cap S = {}
    <2>1. \A t \in Units(c) : t[1] > k \/ t \in Units(a)
      BY DEF Units
    <2>2. \A t \in Units(a) : t \in Units(c) /\ ~(t[1] > k)
      BY DEF Units
    <2> QED BY <2>1, <2>2
  <1>2. /\ \A t \in Units(b) : /\ t[1] \in 1 .. l /\ t[2] \in Nat \ {0}
                              /\ t = <<t[1], t[2]>> /\ t[2] <= b[t[1]]
        /\ \A n \in 1 .. l, m \in Nat \ {0} : m <= b[n] => <<n, m>> \in Units(b)
    BY UnitsShape
  <1>3. /\ \A t \in Units(c) : /\ t[1] \in 1 .. k + l /\ t[2] \in Nat \ {0}
                              /\ t = <<t[1], t[2]>> /\ t[2] <= c[t[1]]
        /\ \A n \in 1 .. k + l, m \in Nat \ {0} : m <= c[n] => <<n, m>> \in Units(c)
    BY UnitsShape
  <1>4. f \in Bijection(Units(b), S)
    <2>1. f \in [Units(b) -> S]
      <3> SUFFICES ASSUME NEW t \in Units(b) PROVE <<k + t[1], t[2]>> \in S
        OBVIOUS
      <3>1. k + t[1] \in 1 .. k + l /\ k + t[1] > k
        BY <1>2
      <3>2. t[2] \in Nat \ {0} /\ t[2] <= c[k + t[1]]
        BY <1>2
      <3> QED BY <1>3, <3>1, <3>2
    <2>2. ASSUME NEW t \in Units(b), NEW u \in Units(b), f[t] = f[u]
          PROVE  t = u
      <3>1. <<k + t[1], t[2]>> = <<k + u[1], u[2]>>
        BY <2>2
      <3>2. t[1] = u[1] /\ t[2] = u[2]
        BY <1>2, <3>1
      <3> QED BY <1>2, <3>2
    <2>3. ASSUME NEW t \in S
          PROVE  \E u \in Units(b) : f[u] = t
      <3>1. /\ t[1] \in 1 .. k + l /\ t[1] > k /\ t[2] \in Nat \ {0}
            /\ t = <<t[1], t[2]>> /\ t[2] <= c[t[1]]
        BY <1>3
      <3>2. PICK n \in 1 .. l : t[1] = k + n
        <4>1. t[1] - k \in 1 .. l /\ t[1] = k + (t[1] - k)
          BY <3>1
        <4> QED BY <4>1
      <3>3. <<n, t[2]>> \in Units(b)
        BY <1>2, <3>1, <3>2
      <3>4. f[<<n, t[2]>>] = <<k + n, t[2]>>
        BY <3>3
      <3> QED BY <3>1, <3>2, <3>3, <3>4
    <2> QED BY <2>1, <2>2, <2>3 DEF Bijection, Injection, Surjection, IsInjective
  <1> HIDE DEF S, f
  <1>5. IsFiniteSet(S) /\ Cardinality(S) = Total(b)
    <2>1. ExistsBijection(Units(b), S)
      BY <1>4 DEF ExistsBijection
    <2> QED BY <2>1, FS_Bijection DEF Finite, Total
  <1>6. /\ IsFiniteSet(Units(a) \cup S)
        /\ Cardinality(Units(a) \cup S) = Cardinality(Units(a)) + Cardinality(S)
    BY <1>1, <1>5, Apart DEF Finite
  <1> QED BY <1>1, <1>5, <1>6 DEF Finite, Total

-----------------------------------------------------------------------------
(* What is left for a submission.                                          *)

Measures == {"stored", "tries"}

\* What one round of the queue allows.
Round(m) == IF m = "tries" THEN MaxRetries ELSE 1

\* What the entry e allows for i: the tries it has left, or one document.
Due(m, i, e) ==
    IF e.item # i THEN 0
    ELSE IF m = "tries" THEN MaxRetries - e.retryCount ELSE 1

SeqDue(m, i, s)  == [n \in 1 .. Len(s) |-> Due(m, i, s[n])]
SeqLoad(m, i, s) == Total(SeqDue(m, i, s))

\* What the call k allows for i: its own tries and a round of the queue.
DueOfCall(m, i, k) ==
    IF k.pc = "idle" \/ k.item # i THEN 0
    ELSE IF m = "tries" /\ k.pc = "try" THEN MaxRetries + (MaxAttempts + 1 - k.attempt)
    ELSE Round(m)

CallDue(m, i) == [c \in Calls |-> DueOfCall(m, i, call[c])]
RunDue(m, i)  == [p \in Runs |-> SeqLoad(m, i, run[p].items)]

CallLoad(m, i)  == Total(CallDue(m, i))
RunLoad(m, i)   == Total(RunDue(m, i))
QueueLoad(m, i) == SeqLoad(m, i, redis) + SeqLoad(m, i, memory)

\* Calls and runs may be any number: that what is left is a number is part of
\* the invariant.
Countable(m, i) == Finite(CallDue(m, i)) /\ Finite(RunDue(m, i))
Left(m, i)      == CallLoad(m, i) + RunLoad(m, i) + QueueLoad(m, i)

Spent(m, i)   == IF m = "tries" THEN tries[i] ELSE stored[i]
Granted(m, i) ==
    IF i \notin begun THEN 0
    ELSE IF m = "tries" THEN MaxAttempts + MaxRetries * (1 + hidden[i])
    ELSE 1 + hidden[i]

CountsInv ==
    \A m \in Measures, i \in Items :
        Countable(m, i) /\ Spent(m, i) + Left(m, i) <= Granted(m, i)

LEMMA Rounds == \A m \in Measures : Round(m) \in Nat /\ Round(m) > 0
  BY Limits DEF Round, Measures

LEMMA Dues ==
    ASSUME NEW m \in Measures, NEW i \in Items, NEW e \in Entry
    PROVE  /\ Due(m, i, e) \in 0 .. Round(m)
           /\ e.item = i => Due(m, i, e) > 0
           /\ e.item # i => Due(m, i, e) = 0
  <1>1. e.retryCount \in 0 .. MaxRetries - 1
    BY DEF Entry
  <1>2. CASE m = "tries"
    BY <1>1, <1>2, Limits DEF Due, Round
  <1>3. CASE m = "stored"
    BY <1>3, Limits DEF Due, Round
  <1> QED BY <1>2, <1>3 DEF Measures

LEMMA DueIsNat ==
    ASSUME NEW m \in Measures, NEW i \in Items, NEW e \in Entry
    PROVE  Due(m, i, e) \in Nat
  <1>1. Round(m) \in Nat /\ Due(m, i, e) \in 0 .. Round(m)
    BY Rounds, Dues
  <1> QED BY <1>1

LEMMA SeqLoads ==
    ASSUME NEW m \in Measures, NEW i \in Items, NEW s \in Seq(Entry)
    PROVE  /\ SeqDue(m, i, s) \in [1 .. Len(s) -> Nat]
           /\ Finite(SeqDue(m, i, s)) /\ SeqLoad(m, i, s) \in Nat
  <1>1. Len(s) \in Nat /\ Round(m) \in Nat /\ \A n \in 1 .. Len(s) : s[n] \in Entry
    BY Rounds
  <1>2. SeqDue(m, i, s) \in [1 .. Len(s) -> 0 .. Round(m)]
    BY <1>1, Dues DEF SeqDue
  <1>3. Finite(SeqDue(m, i, s))
    BY <1>1, <1>2, TableIsFinite
  <1>4. SeqDue(m, i, s) \in [1 .. Len(s) -> Nat]
    BY <1>1, <1>2
  <1> QED BY <1>3, <1>4, TotalIsNat DEF SeqLoad

LEMMA LoadOfConcat ==
    ASSUME NEW m \in Measures, NEW i \in Items, NEW s \in Seq(Entry), NEW t \in Seq(Entry)
    PROVE  SeqLoad(m, i, s \o t) = SeqLoad(m, i, s) + SeqLoad(m, i, t)
  <1>1. /\ Len(s) \in Nat /\ Len(t) \in Nat /\ Len(s \o t) = Len(s) + Len(t)
        /\ s \o t \in Seq(Entry)
        /\ \A n \in 1 .. Len(s) : (s \o t)[n] = s[n]
        /\ \A n \in 1 .. Len(t) : (s \o t)[Len(s) + n] = t[n]
    <2>1. Len(s) \in Nat /\ Len(t) \in Nat /\ Len(s \o t) = Len(s) + Len(t)
      OBVIOUS
    <2>2. s \o t \in Seq(Entry)
      OBVIOUS
    <2>3. \A n \in 1 .. Len(s) : (s \o t)[n] = s[n]
      OBVIOUS
    <2>4. \A n \in 1 .. Len(t) : (s \o t)[Len(s) + n] = t[n]
      OBVIOUS
    <2> QED BY <2>1, <2>2, <2>3, <2>4
  <1> DEFINE a == SeqDue(m, i, s)  b == SeqDue(m, i, t)  c == SeqDue(m, i, s \o t)
  <1>2. /\ a \in [1 .. Len(s) -> Nat] /\ b \in [1 .. Len(t) -> Nat]
        /\ Finite(a) /\ Finite(b)
    BY SeqLoads
  <1>3. c \in [1 .. Len(s) + Len(t) -> Nat]
    BY <1>1, SeqLoads
  <1>4. \A n \in 1 .. Len(s) : c[n] = a[n]
    BY <1>1 DEF SeqDue
  <1>5. \A n \in 1 .. Len(t) : c[Len(s) + n] = b[n]
    BY <1>1 DEF SeqDue
  <1> HIDE DEF a, b, c
  <1>6. Total(c) = Total(a) + Total(b)
    BY <1>1, <1>2, <1>3, <1>4, <1>5, TableContinued
  <1> QED BY <1>6 DEF a, b, c, SeqLoad

LEMMA LoadOfEmpty ==
    ASSUME NEW m \in Measures, NEW i \in Items
    PROVE  SeqLoad(m, i, <<>>) = 0
  <1>1. SeqDue(m, i, <<>>) \in [1 .. 0 -> Nat]
    BY DEF SeqDue
  <1> QED BY <1>1, NothingAtAll DEF SeqLoad

LEMMA LoadOfOne ==
    ASSUME NEW m \in Measures, NEW i \in Items, NEW e \in Entry
    PROVE  <<e>> \in Seq(Entry) /\ SeqLoad(m, i, <<e>>) = Due(m, i, e)
  <1> DEFINE d == SeqDue(m, i, <<e>>)
             z == [n \in 1 .. 1 |-> 0]
  <1>1. d \in [1 .. 1 -> Nat] /\ z \in [1 .. 1 -> Nat] /\ d[1] = Due(m, i, e)
    BY Dues, Rounds DEF SeqDue
  <1>2. Finite(z) /\ Total(z) = 0 /\ z[1] = 0
    BY <1>1, NothingAtAll
  <1>3. \A q \in 1 .. 1 : q # 1 => d[q] = z[q]
    OBVIOUS
  <1> HIDE DEF d, z
  <1>4. Finite(d) /\ Total(d) + z[1] = Total(z) + d[1]
    BY <1>1, <1>2, <1>3, OneChanges
  <1>5. Total(d) \in Nat
    BY <1>4, TotalIsNat
  <1>6. Total(d) = Due(m, i, e)
    BY <1>1, <1>2, <1>4, <1>5
  <1> QED BY <1>6 DEF d, SeqLoad

LEMMA LoadOfAppend ==
    ASSUME NEW m \in Measures, NEW i \in Items, NEW s \in Seq(Entry), NEW e \in Entry
    PROVE  SeqLoad(m, i, Append(s, e)) = SeqLoad(m, i, s) + Due(m, i, e)
  <1> DEFINE one == <<e>>
  <1>1. Append(s, e) = s \o one
    OBVIOUS
  <1>2. one \in Seq(Entry) /\ SeqLoad(m, i, one) = Due(m, i, e)
    BY LoadOfOne
  <1> HIDE DEF one
  <1> QED BY <1>1, <1>2, LoadOfConcat

LEMMA LoadOfTail ==
    ASSUME NEW m \in Measures, NEW i \in Items, NEW s \in Seq(Entry), s # <<>>
    PROVE  SeqLoad(m, i, s) = Due(m, i, Head(s)) + SeqLoad(m, i, Tail(s))
  <1> DEFINE one == <<Head(s)>>
  <1>1. s = one \o Tail(s) /\ Tail(s) \in Seq(Entry) /\ Head(s) \in Entry
    OBVIOUS
  <1>2. one \in Seq(Entry) /\ SeqLoad(m, i, one) = Due(m, i, Head(s))
    BY <1>1, LoadOfOne
  <1> HIDE DEF one
  <1> QED BY <1>1, <1>2, LoadOfConcat, ZenonT(60)

\* Counting a failed try takes one from what is left, and no document.
LEMMA LoadOfCounted ==
    ASSUME NEW m \in Measures, NEW i \in Items, NEW s \in Seq(Entry), s # <<>>,
           Head(s).retryCount + 1 < MaxRetries
    PROVE  /\ m = "stored" => SeqLoad(m, i, Counted(s)) = SeqLoad(m, i, s)
           /\ m = "tries" /\ Head(s).item = i =>
                 SeqLoad(m, i, Counted(s)) + 1 = SeqLoad(m, i, s)
           /\ Head(s).item # i => SeqLoad(m, i, Counted(s)) = SeqLoad(m, i, s)
  <1> DEFINE e == [Head(s) EXCEPT !.retryCount = @ + 1]  one == <<e>>
  <1>1. Tail(s) \in Seq(Entry) /\ Head(s) \in Entry
    BY ItemsOfTail
  <1>2. /\ Head(s).item \in Items /\ Head(s).retryCount \in 0 .. MaxRetries - 1
        /\ e = [item |-> Head(s).item, retryCount |-> Head(s).retryCount + 1]
    BY <1>1 DEF Entry
  <1>3. e \in Entry /\ e.item = Head(s).item /\ e.retryCount = Head(s).retryCount + 1
    BY <1>2, Limits DEF Entry
  <1>4. Counted(s) = one \o Tail(s)
    BY DEF Counted
  <1> HIDE DEF e
  <1>5. one \in Seq(Entry) /\ SeqLoad(m, i, one) = Due(m, i, e)
    BY <1>3, LoadOfOne
  <1> HIDE DEF one
  <1>6. SeqLoad(m, i, Counted(s)) = Due(m, i, e) + SeqLoad(m, i, Tail(s))
    BY <1>1, <1>4, <1>5, LoadOfConcat, ZenonT(60)
  <1>7. SeqLoad(m, i, s) = Due(m, i, Head(s)) + SeqLoad(m, i, Tail(s))
    BY LoadOfTail
  <1>8. SeqLoad(m, i, Tail(s)) \in Nat
    BY <1>1, SeqLoads
  <1>9. /\ m = "stored" => Due(m, i, e) = Due(m, i, Head(s))
        /\ m = "tries" /\ Head(s).item = i => Due(m, i, e) + 1 = Due(m, i, Head(s))
        /\ Head(s).item # i => Due(m, i, e) = 0 /\ Due(m, i, Head(s)) = 0
    BY <1>2, <1>3, Limits DEF Due
  <1>10. Due(m, i, e) \in Nat /\ Due(m, i, Head(s)) \in Nat
    BY <1>1, <1>3, Dues, Rounds
  <1> QED BY <1>6, <1>7, <1>8, <1>9, <1>10

-----------------------------------------------------------------------------
(* What the steps of the model do to these numbers.                        *)

LEMMA CallDues ==
    ASSUME NEW m \in Measures, NEW i \in Items, NEW k \in CallRecord
    PROVE  DueOfCall(m, i, k) \in Nat
  <1>1. k.attempt \in 0 .. MaxAttempts
    BY DEF CallRecord
  <1> QED BY <1>1, Limits DEF DueOfCall, Round, Measures

\* Everything that is counted is a number.
LEMMA Numbers ==
    ASSUME TypeOK, NEW m \in Measures, NEW i \in Items, Countable(m, i)
    PROVE  /\ CallDue(m, i) \in [Calls -> Nat] /\ RunDue(m, i) \in [Runs -> Nat]
           /\ CallLoad(m, i) \in Nat /\ RunLoad(m, i) \in Nat
           /\ SeqLoad(m, i, redis) \in Nat /\ SeqLoad(m, i, memory) \in Nat
           /\ \A p \in Runs : SeqLoad(m, i, run[p].items) \in Nat
           /\ \A c \in Calls : DueOfCall(m, i, call[c]) \in Nat
           /\ Spent(m, i) \in Nat /\ Granted(m, i) \in Nat
  <1>1. /\ call \in [Calls -> CallRecord] /\ run \in [Runs -> RunRecord]
        /\ redis \in Seq(Entry) /\ memory \in Seq(Entry)
        /\ stored[i] \in Nat /\ tries[i] \in Nat /\ hidden[i] \in Nat
    BY Types
  <1>2. \A p \in Runs : run[p].items \in Seq(Entry)
    BY <1>1 DEF RunRecord
  <1>3. /\ \A p \in Runs : SeqLoad(m, i, run[p].items) \in Nat
        /\ SeqLoad(m, i, redis) \in Nat /\ SeqLoad(m, i, memory) \in Nat
    BY <1>1, <1>2, SeqLoads
  <1>4. \A c \in Calls : DueOfCall(m, i, call[c]) \in Nat
    BY <1>1, CallDues
  <1>5. CallDue(m, i) \in [Calls -> Nat] /\ RunDue(m, i) \in [Runs -> Nat]
    BY <1>3, <1>4 DEF CallDue, RunDue
  <1>6. CallLoad(m, i) \in Nat /\ RunLoad(m, i) \in Nat
    BY TotalIsNat DEF Countable, CallLoad, RunLoad
  <1>7. Spent(m, i) \in Nat
    BY <1>1 DEF Spent
  <1>8. Granted(m, i) \in Nat
    <2>1. MaxRetries * (1 + hidden[i]) \in Nat
      BY <1>1, Limits
    <2> QED BY <1>1, <2>1, Limits, SMTT(30) DEF Granted
  <1> QED BY <1>3, <1>4, <1>5, <1>6, <1>7, <1>8

\* A call that goes from one record to another.
LEMMA CallTurns ==
    ASSUME TypeOK, NEW c \in Calls, NEW k \in CallRecord,
           call' = [call EXCEPT ![c] = k],
           NEW m \in Measures, NEW i \in Items, Countable(m, i)
    PROVE  /\ Finite(CallDue(m, i)')
           /\ CallLoad(m, i)' + DueOfCall(m, i, call[c]) = CallLoad(m, i) + DueOfCall(m, i, k)
           /\ CallLoad(m, i)' \in Nat
  <1> DEFINE d == CallDue(m, i)  e == CallDue(m, i)'
  <1>1. call \in [Calls -> CallRecord]
    BY Types
  <1>2. e[c] = DueOfCall(m, i, k) /\ \A q \in Calls : q # c => e[q] = d[q]
    BY <1>1 DEF CallDue
  <1>3. d \in [Calls -> Nat] /\ Finite(d) /\ d[c] = DueOfCall(m, i, call[c])
    BY Numbers DEF CallDue, Countable
  <1>4. e \in [Calls -> Nat]
    <2>1. \A q \in Calls : call'[q] \in CallRecord
      BY <1>1
    <2> QED BY <2>1, CallDues DEF CallDue
  <1> HIDE DEF d, e
  <1>5. Finite(e) /\ Total(e) + d[c] = Total(d) + e[c]
    BY <1>2, <1>3, <1>4, OneChanges
  <1>6. Total(e) \in Nat
    BY <1>5, TotalIsNat
  <1> QED BY <1>2, <1>3, <1>5, <1>6 DEF d, e, CallLoad

\* A run that goes from one record to another.
LEMMA RunTurns ==
    ASSUME TypeOK, NEW p \in Runs, NEW k \in RunRecord,
           run' = [run EXCEPT ![p] = k],
           NEW m \in Measures, NEW i \in Items, Countable(m, i)
    PROVE  /\ Finite(RunDue(m, i)')
           /\ RunLoad(m, i)' + SeqLoad(m, i, run[p].items)
                = RunLoad(m, i) + SeqLoad(m, i, k.items)
           /\ RunLoad(m, i)' \in Nat /\ SeqLoad(m, i, k.items) \in Nat
  <1> DEFINE d == RunDue(m, i)  e == RunDue(m, i)'
  <1>1. run \in [Runs -> RunRecord] /\ k.items \in Seq(Entry)
    BY Types DEF RunRecord
  <1>2. e[p] = SeqLoad(m, i, k.items) /\ \A q \in Runs : q # p => e[q] = d[q]
    BY <1>1 DEF RunDue
  <1>3. d \in [Runs -> Nat] /\ Finite(d) /\ d[p] = SeqLoad(m, i, run[p].items)
    BY Numbers DEF RunDue, Countable
  <1>4. e \in [Runs -> Nat]
    <2>1. \A q \in Runs : run'[q].items \in Seq(Entry)
      BY <1>1 DEF RunRecord
    <2> QED BY <2>1, SeqLoads DEF RunDue
  <1>5. SeqLoad(m, i, k.items) \in Nat
    BY <1>1, SeqLoads
  <1> HIDE DEF d, e
  <1>6. Finite(e) /\ Total(e) + d[p] = Total(d) + e[p]
    BY <1>2, <1>3, <1>4, OneChanges
  <1>7. Total(e) \in Nat
    BY <1>6, TotalIsNat
  <1> QED BY <1>2, <1>3, <1>5, <1>6, <1>7 DEF d, e, RunLoad

\* An error that hid a success grants one more round.
LEMMA Grants ==
    ASSUME TypeOK, begun' = begun, NEW j \in begun, j \in Items,
           hidden' = hidden \/ hidden' = [hidden EXCEPT ![j] = @ + 1],
           NEW m \in Measures, NEW i \in Items
    PROVE  /\ hidden' = hidden => Granted(m, i)' = Granted(m, i)
           /\ i # j => Granted(m, i)' = Granted(m, i)
           /\ hidden' # hidden /\ i = j => Granted(m, i)' = Granted(m, i) + Round(m)
           /\ Granted(m, i) \in Nat /\ Granted(m, i)' \in Nat
  <1>1. hidden \in [Items -> Nat]
    BY Types
  <1>2. /\ MaxRetries * (1 + hidden[i]) \in Nat
        /\ MaxRetries * (1 + (hidden[i] + 1)) = MaxRetries * (1 + hidden[i]) + MaxRetries
    BY <1>1, Limits
  <1>3. CASE hidden' = hidden
    BY <1>1, <1>2, <1>3, Limits DEF Granted
  <1>4. CASE i # j /\ hidden' = [hidden EXCEPT ![j] = @ + 1]
    <2>1. hidden'[i] = hidden[i] /\ hidden' # hidden
      BY <1>1, <1>4
    <2> QED BY <1>1, <1>2, <1>4, <2>1, Limits DEF Granted
  <1>5. CASE i = j /\ hidden' = [hidden EXCEPT ![j] = @ + 1]
    <2>1. hidden'[i] = hidden[i] + 1
      BY <1>1, <1>5
    <2>2. CASE m = "tries"
      BY <1>1, <1>2, <1>5, <2>1, <2>2, Limits DEF Granted, Round
    <2>3. CASE m = "stored"
      BY <1>1, <1>5, <2>1, <2>3, Limits DEF Granted, Round
    <2> QED BY <1>5, <2>1, <2>2, <2>3 DEF Measures
  <1> QED BY <1>3, <1>4, <1>5

\* A command to Mongo.
LEMMA CommandCounts ==
    ASSUME TypeOK, begun' = begun, NEW j \in begun, j \in Items,
           Succeeds(j) \/ Fails(j), NEW m \in Measures, NEW i \in Items
    PROVE  /\ i # j => Spent(m, i)' = Spent(m, i) /\ Granted(m, i)' = Granted(m, i)
           /\ i = j /\ Succeeds(j) =>
                 Spent(m, i)' = Spent(m, i) + 1 /\ Granted(m, i)' = Granted(m, i)
           /\ i = j /\ Fails(j) /\ m = "tries" =>
                 Spent(m, i)' = Spent(m, i) + 1 /\ Granted(m, i)' >= Granted(m, i)
           /\ i = j /\ Fails(j) /\ m = "stored" =>
                 Spent(m, i)' + Granted(m, i) <= Spent(m, i) + Granted(m, i)'
           /\ Spent(m, i)' \in Nat /\ Granted(m, i)' \in Nat
  <1>1. /\ stored \in [Items -> Nat] /\ tries \in [Items -> Nat]
        /\ hidden \in [Items -> Nat]
    BY Types
  <1>2. tries' = [tries EXCEPT ![j] = @ + 1]
    BY DEF Succeeds, Fails
  <1>3. hidden' = hidden \/ hidden' = [hidden EXCEPT ![j] = @ + 1]
    BY DEF Succeeds, Fails
  <1>4. /\ hidden' = hidden => Granted(m, i)' = Granted(m, i)
        /\ i # j => Granted(m, i)' = Granted(m, i)
        /\ hidden' # hidden /\ i = j => Granted(m, i)' = Granted(m, i) + Round(m)
        /\ Granted(m, i) \in Nat /\ Granted(m, i)' \in Nat
    BY <1>3, Grants
  <1>5. stored' = stored \/ stored' = [stored EXCEPT ![j] = @ + 1]
    BY DEF Succeeds, Fails
  <1>6. Spent(m, i) \in Nat /\ Spent(m, i)' \in Nat
    BY <1>1, <1>2, <1>5 DEF Spent
  <1>7. i # j => Spent(m, i)' = Spent(m, i)
    BY <1>1, <1>2, <1>5 DEF Spent
  <1>8. i = j /\ m = "tries" => Spent(m, i)' = Spent(m, i) + 1
    BY <1>1, <1>2 DEF Spent
  <1>9. CASE Succeeds(j)
    <2>1. stored' = [stored EXCEPT ![j] = @ + 1] /\ hidden' = hidden
      BY <1>9 DEF Succeeds
    <2>2. i = j /\ m = "stored" => Spent(m, i)' = Spent(m, i) + 1
      BY <1>1, <2>1 DEF Spent
    <2>3. Granted(m, i)' = Granted(m, i)
      BY <1>4, <2>1
    <2>4. i = j => Spent(m, i)' = Spent(m, i) + 1
      BY <1>8, <2>2 DEF Measures
    <2>5. ~Fails(j)
      <3>1. stored' # stored
        BY <1>1, <2>1
      <3>2. hidden' # [hidden EXCEPT ![j] = @ + 1]
        BY <1>1, <2>1
      <3> QED BY <3>1, <3>2 DEF Fails
    <2> QED BY <1>4, <1>6, <1>7, <2>3, <2>4, <2>5
  <1>10. CASE Fails(j)
    <2>1. /\ Round(m) \in Nat /\ (m = "stored" => Round(m) = 1)
      BY Rounds DEF Round
    <2>2. Granted(m, i)' >= Granted(m, i)
      BY <1>4, <2>1
    <2>3. \/ stored' = stored /\ hidden' = hidden
          \/ /\ stored' = [stored EXCEPT ![j] = @ + 1]
             /\ hidden' = [hidden EXCEPT ![j] = @ + 1]
      BY <1>10 DEF Fails
    <2>4. i = j /\ m = "stored" =>
              Spent(m, i)' + Granted(m, i) <= Spent(m, i) + Granted(m, i)'
      <3>1. CASE stored' = stored /\ hidden' = hidden
        <4>1. m = "stored" => Spent(m, i)' = Spent(m, i)
          BY <3>1 DEF Spent
        <4> QED BY <1>4, <1>6, <3>1, <4>1
      <3>2. CASE stored' = [stored EXCEPT ![j] = @ + 1] /\ hidden' = [hidden EXCEPT ![j] = @ + 1]
        <4>1. i = j /\ m = "stored" => Spent(m, i)' = Spent(m, i) + 1
          BY <1>1, <3>2 DEF Spent
        <4>2. hidden' # hidden
          BY <1>1, <3>2
        <4> QED BY <1>4, <1>6, <2>1, <4>1, <4>2
      <3> QED BY <2>3, <3>1, <3>2
    <2>5. ~Succeeds(j)
      <3>1. stored' = stored => stored' # [stored EXCEPT ![j] = @ + 1]
        BY <1>1
      <3>2. hidden' = [hidden EXCEPT ![j] = @ + 1] => hidden' # hidden
        BY <1>1
      <3> QED BY <2>3, <3>1, <3>2 DEF Succeeds
    <2> QED BY <1>4, <1>6, <1>7, <1>8, <2>2, <2>4, <2>5
  <1> QED BY <1>9, <1>10

\* Queueing an entry: what it allows is in the queues, and a second time when
\* the error of Redis hid that it was there.
LEMMA PushCounts ==
    ASSUME TypeOK, begun' = begun, NEW entry \in Entry, entry.item \in begun,
           Push(entry), NEW m \in Measures, NEW i \in Items
    PROVE  /\ QueueLoad(m, i)' + Granted(m, i)
                <= QueueLoad(m, i) + Due(m, i, entry) + Granted(m, i)'
           /\ QueueLoad(m, i)' \in Nat /\ QueueLoad(m, i) \in Nat
           /\ Granted(m, i) \in Nat /\ Granted(m, i)' \in Nat
           /\ Due(m, i, entry) \in Nat
  <1>1. PICK j \in Items : j = entry.item /\ j \in begun
    BY DEF Entry
  <1>2. redis \in Seq(Entry) /\ memory \in Seq(Entry)
    BY Types
  <1>3. hidden' = hidden \/ hidden' = [hidden EXCEPT ![j] = @ + 1]
    BY <1>1 DEF Push
  <1>4. /\ hidden' = hidden => Granted(m, i)' = Granted(m, i)
        /\ i # j => Granted(m, i)' = Granted(m, i)
        /\ hidden' # hidden /\ i = j => Granted(m, i)' = Granted(m, i) + Round(m)
        /\ Granted(m, i) \in Nat /\ Granted(m, i)' \in Nat
    BY <1>1, <1>3, Grants
  <1>5. /\ Due(m, i, entry) \in Nat /\ Due(m, i, entry) <= Round(m)
        /\ (i # j => Due(m, i, entry) = 0) /\ Round(m) \in Nat
    BY <1>1, Dues, Rounds
  <1>6. /\ SeqLoad(m, i, redis) \in Nat /\ SeqLoad(m, i, memory) \in Nat
        /\ SeqLoad(m, i, Append(redis, entry)) = SeqLoad(m, i, redis) + Due(m, i, entry)
        /\ SeqLoad(m, i, Append(memory, entry)) = SeqLoad(m, i, memory) + Due(m, i, entry)
    BY <1>2, SeqLoads, LoadOfAppend
  <1>7. /\ QueueLoad(m, i) = SeqLoad(m, i, redis) + SeqLoad(m, i, memory)
        /\ QueueLoad(m, i)' = SeqLoad(m, i, redis') + SeqLoad(m, i, memory')
    BY DEF QueueLoad
  <1>8. CASE redis' = Append(redis, entry) /\ memory' = memory /\ hidden' = hidden
    BY <1>4, <1>5, <1>6, <1>7, <1>8
  <1>9. CASE memory' = Append(memory, entry) /\ redis' = redis /\ hidden' = hidden
    BY <1>4, <1>5, <1>6, <1>7, <1>9
  <1>10. CASE /\ memory' = Append(memory, entry) /\ redis' = Append(redis, entry)
              /\ hidden' = [hidden EXCEPT ![j] = @ + 1]
    <2>1. hidden' # hidden
      BY <1>10, Types
    <2>2. QueueLoad(m, i)' = QueueLoad(m, i) + Due(m, i, entry) + Due(m, i, entry)
      BY <1>5, <1>6, <1>7, <1>10
    <2>3. QueueLoad(m, i) \in Nat
      BY <1>6, <1>7
    <2>4. QueueLoad(m, i)' \in Nat
      BY <1>5, <2>2, <2>3
    <2>5. CASE i = j
      BY <1>4, <1>5, <2>1, <2>2, <2>3, <2>4, <2>5
    <2>6. CASE i # j
      BY <1>4, <1>5, <2>2, <2>3, <2>4, <2>6
    <2> QED BY <2>5, <2>6
  <1>11. \/ redis' = Append(redis, entry) /\ memory' = memory /\ hidden' = hidden
         \/ memory' = Append(memory, entry) /\ redis' = redis /\ hidden' = hidden
         \/ /\ memory' = Append(memory, entry) /\ redis' = Append(redis, entry)
            /\ hidden' = [hidden EXCEPT ![j] = @ + 1]
    BY <1>1 DEF Push
  <1> QED BY <1>8, <1>9, <1>10, <1>11

-----------------------------------------------------------------------------
(* Every step keeps the balance.                                           *)

\* What a step owes to CountsInv, for one measure and one submission.
Balanced(m, i) ==
    /\ Countable(m, i)'
    /\ Spent(m, i)' + Left(m, i)' <= Granted(m, i)'

\* What is in hand was begun.
LEMMA HeldIsBegun ==
    ASSUME TypeOK, CountsInv, NEW i \in Items, NEW m \in Measures,
           Left(m, i) > 0
    PROVE  i \in begun
  <1>1. Spent(m, i) + Left(m, i) <= Granted(m, i) /\ Spent(m, i) \in Nat
    BY Numbers DEF CountsInv
  <1>2. i \notin begun => Granted(m, i) = 0
    BY DEF Granted
  <1>3. Left(m, i) \in Nat
    BY Numbers DEF CountsInv, Left, QueueLoad
  <1> QED BY <1>1, <1>2, <1>3

\* The submission of a call at work was begun.
LEMMA CalledIsBegun ==
    ASSUME TypeOK, Busy, CountsInv, NEW c \in Calls, call[c].pc # "idle"
    PROVE  call[c].item \in begun /\ call[c].item \in Items
  <1>1. PICK i \in Items : i = call[c].item
    BY DEF Busy
  <1> DEFINE m == "stored"
  <1>2. m \in Measures
    BY DEF Measures
  <1>3. DueOfCall(m, i, call[c]) > 0
    BY <1>1 DEF DueOfCall, Round
  <1> HIDE DEF m
  <1>4. Countable(m, i)
    BY <1>2 DEF CountsInv
  <1>5. /\ CallDue(m, i) \in [Calls -> Nat] /\ CallLoad(m, i) \in Nat
        /\ RunLoad(m, i) \in Nat /\ QueueLoad(m, i) \in Nat
    BY <1>2, <1>4, Numbers DEF QueueLoad
  <1>6. CallLoad(m, i) # 0
    <2>1. CallDue(m, i)[c] # 0
      BY <1>3, <1>5 DEF CallDue
    <2> QED BY <1>4, <1>5, <2>1, NothingAnywhere DEF CallLoad, Countable
  <1>7. Left(m, i) > 0
    BY <1>5, <1>6 DEF Left
  <1> QED BY <1>1, <1>2, <1>7, HeldIsBegun

\* The submission at the head of what a run has was begun.
LEMMA PulledIsBegun ==
    ASSUME TypeOK, CountsInv, NEW p \in Runs, run[p].items # <<>>
    PROVE  Current(p).item \in begun /\ Current(p).item \in Items
  <1>1. run[p].items \in Seq(Entry)
    BY Types DEF RunRecord
  <1>2. Current(p) \in Entry /\ Current(p) = Head(run[p].items)
    BY <1>1, ItemsOfTail DEF Current
  <1>3. PICK i \in Items : i = Current(p).item
    BY <1>2 DEF Entry
  <1> DEFINE m == "stored"
  <1>4. m \in Measures
    BY DEF Measures
  <1> HIDE DEF m
  <1>5. Due(m, i, Current(p)) > 0 /\ Due(m, i, Current(p)) \in Nat
    BY <1>2, <1>3, <1>4, Dues, Rounds
  <1>6. Countable(m, i) /\ SeqLoad(m, i, Tail(run[p].items)) \in Nat
    BY <1>1, <1>4, ItemsOfTail, SeqLoads DEF CountsInv
  <1>7. SeqLoad(m, i, run[p].items) > 0
    BY <1>1, <1>2, <1>4, <1>5, <1>6, LoadOfTail
  <1>8. /\ RunDue(m, i) \in [Runs -> Nat] /\ CallLoad(m, i) \in Nat
        /\ RunLoad(m, i) \in Nat /\ QueueLoad(m, i) \in Nat
    BY <1>4, <1>6, Numbers DEF QueueLoad
  <1>9. RunLoad(m, i) # 0
    <2>1. RunDue(m, i)[p] # 0
      BY <1>7 DEF RunDue
    <2> QED BY <1>6, <1>8, <2>1, NothingAnywhere DEF RunLoad, Countable
  <1>10. Left(m, i) > 0
    BY <1>8, <1>9 DEF Left
  <1> QED BY <1>3, <1>4, <1>10, HeldIsBegun

\* A step of a call that leaves the queues alone.
LEMMA CallBalance ==
    ASSUME TypeOK, CountsInv, NEW c \in Calls, NEW k \in CallRecord,
           call' = [call EXCEPT ![c] = k], UNCHANGED <<run, redis, memory>>,
           NEW m \in Measures, NEW i \in Items,
           Spent(m, i)' \in Nat, Granted(m, i)' \in Nat,
           Spent(m, i)' + Granted(m, i) + DueOfCall(m, i, k)
             <= Spent(m, i) + Granted(m, i)' + DueOfCall(m, i, call[c])
    PROVE  Balanced(m, i)
  <1>1. Countable(m, i) /\ Spent(m, i) + Left(m, i) <= Granted(m, i)
    BY DEF CountsInv
  <1>2. /\ Finite(CallDue(m, i)')
        /\ CallLoad(m, i)' + DueOfCall(m, i, call[c]) = CallLoad(m, i) + DueOfCall(m, i, k)
        /\ CallLoad(m, i)' \in Nat
    BY <1>1, CallTurns
  <1>3. RunDue(m, i)' = RunDue(m, i) /\ QueueLoad(m, i)' = QueueLoad(m, i)
    BY DEF RunDue, QueueLoad
  <1>4. /\ CallLoad(m, i) \in Nat /\ RunLoad(m, i) \in Nat /\ QueueLoad(m, i) \in Nat
        /\ Spent(m, i) \in Nat /\ Granted(m, i) \in Nat
        /\ DueOfCall(m, i, call[c]) \in Nat /\ DueOfCall(m, i, k) \in Nat
    BY <1>1, Numbers, CallDues DEF QueueLoad
  <1>5. Countable(m, i)'
    BY <1>1, <1>2, <1>3 DEF Countable
  <1>6. Left(m, i)' = CallLoad(m, i)' + RunLoad(m, i) + QueueLoad(m, i)
    BY <1>3 DEF Left, RunLoad
  <1>7. Spent(m, i)' + Left(m, i)' <= Granted(m, i)'
    BY <1>1, <1>2, <1>4, <1>6 DEF Left
  <1> QED BY <1>5, <1>7 DEF Balanced

\* A step of a run.
LEMMA RunBalance ==
    ASSUME TypeOK, CountsInv, NEW p \in Runs, NEW k \in RunRecord,
           run' = [run EXCEPT ![p] = k], call' = call,
           NEW m \in Measures, NEW i \in Items,
           Spent(m, i)' \in Nat, Granted(m, i)' \in Nat, QueueLoad(m, i)' \in Nat,
           Spent(m, i)' + Granted(m, i) + SeqLoad(m, i, k.items) + QueueLoad(m, i)'
             <= Spent(m, i) + Granted(m, i)' + SeqLoad(m, i, run[p].items)
                  + QueueLoad(m, i)
    PROVE  Balanced(m, i)
  <1>1. Countable(m, i) /\ Spent(m, i) + Left(m, i) <= Granted(m, i)
    BY DEF CountsInv
  <1>2. /\ Finite(RunDue(m, i)')
        /\ RunLoad(m, i)' + SeqLoad(m, i, run[p].items)
             = RunLoad(m, i) + SeqLoad(m, i, k.items)
        /\ RunLoad(m, i)' \in Nat /\ SeqLoad(m, i, k.items) \in Nat
    BY <1>1, RunTurns
  <1>3. CallDue(m, i)' = CallDue(m, i)
    BY DEF CallDue
  <1>4. /\ CallLoad(m, i) \in Nat /\ RunLoad(m, i) \in Nat /\ QueueLoad(m, i) \in Nat
        /\ Spent(m, i) \in Nat /\ Granted(m, i) \in Nat
        /\ SeqLoad(m, i, run[p].items) \in Nat
    BY <1>1, Numbers DEF QueueLoad
  <1>5. Countable(m, i)'
    BY <1>1, <1>2, <1>3 DEF Countable
  <1>6. Left(m, i)' = CallLoad(m, i) + RunLoad(m, i)' + QueueLoad(m, i)'
    BY <1>3 DEF Left, CallLoad
  <1>7. Spent(m, i)' + Left(m, i)' <= Granted(m, i)'
    BY <1>1, <1>2, <1>4, <1>6 DEF Left
  <1> QED BY <1>5, <1>7 DEF Balanced

-----------------------------------------------------------------------------
LEMMA IdleDues ==
    ASSUME NEW m \in Measures, NEW i \in Items
    PROVE  /\ IdleCall \in CallRecord /\ DueOfCall(m, i, IdleCall) = 0
           /\ IdleRun \in RunRecord /\ SeqLoad(m, i, IdleRun.items) = 0
  BY Limits, ItemsOfEmpty, LoadOfEmpty
     DEF CallRecord, RunRecord, IdleCall, IdleRun, DueOfCall

LEMMA BeginBalances ==
    ASSUME Inv, CountsInv, NEW c \in Calls, NEW j \in Items, Begin(c, j),
           NEW m \in Measures, NEW i \in Items
    PROVE  Balanced(m, i)
  <1> DEFINE k == [pc |-> "try", item |-> j, attempt |-> 1]
  <1>1. TypeOK /\ Countable(m, i)
    BY DEF Inv, CountsInv
  <1>2. /\ call[c].pc = "idle" /\ begun' = begun \cup {j} /\ j \notin begun
        /\ call' = [call EXCEPT ![c] = k]
        /\ UNCHANGED <<run, redis, memory, stored, tries, hidden>>
    BY DEF Begin, queue
  <1>3. k \in CallRecord
    BY Limits DEF CallRecord
  <1>4. DueOfCall(m, i, call[c]) = 0
    BY <1>2 DEF DueOfCall
  <1>5. Spent(m, i)' = Spent(m, i)
    BY <1>2 DEF Spent
  <1>6. Spent(m, i) \in Nat /\ Granted(m, i) \in Nat /\ hidden[i] \in Nat
    BY <1>1, Numbers, Types
  <1>7. Granted(m, i)' \in Nat /\ Granted(m, i) + DueOfCall(m, i, k) <= Granted(m, i)'
    <2>1. CASE i # j
      <3>1. Granted(m, i)' = Granted(m, i) /\ DueOfCall(m, i, k) = 0
        BY <1>2, <2>1 DEF Granted, DueOfCall
      <3> QED BY <1>6, <3>1
    <2>2. CASE i = j /\ m = "tries"
      <3>1. Granted(m, i) = 0 /\ Granted(m, i)' = MaxAttempts + MaxRetries * (1 + hidden[i])
        BY <1>2, <2>2 DEF Granted
      <3>2. DueOfCall(m, i, k) = MaxRetries + (MaxAttempts + 1 - 1)
        BY <2>2 DEF DueOfCall
      <3>3. /\ MaxRetries * (1 + hidden[i]) = MaxRetries + MaxRetries * hidden[i]
            /\ MaxRetries * hidden[i] \in Nat
        BY <1>6, Limits
      <3> QED BY <3>1, <3>2, <3>3, Limits
    <2>3. CASE i = j /\ m = "stored"
      <3>1. Granted(m, i) = 0 /\ Granted(m, i)' = 1 + hidden[i]
        BY <1>2, <2>3 DEF Granted
      <3>2. DueOfCall(m, i, k) = 1
        BY <2>3 DEF DueOfCall, Round
      <3> QED BY <1>6, <3>1, <3>2
    <2> QED BY <2>1, <2>2, <2>3 DEF Measures
  <1>8. DueOfCall(m, i, k) \in Nat
    BY <1>3, CallDues
  <1> HIDE DEF k
  <1>9. Spent(m, i)' + Granted(m, i) + DueOfCall(m, i, k)
          <= Spent(m, i) + Granted(m, i)' + DueOfCall(m, i, call[c])
    BY <1>4, <1>5, <1>6, <1>7, <1>8
  <1> QED BY <1>1, <1>2, <1>3, <1>5, <1>6, <1>7, <1>9, CallBalance

LEMMA TrySucceedsBalances ==
    ASSUME Inv, CountsInv, NEW c \in Calls, TrySucceeds(c),
           NEW m \in Measures, NEW i \in Items
    PROVE  Balanced(m, i)
  <1>1. TypeOK /\ Busy /\ Countable(m, i) /\ call[c].pc = "try"
    BY DEF Inv, CountsInv, TrySucceeds
  <1>2. PICK j \in Items : j = call[c].item /\ j \in begun
    BY <1>1, CalledIsBegun
  <1>3. /\ Succeeds(j) /\ call' = [call EXCEPT ![c] = IdleCall]
        /\ UNCHANGED <<run, redis, memory, begun>>
    BY <1>2 DEF TrySucceeds, queue
  <1>4. /\ i # j => Spent(m, i)' = Spent(m, i) /\ Granted(m, i)' = Granted(m, i)
        /\ i = j => Spent(m, i)' = Spent(m, i) + 1 /\ Granted(m, i)' = Granted(m, i)
        /\ Spent(m, i)' \in Nat /\ Granted(m, i)' \in Nat
    BY <1>1, <1>2, <1>3, CommandCounts
  <1>5. DueOfCall(m, i, call[c]) \in Nat /\ (i = j => DueOfCall(m, i, call[c]) > 0)
    <2>1. DueOfCall(m, i, call[c]) \in Nat /\ call[c].attempt \in 0 .. MaxAttempts
      BY <1>1, Numbers, Types DEF CallRecord
    <2>2. i = j /\ m = "tries" => DueOfCall(m, i, call[c]) > 0
      BY <1>1, <1>2, <2>1, Limits DEF DueOfCall
    <2>3. i = j /\ m = "stored" => DueOfCall(m, i, call[c]) > 0
      BY <1>1, <1>2, Rounds DEF DueOfCall
    <2> QED BY <2>1, <2>2, <2>3 DEF Measures
  <1>6. IdleCall \in CallRecord /\ DueOfCall(m, i, IdleCall) = 0
    BY IdleDues
  <1>7. Spent(m, i) \in Nat /\ Granted(m, i) \in Nat
    BY <1>1, Numbers
  <1>8. Spent(m, i)' + Granted(m, i) + DueOfCall(m, i, IdleCall)
          <= Spent(m, i) + Granted(m, i)' + DueOfCall(m, i, call[c])
    BY <1>4, <1>5, <1>6, <1>7
  <1> QED BY <1>1, <1>3, <1>4, <1>6, <1>8, CallBalance

LEMMA TryIsRefusedBalances ==
    ASSUME Inv, CountsInv, NEW c \in Calls, TryIsRefused(c),
           NEW m \in Measures, NEW i \in Items
    PROVE  Balanced(m, i)
  <1>1. TypeOK /\ Busy /\ Countable(m, i) /\ call[c].pc = "try"
    BY DEF Inv, CountsInv, TryIsRefused
  <1>2. PICK j \in Items : j = call[c].item /\ j \in begun
    BY <1>1, CalledIsBegun
  <1>3. /\ tries' = [tries EXCEPT ![j] = @ + 1] /\ call' = [call EXCEPT ![c] = IdleCall]
        /\ UNCHANGED <<run, redis, memory, begun, stored, hidden>>
    BY <1>2 DEF TryIsRefused, queue
  <1>4. Spent(m, i) \in Nat /\ Granted(m, i) \in Nat /\ tries \in [Items -> Nat]
    BY <1>1, Numbers, Types
  <1>5. /\ i # j \/ m = "stored" => Spent(m, i)' = Spent(m, i)
        /\ i = j /\ m = "tries" => Spent(m, i)' = Spent(m, i) + 1
    BY <1>3, <1>4 DEF Spent
  <1>6. Granted(m, i)' = Granted(m, i)
    BY <1>3 DEF Granted
  <1>7. /\ DueOfCall(m, i, call[c]) \in Nat
        /\ i = j /\ m = "tries" => DueOfCall(m, i, call[c]) > 0
    <2>1. DueOfCall(m, i, call[c]) \in Nat /\ call[c].attempt \in 0 .. MaxAttempts
      BY <1>1, Numbers, Types DEF CallRecord
    <2> QED BY <1>1, <1>2, <2>1, Limits DEF DueOfCall
  <1>8. IdleCall \in CallRecord /\ DueOfCall(m, i, IdleCall) = 0
    BY IdleDues
  <1>9. /\ Spent(m, i)' \in Nat
        /\ Spent(m, i)' + Granted(m, i) + DueOfCall(m, i, IdleCall)
             <= Spent(m, i) + Granted(m, i)' + DueOfCall(m, i, call[c])
    BY <1>4, <1>5, <1>6, <1>7, <1>8 DEF Measures
  <1> QED BY <1>1, <1>3, <1>4, <1>6, <1>8, <1>9, CallBalance

LEMMA TryFailsBalances ==
    ASSUME Inv, CountsInv, NEW c \in Calls, TryFails(c),
           NEW m \in Measures, NEW i \in Items
    PROVE  Balanced(m, i)
  <1>1. /\ TypeOK /\ Busy /\ Countable(m, i) /\ call[c].pc = "try"
        /\ call \in [Calls -> CallRecord] /\ call[c] \in CallRecord
    BY Types DEF Inv, CountsInv, TryFails
  <1>2. PICK j \in Items : j = call[c].item /\ j \in begun
    BY <1>1, CalledIsBegun
  <1>3. Fails(j) /\ UNCHANGED <<run, redis, memory, begun>>
    BY <1>2 DEF TryFails, queue
  <1>4. /\ i # j => Spent(m, i)' = Spent(m, i) /\ Granted(m, i)' = Granted(m, i)
        /\ i = j /\ m = "tries" =>
              Spent(m, i)' = Spent(m, i) + 1 /\ Granted(m, i)' >= Granted(m, i)
        /\ i = j /\ m = "stored" =>
              Spent(m, i)' + Granted(m, i) <= Spent(m, i) + Granted(m, i)'
        /\ Spent(m, i)' \in Nat /\ Granted(m, i)' \in Nat
    BY <1>1, <1>2, <1>3, CommandCounts
  <1>5. PICK k \in CallRecord :
            /\ call' = [call EXCEPT ![c] = k]
            /\ k.item = j
            /\ \/ k.pc = "try" /\ k.attempt = call[c].attempt + 1
               \/ k.pc = "queue" /\ call[c].attempt = MaxAttempts
    <2>1. /\ call[c].attempt \in 0 .. MaxAttempts
          /\ call[c] = [pc |-> "try", item |-> j, attempt |-> call[c].attempt]
      BY <1>1, <1>2 DEF CallRecord
    <2>2. CASE call[c].attempt < MaxAttempts
      <3> DEFINE k == [pc |-> "try", item |-> j, attempt |-> call[c].attempt + 1]
      <3>1. k \in CallRecord
        BY <2>1, <2>2, Limits DEF CallRecord
      <3>2. call' = [call EXCEPT ![c] = k]
        <4>1. call' = [call EXCEPT ![c].attempt = @ + 1]
          BY <2>2 DEF TryFails
        <4>2. [call[c] EXCEPT !.attempt = @ + 1] = k
          BY <2>1
        <4> QED BY <4>1, <4>2
      <3>3. k.item = j /\ k.pc = "try" /\ k.attempt = call[c].attempt + 1
        OBVIOUS
      <3> HIDE DEF k
      <3> QED BY <3>1, <3>2, <3>3
    <2>3. CASE ~(call[c].attempt < MaxAttempts)
      <3> DEFINE k == [pc |-> "queue", item |-> j, attempt |-> call[c].attempt]
      <3>1. k \in CallRecord /\ call[c].attempt = MaxAttempts
        BY <2>1, <2>3, Limits DEF CallRecord
      <3>2. call' = [call EXCEPT ![c] = k]
        <4>1. call' = [call EXCEPT ![c].pc = "queue"]
          BY <2>3 DEF TryFails
        <4>2. [call[c] EXCEPT !.pc = "queue"] = k
          BY <2>1
        <4> QED BY <4>1, <4>2
      <3>3. k.item = j /\ k.pc = "queue"
        OBVIOUS
      <3> HIDE DEF k
      <3> QED BY <3>1, <3>2, <3>3
    <2> QED BY <2>2, <2>3
  <1>6. /\ DueOfCall(m, i, call[c]) \in Nat /\ DueOfCall(m, i, k) \in Nat
        /\ Spent(m, i) \in Nat /\ Granted(m, i) \in Nat
    BY <1>1, Numbers, CallDues
  <1>7. /\ i # j => DueOfCall(m, i, k) = 0
        /\ m = "stored" => DueOfCall(m, i, k) = DueOfCall(m, i, call[c])
        /\ i = j /\ m = "tries" => DueOfCall(m, i, k) + 1 = DueOfCall(m, i, call[c])
    <2>1. call[c].attempt \in 0 .. MaxAttempts
      BY <1>1 DEF CallRecord
    <2>2. i # j => DueOfCall(m, i, k) = 0
      BY <1>5 DEF DueOfCall
    <2>3. m = "stored" => DueOfCall(m, i, k) = DueOfCall(m, i, call[c])
      BY <1>1, <1>2, <1>5 DEF DueOfCall
    <2>4. ASSUME i = j, m = "tries"
          PROVE  DueOfCall(m, i, k) + 1 = DueOfCall(m, i, call[c])
      <3>1. DueOfCall(m, i, call[c]) = MaxRetries + (MaxAttempts + 1 - call[c].attempt)
        BY <1>1, <1>2, <2>4 DEF DueOfCall
      <3>2. CASE k.pc = "try" /\ k.attempt = call[c].attempt + 1
        <4>1. DueOfCall(m, i, k) = MaxRetries + (MaxAttempts + 1 - k.attempt)
          BY <1>5, <2>4, <3>2 DEF DueOfCall
        <4> QED BY <2>1, <3>1, <3>2, <4>1, Limits
      <3>3. CASE k.pc = "queue" /\ call[c].attempt = MaxAttempts
        <4>1. DueOfCall(m, i, k) = MaxRetries
          BY <1>5, <2>4, <3>3 DEF DueOfCall, Round
        <4> QED BY <3>1, <3>3, <4>1, Limits
      <3> QED BY <1>5, <3>2, <3>3
    <2> QED BY <2>2, <2>3, <2>4
  <1>8. Spent(m, i)' + Granted(m, i) + DueOfCall(m, i, k)
          <= Spent(m, i) + Granted(m, i)' + DueOfCall(m, i, call[c])
    <2>1. CASE i # j
      BY <1>4, <1>6, <1>7, <2>1
    <2>2. CASE i = j /\ m = "tries"
      BY <1>4, <1>6, <1>7, <2>2
    <2>3. CASE i = j /\ m = "stored"
      BY <1>4, <1>6, <1>7, <2>3
    <2> QED BY <2>1, <2>2, <2>3 DEF Measures
  <1> QED BY <1>1, <1>3, <1>4, <1>5, <1>8, CallBalance

LEMMA QueueFailedBalances ==
    ASSUME Inv, CountsInv, NEW c \in Calls, QueueFailed(c),
           NEW m \in Measures, NEW i \in Items
    PROVE  Balanced(m, i)
  <1>1. /\ TypeOK /\ Busy /\ call[c].pc = "queue"
        /\ Countable(m, i) /\ Spent(m, i) + Left(m, i) <= Granted(m, i)
    BY DEF Inv, CountsInv, QueueFailed
  <1>2. PICK j \in Items : j = call[c].item /\ j \in begun
    BY <1>1, CalledIsBegun
  <1>3. PICK entry \in Entry : entry = [item |-> j, retryCount |-> 0]
    <2>1. [item |-> j, retryCount |-> 0] \in Entry
      BY Limits DEF Entry
    <2> QED BY <2>1
  <1>4. /\ Push(entry) /\ call' = [call EXCEPT ![c] = IdleCall]
        /\ UNCHANGED <<run, begun, stored, tries>>
    BY <1>2, <1>3 DEF QueueFailed
  <1>5. /\ QueueLoad(m, i)' + Granted(m, i)
             <= QueueLoad(m, i) + Due(m, i, entry) + Granted(m, i)'
        /\ QueueLoad(m, i)' \in Nat /\ QueueLoad(m, i) \in Nat
        /\ Granted(m, i) \in Nat /\ Granted(m, i)' \in Nat
        /\ Due(m, i, entry) \in Nat
    BY <1>1, <1>2, <1>3, <1>4, PushCounts
  <1>6. /\ Finite(CallDue(m, i)')
        /\ CallLoad(m, i)' + DueOfCall(m, i, call[c])
             = CallLoad(m, i) + DueOfCall(m, i, IdleCall)
        /\ CallLoad(m, i)' \in Nat
    BY <1>1, <1>4, IdleDues, CallTurns
  <1>7. DueOfCall(m, i, IdleCall) = 0
    BY IdleDues
  <1>8. Due(m, i, entry) = DueOfCall(m, i, call[c])
    BY <1>1, <1>2, <1>3, Limits DEF Due, DueOfCall, Round
  <1>9. /\ RunDue(m, i)' = RunDue(m, i) /\ Spent(m, i)' = Spent(m, i)
    BY <1>4 DEF RunDue, Spent
  <1>10. CallLoad(m, i) \in Nat /\ RunLoad(m, i) \in Nat /\ Spent(m, i) \in Nat
    BY <1>1, Numbers
  <1>11. Left(m, i)' = CallLoad(m, i)' + RunLoad(m, i) + QueueLoad(m, i)'
    BY <1>9 DEF Left, RunLoad
  <1>12. Spent(m, i)' + Left(m, i)' <= Granted(m, i)'
    BY <1>1, <1>5, <1>6, <1>7, <1>8, <1>9, <1>10, <1>11 DEF Left
  <1>13. Countable(m, i)'
    BY <1>1, <1>6, <1>9 DEF Countable
  <1> QED BY <1>12, <1>13 DEF Balanced

\* A step of a run that spends nothing and is granted nothing.
LEMMA RunMovesOn ==
    ASSUME TypeOK, CountsInv, NEW p \in Runs, NEW k \in RunRecord,
           run' = [run EXCEPT ![p] = k],
           UNCHANGED <<call, begun, stored, tries, hidden>>,
           redis' \in Seq(Entry), memory' \in Seq(Entry),
           NEW m \in Measures, NEW i \in Items,
           SeqLoad(m, i, k.items) + SeqLoad(m, i, redis') + SeqLoad(m, i, memory')
             <= SeqLoad(m, i, run[p].items) + SeqLoad(m, i, redis) + SeqLoad(m, i, memory)
    PROVE  Balanced(m, i)
  <1>1. Spent(m, i)' = Spent(m, i) /\ Granted(m, i)' = Granted(m, i)
    BY DEF Spent, Granted
  <1>2. Spent(m, i) \in Nat /\ Granted(m, i) \in Nat
    BY Numbers DEF CountsInv
  <1>3. /\ QueueLoad(m, i)' = SeqLoad(m, i, redis') + SeqLoad(m, i, memory')
        /\ QueueLoad(m, i) = SeqLoad(m, i, redis) + SeqLoad(m, i, memory)
    BY DEF QueueLoad
  <1>4. run[p].items \in Seq(Entry) /\ k.items \in Seq(Entry)
    BY Types DEF RunRecord
  <1>5. /\ SeqLoad(m, i, redis') \in Nat /\ SeqLoad(m, i, memory') \in Nat
        /\ SeqLoad(m, i, redis) \in Nat /\ SeqLoad(m, i, memory) \in Nat
        /\ SeqLoad(m, i, run[p].items) \in Nat /\ SeqLoad(m, i, k.items) \in Nat
    BY <1>4, Types, SeqLoads
  <1>6. QueueLoad(m, i)' \in Nat /\ QueueLoad(m, i) \in Nat
    BY <1>3, <1>5
  <1>7. SeqLoad(m, i, k.items) + QueueLoad(m, i)'
          <= SeqLoad(m, i, run[p].items) + QueueLoad(m, i)
    <2> DEFINE a == SeqLoad(m, i, k.items)  b == SeqLoad(m, i, run[p].items)
               r == SeqLoad(m, i, redis)    q == SeqLoad(m, i, memory)
               x == SeqLoad(m, i, redis')   y == SeqLoad(m, i, memory')
    <2>1. a \in Nat /\ b \in Nat /\ r \in Nat /\ q \in Nat /\ x \in Nat /\ y \in Nat
      BY <1>5
    <2>2. a + x + y <= b + r + q
      OBVIOUS
    <2> HIDE DEF a, b, r, q, x, y
    <2>3. a + (x + y) <= b + (r + q)
      BY <2>1, <2>2
    <2> QED BY <1>3, <2>3 DEF a, b, r, q, x, y
  <1>8. Spent(m, i)' + Granted(m, i) + SeqLoad(m, i, k.items) + QueueLoad(m, i)'
          <= Spent(m, i) + Granted(m, i)' + SeqLoad(m, i, run[p].items) + QueueLoad(m, i)
    <2> DEFINE a == SeqLoad(m, i, k.items)  b == SeqLoad(m, i, run[p].items)
    <2>1. a \in Nat /\ b \in Nat /\ a + QueueLoad(m, i)' <= b + QueueLoad(m, i)
      BY <1>5, <1>7
    <2> HIDE DEF a, b
    <2>2. Spent(m, i)' + Granted(m, i) + a + QueueLoad(m, i)'
            <= Spent(m, i) + Granted(m, i)' + b + QueueLoad(m, i)
      BY <1>1, <1>2, <1>6, <2>1
    <2> QED BY <2>2 DEF a, b
  <1> QED BY <1>1, <1>2, <1>6, <1>8, RunBalance

LEMMA StartRunBalances ==
    ASSUME Inv, CountsInv, NEW p \in Runs, StartRun(p),
           NEW m \in Measures, NEW i \in Items
    PROVE  Balanced(m, i)
  <1>1. TypeOK /\ run \in [Runs -> RunRecord] /\ run[p].items \in Seq(Entry)
    BY Types DEF Inv, RunRecord
  <1> DEFINE k == [pc |-> "pull", items |-> run[p].items]
  <1>2. k \in RunRecord /\ k.items = run[p].items
    BY <1>1 DEF RunRecord
  <1>3. /\ run' = [run EXCEPT ![p] = k]
        /\ UNCHANGED <<call, redis, memory, begun, stored, tries, hidden>>
    <2>1. run' = [run EXCEPT ![p].pc = "pull"]
      BY DEF StartRun
    <2>2. [run[p] EXCEPT !.pc = "pull"] = k
      BY <1>1 DEF RunRecord
    <2> QED BY <2>1, <2>2 DEF StartRun, queue
  <1> HIDE DEF k
  <1>4. /\ redis' \in Seq(Entry) /\ memory' \in Seq(Entry)
        /\ SeqLoad(m, i, redis) \in Nat /\ SeqLoad(m, i, memory) \in Nat
        /\ SeqLoad(m, i, run[p].items) \in Nat
    BY <1>1, <1>3, Types, SeqLoads
  <1>5. SeqLoad(m, i, k.items) + SeqLoad(m, i, redis') + SeqLoad(m, i, memory')
          <= SeqLoad(m, i, run[p].items) + SeqLoad(m, i, redis) + SeqLoad(m, i, memory)
    BY <1>2, <1>3, <1>4
  <1> QED BY <1>1, <1>2, <1>3, <1>4, <1>5, RunMovesOn DEF Inv

LEMMA PopBalances ==
    ASSUME Inv, CountsInv, NEW p \in Runs, Pop(p),
           NEW m \in Measures, NEW i \in Items
    PROVE  Balanced(m, i)
  <1>1. /\ TypeOK /\ run \in [Runs -> RunRecord] /\ run[p].items \in Seq(Entry)
        /\ redis \in Seq(Entry) /\ memory \in Seq(Entry) /\ redis # <<>>
    BY Types DEF Inv, RunRecord, Pop
  <1>2. Head(redis) \in Entry /\ Tail(redis) \in Seq(Entry)
    BY <1>1, ItemsOfTail
  <1>3. Append(run[p].items, Head(redis)) \in Seq(Entry)
    BY <1>1, <1>2, ItemsOfAppend
  <1> DEFINE k == [run[p] EXCEPT !.items = Append(@, Head(redis))]
  <1>4. k \in RunRecord /\ k.items = Append(run[p].items, Head(redis))
    BY <1>1, <1>3 DEF RunRecord
  <1>5. /\ run' = [run EXCEPT ![p] = k] /\ redis' = Tail(redis)
        /\ UNCHANGED <<call, memory, begun, stored, tries, hidden>>
    BY DEF Pop
  <1> HIDE DEF k
  <1>6. SeqLoad(m, i, k.items) = SeqLoad(m, i, run[p].items) + Due(m, i, Head(redis))
    BY <1>1, <1>2, <1>4, LoadOfAppend
  <1>7. SeqLoad(m, i, redis) = Due(m, i, Head(redis)) + SeqLoad(m, i, redis')
    BY <1>1, <1>5, LoadOfTail
  <1>8. /\ redis' \in Seq(Entry) /\ memory' \in Seq(Entry)
        /\ SeqLoad(m, i, redis') \in Nat /\ SeqLoad(m, i, memory) \in Nat
        /\ SeqLoad(m, i, run[p].items) \in Nat /\ Due(m, i, Head(redis)) \in Nat
    BY <1>1, <1>2, <1>5, SeqLoads, DueIsNat
  <1>9. SeqLoad(m, i, k.items) + SeqLoad(m, i, redis') + SeqLoad(m, i, memory')
          <= SeqLoad(m, i, run[p].items) + SeqLoad(m, i, redis) + SeqLoad(m, i, memory)
    BY <1>5, <1>6, <1>7, <1>8
  <1> QED BY <1>1, <1>4, <1>5, <1>8, <1>9, RunMovesOn

\* What was in memory is with the run that took it.
LEMMA MemoryMoves ==
    ASSUME TypeOK, CountsInv, NEW p \in Runs, TakeMemory(p),
           UNCHANGED <<call, begun, stored, tries, hidden>>,
           redis' = redis \/ (redis # <<>> /\ redis' = Tail(redis)),
           NEW m \in Measures, NEW i \in Items
    PROVE  Balanced(m, i)
  <1>1. /\ run \in [Runs -> RunRecord] /\ run[p].items \in Seq(Entry)
        /\ redis \in Seq(Entry) /\ memory \in Seq(Entry)
    BY Types DEF RunRecord
  <1> DEFINE k == [pc |-> "work", items |-> run[p].items \o memory]
  <1>2. run[p].items \o memory \in Seq(Entry)
    BY <1>1, ItemsOfConcat
  <1>3. k \in RunRecord /\ k.items = run[p].items \o memory
    BY <1>2 DEF RunRecord
  <1>4. /\ run' = [run EXCEPT ![p] = k] /\ memory' = <<>>
    BY <1>1 DEF TakeMemory, RunRecord
  <1> HIDE DEF k
  <1>5. /\ SeqLoad(m, i, k.items) = SeqLoad(m, i, run[p].items) + SeqLoad(m, i, memory)
        /\ SeqLoad(m, i, memory') = 0 /\ memory' \in Seq(Entry)
    BY <1>1, <1>3, <1>4, LoadOfConcat, LoadOfEmpty, ItemsOfEmpty
  <1>6. redis' \in Seq(Entry) /\ SeqLoad(m, i, redis') <= SeqLoad(m, i, redis)
    <2>1. SeqLoad(m, i, redis) \in Nat
      BY <1>1, SeqLoads
    <2>2. CASE redis' = redis
      BY <1>1, <2>1, <2>2
    <2>3. CASE redis # <<>> /\ redis' = Tail(redis)
      <3>1. Head(redis) \in Entry /\ Tail(redis) \in Seq(Entry)
        BY <1>1, <2>3, ItemsOfTail
      <3>2. SeqLoad(m, i, redis) = Due(m, i, Head(redis)) + SeqLoad(m, i, Tail(redis))
        BY <1>1, <2>3, LoadOfTail
      <3>3. Due(m, i, Head(redis)) \in Nat /\ SeqLoad(m, i, Tail(redis)) \in Nat
        BY <3>1, DueIsNat, SeqLoads
      <3> QED BY <2>3, <3>1, <3>2, <3>3
    <2> QED BY <2>2, <2>3
  <1>7. /\ SeqLoad(m, i, redis') \in Nat /\ SeqLoad(m, i, memory) \in Nat
        /\ SeqLoad(m, i, run[p].items) \in Nat /\ SeqLoad(m, i, redis) \in Nat
    BY <1>1, <1>6, SeqLoads
  <1>8. SeqLoad(m, i, k.items) + SeqLoad(m, i, redis') + SeqLoad(m, i, memory')
          <= SeqLoad(m, i, run[p].items) + SeqLoad(m, i, redis) + SeqLoad(m, i, memory)
    BY <1>5, <1>6, <1>7
  <1> QED BY <1>3, <1>4, <1>5, <1>6, <1>8, RunMovesOn

LEMMA PullBalances ==
    ASSUME Inv, CountsInv, NEW p \in Runs, PullEnds(p) \/ PullFails(p),
           NEW m \in Measures, NEW i \in Items
    PROVE  Balanced(m, i)
  <1>1. TypeOK /\ TakeMemory(p) /\ UNCHANGED <<call, begun, stored, tries, hidden>>
    BY DEF Inv, PullEnds, PullFails
  <1>2. redis' = redis \/ (redis # <<>> /\ redis' = Tail(redis))
    BY DEF PullEnds, PullFails
  <1> QED BY <1>1, <1>2, MemoryMoves

LEMMA RunEndsBalances ==
    ASSUME Inv, CountsInv, NEW p \in Runs, RunEnds(p),
           NEW m \in Measures, NEW i \in Items
    PROVE  Balanced(m, i)
  <1>1. /\ TypeOK /\ run[p].items = <<>>
        /\ redis \in Seq(Entry) /\ memory \in Seq(Entry)
    BY Types DEF Inv, RunEnds
  <1>2. /\ run' = [run EXCEPT ![p] = IdleRun]
        /\ UNCHANGED <<call, redis, memory, begun, stored, tries, hidden>>
    BY DEF RunEnds, queue
  <1>3. /\ IdleRun \in RunRecord /\ SeqLoad(m, i, IdleRun.items) = 0
        /\ SeqLoad(m, i, run[p].items) = 0
    BY <1>1, IdleDues, LoadOfEmpty
  <1>4. SeqLoad(m, i, redis) \in Nat /\ SeqLoad(m, i, memory) \in Nat
    BY <1>1, SeqLoads
  <1>5. SeqLoad(m, i, IdleRun.items) + SeqLoad(m, i, redis') + SeqLoad(m, i, memory')
          <= SeqLoad(m, i, run[p].items) + SeqLoad(m, i, redis) + SeqLoad(m, i, memory)
    BY <1>2, <1>3, <1>4
  <1> QED BY <1>1, <1>2, <1>3, <1>5, RunMovesOn

\* A step of a run that leaves the queues alone.
LEMMA RunWorks ==
    ASSUME TypeOK, CountsInv, NEW p \in Runs, NEW k \in RunRecord,
           run' = [run EXCEPT ![p] = k], UNCHANGED <<call, redis, memory>>,
           NEW m \in Measures, NEW i \in Items,
           Spent(m, i)' \in Nat, Granted(m, i)' \in Nat,
           Spent(m, i)' + Granted(m, i) + SeqLoad(m, i, k.items)
             <= Spent(m, i) + Granted(m, i)' + SeqLoad(m, i, run[p].items)
    PROVE  Balanced(m, i)
  <1>1. QueueLoad(m, i)' = QueueLoad(m, i)
    BY DEF QueueLoad
  <1>2. /\ QueueLoad(m, i) \in Nat /\ Spent(m, i) \in Nat /\ Granted(m, i) \in Nat
        /\ SeqLoad(m, i, run[p].items) \in Nat
    BY Numbers DEF CountsInv, QueueLoad
  <1>3. SeqLoad(m, i, k.items) \in Nat
    BY SeqLoads DEF RunRecord
  <1>4. Spent(m, i)' + Granted(m, i) + SeqLoad(m, i, k.items) + QueueLoad(m, i)'
          <= Spent(m, i) + Granted(m, i)' + SeqLoad(m, i, run[p].items) + QueueLoad(m, i)
    BY <1>1, <1>2, <1>3
  <1> QED BY <1>1, <1>2, <1>4, RunBalance

LEMMA WorkSucceedsBalances ==
    ASSUME Inv, CountsInv, NEW p \in Runs, WorkSucceeds(p),
           NEW m \in Measures, NEW i \in Items
    PROVE  Balanced(m, i)
  <1>1. /\ TypeOK /\ Countable(m, i) /\ run[p] \in RunRecord
        /\ run[p].items \in Seq(Entry) /\ run[p].items # <<>>
    BY Types DEF Inv, CountsInv, RunRecord, WorkSucceeds
  <1>2. PICK j \in Items : j = Current(p).item /\ j \in begun
    BY <1>1, PulledIsBegun DEF Inv
  <1>3. Tail(run[p].items) \in Seq(Entry) /\ Current(p) \in Entry
    BY <1>1, ItemsOfTail DEF Current
  <1> DEFINE k == [run[p] EXCEPT !.items = Tail(@)]
  <1>4. k \in RunRecord /\ k.items = Tail(run[p].items)
    BY <1>1, <1>3 DEF RunRecord
  <1>5. /\ Succeeds(j) /\ run' = [run EXCEPT ![p] = k]
        /\ UNCHANGED <<call, redis, memory, begun>>
    BY <1>2 DEF WorkSucceeds, queue
  <1> HIDE DEF k
  <1>6. SeqLoad(m, i, run[p].items) = Due(m, i, Current(p)) + SeqLoad(m, i, k.items)
    BY <1>1, <1>4, LoadOfTail DEF Current
  <1>7. /\ SeqLoad(m, i, k.items) \in Nat /\ Due(m, i, Current(p)) \in Nat
        /\ i = j => Due(m, i, Current(p)) > 0
    BY <1>2, <1>3, <1>4, SeqLoads, DueIsNat, Dues
  <1>8. /\ i # j => Spent(m, i)' = Spent(m, i) /\ Granted(m, i)' = Granted(m, i)
        /\ i = j => Spent(m, i)' = Spent(m, i) + 1 /\ Granted(m, i)' = Granted(m, i)
        /\ Spent(m, i)' \in Nat /\ Granted(m, i)' \in Nat
    BY <1>1, <1>2, <1>5, CommandCounts
  <1>9. Spent(m, i) \in Nat /\ Granted(m, i) \in Nat
    BY <1>1, Numbers
  <1>10. Spent(m, i)' + Granted(m, i) + SeqLoad(m, i, k.items)
           <= Spent(m, i) + Granted(m, i)' + SeqLoad(m, i, run[p].items)
    BY <1>6, <1>7, <1>8, <1>9
  <1> QED BY <1>1, <1>4, <1>5, <1>8, <1>10, RunWorks

LEMMA WorkFailsBalances ==
    ASSUME Inv, CountsInv, NEW p \in Runs, WorkFails(p),
           NEW m \in Measures, NEW i \in Items
    PROVE  Balanced(m, i)
  <1>1. /\ TypeOK /\ Countable(m, i) /\ run[p] \in RunRecord
        /\ run[p].items \in Seq(Entry) /\ run[p].items # <<>>
    BY Types DEF Inv, CountsInv, RunRecord, WorkFails
  <1>2. PICK j \in Items : j = Current(p).item /\ j \in begun
    BY <1>1, PulledIsBegun DEF Inv
  <1>3. /\ Tail(run[p].items) \in Seq(Entry) /\ Current(p) \in Entry
        /\ Current(p) = Head(run[p].items)
    BY <1>1, ItemsOfTail DEF Current
  <1>4. Fails(j) /\ UNCHANGED <<call, redis, memory, begun>>
    BY <1>2 DEF WorkFails, queue
  <1>5. PICK k \in RunRecord :
            /\ run' = [run EXCEPT ![p] = k]
            /\ SeqLoad(m, i, k.items) <= SeqLoad(m, i, run[p].items)
            /\ i = j /\ m = "tries" =>
                  SeqLoad(m, i, k.items) + 1 <= SeqLoad(m, i, run[p].items)
    <2>1. CASE Current(p).retryCount + 1 < MaxRetries
      <3> DEFINE k == [pc |-> "requeue", items |-> Counted(run[p].items)]
      <3>1. k \in RunRecord /\ k.items = Counted(run[p].items)
        BY <1>1, <1>3, <2>1, ItemsOfCounted DEF RunRecord
      <3>2. run' = [run EXCEPT ![p] = k]
        BY <2>1 DEF WorkFails
      <3> HIDE DEF k
      <3>3. /\ m = "stored" => SeqLoad(m, i, k.items) = SeqLoad(m, i, run[p].items)
            /\ m = "tries" /\ j = i =>
                  SeqLoad(m, i, k.items) + 1 = SeqLoad(m, i, run[p].items)
            /\ j # i => SeqLoad(m, i, k.items) = SeqLoad(m, i, run[p].items)
        BY <1>1, <1>2, <1>3, <2>1, <3>1, LoadOfCounted
      <3>4. SeqLoad(m, i, k.items) \in Nat /\ SeqLoad(m, i, run[p].items) \in Nat
        BY <1>1, <3>1, SeqLoads DEF RunRecord
      <3>5. /\ SeqLoad(m, i, k.items) <= SeqLoad(m, i, run[p].items)
            /\ i = j /\ m = "tries" =>
                  SeqLoad(m, i, k.items) + 1 <= SeqLoad(m, i, run[p].items)
        BY <3>3, <3>4 DEF Measures
      <3> QED BY <3>1, <3>2, <3>5
    <2>2. CASE ~(Current(p).retryCount + 1 < MaxRetries)
      <3> DEFINE k == [run[p] EXCEPT !.items = Tail(@)]
      <3>1. k \in RunRecord /\ k.items = Tail(run[p].items)
        BY <1>1, <1>3 DEF RunRecord
      <3>2. run' = [run EXCEPT ![p] = k]
        BY <2>2 DEF WorkFails
      <3> HIDE DEF k
      <3>3. SeqLoad(m, i, run[p].items) = Due(m, i, Current(p)) + SeqLoad(m, i, k.items)
        BY <1>1, <1>3, <3>1, LoadOfTail
      <3>4. /\ SeqLoad(m, i, k.items) \in Nat /\ Due(m, i, Current(p)) \in Nat
            /\ i = j => Due(m, i, Current(p)) > 0
        BY <1>2, <1>3, <3>1, SeqLoads, DueIsNat, Dues
      <3>5. /\ SeqLoad(m, i, k.items) <= SeqLoad(m, i, run[p].items)
            /\ i = j /\ m = "tries" =>
                  SeqLoad(m, i, k.items) + 1 <= SeqLoad(m, i, run[p].items)
        BY <3>3, <3>4
      <3> QED BY <3>1, <3>2, <3>5
    <2> QED BY <2>1, <2>2
  <1>6. /\ i # j => Spent(m, i)' = Spent(m, i) /\ Granted(m, i)' = Granted(m, i)
        /\ i = j /\ m = "tries" =>
              Spent(m, i)' = Spent(m, i) + 1 /\ Granted(m, i)' >= Granted(m, i)
        /\ i = j /\ m = "stored" =>
              Spent(m, i)' + Granted(m, i) <= Spent(m, i) + Granted(m, i)'
        /\ Spent(m, i)' \in Nat /\ Granted(m, i)' \in Nat
    BY <1>1, <1>2, <1>4, CommandCounts
  <1>7. /\ Spent(m, i) \in Nat /\ Granted(m, i) \in Nat
        /\ SeqLoad(m, i, k.items) \in Nat /\ SeqLoad(m, i, run[p].items) \in Nat
    BY <1>1, Numbers, SeqLoads DEF RunRecord
  <1>8. Spent(m, i)' + Granted(m, i) + SeqLoad(m, i, k.items)
          <= Spent(m, i) + Granted(m, i)' + SeqLoad(m, i, run[p].items)
    <2>1. CASE i # j
      BY <1>5, <1>6, <1>7, <2>1
    <2>2. CASE i = j /\ m = "tries"
      BY <1>5, <1>6, <1>7, <2>2
    <2>3. CASE i = j /\ m = "stored"
      BY <1>5, <1>6, <1>7, <2>3
    <2> QED BY <2>1, <2>2, <2>3 DEF Measures
  <1> QED BY <1>1, <1>4, <1>5, <1>6, <1>8, RunWorks

LEMMA RequeueBalances ==
    ASSUME Inv, CountsInv, NEW p \in Runs, Requeue(p),
           NEW m \in Measures, NEW i \in Items
    PROVE  Balanced(m, i)
  <1>1. /\ TypeOK /\ Countable(m, i)
        /\ run[p].items \in Seq(Entry) /\ run[p].items # <<>>
    BY Types DEF Inv, Busy, CountsInv, RunRecord, Requeue
  <1>2. /\ Tail(run[p].items) \in Seq(Entry) /\ Current(p) \in Entry
        /\ Current(p) = Head(run[p].items)
    BY <1>1, ItemsOfTail DEF Current
  <1>3. PICK entry \in Entry : entry = Current(p)
    BY <1>2
  <1>4. entry.item \in begun
    BY <1>1, <1>3, PulledIsBegun DEF Inv
  <1> DEFINE k == [pc |-> "work", items |-> Tail(run[p].items)]
  <1>5. k \in RunRecord /\ k.items = Tail(run[p].items)
    BY <1>2 DEF RunRecord
  <1>6. /\ Push(entry) /\ run' = [run EXCEPT ![p] = k]
        /\ UNCHANGED <<call, begun, stored, tries>>
    BY <1>3 DEF Requeue
  <1> HIDE DEF k
  <1>7. /\ QueueLoad(m, i)' + Granted(m, i)
             <= QueueLoad(m, i) + Due(m, i, entry) + Granted(m, i)'
        /\ QueueLoad(m, i)' \in Nat /\ QueueLoad(m, i) \in Nat
        /\ Granted(m, i) \in Nat /\ Granted(m, i)' \in Nat
        /\ Due(m, i, entry) \in Nat
    BY <1>1, <1>4, <1>6, PushCounts
  <1>8. SeqLoad(m, i, run[p].items) = Due(m, i, entry) + SeqLoad(m, i, k.items)
    BY <1>1, <1>2, <1>3, <1>5, LoadOfTail
  <1>9. SeqLoad(m, i, k.items) \in Nat /\ Spent(m, i) \in Nat
    BY <1>1, <1>2, <1>5, SeqLoads, Numbers
  <1>10. Spent(m, i)' = Spent(m, i)
    BY <1>6 DEF Spent
  <1>11. Spent(m, i)' + Granted(m, i) + SeqLoad(m, i, k.items) + QueueLoad(m, i)'
           <= Spent(m, i) + Granted(m, i)' + SeqLoad(m, i, run[p].items) + QueueLoad(m, i)
    BY <1>7, <1>8, <1>9, <1>10
  <1> QED BY <1>1, <1>5, <1>6, <1>7, <1>9, <1>10, <1>11, RunBalance DEF Inv

\* After a restart only what Redis holds is left.
LEMMA CrashBalances ==
    ASSUME Inv, CountsInv, Crash, NEW m \in Measures, NEW i \in Items
    PROVE  Balanced(m, i)
  <1>1. TypeOK /\ Countable(m, i) /\ Spent(m, i) + Left(m, i) <= Granted(m, i)
    BY DEF Inv, CountsInv
  <1>2. /\ call' = [c \in Calls |-> IdleCall] /\ run' = [p \in Runs |-> IdleRun]
        /\ memory' = <<>> /\ UNCHANGED <<redis, begun, stored, tries, hidden>>
    BY DEF Crash
  <1>3. Finite(CallDue(m, i)') /\ CallLoad(m, i)' = 0
    <2> DEFINE d == CallDue(m, i)'
    <2>1. d \in [Calls -> Nat] /\ \A c \in Calls : d[c] = 0
      BY <1>2, IdleDues DEF CallDue
    <2> HIDE DEF d
    <2>2. Finite(d) /\ Total(d) = 0
      BY <2>1, NothingAtAll
    <2> QED BY <2>2 DEF d, CallLoad
  <1>4. Finite(RunDue(m, i)') /\ RunLoad(m, i)' = 0
    <2> DEFINE d == RunDue(m, i)'
    <2>1. d \in [Runs -> Nat] /\ \A p \in Runs : d[p] = 0
      BY <1>2, IdleDues DEF RunDue
    <2> HIDE DEF d
    <2>2. Finite(d) /\ Total(d) = 0
      BY <2>1, NothingAtAll
    <2> QED BY <2>2 DEF d, RunLoad
  <1>5. QueueLoad(m, i)' = SeqLoad(m, i, redis) + 0
    BY <1>2, LoadOfEmpty DEF QueueLoad
  <1>6. Spent(m, i)' = Spent(m, i) /\ Granted(m, i)' = Granted(m, i)
    BY <1>2 DEF Spent, Granted
  <1>7. /\ CallLoad(m, i) \in Nat /\ RunLoad(m, i) \in Nat
        /\ SeqLoad(m, i, redis) \in Nat /\ SeqLoad(m, i, memory) \in Nat
        /\ Spent(m, i) \in Nat /\ Granted(m, i) \in Nat
    BY <1>1, Numbers
  <1>8. Left(m, i)' = SeqLoad(m, i, redis)
    BY <1>3, <1>4, <1>5, <1>7 DEF Left
  <1>9. Left(m, i)' <= Left(m, i) /\ Left(m, i) \in Nat
    BY <1>7, <1>8 DEF Left, QueueLoad
  <1>10. Spent(m, i)' + Left(m, i)' <= Granted(m, i)'
    BY <1>1, <1>6, <1>7, <1>8, <1>9
  <1> QED BY <1>3, <1>4, <1>10 DEF Balanced, Countable

-----------------------------------------------------------------------------
LEMMA InitCounts == Init => CountsInv
  <1> SUFFICES ASSUME Init, NEW m \in Measures, NEW i \in Items
               PROVE  Countable(m, i) /\ Spent(m, i) + Left(m, i) <= Granted(m, i)
    BY DEF CountsInv
  <1>1. /\ call = [c \in Calls |-> IdleCall] /\ run = [p \in Runs |-> IdleRun]
        /\ redis = <<>> /\ memory = <<>> /\ begun = {}
        /\ stored[i] = 0 /\ tries[i] = 0
    BY DEF Init
  <1>2. Finite(CallDue(m, i)) /\ CallLoad(m, i) = 0
    <2> DEFINE d == CallDue(m, i)
    <2>1. d \in [Calls -> Nat] /\ \A c \in Calls : d[c] = 0
      BY <1>1, IdleDues DEF CallDue
    <2> HIDE DEF d
    <2>2. Finite(d) /\ Total(d) = 0
      BY <2>1, NothingAtAll
    <2> QED BY <2>2 DEF d, CallLoad
  <1>3. Finite(RunDue(m, i)) /\ RunLoad(m, i) = 0
    <2> DEFINE d == RunDue(m, i)
    <2>1. d \in [Runs -> Nat] /\ \A p \in Runs : d[p] = 0
      BY <1>1, IdleDues DEF RunDue
    <2> HIDE DEF d
    <2>2. Finite(d) /\ Total(d) = 0
      BY <2>1, NothingAtAll
    <2> QED BY <2>2 DEF d, RunLoad
  <1>4. QueueLoad(m, i) = 0
    BY <1>1, LoadOfEmpty DEF QueueLoad
  <1>5. Spent(m, i) = 0 /\ Granted(m, i) = 0
    BY <1>1 DEF Spent, Granted
  <1>6. Left(m, i) = 0
    BY <1>2, <1>3, <1>4 DEF Left
  <1> QED BY <1>2, <1>3, <1>5, <1>6 DEF Countable

LEMMA NextCounts ==
    ASSUME Inv, CountsInv, [Next]_vars
    PROVE  CountsInv'
  <1> SUFFICES ASSUME NEW m \in Measures, NEW i \in Items
               PROVE  Balanced(m, i)
    BY DEF Balanced, CountsInv
  <1>1. CASE Next
    <2>1. ASSUME NEW c \in Calls, CallStep(c)
          PROVE  Balanced(m, i)
      BY <2>1, TrySucceedsBalances, TryIsRefusedBalances, TryFailsBalances,
         QueueFailedBalances DEF CallStep
    <2>2. ASSUME NEW c \in Calls, NEW j \in Items, Begin(c, j)
          PROVE  Balanced(m, i)
      BY <2>2, BeginBalances
    <2>3. ASSUME NEW p \in Runs, RunStep(p)
          PROVE  Balanced(m, i)
      BY <2>3, StartRunBalances, PopBalances, PullBalances, WorkSucceedsBalances,
         WorkFailsBalances, RequeueBalances, RunEndsBalances DEF RunStep
    <2> QED BY <1>1, <2>1, <2>2, <2>3, CrashBalances DEF Next
  <1>2. CASE UNCHANGED vars
    <2>1. Countable(m, i) /\ Spent(m, i) + Left(m, i) <= Granted(m, i)
      BY DEF CountsInv
    <2>2. CallDue(m, i)' = CallDue(m, i) /\ RunDue(m, i)' = RunDue(m, i)
      BY <1>2 DEF vars, CallDue, RunDue
    <2>3. QueueLoad(m, i)' = QueueLoad(m, i)
      BY <1>2 DEF vars, QueueLoad
    <2>4. Spent(m, i)' = Spent(m, i) /\ Granted(m, i)' = Granted(m, i)
      BY <1>2 DEF vars, Spent, Granted
    <2>5. Left(m, i)' = Left(m, i)
      BY <2>2, <2>3 DEF Left, CallLoad, RunLoad
    <2> QED BY <2>1, <2>2, <2>4, <2>5 DEF Balanced, Countable
  <1> QED BY <1>1, <1>2

LEMMA CountsBound ==
    ASSUME TypeOK, CountsInv, NEW i \in Items
    PROVE  /\ stored[i] <= 1 + hidden[i]
           /\ tries[i] <= MaxAttempts + MaxRetries * (1 + hidden[i])
  <1>1. ASSUME NEW m \in Measures
        PROVE  Spent(m, i) <= Granted(m, i)
    <2>1. Spent(m, i) + Left(m, i) <= Granted(m, i) /\ Countable(m, i)
      BY DEF CountsInv
    <2>2. Left(m, i) \in Nat /\ Spent(m, i) \in Nat /\ Granted(m, i) \in Nat
      BY <2>1, Numbers DEF Left, QueueLoad
    <2> QED BY <2>1, <2>2
  <1>2. stored[i] \in Nat /\ tries[i] \in Nat /\ hidden[i] \in Nat
    BY Types
  <1>3. stored[i] <= 1 + hidden[i]
    <2>1. Spent("stored", i) <= Granted("stored", i)
      BY <1>1 DEF Measures
    <2> QED BY <1>2, <2>1 DEF Spent, Granted
  <1>4. tries[i] <= MaxAttempts + MaxRetries * (1 + hidden[i])
    <2>1. Spent("tries", i) <= Granted("tries", i)
      BY <1>1 DEF Measures
    <2>2. MaxRetries * (1 + hidden[i]) \in Nat
      BY <1>2, Limits
    <2> QED BY <1>2, <2>1, <2>2, Limits DEF Spent, Granted
  <1> QED BY <1>3, <1>4

\* However many calls and overlapping runs of the processor work on the queues, a
\* submission has one document, and one more for each error that hid a success:
\* no entry is in the hands of two of them.
THEOREM StoredOnceAlways == Spec => []StoredOnce
  <1>1. Init => Inv /\ CountsInv
    BY InitInv, InitCounts
  <1>2. Inv /\ CountsInv /\ [Next]_vars => Inv' /\ CountsInv'
    BY NextKeeps, NextCounts
  <1>3. Inv /\ CountsInv => StoredOnce
    BY CountsBound DEF Inv, StoredOnce
  <1> QED BY <1>1, <1>2, <1>3, PTL DEF Spec

\* A submission is tried MaxAttempts times by its call and MaxRetries times from
\* the queue, once over for each error that hid a success: handing an entry on,
\* from run to run and over a restart, never gives it new tries.
THEOREM TriesBoundedAlways == Spec => []TriesBounded
  <1>1. Init => Inv /\ CountsInv
    BY InitInv, InitCounts
  <1>2. Inv /\ CountsInv /\ [Next]_vars => Inv' /\ CountsInv'
    BY NextKeeps, NextCounts
  <1>3. Inv /\ CountsInv => TriesBounded
    BY CountsBound DEF Inv, TriesBounded
  <1> QED BY <1>1, <1>2, <1>3, PTL DEF Spec

=============================================================================
