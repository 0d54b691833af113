------------------------ MODULE AnswerIntake_proofs ------------------------
(***************************************************************************)
(* Theorems about AnswerIntake, for every set of users and calls and every *)
(* number of questions.                                                    *)
(***************************************************************************)
EXTENDS AnswerIntake, TLAPS

\* Who a call works for, and that an answer on its way is to a question.
Attributed ==
    \A c \in Calls :
        /\ call[c].op \in {"answer", "join", "leave"} => call[c].user \in Users
        /\ At(c, "answer", "lock") \/ At(c, "answer", "set")
               => call[c].doc.idx \in Questions

TypeInv == TypeOK /\ Attributed

LEMMA FirstDocType == FirstDoc \in Doc /\ Nothing \in Tally
  BY IntakeAssumption DEF FirstDoc, Doc, Questions, Nothing, Tally

\* Taking a copy, and dropping it, keep the types.
LEMMA GetSessionType ==
  ASSUME TypeInv, NEW c \in Calls, NEW op \in OpNames,
         NEW pc \in {"lock", "set"}, NEW user \in Users \cup {NoUser},
         GetSession(c, op, pc, user),
         op \in {"answer", "join", "leave"} => user \in Users,
         op = "answer" => doc.idx \in Questions
  PROVE  TypeInv'
  BY DEF TypeInv, TypeOK, Attributed, GetSession, At

LEMMA ReturnType ==
  ASSUME TypeInv, NEW c \in Calls, Return(c),
         doc' \in Doc, locks' \subseteq Users \X Questions,
         accepted' \in Tally, expired' \in Tally
  PROVE  TypeInv'
  BY FirstDocType DEF TypeInv, TypeOK, Attributed, Return, Idle, At

LEMMA AnswerType ==
  ASSUME TypeInv, NEW c \in Calls, SubmitAnswer(c)
  PROVE  TypeInv'
<1> USE DEF TypeInv, TypeOK
<1>1. ASSUME NEW u \in Active, AnswerReads(c, u) PROVE TypeInv'
  <2>1. /\ GetSession(c, "answer", "lock", u) /\ u \in Users
        /\ doc.idx \in Questions
    BY <1>1, IntakeAssumption DEF AnswerReads
  <2> QED BY <2>1, GetSessionType DEF OpNames
<1>2. CASE AnswerLocks(c)
  <2>1. call[c].user \in Users /\ Asked(c) \in Questions
    BY <1>2 DEF AnswerLocks, At, Attributed, Asked
  <2>2. locks' \subseteq Users \X Questions
    BY <1>2, <2>1 DEF AnswerLocks
  <2>3. CASE Return(c)
    BY <1>2, <2>2, <2>3, ReturnType DEF AnswerLocks
  <2>4. CASE call' = [call EXCEPT ![c].pc = "set"]
    <3>1. TypeOK'
      BY <1>2, <2>2, <2>4 DEF AnswerLocks
    <3>2. Attributed'
      BY <1>2, <2>4 DEF AnswerLocks, Attributed, At
    <3> QED BY <3>1, <3>2
  <2> QED BY <1>2, <2>3, <2>4 DEF AnswerLocks
<1>3. CASE AnswerWrites(c)
  <2> DEFINE u == call[c].user
             q == Asked(c)
             new == [call[c].doc EXCEPT !.credit[u][q] = @ + 1, !.answers = @ + 1]
  <2>1. u \in Users /\ q \in Questions
    BY <1>3 DEF AnswerWrites, At, Attributed, Asked
  <2>2. call[c].doc \in Doc
    OBVIOUS
  <2>3. new \in Doc
    <3> DEFINE copy == call[c].doc
               row == [copy.credit[u] EXCEPT ![q] = @ + 1]
    <3>1. /\ copy.idx \in 0..NumQuestions /\ copy.answers + 1 \in Nat
          /\ copy.members \subseteq Users /\ copy.credit \in Tally
      BY <2>2 DEF Doc
    <3>2. row \in [Questions -> Nat]
      BY <2>1, <3>1 DEF Tally
    <3>3. [copy.credit EXCEPT ![u] = row] \in Tally
      BY <2>1, <3>1, <3>2 DEF Tally
    <3>4. new = [idx |-> copy.idx, answers |-> copy.answers + 1,
                 members |-> copy.members,
                 credit |-> [copy.credit EXCEPT ![u] = row]]
      <4>1. new = [copy EXCEPT !.credit = [copy.credit EXCEPT ![u] = row],
                               !.answers = copy.answers + 1]
        OBVIOUS
      <4> HIDE DEF new, row
      <4> QED BY <2>2, <4>1 DEF Doc
    <3> HIDE DEF row, copy
    <3> QED BY <3>1, <3>3, <3>4 DEF Doc
  <2>4. accepted' \in Tally
    BY <1>3, <2>1 DEF AnswerWrites, Tally
  <2> HIDE DEF new, u, q
  <2>5. /\ call' = [call EXCEPT ![c].doc = new, ![c].pc = "after"]
        /\ doc' = new /\ UNCHANGED <<locks, expired>>
    BY <1>3 DEF AnswerWrites, SetSession, new, u, q
  <2>6. TypeOK'
    BY <2>3, <2>4, <2>5, ZenonT(60)
  <2>7. Attributed'
    BY <2>5 DEF Attributed, At
  <2> QED BY <2>6, <2>7
<1>4. CASE QuestionEnds(c)
  BY <1>4, ReturnType DEF QuestionEnds
<1>5. CASE AnswerReturns(c)
  BY <1>5, ReturnType DEF AnswerReturns
<1> QED BY <1>1, <1>2, <1>3, <1>4, <1>5 DEF SubmitAnswer

LEMMA OtherWriterType ==
  ASSUME TypeInv, NEW c \in Calls, OtherWriter(c)
  PROVE  TypeInv'
<1> USE DEF TypeInv, TypeOK
<1>1. CASE AdvanceReads(c)
  BY <1>1, GetSessionType DEF AdvanceReads, OpNames
<1>2. CASE AdvanceWrites(c)
  <2>1. Following(call[c].doc.idx) \in 0..NumQuestions
    BY IntakeAssumption DEF Doc, Following
  <2>2. doc' \in Doc
    BY <1>2, <2>1 DEF AdvanceWrites, Doc
  <2> QED BY <1>2, <2>2, ReturnType DEF AdvanceWrites
<1>3. CASE ShowReads(c)
  BY <1>3, GetSessionType DEF ShowReads, OpNames
<1>4. CASE ShowWrites(c)
  <2>1. doc' \in Doc
    BY <1>4 DEF ShowWrites, Doc
  <2> QED BY <1>4, <2>1, ReturnType DEF ShowWrites
<1>6. ASSUME NEW u \in Active, JoinReads(c, u) PROVE TypeInv'
  <2>1. GetSession(c, "join", "set", u)
    BY <1>6 DEF JoinReads
  <2>2. u \in Users
    BY IntakeAssumption
  <2> QED BY <2>1, <2>2, GetSessionType DEF OpNames
<1>7. ASSUME NEW u \in Active, LeaveReads(c, u) PROVE TypeInv'
  <2>1. GetSession(c, "leave", "set", u)
    BY <1>7 DEF LeaveReads
  <2>2. u \in Users
    BY IntakeAssumption
  <2> QED BY <2>1, <2>2, GetSessionType DEF OpNames
<1>8. CASE JoinWrites(c)
  <2>1. call[c].user \in Users
    BY <1>8 DEF JoinWrites, At, Attributed
  <2>2. doc' \in Doc
    BY <1>8, <2>1 DEF JoinWrites, Doc
  <2> QED BY <1>8, <2>2, ReturnType DEF JoinWrites
<1>9. CASE LeaveWrites(c)
  <2>1. doc' \in Doc
    BY <1>9 DEF LeaveWrites, Doc
  <2> QED BY <1>9, <2>1, ReturnType DEF LeaveWrites
<1> QED BY <1>1, <1>2, <1>3, <1>4, <1>6, <1>7, <1>8, <1>9 DEF OtherWriter

LEMMA TypeInvariance == Spec => []TypeInv
<1>1. Init => TypeInv
  BY FirstDocType, IntakeAssumption
     DEF Init, TypeInv, TypeOK, Attributed, Idle, Questions, At
<1>2. TypeInv /\ [Next]_vars => TypeInv'
  <2> SUFFICES ASSUME TypeInv, [Next]_vars PROVE TypeInv'
    OBVIOUS
  <2>1. CASE UNCHANGED vars
    BY <2>1 DEF vars, TypeInv, TypeOK, Attributed, At
  <2>2. CASE LockExpires
    <3>1. PICK key \in locks :
             expired' = [expired EXCEPT ![key[1]][key[2]] = @ + 1]
      BY <2>2 DEF LockExpires
    <3>2. expired' \in Tally
      BY <3>1 DEF TypeInv, TypeOK, Tally
    <3> QED BY <2>2, <3>2 DEF LockExpires, TypeInv, TypeOK, Attributed, At
  <2>3. ASSUME NEW c \in Calls, SubmitAnswer(c) \/ OtherWriter(c) PROVE TypeInv'
    BY <2>3, AnswerType, OtherWriterType
  <2> QED BY <2>1, <2>2, <2>3 DEF Next
<1> QED BY <1>1, <1>2, PTL DEF Spec

\* Every variable keeps its type, whatever calls overlap.
THEOREM TypeCorrect == Spec => []TypeOK
  BY TypeInvariance, PTL DEF TypeInv

-----------------------------------------------------------------------------
(***************************************************************************)
(* At most one answer is accepted.  The property is not inductive: between *)
(* the lock and the SET a call owes its answer to the lock it took, so the *)
(* invariant says that the key of such a call is locked, that no other     *)
(* call has the same key, and that no answer was accepted since the lock   *)
(* last ran out.                                                           *)
(***************************************************************************)
Key(c) == <<call[c].user, Asked(c)>>

Holds(c) == At(c, "answer", "set")

HoldersLocked ==
    \A c \in Calls : Holds(c) =>
        /\ Key(c) \in locks
        /\ accepted[call[c].user][Asked(c)] <= expired[call[c].user][Asked(c)]

OneHolder ==
    \A c, d \in Calls : Holds(c) /\ Holds(d) /\ Key(c) = Key(d) => c = d

LocksCount ==
    \A u \in Users, q \in Questions :
        /\ accepted[u][q] <= 1 + expired[u][q]
        /\ <<u, q>> \notin locks => accepted[u][q] <= expired[u][q]

LockInv == HoldersLocked /\ OneHolder /\ LocksCount

LEMMA HolderType ==
  ASSUME TypeInv, NEW c \in Calls, Holds(c) \/ At(c, "answer", "lock")
  PROVE  call[c].user \in Users /\ Asked(c) \in Questions
  BY DEF Holds, At, Attributed, Asked, TypeInv

\* A step that gives no call the lock's turn and accepts nothing keeps LockInv.
LEMMA LockInvKept ==
  ASSUME LockInv,
         \A c \in Calls : Holds(c)' => Holds(c) /\ call'[c] = call[c],
         UNCHANGED <<locks, accepted, expired>>
  PROVE  LockInv'
  BY DEF LockInv, HoldersLocked, OneHolder, LocksCount, Key, Asked

LEMMA AnswerLocksInv ==
  ASSUME TypeInv, LockInv, NEW c \in Calls, AnswerLocks(c)
  PROVE  LockInv'
<1>1. call[c].user \in Users /\ Asked(c) \in Questions
  BY HolderType DEF AnswerLocks
<1>2. CASE Return(c) /\ UNCHANGED locks
  BY <1>2, LockInvKept DEF AnswerLocks, Return, Idle, Holds, At, TypeInv, TypeOK
<1>3. CASE Key(c) \notin locks /\ locks' = locks \cup {Key(c)}
  <2>1. accepted[call[c].user][Asked(c)] <= expired[call[c].user][Asked(c)]
    BY <1>1, <1>3 DEF LockInv, LocksCount, Key
  <2>2. \A d \in Calls : Holds(d) => Key(d) # Key(c)
    BY <1>3 DEF LockInv, HoldersLocked
  <2>3. accepted' = accepted /\ expired' = expired
    BY DEF AnswerLocks
  <2>4. LocksCount'
    BY <1>3, <2>3 DEF LockInv, LocksCount
  <2>5. CASE Return(c)
    <3>1. \A d \in Calls : Holds(d)' => Holds(d) /\ call'[d] = call[d]
      BY <2>5 DEF Return, Idle, Holds, At, TypeInv, TypeOK
    <3> QED BY <3>1, <2>3, <2>4, <1>3
            DEF LockInv, HoldersLocked, OneHolder, Key, Asked
  <2>6. CASE call' = [call EXCEPT ![c].pc = "set"]
    <3>1. /\ \A d \in Calls : Key(d)' = Key(d)
          /\ \A d \in Calls \ {c} : Holds(d)' => Holds(d)
          /\ \A d \in Calls : call'[d].user = call[d].user
          /\ \A d \in Calls : Asked(d)' = Asked(d)
      BY <2>6 DEF Key, Asked, Holds, At, TypeInv, TypeOK
    <3>2. HoldersLocked'
      BY <3>1, <2>1, <2>3, <1>3 DEF LockInv, HoldersLocked
    <3>3. OneHolder'
      BY <3>1, <2>2 DEF LockInv, OneHolder
    <3> QED BY <3>2, <3>3, <2>4 DEF LockInv
  <2> QED BY <2>5, <2>6, <1>3 DEF AnswerLocks, Key
<1> QED BY <1>2, <1>3 DEF AnswerLocks, Key

LEMMA AnswerWritesInv ==
  ASSUME TypeInv, LockInv, NEW c \in Calls, AnswerWrites(c)
  PROVE  LockInv'
<1> DEFINE u == call[c].user
           q == Asked(c)
<1>1. u \in Users /\ q \in Questions
  BY HolderType DEF AnswerWrites, Holds
<1>2. Holds(c) /\ Key(c) \in locks /\ accepted[u][q] <= expired[u][q]
  BY DEF AnswerWrites, Holds, LockInv, HoldersLocked
<1>3. /\ accepted' = [accepted EXCEPT ![u][q] = @ + 1]
      /\ locks' = locks /\ expired' = expired
      /\ \A d \in Calls \ {c} : call'[d] = call[d]
      /\ call'[c].pc = "after"
  BY DEF AnswerWrites, SetSession, TypeInv, TypeOK
<1>4. \A d \in Calls : Holds(d)' => d # c /\ Holds(d) /\ call'[d] = call[d]
  BY <1>3 DEF Holds, At
<1>5. /\ accepted'[u][q] = accepted[u][q] + 1
      /\ \A v \in Users, p \in Questions :
            ~(v = u /\ p = q) => accepted'[v][p] = accepted[v][p]
  BY <1>1, <1>3 DEF Tally, TypeInv, TypeOK
<1>6. HoldersLocked'
  <2> SUFFICES ASSUME NEW d \in Calls, Holds(d)'
               PROVE  /\ Key(d)' \in locks'
                      /\ accepted'[call'[d].user][Asked(d)']
                             <= expired'[call'[d].user][Asked(d)']
    BY DEF HoldersLocked
  <2>1. d # c /\ Holds(d) /\ call'[d] = call[d]
    BY <1>4
  <2>2. Key(d)' = Key(d) /\ Asked(d)' = Asked(d) /\ Key(d) # Key(c)
    BY <2>1, <1>2 DEF Key, Asked, LockInv, OneHolder
  <2>3. call[d].user \in Users /\ Asked(d) \in Questions
    BY <2>1, HolderType
  <2>4. /\ accepted[call[d].user][Asked(d)] <= expired[call[d].user][Asked(d)]
        /\ Key(d) \in locks
    BY <2>1 DEF LockInv, HoldersLocked
  <2>5. ~(call[d].user = u /\ Asked(d) = q)
    BY <2>2 DEF Key
  <2> QED BY <2>1, <2>2, <2>3, <2>4, <2>5, <1>3, <1>5
<1>7. OneHolder'
  BY <1>4 DEF LockInv, OneHolder, Key, Asked
<1>8. LocksCount'
  <2> SUFFICES ASSUME NEW v \in Users, NEW p \in Questions
               PROVE  /\ accepted'[v][p] <= 1 + expired'[v][p]
                      /\ <<v, p>> \notin locks' => accepted'[v][p] <= expired'[v][p]
    BY DEF LocksCount
  <2>1. CASE v = u /\ p = q
    <3>1. <<v, p>> \in locks'
      BY <2>1, <1>2, <1>3 DEF Key
    <3>2. accepted[u][q] \in Nat /\ expired[u][q] \in Nat
      BY <1>1 DEF TypeInv, TypeOK, Tally
    <3>3. accepted'[u][q] <= 1 + expired[u][q]
      BY <3>2, <1>2, <1>5
    <3> QED BY <2>1, <3>1, <3>3, <1>3
  <2>2. CASE ~(v = u /\ p = q)
    BY <2>2, <1>3, <1>5 DEF LockInv, LocksCount
  <2> QED BY <2>1, <2>2
<1> QED BY <1>6, <1>7, <1>8 DEF LockInv

\* A lock that runs out while no call holds it excuses one more answer.
LEMMA LockExpiresInv ==
  ASSUME TypeInv, LockInv, LockExpires
  PROVE  LockInv'
<1>1. PICK key \in locks :
         /\ \A c \in Calls : call[c].pc = "set" =>
                <<call[c].user, Asked(c)>> # key
         /\ locks' = locks \ {key}
         /\ expired' = [expired EXCEPT ![key[1]][key[2]] = @ + 1]
  BY DEF LockExpires
<1>2. PICK u \in Users, q \in Questions : key = <<u, q>>
  BY DEF TypeInv, TypeOK
<1>3. UNCHANGED <<doc, call, accepted>>
  BY DEF LockExpires
<1>4. expired \in Tally /\ accepted \in Tally
  BY DEF TypeInv, TypeOK
<1>5. expired' = [expired EXCEPT ![u][q] = @ + 1]
  BY <1>1, <1>2
<1>6. /\ expired'[u][q] = expired[u][q] + 1
      /\ \A v \in Users, p \in Questions :
            ~(v = u /\ p = q) => expired'[v][p] = expired[v][p]
  BY <1>2, <1>4, <1>5 DEF Tally
<1>7. \A c \in Calls : Holds(c)' <=> Holds(c)
  BY <1>3 DEF Holds, At
<1>8. HoldersLocked'
  <2> SUFFICES ASSUME NEW c \in Calls, Holds(c)
               PROVE  /\ Key(c)' \in locks'
                      /\ accepted'[call'[c].user][Asked(c)']
                             <= expired'[call'[c].user][Asked(c)']
    BY <1>7 DEF HoldersLocked
  <2>1. Key(c)' = Key(c) /\ Asked(c)' = Asked(c) /\ call'[c] = call[c]
    BY <1>3 DEF Key, Asked
  <2>2. Key(c) # key
    BY <1>1 DEF Holds, At, Key
  <2>3. /\ Key(c) \in locks
        /\ accepted[call[c].user][Asked(c)] <= expired[call[c].user][Asked(c)]
    BY DEF LockInv, HoldersLocked
  <2>4. call[c].user \in Users /\ Asked(c) \in Questions
    BY HolderType
  <2>5. ~(call[c].user = u /\ Asked(c) = q)
    BY <2>2, <1>2 DEF Key
  <2> QED BY <2>1, <2>2, <2>3, <2>4, <2>5, <1>1, <1>3, <1>6
<1>9. OneHolder'
  BY <1>3, <1>7 DEF LockInv, OneHolder, Key, Asked
<1>10. LocksCount'
  <2> SUFFICES ASSUME NEW v \in Users, NEW p \in Questions
               PROVE  /\ accepted[v][p] <= 1 + expired'[v][p]
                      /\ <<v, p>> \notin locks' => accepted[v][p] <= expired'[v][p]
    BY <1>3 DEF LocksCount
  <2>1. /\ accepted[v][p] <= 1 + expired[v][p]
        /\ <<v, p>> \notin locks => accepted[v][p] <= expired[v][p]
        /\ accepted[v][p] \in Nat /\ expired[v][p] \in Nat
    BY <1>4 DEF LockInv, LocksCount, Tally
  <2>2. CASE v = u /\ p = q
    <3>1. expired'[v][p] = expired[v][p] + 1
      BY <2>2, <1>6
    <3> QED BY <2>1, <3>1
  <2>3. CASE ~(v = u /\ p = q)
    <3>1. expired'[v][p] = expired[v][p]
      BY <2>3, <1>6
    <3>2. <<v, p>> \notin locks' => <<v, p>> \notin locks
      BY <2>3, <1>1, <1>2
    <3> QED BY <2>1, <3>1, <3>2
  <2> QED BY <2>2, <2>3
<1> QED BY <1>8, <1>9, <1>10 DEF LockInv

LEMMA LockInvariance == Spec => []LockInv
<1>1. Init => LockInv
  BY DEF Init, LockInv, HoldersLocked, OneHolder, LocksCount, Holds, At, Idle,
         Nothing
<1>2. TypeInv /\ LockInv /\ [Next]_vars => LockInv'
  <2> SUFFICES ASSUME TypeInv, LockInv, [Next]_vars PROVE LockInv'
    OBVIOUS
  <2>1. CASE UNCHANGED vars
    BY <2>1, LockInvKept DEF vars, Holds, At
  <2>2. CASE LockExpires
    BY <2>2, LockExpiresInv
  <2>3. ASSUME NEW c \in Calls, SubmitAnswer(c), ~AnswerLocks(c), ~AnswerWrites(c)
        PROVE  LockInv'
    <3>1. UNCHANGED <<locks, accepted, expired>>
      BY <2>3 DEF SubmitAnswer, AnswerReads, GetSession, QuestionEnds, AnswerReturns
    <3>2. \A d \in Calls : Holds(d)' => Holds(d) /\ call'[d] = call[d]
      BY <2>3 DEF SubmitAnswer, AnswerReads, GetSession, QuestionEnds,
                  AnswerReturns, Return, Idle, Holds, At, TypeInv, TypeOK
    <3> QED BY <3>1, <3>2, LockInvKept
  <2>4. ASSUME NEW c \in Calls, OtherWriter(c) PROVE LockInv'
    <3>1. UNCHANGED <<locks, accepted, expired>>
      BY <2>4 DEF OtherWriter, AdvanceReads, AdvanceWrites, ShowReads, ShowWrites,
                  JoinReads, JoinWrites, LeaveReads, LeaveWrites,
                  GetSession
    <3>2. \A d \in Calls \ {c} : call'[d] = call[d]
      BY <2>4 DEF OtherWriter, AdvanceReads, AdvanceWrites, ShowReads, ShowWrites,
                  JoinReads, JoinWrites, LeaveReads, LeaveWrites,
                  GetSession, SetSession, Return, TypeInv, TypeOK
    <3>3. call'[c].op # "answer" \/ call'[c].pc # "set"
      BY <2>4 DEF OtherWriter, AdvanceReads, AdvanceWrites, ShowReads, ShowWrites,
                  JoinReads, JoinWrites, LeaveReads, LeaveWrites,
                  GetSession, SetSession, Return, Idle, At, TypeInv, TypeOK
    <3> QED BY <3>1, <3>2, <3>3, LockInvKept DEF Holds, At
  <2> QED BY <2>1, <2>2, <2>3, <2>4, AnswerLocksInv, AnswerWritesInv DEF Next
<1> QED BY <1>1, <1>2, TypeInvariance, PTL DEF Spec

\* Only the first answer of a user to a question is accepted, however the
\* handlers overlap, and one more for each time its lock has run out.
THEOREM AnswersOnce == Spec => []AtMostOneAccepted
<1>1. LockInv => AtMostOneAccepted
  BY DEF LockInv, LocksCount, AtMostOneAccepted
<1> QED BY <1>1, LockInvariance, PTL

-----------------------------------------------------------------------------
(***************************************************************************)
(* Credit never exceeds what was accepted.  A stale copy may be stored at  *)
(* any time, so the copies have to be covered as well as the document.     *)
(***************************************************************************)
Covered(credit) ==
    \A u \in Users, q \in Questions : credit[u][q] <= accepted[u][q]

CreditInv == Covered(doc.credit) /\ \A c \in Calls : Covered(call[c].doc.credit)

LEMMA CreditInvKept ==
  ASSUME TypeInv, TypeInv', CreditInv, accepted' = accepted,
         \/ doc'.credit = doc.credit
         \/ \E c \in Calls : doc'.credit = call[c].doc.credit,
         \A c \in Calls : call'[c].doc.credit \in
             {doc.credit, Nothing, call[c].doc.credit}
  PROVE  CreditInv'
<1>1. Covered(Nothing)
  BY DEF Covered, Nothing, TypeInv, TypeOK, Tally
<1>2. \A credit : Covered(credit) => Covered(credit)'
  BY DEF Covered
<1> QED BY <1>1, <1>2 DEF CreditInv, Covered

LEMMA AnswerWritesCredit ==
  ASSUME TypeInv, TypeInv', CreditInv, NEW c \in Calls, AnswerWrites(c)
  PROVE  CreditInv'
<1> DEFINE u == call[c].user
           q == Asked(c)
           old == call[c].doc.credit
<1>1. u \in Users /\ q \in Questions
  BY DEF AnswerWrites, At, Attributed, Asked, Doc, TypeInv, TypeOK
<1>2. old \in Tally /\ doc.credit \in Tally /\ accepted \in Tally
  BY DEF TypeInv, TypeOK, Doc
<1>3. /\ accepted' = [accepted EXCEPT ![u][q] = @ + 1]
      /\ doc' = [call[c].doc EXCEPT !.credit[u][q] = @ + 1, !.answers = @ + 1]
      /\ call'[c].doc = doc'
      /\ \A d \in Calls \ {c} : call'[d] = call[d]
  BY DEF AnswerWrites, SetSession, TypeInv, TypeOK
<1>4. doc'.credit = [old EXCEPT ![u][q] = @ + 1]
  BY <1>3 DEF TypeInv, TypeOK, Doc
<1>5. \A v \in Users, p \in Questions :
         /\ doc'.credit[v][p] = old[v][p] + (IF v = u /\ p = q THEN 1 ELSE 0)
         /\ accepted'[v][p] = accepted[v][p] + (IF v = u /\ p = q THEN 1 ELSE 0)
  <2>1. \A v \in Users, p \in Questions :
           doc'.credit[v][p] = old[v][p] + (IF v = u /\ p = q THEN 1 ELSE 0)
    BY <1>1, <1>2, <1>4, SMTT(30) DEF Tally
  <2>2. \A v \in Users, p \in Questions :
           accepted'[v][p] = accepted[v][p] + (IF v = u /\ p = q THEN 1 ELSE 0)
    <3>1. accepted' = [accepted EXCEPT ![u][q] = @ + 1]
      BY <1>3
    <3> QED BY <1>1, <1>2, <3>1, SMTT(30) DEF Tally
  <2> QED BY <2>1, <2>2, Zenon
<1>6. Covered(doc.credit)'
  <2> SUFFICES ASSUME NEW v \in Users, NEW p \in Questions
               PROVE  doc'.credit[v][p] <= accepted'[v][p]
    BY DEF Covered
  <2>1. old[v][p] <= accepted[v][p] /\ old[v][p] \in Nat /\ accepted[v][p] \in Nat
    BY <1>2 DEF CreditInv, Covered, Tally
  <2> QED BY <2>1, <1>5
<1>7. ASSUME NEW d \in Calls \ {c} PROVE Covered(call[d].doc.credit)'
  <2> SUFFICES ASSUME NEW v \in Users, NEW p \in Questions
               PROVE  call'[d].doc.credit[v][p] <= accepted'[v][p]
    BY DEF Covered
  <2>1. call[d].doc.credit[v][p] <= accepted[v][p] /\ accepted[v][p] \in Nat
    BY <1>2 DEF CreditInv, Covered, Tally
  <2>2. call[d].doc.credit[v][p] \in Nat
    BY DEF TypeInv, TypeOK, Doc, Tally
  <2>3. accepted'[v][p] \in {accepted[v][p], accepted[v][p] + 1}
    BY <2>1, <1>5
  <2>4. call'[d].doc.credit[v][p] = call[d].doc.credit[v][p]
    BY <1>3
  <2> HIDE DEF u, q, old
  <2> QED BY <2>1, <2>2, <2>3, <2>4
<1> QED BY <1>3, <1>6, <1>7 DEF CreditInv, Covered

LEMMA CreditInvariance == Spec => []CreditInv
<1>1. Init => CreditInv
  BY DEF Init, CreditInv, Covered, FirstDoc, Idle, Nothing
<1>2. TypeInv /\ TypeInv' /\ CreditInv /\ [Next]_vars => CreditInv'
  <2> SUFFICES ASSUME TypeInv, TypeInv', CreditInv, [Next]_vars PROVE CreditInv'
    OBVIOUS
  <2>1. CASE UNCHANGED vars
    BY <2>1 DEF vars, CreditInv, Covered
  <2>2. CASE LockExpires
    BY <2>2 DEF LockExpires, CreditInv, Covered
  <2>3. ASSUME NEW c \in Calls, SubmitAnswer(c), ~AnswerWrites(c) PROVE CreditInv'
    <3>1. doc' = doc /\ accepted' = accepted
      BY <2>3 DEF SubmitAnswer, AnswerReads, AnswerLocks, GetSession,
                  QuestionEnds, AnswerReturns
    <3>2. \A d \in Calls : call'[d].doc.credit \in
             {doc.credit, Nothing, call[d].doc.credit}
      BY <2>3 DEF SubmitAnswer, AnswerReads, AnswerLocks, GetSession, Idle,
                  QuestionEnds, AnswerReturns, Return, FirstDoc, TypeInv, TypeOK
    <3> QED BY <3>1, <3>2, CreditInvKept
  <2>4. ASSUME NEW c \in Calls, OtherWriter(c) PROVE CreditInv'
    <3> USE DEF AdvanceReads, AdvanceWrites, ShowReads, ShowWrites,
                JoinReads, JoinWrites, LeaveReads, LeaveWrites
    <3>1. accepted' = accepted
      BY <2>4 DEF OtherWriter, GetSession
    <3>2. doc'.credit = doc.credit \/ doc'.credit = call[c].doc.credit
      BY <2>4 DEF OtherWriter, GetSession, SetSession, TypeInv, TypeOK, Doc
    <3>3. \A d \in Calls : call'[d].doc.credit \in
             {doc.credit, Nothing, call[d].doc.credit}
      BY <2>4 DEF OtherWriter, GetSession, SetSession, Return, Idle, FirstDoc,
                  TypeInv, TypeOK, Doc
    <3> QED BY <3>1, <3>2, <3>3, CreditInvKept
  <2> QED BY <2>1, <2>2, <2>3, <2>4, AnswerWritesCredit DEF Next
<1> QED BY <1>1, <1>2, TypeInvariance, PTL DEF Spec

\* No interleaving of handlers gives a participant credit on the leaderboard
\* for an answer that was not accepted, even when answer locks run out.
THEOREM NeverOverpaidAlways == Spec => []NeverOverpaid
<1>1. CreditInv => NeverOverpaid
  BY DEF CreditInv, Covered, NeverOverpaid
<1> QED BY <1>1, CreditInvariance, PTL

-----------------------------------------------------------------------------
\* The intake implements the promise made to the participants: the accepting
\* step maps to Accept, a lock that runs out to Forget, every other store to
\* StoreAgain or a stutter.
THEOREM KeepsPromise == Spec => PromiseKept
<1>1. Init => Promise!Init
  BY DEF Init, Promise!Init, FirstDoc, Nothing, Promise!Nothing
<1>2. /\ TypeInv /\ TypeInv' /\ LockInv /\ CreditInv' /\ [Next]_vars
      => [Promise!Next]_<<accepted, expired, doc.credit>>
  <2> SUFFICES ASSUME TypeInv, TypeInv', LockInv, CreditInv', [Next]_vars
               PROVE  [Promise!Next]_<<accepted, expired, doc.credit>>
    OBVIOUS
  <2>1. doc'.credit \in [Users -> [Questions -> Nat]]
    BY DEF TypeInv, TypeOK, Doc, Tally
  <2>2. Promise!Covers(accepted', doc'.credit)
    BY DEF CreditInv, Covered, Promise!Covers
  <2>3. ASSUME NEW c \in Calls, AnswerWrites(c) PROVE Promise!Next
    <3> DEFINE u == call[c].user
               q == Asked(c)
    <3>1. u \in Users /\ q \in Questions
      BY <2>3, HolderType DEF AnswerWrites, Holds
    <3>2. accepted[u][q] <= expired[u][q]
      BY <2>3 DEF AnswerWrites, LockInv, HoldersLocked, Holds
    <3>3. accepted' = [accepted EXCEPT ![u][q] = @ + 1] /\ expired' = expired
      BY <2>3 DEF AnswerWrites
    <3>4. Promise!Accept(u, q)
      BY <3>2, <3>3, <2>1, <2>2 DEF Promise!Accept
    <3> QED BY <3>1, <3>4 DEF Promise!Next
  <2>4. CASE LockExpires
    <3>1. PICK key \in locks :
             expired' = [expired EXCEPT ![key[1]][key[2]] = @ + 1]
      BY <2>4 DEF LockExpires
    <3>2. PICK u \in Users, q \in Questions : key = <<u, q>>
      BY DEF TypeInv, TypeOK
    <3>3. Promise!Forget(u, q)
      BY <2>4, <3>1, <3>2 DEF LockExpires, Promise!Forget
    <3> QED BY <3>3 DEF Promise!Next
  <2>5. CASE accepted' = accepted /\ expired' = expired
    BY <2>1, <2>2, <2>5 DEF Promise!Next, Promise!StoreAgain
  <2>6. \/ accepted' = accepted /\ expired' = expired
        \/ LockExpires
        \/ \E c \in Calls : AnswerWrites(c)
    BY DEF Next, vars, SubmitAnswer, AnswerReads, AnswerLocks, QuestionEnds,
           AnswerReturns, OtherWriter, AdvanceReads, AdvanceWrites, ShowReads,
           ShowWrites, JoinReads, JoinWrites, LeaveReads, LeaveWrites, GetSession
  <2> QED BY <2>3, <2>4, <2>5, <2>6
<1> QED BY <1>1, <1>2, TypeInvariance, LockInvariance, CreditInvariance, PTL
        DEF Spec, PromiseKept, Promise!Spec
=============================================================================
