------------------------- MODULE LiveSession_proofs -------------------------
(***************************************************************************)
(* Theorems about LiveSession, for every set of calls, every number of     *)
(* questions, both modes and (but for PauseHolds) every set of operations. *)
(***************************************************************************)
EXTENDS LiveSession, TLAPS

CallOps == OpNames \cup {"none", "broadcast", "advance"}

CallRecords == [op : CallOps, pc : Pcs, doc : Doc \cup {NoSession},
                armed : SUBSET (Timers \cup Kicks)]

\* Where a call goes on to use the document it holds.
UsesDoc(op, pc) ==
    \/ pc \in {"set", "show", "shown", "config", "find", "lock"}
    \/ op = "disconnect" /\ pc = "hold"
    \/ op \in {"httpStart", "answer"} /\ pc = "after"

StoreType ==
    /\ session \in Doc \cup {NoSession}
    /\ dbStatus \in Statuses
    /\ screen \in Indexes
    /\ stale \subseteq Calls
    /\ lost \in BOOLEAN

DelayType ==
    /\ timers \subseteq Timers
    /\ kicks \in [Kicks -> Nat]
    /\ reap \in BOOLEAN

CallType ==
    /\ call \in [Calls -> CallRecords]
    /\ \A c \in Calls : UsesDoc(call[c].op, call[c].pc) => call[c].doc \in Doc

TypeInv == StoreType /\ DelayType /\ CallType

-----------------------------------------------------------------------------
\* The operators the actions are built from keep the types.
LEMMA RunType ==
  ASSUME CallType, NEW c \in Calls, NEW op \in CallOps, NEW pc \in Pcs,
         NEW doc \in Doc \cup {NoSession}, Run(c, op, pc, doc),
         UsesDoc(op, pc) => doc \in Doc
  PROVE  CallType'
  BY ZenonT(60) DEF CallType, CallRecords, Run

LEMMA GotoType ==
  ASSUME CallType, NEW c \in Calls, NEW pc \in Pcs,
         NEW doc \in Doc \cup {NoSession}, Goto(c, pc, doc),
         UsesDoc(call[c].op, pc) => doc \in Doc
  PROVE  CallType'
  BY RunType DEF CallType, CallRecords, Goto

LEMMA FinishType ==
  ASSUME CallType, NEW c \in Calls, Finish(c)
  PROVE  CallType'
  BY NoSessionAssumption
     DEF CallType, CallRecords, Finish, Idle, UsesDoc, CallOps, Pcs

LEMMA ArmingType ==
  ASSUME CallType, NEW c \in Calls, NEW delays \in SUBSET (Timers \cup Kicks),
         ReturnArming(c, delays), stale \subseteq Calls
  PROVE  CallType' /\ stale' \subseteq Calls
<1>1. ASSUME NEW d \in Calls
      PROVE  /\ call'[d] \in CallRecords
             /\ UsesDoc(call'[d].op, call'[d].pc) => call'[d].doc \in Doc
  <2>1. CASE d = c
    BY <2>1 DEF ReturnArming, Idle, CallRecords, UsesDoc, CallOps, Pcs
  <2>2. CASE d # c
    BY <2>2 DEF ReturnArming, CallType, CallRecords
  <2> QED BY <2>1, <2>2
<1>2. call' \in [Calls -> CallRecords]
  BY <1>1 DEF ReturnArming
<1> QED BY <1>1, <1>2 DEF CallType, ReturnArming

LEMMA GetSessionType ==
  ASSUME StoreType, CallType, NEW c \in Calls, NEW op \in CallOps, NEW pc \in Pcs,
         GetSession(c, op, pc), UsesDoc(op, pc) => session # NoSession
  PROVE  CallType' /\ stale' \subseteq Calls
  BY RunType DEF GetSession, StoreType

LEMMA FollowingType == ASSUME NEW i \in Indexes PROVE Following(i) \in Indexes
  BY LiveSessionAssumption DEF Following, Indexes

LEMMA SetSessionType ==
  ASSUME StoreType, NEW c \in Calls, NEW doc \in Doc, SetSession(c, doc),
         dbStatus' \in Statuses, screen' \in Indexes
  PROVE  StoreType'
  BY DEF StoreType, SetSession, Writers

\* The shapes most actions have: a guarded read, a whole-document write, a
\* return, and a step that only moves the call on.
LEMMA AcceptsType ==
  ASSUME TypeInv, NEW c \in Calls, NEW op \in OpNames, NEW guard \in BOOLEAN,
         Accepts(c, op, guard)
  PROVE  TypeInv'
<1>1. CallType' /\ stale' \subseteq Calls
  BY GetSessionType DEF Accepts, TypeInv, CallOps, Pcs
<1> QED BY <1>1 DEF Accepts, TypeInv, StoreType, DelayType, pending

LEMMA WriteType ==
  ASSUME TypeInv, NEW c \in Calls, NEW doc \in Doc, SetSession(c, doc),
         \/ Finish(c)
         \/ \E pc \in Pcs, d \in Doc \cup {NoSession} :
                Goto(c, pc, d) /\ (UsesDoc(call[c].op, pc) => d \in Doc),
         timers' \subseteq Timers, UNCHANGED <<dbStatus, pending, screen>>
  PROVE  TypeInv'
<1>1. StoreType'
  BY SetSessionType DEF TypeInv, StoreType
<1>2. CallType'
  BY FinishType, GotoType DEF TypeInv
<1>3. DelayType'
  BY DEF TypeInv, DelayType, pending
<1> QED BY <1>1, <1>2, <1>3 DEF TypeInv

LEMMA ReturnType ==
  ASSUME TypeInv, NEW c \in Calls, Return(c), DelayType',
         dbStatus' \in Statuses, UNCHANGED <<session, screen, lost>>
  PROVE  TypeInv'
  BY FinishType DEF TypeInv, StoreType, Return

LEMMA MoveType ==
  ASSUME TypeInv, NEW c \in Calls, NEW op \in CallOps, NEW pc \in Pcs,
         NEW doc \in Doc \cup {NoSession}, Run(c, op, pc, doc),
         UsesDoc(op, pc) => doc \in Doc,
         dbStatus' \in Statuses, stale' \subseteq Calls,
         UNCHANGED <<session, timers, pending, screen, lost>>
  PROVE  TypeInv'
  BY RunType DEF TypeInv, StoreType, DelayType, pending

\* A read that only moves the call on, or a return, with the delays unchanged.
LEMMA ReadType ==
  ASSUME TypeInv, NEW c \in Calls, NEW op \in CallOps, NEW pc \in Pcs,
         GetSession(c, op, pc) \/ Return(c), UsesDoc(op, pc) => session # NoSession,
         DelayType', UNCHANGED <<session, dbStatus, screen, lost>>
  PROVE  TypeInv'
<1>1. CASE GetSession(c, op, pc)
  BY <1>1, GetSessionType DEF TypeInv, StoreType
<1>2. CASE Return(c)
  BY <1>2, ReturnType DEF TypeInv, StoreType
<1> QED BY <1>1, <1>2

LEMMA RunMoves ==
  ASSUME TypeInv, NEW c \in Calls, NEW op, NEW pc, NEW doc, Run(c, op, pc, doc)
  PROVE  /\ call'[c].op = op /\ call'[c].pc = pc /\ call'[c].doc = doc
         /\ \A d \in Calls \ {c} : call'[d] = call[d]
  BY DEF Run, TypeInv, CallType, CallRecords

LEMMA HeldDoc ==
  ASSUME TypeInv, NEW c \in Calls, UsesDoc(call[c].op, call[c].pc)
  PROVE  call[c].doc \in Doc
  BY DEF TypeInv, CallType

LEMMA DelaysKept == ASSUME TypeInv, UNCHANGED <<timers, pending>> PROVE DelayType'
  BY DEF TypeInv, DelayType, pending

LEMMA EnterBroadcastType ==
  ASSUME TypeInv, NEW c \in Calls, EnterBroadcast(c), DelayType',
         UNCHANGED <<session, dbStatus, screen, lost>>
  PROVE  TypeInv'
<1>1. \/ Return(c)
      \/ GetSession(c, "broadcast", "show") /\ session # NoSession
  BY DEF EnterBroadcast
<1>2. "broadcast" \in CallOps /\ "show" \in Pcs
  BY DEF CallOps, Pcs
<1>3. CASE Return(c)
  BY <1>2, <1>3, ReturnType DEF TypeInv, StoreType
<1>4. CASE GetSession(c, "broadcast", "show") /\ session # NoSession
  BY <1>2, <1>4, ReadType
<1> QED BY <1>1, <1>3, <1>4

-----------------------------------------------------------------------------
\* One lemma per handler: each of its steps keeps the types.
LEMMA BroadcastType ==
  ASSUME TypeInv, NEW c \in Calls, Broadcast(c)
  PROVE  TypeInv'
<1>1. CASE ShowQuestion(c)
  <2> DEFINE new == WithQuestion(call[c].doc)
  <2>1. call[c].doc \in Doc
    BY <1>1, HeldDoc DEF ShowQuestion, At, UsesDoc
  <2>2. new \in Doc
    BY <2>1 DEF WithQuestion, Doc
  <2>3. SetSession(c, new) /\ Goto(c, "shown", new) /\ timers' = {}
    BY <1>1 DEF ShowQuestion
  <2> HIDE DEF new
  <2> QED BY <1>1, <2>2, <2>3, WriteType DEF ShowQuestion, Pcs
<1>2. CASE QuestionShown(c)
  <2>1. call[c].doc \in Doc
    BY <1>2, HeldDoc DEF QuestionShown, At, UsesDoc
  <2>2. screen' \in Indexes
    BY <1>2, <2>1 DEF QuestionShown, Doc
  <2>3. timers' \subseteq Timers
    <3>1. timers' \in {timers, timers \cup {"advance"}}
      BY <1>2 DEF QuestionShown
    <3> QED BY <3>1 DEF TypeInv, DelayType, Timers
  <2>4. CallType' /\ stale' \subseteq Calls
    <3>1. Return(c) \/ ReturnArming(c, {"advance"})
      BY <1>2 DEF QuestionShown
    <3>2. Return(c) => CallType' /\ stale' \subseteq Calls
      BY FinishType DEF Return, TypeInv, StoreType
    <3>3. ReturnArming(c, {"advance"}) => CallType' /\ stale' \subseteq Calls
      BY ArmingType DEF TypeInv, StoreType, Timers
    <3> QED BY <3>1, <3>2, <3>3
  <2>5. StoreType' /\ DelayType'
    BY <1>2, <2>2, <2>3, <2>4
       DEF QuestionShown, TypeInv, StoreType, DelayType, pending
  <2> QED BY <2>4, <2>5 DEF TypeInv
<1>3. CASE FinishQuiz(c)
  <2> DEFINE new == Completed(call[c].doc)
  <2>1. call[c].doc \in Doc
    BY <1>3, HeldDoc DEF FinishQuiz, At, UsesDoc
  <2>2. new \in Doc
    BY <2>1 DEF Completed, Doc, Statuses
  <2>3. SetSession(c, new) /\ Goto(c, "finished", NoSession) /\ timers' = {}
        /\ ~UsesDoc(call[c].op, "finished")
    BY <1>3 DEF FinishQuiz, UsesDoc, At
  <2> HIDE DEF new
  <2> QED BY <1>3, <2>2, <2>3, WriteType DEF FinishQuiz, Pcs
<1>4. CASE QuizFinished(c)
  BY <1>4, ReturnType DEF QuizFinished, TypeInv, StoreType, DelayType, Statuses
<1>5. CASE BroadcastFails(c)
  BY <1>5, ReturnType DEF BroadcastFails, TypeInv, StoreType, DelayType, pending
<1> QED BY <1>1, <1>2, <1>3, <1>4, <1>5 DEF Broadcast

LEMMA TimerStepType ==
  ASSUME TypeInv, NEW c \in Calls, TimerStep(c)
  PROVE  TypeInv'
<1>1. CASE AdvanceTimer(c)
  <2>1. DelayType'
    BY <1>1 DEF AdvanceTimer, TypeInv, DelayType, pending
  <2> QED BY <1>1, <2>1, ReadType
          DEF AdvanceTimer, TypeInv, StoreType, CallType, CallOps, Pcs
<1>2. CASE AdvanceSet(c)
  <2> DEFINE new == [call[c].doc EXCEPT !.idx = Following(@)]
  <2>1. call[c].doc \in Doc
    BY <1>2, HeldDoc DEF AdvanceSet, At, UsesDoc
  <2>2. new \in Doc
    BY <2>1, FollowingType DEF Doc
  <2>3. SetSession(c, new) /\ Goto(c, "after", NoSession) /\ timers' = timers
        /\ ~UsesDoc(call[c].op, "after")
    BY <1>2 DEF AdvanceSet, UsesDoc, At
  <2> HIDE DEF new
  <2> QED BY <1>2, <2>2, <2>3, WriteType DEF AdvanceSet, Pcs, TypeInv, DelayType
<1>3. CASE Advanced(c)
  <2>1. CallType' /\ stale' \subseteq Calls
    BY <1>3, FinishType DEF Advanced, Return, TypeInv, StoreType
  <2> QED BY <1>3, <2>1 DEF Advanced, TypeInv, StoreType, DelayType, pending, Timers
<1>4. CASE BroadcastTimer(c)
  <2>1. DelayType'
    BY <1>4 DEF BroadcastTimer, TypeInv, DelayType, pending
  <2> QED BY <1>4, <2>1, ReadType
          DEF BroadcastTimer, TypeInv, StoreType, CallType, CallOps, Pcs
<1>5. CASE BroadcastTimerChecked(c)
  BY <1>5, EnterBroadcastType, DelaysKept DEF BroadcastTimerChecked
<1>6. CASE PlainKick(c)
  <2>1. DelayType'
    BY <1>6 DEF PlainKick, TypeInv, DelayType, Kicks
  <2> QED BY <1>6, <2>1, EnterBroadcastType DEF PlainKick
<1>7. CASE UnlessLiveKick(c)
  <2>1. DelayType'
    BY <1>7 DEF UnlessLiveKick, TypeInv, DelayType, Kicks
  <2> QED BY <1>7, <2>1, ReadType
          DEF UnlessLiveKick, TypeInv, StoreType, CallType, CallOps, Pcs, UsesDoc
<1> QED BY <1>1, <1>2, <1>3, <1>4, <1>5, <1>6, <1>7 DEF TimerStep

LEMMA StartType ==
  ASSUME TypeInv, NEW c \in Calls, StartQuizSession(c)
  PROVE  TypeInv'
<1> USE DEF CallOps, OpNames, Pcs, UsesDoc
<1>1. CASE StartChecks(c)
  BY <1>1, MoveType DEF StartChecks, TypeInv, StoreType
<1>2. CASE StartCommits(c)
  BY <1>2, MoveType DEF StartCommits, Goto, At, TypeInv, StoreType, Statuses
<1>3. CASE StartReads(c)
  BY <1>3, ReadType, DelaysKept DEF StartReads
<1>4. CASE StartWrites(c)
  <2>1. StartDoc \in Doc
    BY LiveSessionAssumption DEF StartDoc, Doc, Statuses, Indexes, Modes
  <2>2. PICK next \in {"reread", "kick"} : Goto(c, next, NoSession)
    BY <1>4 DEF StartWrites
  <2>3. SetSession(c, StartDoc) /\ timers' \subseteq Timers
    BY <1>4 DEF StartWrites, TypeInv, DelayType
  <2> QED BY <1>4, <2>1, <2>2, <2>3, WriteType DEF StartWrites, At
<1>5. CASE StartRereads(c)
  BY <1>5, ReadType, DelaysKept DEF StartRereads
<1>6. CASE StartConfigures(c)
  <2>1. call[c].doc \in Doc
    BY <1>6, HeldDoc DEF StartConfigures, At
  <2> QED BY <1>6, <2>1, WriteType DEF StartConfigures, At, TypeInv, DelayType
<1>7. CASE StartReturns(c)
  <2>1. PICK second \in Kicks : ReturnArming(c, {"plain", second})
    BY <1>7 DEF StartReturns
  <2>2. CallType' /\ stale' \subseteq Calls
    BY <2>1, ArmingType DEF TypeInv, StoreType, Kicks
  <2>3. kicks' \in [Kicks -> Nat]
    BY <1>7 DEF StartReturns, TypeInv, DelayType
  <2> QED BY <1>7, <2>2, <2>3 DEF StartReturns, TypeInv, StoreType, DelayType
<1>8. CASE StartFails(c)
  BY <1>8, ReturnType, DelaysKept DEF StartFails, TypeInv, StoreType, Statuses
<1> QED BY <1>1, <1>2, <1>3, <1>4, <1>5, <1>6, <1>7, <1>8 DEF StartQuizSession

LEMMA HostControlType ==
  ASSUME TypeInv, NEW c \in Calls,
         AdvanceQuizQuestion(c) \/ PauseQuizSession(c) \/ ResumeQuizSession(c)
  PROVE  TypeInv'
<1> USE DEF OpNames
<1>1. CASE NextReads(c)
  BY <1>1, AcceptsType DEF NextReads, TypeInv, StoreType, Doc, Accepts
<1>2. CASE NextWrites(c)
  <2> DEFINE new == [call[c].doc EXCEPT !.idx = Following(@)]
  <2>1. call[c].doc \in Doc
    BY <1>2, HeldDoc DEF NextWrites, At, UsesDoc
  <2>2. new \in Doc
    BY <2>1, FollowingType DEF Doc
  <2>3. SetSession(c, new) /\ Goto(c, "after", NoSession) /\ timers' = timers
        /\ ~UsesDoc(call[c].op, "after")
    BY <1>2 DEF NextWrites, UsesDoc, At
  <2> HIDE DEF new
  <2> QED BY <1>2, <2>2, <2>3, WriteType DEF NextWrites, Pcs, TypeInv, DelayType
<1>3. CASE NextBroadcasts(c)
  BY <1>3, EnterBroadcastType, DelaysKept DEF NextBroadcasts
<1>4. CASE PauseReads(c)
  BY <1>4, AcceptsType DEF PauseReads, TypeInv, StoreType, Doc, Accepts
<1>5. CASE PauseWrites(c)
  <2> DEFINE new == [call[c].doc EXCEPT !.paused = TRUE]
  <2>1. call[c].doc \in Doc
    BY <1>5, HeldDoc DEF PauseWrites, At, UsesDoc
  <2>2. new \in Doc
    BY <2>1 DEF Doc
  <2>3. SetSession(c, new) /\ Finish(c) /\ timers' = {}
    BY <1>5 DEF PauseWrites
  <2> HIDE DEF new
  <2> QED BY <1>5, <2>2, <2>3, WriteType DEF PauseWrites
<1>6. CASE ResumeReads(c)
  BY <1>6, AcceptsType DEF ResumeReads, TypeInv, StoreType, Doc, Accepts
<1>7. CASE ResumeWrites(c)
  <2> DEFINE new == [call[c].doc EXCEPT !.paused = FALSE]
  <2>1. call[c].doc \in Doc
    BY <1>7, HeldDoc DEF ResumeWrites, At, UsesDoc
  <2>2. new \in Doc
    BY <2>1 DEF Doc
  <2>3. SetSession(c, new) /\ Finish(c) /\ timers' = timers
    BY <1>7 DEF ResumeWrites
  <2> HIDE DEF new
  <2> QED BY <1>7, <2>2, <2>3, WriteType DEF ResumeWrites, TypeInv, DelayType
<1> QED BY <1>1, <1>2, <1>3, <1>4, <1>5, <1>6, <1>7
        DEF AdvanceQuizQuestion, PauseQuizSession, ResumeQuizSession

LEMMA EndingType ==
  ASSUME TypeInv, NEW c \in Calls,
         EndQuizSession(c) \/ AbortQuizSession(c) \/ HttpEnd(c)
  PROVE  TypeInv'
<1> USE DEF OpNames, CallOps, Pcs, UsesDoc
<1>1. CASE EndReads(c)
  BY <1>1, ReadType, DelaysKept DEF EndReads
<1>2. CASE EndWrites(c)
  <2> DEFINE new == Completed(call[c].doc)
  <2>1. call[c].doc \in Doc
    BY <1>2, HeldDoc DEF EndWrites, At
  <2>2. new \in Doc
    BY <2>1 DEF Completed, Doc, Statuses
  <2>3. SetSession(c, new) /\ Goto(c, "after", NoSession) /\ timers' = {}
        /\ call[c].op = "end"
    BY <1>2 DEF EndWrites, At
  <2> HIDE DEF new
  <2> QED BY <1>2, <2>2, <2>3, WriteType DEF EndWrites
<1>3. CASE EndCommits(c)
  BY <1>3, ReturnType, DelaysKept DEF EndCommits, TypeInv, StoreType, Statuses
<1>4. CASE AbortCommits(c)
  BY <1>4, MoveType DEF AbortCommits, TypeInv, StoreType, Statuses
<1>5. CASE AbortDeletes(c)
  <2>1. CallType'
    BY <1>5, FinishType DEF AbortDeletes, TypeInv
  <2>2. StoreType'
    BY <1>5 DEF AbortDeletes, DeleteSession, Writers, TypeInv, StoreType
  <2> QED BY <1>5, <2>1, <2>2, DelaysKept DEF AbortDeletes, TypeInv
<1>6. CASE HttpEndFinds(c)
  BY <1>6, MoveType DEF HttpEndFinds, TypeInv, StoreType
<1>7. CASE HttpEndSaves(c)
  BY <1>7, ReturnType, DelaysKept DEF HttpEndSaves, Statuses
<1>8. CASE AbortFails(c)
  BY <1>8, DelaysKept DEF AbortFails, TypeInv, StoreType, CallType, Statuses
<1> QED BY <1>1, <1>2, <1>3, <1>4, <1>5, <1>6, <1>7, <1>8
        DEF EndQuizSession, AbortQuizSession, HttpEnd

LEMMA ModeToggleType ==
  ASSUME TypeInv, NEW c \in Calls, NEW mode \in {"auto", "tutor"},
         ModeReads(c, mode) \/ ModeWrites(c, mode)
  PROVE  TypeInv'
<1>1. CASE ModeReads(c, mode)
  BY <1>1, AcceptsType DEF ModeReads, OpNames
<1>2. CASE ModeWrites(c, mode)
  <2> DEFINE new == [call[c].doc EXCEPT !.mode = mode]
  <2>1. call[c].doc \in Doc
    BY <1>2, HeldDoc DEF ModeWrites, At, UsesDoc
  <2>2. new \in Doc
    BY <2>1 DEF Doc, Modes
  <2>3. SetSession(c, new) /\ Finish(c) /\ timers' = timers
    BY <1>2 DEF ModeWrites
  <2> HIDE DEF new
  <2> QED BY <1>2, <2>2, <2>3, WriteType DEF ModeWrites, TypeInv, DelayType
<1> QED BY <1>1, <1>2

LEMMA HostDisconnectsType ==
  ASSUME TypeInv, NEW c \in Calls, HostDisconnects(c)
  PROVE  TypeInv'
<1> USE DEF OpNames, CallOps, Pcs, UsesDoc
<1>1. CASE DisconnectReads(c)
  BY <1>1, AcceptsType DEF DisconnectReads
<1>2. CASE DisconnectWrites(c)
  <2>1. call[c].doc \in Doc
    BY <1>2, HeldDoc DEF DisconnectWrites, At
  <2> QED BY <1>2, <2>1, WriteType DEF DisconnectWrites, At, TypeInv, DelayType
<1>3. CASE DisconnectRereads(c)
  BY <1>3, ReadType, DelaysKept DEF DisconnectRereads
<1>4. CASE DisconnectPauses(c)
  <2> DEFINE new == [call[c].doc EXCEPT !.paused = TRUE]
  <2>1. call[c].doc \in Doc
    BY <1>4, HeldDoc DEF DisconnectPauses, At
  <2>2. new \in Doc
    BY <2>1 DEF Doc
  <2>3. SetSession(c, new) /\ Finish(c) /\ timers' = timers
    BY <1>4 DEF DisconnectPauses
  <2> HIDE DEF new
  <2> QED BY <1>4, <2>2, <2>3, WriteType DEF DisconnectPauses, TypeInv, DelayType
<1> QED BY <1>1, <1>2, <1>3, <1>4 DEF HostDisconnects

LEMMA HttpStartType ==
  ASSUME TypeInv, NEW c \in Calls, HttpStart(c)
  PROVE  TypeInv'
<1> USE DEF OpNames, CallOps, Pcs, UsesDoc
<1>1. CASE HttpStartFinds(c)
  BY <1>1, MoveType DEF HttpStartFinds, TypeInv, StoreType
<1>2. CASE HttpStartSaves(c)
  BY <1>2, MoveType DEF HttpStartSaves, Goto, At, TypeInv, StoreType, Statuses
<1>3. CASE HttpStartReads(c)
  BY <1>3, ReadType, DelaysKept DEF HttpStartReads
<1>4. CASE HttpStartGivesUp(c)
  BY <1>4, ReturnType, DelaysKept DEF HttpStartGivesUp, TypeInv, StoreType, Statuses
<1>5. CASE HttpStartWrites(c)
  <2> DEFINE new == WithQuestion(call[c].doc)
  <2>1. call[c].doc \in Doc
    BY <1>5, HeldDoc DEF HttpStartWrites, At
  <2>2. new \in Doc
    BY <2>1 DEF WithQuestion, Doc
  <2>3. SetSession(c, new) /\ Goto(c, "after", new) /\ timers' = timers
    BY <1>5 DEF HttpStartWrites
  <2> HIDE DEF new
  <2> QED BY <1>5, <2>2, <2>3, WriteType DEF HttpStartWrites, TypeInv, DelayType
<1>6. CASE HttpStartShown(c)
  <2>1. call[c].doc \in Doc
    BY <1>6, HeldDoc DEF HttpStartShown, At
  <2>2. screen' \in Indexes
    BY <1>6, <2>1 DEF HttpStartShown, Doc
  <2>3. timers' \in {timers, timers \cup {"advance"}}
    BY <1>6 DEF HttpStartShown
  <2>4. CallType' /\ stale' \subseteq Calls
    <3>1. Return(c) \/ ReturnArming(c, {"advance"})
      BY <1>6 DEF HttpStartShown
    <3>2. Return(c) => CallType' /\ stale' \subseteq Calls
      BY FinishType DEF Return, TypeInv, StoreType
    <3>3. ReturnArming(c, {"advance"}) => CallType' /\ stale' \subseteq Calls
      BY ArmingType DEF TypeInv, StoreType, Timers
    <3> QED BY <3>1, <3>2, <3>3
  <2> QED BY <1>6, <2>2, <2>3, <2>4
          DEF HttpStartShown, TypeInv, StoreType, DelayType, Timers, pending
<1> QED BY <1>1, <1>2, <1>3, <1>4, <1>5, <1>6 DEF HttpStart

LEMMA JoinType ==
  ASSUME TypeInv, NEW c \in Calls, JoinRoom(c)
  PROVE  TypeInv'
<1> USE DEF OpNames, CallOps, Pcs, UsesDoc
<1>1. CASE JoinFinds(c)
  <2>1. JoinDoc(dbStatus) \in Doc
    BY DEF TypeInv, StoreType, JoinDoc, Doc, Indexes, Modes
  <2> QED BY <1>1, <2>1, MoveType DEF JoinFinds, TypeInv, StoreType
<1>2. CASE JoinReads(c)
  <2> DEFINE new == [session EXCEPT !.status = call[c].doc.status,
                        !.idx = IF call[c].doc.status = "live" THEN @ ELSE Null]
  <2>1. call[c].doc \in Doc
    BY <1>2, HeldDoc DEF JoinReads, At
  <2>2. session # NoSession => new \in Doc
    BY <2>1 DEF TypeInv, StoreType, Doc, Indexes
  <2>3. \/ Return(c)
        \/ Goto(c, "lock", call[c].doc) /\ stale' = stale \ {c}
        \/ session # NoSession /\ Goto(c, "lock", new) /\ stale' = stale \ {c}
    BY <1>2 DEF JoinReads
  <2> HIDE DEF new
  <2>4. CASE Return(c)
    BY <1>2, <2>4, ReturnType, DelaysKept DEF JoinReads, TypeInv, StoreType
  <2>5. ASSUME NEW d \in Doc, Goto(c, "lock", d), stale' = stale \ {c}
        PROVE  TypeInv'
    <3>1. CallType'
      BY <2>5, GotoType DEF TypeInv
    <3> QED BY <1>2, <2>5, <3>1, DelaysKept DEF JoinReads, TypeInv, StoreType
  <2> QED BY <2>1, <2>2, <2>3, <2>4, <2>5
<1>3. CASE JoinLocks(c)
  <2>1. call[c].doc \in Doc /\ call[c].op = "join"
    BY <1>3, HeldDoc DEF JoinLocks, At
  <2>2. CASE session # NoSession /\ GetSession(c, "join", "set")
    BY <1>3, <2>2, ReadType, DelaysKept DEF JoinLocks
  <2>3. CASE Goto(c, "set", call[c].doc) /\ UNCHANGED stale
    <3>1. CallType'
      BY <2>1, <2>3, GotoType DEF TypeInv
    <3> QED BY <1>3, <2>3, <3>1, DelaysKept DEF JoinLocks, TypeInv, StoreType
  <2>4. CASE Return(c)
    BY <1>3, <2>4, ReturnType, DelaysKept DEF JoinLocks, TypeInv, StoreType
  <2> QED BY <1>3, <2>2, <2>3, <2>4 DEF JoinLocks
<1>4. CASE JoinWrites(c)
  <2>1. call[c].doc \in Doc
    BY <1>4, HeldDoc DEF JoinWrites, At
  <2> QED BY <1>4, <2>1, WriteType DEF JoinWrites, TypeInv, DelayType
<1> QED BY <1>1, <1>2, <1>3, <1>4 DEF JoinRoom

LEMMA LeaveAnswerType ==
  ASSUME TypeInv, NEW c \in Calls, LeaveRoom(c) \/ SubmitAnswer(c)
  PROVE  TypeInv'
<1> USE DEF OpNames, CallOps, Pcs, UsesDoc
<1>1. CASE LeaveReads(c)
  BY <1>1, AcceptsType DEF LeaveReads
<1>2. CASE LeaveWrites(c)
  <2>1. call[c].doc \in Doc
    BY <1>2, HeldDoc DEF LeaveWrites, At
  <2> QED BY <1>2, <2>1, WriteType DEF LeaveWrites, TypeInv, DelayType
<1>3. CASE AnswerReads(c)
  <2>1. Accepts(c, "answer", TRUE)
    BY <1>3 DEF AnswerReads, Accepts
  <2> QED BY <2>1, AcceptsType
<1>4. CASE AnswerWrites(c)
  <2>1. call[c].doc \in Doc /\ call[c].op = "answer"
    BY <1>4, HeldDoc DEF AnswerWrites, At
  <2> QED BY <1>4, <2>1, WriteType DEF AnswerWrites, TypeInv, DelayType
<1>5. CASE AnswerAdvances(c)
  <2>1. timers' \in {timers, timers \cup {"advance"}}
    BY <1>5 DEF AnswerAdvances
  <2>2. CallType' /\ stale' \subseteq Calls
    <3>1. Return(c) \/ ReturnArming(c, {"advance"})
      BY <1>5 DEF AnswerAdvances
    <3>2. Return(c) => CallType' /\ stale' \subseteq Calls
      BY FinishType DEF Return, TypeInv, StoreType
    <3>3. ReturnArming(c, {"advance"}) => CallType' /\ stale' \subseteq Calls
      BY ArmingType DEF TypeInv, StoreType, Timers
    <3> QED BY <3>1, <3>2, <3>3
  <2> QED BY <1>5, <2>1, <2>2
          DEF AnswerAdvances, TypeInv, StoreType, DelayType, Timers, pending
<1> QED BY <1>1, <1>2, <1>3, <1>4, <1>5 DEF LeaveRoom, SubmitAnswer

LEMMA CallStepType ==
  ASSUME TypeInv, NEW c \in Calls, CallStep(c)
  PROVE  TypeInv'
<1>1. CASE QuestionStart(c)
  BY <1>1, EnterBroadcastType, DelaysKept DEF QuestionStart
<1>2. CASE ModeToggle(c)
  BY <1>2, ModeToggleType DEF ModeToggle
<1> QED BY <1>1, <1>2, BroadcastType, TimerStepType, StartType, HostControlType,
           EndingType, HostDisconnectsType, HttpStartType, JoinType, LeaveAnswerType
        DEF CallStep, HostStep, ParticipantStep

LEMMA TypeInvariance == Spec => []TypeInv
<1>1. Init => TypeInv
  <2> SUFFICES ASSUME Init PROVE TypeInv
    OBVIOUS
  <2>1. StoreType
    BY DEF Init, StoreType, Statuses, Indexes
  <2>2. DelayType
    BY DEF Init, DelayType
  <2>3. Idle \in CallRecords /\ ~UsesDoc(Idle.op, Idle.pc)
    BY DEF Idle, CallRecords, CallOps, Pcs, UsesDoc
  <2>4. CallType
    BY <2>3 DEF Init, CallType
  <2> QED BY <2>1, <2>2, <2>4 DEF TypeInv
<1>2. TypeInv /\ [Next]_vars => TypeInv'
  <2> SUFFICES ASSUME TypeInv, [Next]_vars PROVE TypeInv'
    OBVIOUS
  <2>1. CASE UNCHANGED vars
    BY <2>1 DEF vars, pending, TypeInv, StoreType, DelayType, CallType
  <2>2. ASSUME NEW c \in Calls, CallStep(c) PROVE TypeInv'
    BY <2>2, CallStepType
  <2>3. CASE Reap
    BY <2>3 DEF Reap, DeleteSession, Writers, TypeInv, StoreType, DelayType, CallType
  <2>4. CASE Expire
    BY <2>4 DEF Expire, DeleteSession, Writers, pending, TypeInv, StoreType,
                DelayType, CallType
  <2>5. CASE Crash
    BY <2>5 DEF Crash, TypeInv, StoreType, DelayType, CallType, CallRecords, Idle,
                UsesDoc, CallOps, Pcs
  <2> QED BY <2>1, <2>2, <2>3, <2>4, <2>5 DEF Next
<1> QED BY <1>1, <1>2, PTL DEF Spec

\* Every variable keeps its type, whatever handlers, timers, expiries and
\* restarts overlap.
THEOREM TypeCorrect == Spec => []TypeOK
<1>1. TypeInv => TypeOK
  BY DEF TypeInv, StoreType, DelayType, CallType, CallRecords, CallOps, TypeOK
<1> QED BY <1>1, TypeInvariance, PTL

-----------------------------------------------------------------------------
(***************************************************************************)
(* Mongo leads Redis.  The property is not inductive: a live copy held by  *)
(* a call, or a start that has passed its commit, can make the document    *)
(* live at any later time, so both must have Mongo past "waiting".         *)
(***************************************************************************)
Begun == dbStatus # "waiting"

Live(doc) == doc # NoSession /\ doc.status = "live"

AfterCommit(op, pc) == op = "start" /\ pc \in {"read", "hold"}

LeadInv ==
    /\ Live(session) => Begun
    /\ \A c \in Calls :
           /\ Live(call[c].doc) => Begun
           /\ AfterCommit(call[c].op, call[c].pc) => Begun

\* c alone moves; what it holds or stores is live only if something was before.
LEMMA LeadKept ==
  ASSUME LeadInv, NEW c \in Calls,
         Begun => Begun',
         Live(session') => Live(session) \/ Live(call[c].doc) \/ Begun',
         \A d \in Calls \ {c} : /\ call'[d].op = call[d].op
                                /\ call'[d].pc = call[d].pc
                                /\ call'[d].doc = call[d].doc,
         Live(call'[c].doc) => Live(session) \/ Live(call[c].doc) \/ Begun',
         AfterCommit(call'[c].op, call'[c].pc) =>
             AfterCommit(call[c].op, call[c].pc) \/ Begun'
  PROVE  LeadInv'
<1>1. \A d \in Calls : /\ Live(call'[d].doc) => Begun'
                       /\ AfterCommit(call'[d].op, call'[d].pc) => Begun'
  <2>1. ASSUME NEW d \in Calls \ {c}
        PROVE  /\ Live(call'[d].doc) => Begun'
               /\ AfterCommit(call'[d].op, call'[d].pc) => Begun'
    BY <2>1 DEF LeadInv
  <2>2. /\ Live(call'[c].doc) => Begun'
        /\ AfterCommit(call'[c].op, call'[c].pc) => Begun'
    BY DEF LeadInv
  <2> QED BY <2>1, <2>2
<1>2. Live(session') => Begun'
  BY DEF LeadInv
<1> QED BY <1>1, <1>2 DEF LeadInv, Live, Begun

\* The shapes of the steps.
LEMMA LeadRun ==
  ASSUME TypeInv, LeadInv, NEW c \in Calls, NEW op, NEW pc, NEW doc,
         Run(c, op, pc, doc), Begun => Begun',
         Live(session') => Live(session) \/ Live(call[c].doc) \/ Begun',
         Live(doc) => Live(session) \/ Live(call[c].doc) \/ Begun',
         AfterCommit(op, pc) => AfterCommit(call[c].op, call[c].pc) \/ Begun'
  PROVE  LeadInv'
<1> QED BY RunMoves, LeadKept

LEMMA LeadGoto ==
  ASSUME TypeInv, LeadInv, NEW c \in Calls, NEW pc, NEW doc,
         Goto(c, pc, doc), Begun => Begun',
         Live(session') => Live(session) \/ Live(call[c].doc) \/ Begun',
         Live(doc) => Live(session) \/ Live(call[c].doc) \/ Begun',
         AfterCommit(call[c].op, pc) => AfterCommit(call[c].op, call[c].pc) \/ Begun'
  PROVE  LeadInv'
  BY LeadRun DEF Goto

LEMMA LeadGet ==
  ASSUME TypeInv, LeadInv, NEW c \in Calls, NEW op, NEW pc,
         GetSession(c, op, pc), Begun => Begun', session' = session,
         AfterCommit(op, pc) => AfterCommit(call[c].op, call[c].pc) \/ Begun'
  PROVE  LeadInv'
  BY LeadRun DEF GetSession

LEMMA LeadReturn ==
  ASSUME TypeInv, LeadInv, NEW c \in Calls,
         Return(c) \/ Finish(c) \/ \E delays : ReturnArming(c, delays),
         Begun => Begun',
         Live(session') => Live(session) \/ Live(call[c].doc) \/ Begun'
  PROVE  LeadInv'
<1>1. /\ call'[c] = Idle
      /\ \A d \in Calls \ {c} : /\ call'[d].op = call[d].op
                                /\ call'[d].pc = call[d].pc
                                /\ call'[d].doc = call[d].doc
  BY DEF Return, Finish, ReturnArming, TypeInv, CallType, CallRecords
<1>2. ~Live(Idle.doc) /\ ~AfterCommit(Idle.op, Idle.pc)
  BY DEF Live, AfterCommit, Idle
<1> QED BY <1>1, <1>2, LeadKept

LEMMA LeadBroadcast ==
  ASSUME TypeInv, LeadInv, NEW c \in Calls,
         Broadcast(c) \/ TimerStep(c) \/ QuestionStart(c) \/ NextBroadcasts(c)
  PROVE  LeadInv'
<1> USE DEF Begun, AfterCommit
<1>1. ASSUME EnterBroadcast(c), UNCHANGED <<session, dbStatus>> PROVE LeadInv'
  BY <1>1, LeadReturn, LeadGet DEF EnterBroadcast
<1>2. CASE ShowQuestion(c)
  <2>1. Live(WithQuestion(call[c].doc)) => Live(call[c].doc)
    <3>1. call[c].doc \in Doc
      BY <1>2, HeldDoc DEF ShowQuestion, At, UsesDoc
    <3> QED BY <3>1, NoSessionAssumption DEF WithQuestion, Live, Doc
  <2> QED BY <1>2, <2>1, LeadGoto DEF ShowQuestion, SetSession
<1>3. CASE QuestionShown(c)
  BY <1>3, LeadReturn DEF QuestionShown
<1>4. CASE FinishQuiz(c)
  <2>1. ~Live(Completed(call[c].doc)) /\ ~Live(NoSession)
    <3>1. call[c].doc \in Doc
      BY <1>4, HeldDoc DEF FinishQuiz, At, UsesDoc
    <3> QED BY <3>1 DEF Completed, Live, Doc
  <2> QED BY <1>4, <2>1, LeadGoto DEF FinishQuiz, SetSession
<1>5. CASE QuizFinished(c)
  BY <1>5, LeadReturn DEF QuizFinished
<1>6. CASE BroadcastFails(c)
  BY <1>6, LeadReturn DEF BroadcastFails
<1>7. CASE AdvanceTimer(c)
  BY <1>7, LeadGet DEF AdvanceTimer, LeadInv
<1>8. CASE AdvanceSet(c)
  <2>1. Live([call[c].doc EXCEPT !.idx = Following(@)]) => Live(call[c].doc)
    <3>1. call[c].doc \in Doc
      BY <1>8, HeldDoc DEF AdvanceSet, At, UsesDoc
    <3> QED BY <3>1, NoSessionAssumption DEF Live, Doc
  <2>2. ~Live(NoSession)
    BY DEF Live
  <2> QED BY <1>8, <2>1, <2>2, LeadGoto DEF AdvanceSet, SetSession
<1>9. CASE Advanced(c)
  BY <1>9, LeadReturn DEF Advanced
<1>10. CASE BroadcastTimer(c)
  BY <1>10, LeadGet DEF BroadcastTimer, LeadInv
<1>11. CASE BroadcastTimerChecked(c)
  BY <1>1, <1>11 DEF BroadcastTimerChecked
<1>12. CASE PlainKick(c)
  BY <1>1, <1>12 DEF PlainKick
<1>13. CASE UnlessLiveKick(c)
  BY <1>13, LeadGet DEF UnlessLiveKick, LeadInv
<1>14. CASE QuestionStart(c)
  BY <1>1, <1>14 DEF QuestionStart
<1>15. CASE NextBroadcasts(c)
  BY <1>1, <1>15 DEF NextBroadcasts
<1> QED BY <1>2, <1>3, <1>4, <1>5, <1>6, <1>7, <1>8, <1>9, <1>10, <1>11, <1>12,
           <1>13, <1>14, <1>15 DEF Broadcast, TimerStep

LEMMA LeadSet ==
  ASSUME TypeInv, LeadInv, NEW c \in Calls, NEW doc, SetSession(c, doc),
         Live(doc) => Live(call[c].doc) \/ Begun', UNCHANGED dbStatus,
         \/ Finish(c)
         \/ \E pc \in Pcs \ {"read", "hold"} : \E d :
                Goto(c, pc, d) /\ (Live(d) => Live(doc))
  PROVE  LeadInv'
<1>1. session' = doc /\ (Begun => Begun')
  BY DEF SetSession, Begun
<1>2. CASE Finish(c)
  BY <1>1, <1>2, LeadReturn DEF LeadInv, Begun
<1>3. ASSUME NEW pc \in Pcs \ {"read", "hold"}, NEW d, Goto(c, pc, d),
             Live(d) => Live(doc)
      PROVE  LeadInv'
  BY <1>1, <1>3, LeadGoto DEF AfterCommit
<1> QED BY <1>2, <1>3

LEMMA LeadAccepts ==
  ASSUME TypeInv, LeadInv, NEW c \in Calls, NEW op \in OpNames \ {"start"},
         NEW guard, Accepts(c, op, guard)
  PROVE  LeadInv'
  BY LeadGet DEF Accepts, AfterCommit, Begun

LEMMA LeadStart ==
  ASSUME TypeInv, LeadInv, NEW c \in Calls, StartQuizSession(c)
  PROVE  LeadInv'
<1> USE DEF Begun, AfterCommit
<1>1. ~Live(NoSession)
  BY DEF Live
<1>2. CASE StartChecks(c)
  BY <1>1, <1>2, LeadRun DEF StartChecks
<1>3. CASE StartCommits(c)
  BY <1>1, <1>3, LeadGoto DEF StartCommits
<1>4. CASE StartReads(c)
  BY <1>4, LeadGet DEF StartReads, At
<1>5. CASE StartWrites(c)
  <2>1. Begun'
    BY <1>5 DEF StartWrites, At, LeadInv
  <2> QED BY <1>1, <1>5, <2>1, LeadSet DEF StartWrites, Pcs
<1>6. CASE StartRereads(c)
  BY <1>6, LeadGet DEF StartRereads
<1>7. CASE StartConfigures(c)
  BY <1>1, <1>7, LeadSet DEF StartConfigures, Pcs
<1>8. CASE StartReturns(c)
  BY <1>8, LeadReturn DEF StartReturns
<1>9. CASE StartFails(c)
  BY <1>9, LeadReturn DEF StartFails
<1> QED BY <1>2, <1>3, <1>4, <1>5, <1>6, <1>7, <1>8, <1>9 DEF StartQuizSession

LEMMA LeadHost ==
  ASSUME TypeInv, LeadInv, NEW c \in Calls,
         \/ NextReads(c) \/ NextWrites(c)
         \/ PauseQuizSession(c) \/ ResumeQuizSession(c)
         \/ EndQuizSession(c) \/ AbortQuizSession(c) \/ ModeToggle(c)
  PROVE  LeadInv'
<1> USE DEF OpNames, Pcs
<1>1. ~Live(NoSession)
  BY DEF Live
<1>2. ASSUME call[c].pc = "set"
      PROVE  call[c].doc \in Doc
  BY <1>2, HeldDoc DEF UsesDoc
<1>3. CASE NextReads(c) \/ PauseReads(c) \/ ResumeReads(c)
           \/ \E mode \in {"auto", "tutor"} : ModeReads(c, mode)
  BY <1>3, LeadAccepts DEF NextReads, PauseReads, ResumeReads, ModeReads
<1>4. CASE NextWrites(c)
  <2>1. Live([call[c].doc EXCEPT !.idx = Following(@)]) => Live(call[c].doc)
    BY <1>2, <1>4, NoSessionAssumption DEF NextWrites, At, Live, Doc
  <2> QED BY <1>1, <1>4, <2>1, LeadSet DEF NextWrites
<1>5. CASE PauseWrites(c)
  <2>1. Live([call[c].doc EXCEPT !.paused = TRUE]) => Live(call[c].doc)
    BY <1>2, <1>5, NoSessionAssumption DEF PauseWrites, At, Live, Doc
  <2> QED BY <1>5, <2>1, LeadSet DEF PauseWrites
<1>6. CASE ResumeWrites(c)
  <2>1. Live([call[c].doc EXCEPT !.paused = FALSE]) => Live(call[c].doc)
    BY <1>2, <1>6, NoSessionAssumption DEF ResumeWrites, At, Live, Doc
  <2> QED BY <1>6, <2>1, LeadSet DEF ResumeWrites
<1>7. ASSUME NEW mode \in {"auto", "tutor"}, ModeWrites(c, mode) PROVE LeadInv'
  <2>1. Live([call[c].doc EXCEPT !.mode = mode]) => Live(call[c].doc)
    BY <1>2, <1>7, NoSessionAssumption DEF ModeWrites, At, Live, Doc
  <2> QED BY <1>7, <2>1, LeadSet DEF ModeWrites
<1>8. CASE EndReads(c)
  BY <1>8, LeadGet DEF EndReads, AfterCommit, Begun
<1>9. CASE EndWrites(c)
  <2>1. ~Live(Completed(call[c].doc))
    BY <1>2, <1>9 DEF EndWrites, At, Completed, Live, Doc
  <2> QED BY <1>1, <1>9, <2>1, LeadSet DEF EndWrites
<1>10. CASE EndCommits(c)
  BY <1>10, LeadReturn DEF EndCommits, Begun
<1>11. CASE AbortCommits(c)
  BY <1>1, <1>11, LeadRun DEF AbortCommits, AfterCommit, Begun
<1>12. CASE AbortDeletes(c)
  BY <1>1, <1>12, LeadReturn DEF AbortDeletes, DeleteSession, Begun
<1>13. CASE AbortFails(c)
  BY <1>13 DEF AbortFails, LeadInv, Live, Begun
<1> QED BY <1>3, <1>4, <1>5, <1>6, <1>7, <1>8, <1>9, <1>10, <1>11, <1>12, <1>13
        DEF PauseQuizSession, ResumeQuizSession, EndQuizSession,
            AbortQuizSession, ModeToggle

LEMMA LeadRest ==
  ASSUME TypeInv, LeadInv, NEW c \in Calls,
         HostDisconnects(c) \/ HttpStart(c) \/ HttpEnd(c)
  PROVE  LeadInv'
<1> USE DEF OpNames, Pcs, AfterCommit, Begun
<1>1. ~Live(NoSession)
  BY DEF Live
<1>2. CASE DisconnectReads(c)
  BY <1>2, LeadAccepts DEF DisconnectReads
<1>3. CASE DisconnectWrites(c)
  BY <1>1, <1>3, LeadSet DEF DisconnectWrites
<1>4. CASE DisconnectRereads(c)
  BY <1>4, LeadGet, LeadReturn DEF DisconnectRereads
<1>5. CASE DisconnectPauses(c)
  <2>1. Live([call[c].doc EXCEPT !.paused = TRUE]) => Live(call[c].doc)
    <3>1. call[c].doc \in Doc
      BY <1>5, HeldDoc DEF DisconnectPauses, At, UsesDoc
    <3> QED BY <3>1, NoSessionAssumption DEF Live, Doc
  <2> QED BY <1>5, <2>1, LeadSet DEF DisconnectPauses
<1>6. CASE HttpStartFinds(c)
  BY <1>1, <1>6, LeadRun DEF HttpStartFinds
<1>7. CASE HttpStartSaves(c)
  BY <1>1, <1>7, LeadGoto DEF HttpStartSaves, At
<1>8. CASE HttpStartReads(c)
  BY <1>8, LeadGet, LeadReturn DEF HttpStartReads
<1>9. CASE HttpStartGivesUp(c)
  BY <1>9, LeadReturn DEF HttpStartGivesUp
<1>10. CASE HttpStartWrites(c)
  <2>1. Live(WithQuestion(call[c].doc)) => Live(call[c].doc)
    <3>1. call[c].doc \in Doc
      BY <1>10, HeldDoc DEF HttpStartWrites, At, UsesDoc
    <3> QED BY <3>1, NoSessionAssumption DEF WithQuestion, Live, Doc
  <2> QED BY <1>10, <2>1, LeadSet DEF HttpStartWrites
<1>11. CASE HttpStartShown(c)
  BY <1>11, LeadReturn DEF HttpStartShown
<1>12. CASE HttpEndFinds(c)
  BY <1>1, <1>12, LeadRun DEF HttpEndFinds
<1>13. CASE HttpEndSaves(c)
  BY <1>13, LeadReturn DEF HttpEndSaves
<1> QED BY <1>2, <1>3, <1>4, <1>5, <1>6, <1>7, <1>8, <1>9, <1>10, <1>11, <1>12,
           <1>13 DEF HostDisconnects, HttpStart, HttpEnd

LEMMA LeadParticipant ==
  ASSUME TypeInv, LeadInv, NEW c \in Calls, ParticipantStep(c)
  PROVE  LeadInv'
<1> USE DEF OpNames, Pcs, AfterCommit, Begun
<1>1. ~Live(NoSession)
  BY DEF Live
<1>2. CASE JoinFinds(c)
  <2>1. Live(JoinDoc(dbStatus)) => Begun
    BY DEF Live, JoinDoc
  <2> QED BY <1>2, <2>1, LeadRun DEF JoinFinds
<1>3. CASE JoinReads(c)
  <2> DEFINE status == call[c].doc.status
             merged == [session EXCEPT !.status = status,
                                       !.idx = IF status = "live" THEN @ ELSE Null]
  <2>1. CASE session = NoSession /\ Goto(c, "lock", call[c].doc)
    BY <1>3, <2>1, LeadGoto DEF JoinReads, At
  <2>2. CASE session # NoSession /\ Goto(c, "lock", merged)
    <3>1. call[c].doc \in Doc /\ session \in Doc
      BY <1>3, <2>2, HeldDoc DEF JoinReads, At, UsesDoc, TypeInv, StoreType
    <3>2. Live(merged) => Live(call[c].doc)
      BY <3>1, NoSessionAssumption DEF Live, Doc
    <3> HIDE DEF merged
    <3> QED BY <1>3, <2>2, <3>2, LeadGoto DEF JoinReads, At
  <2>3. CASE Return(c)
    BY <1>3, <2>3, LeadReturn DEF JoinReads
  <2> QED BY <1>3, <2>1, <2>2, <2>3 DEF JoinReads
<1>4. CASE JoinLocks(c)
  BY <1>4, LeadGet, LeadGoto, LeadReturn DEF JoinLocks
<1>5. CASE JoinWrites(c)
  BY <1>5, LeadSet DEF JoinWrites
<1>6. CASE LeaveReads(c)
  BY <1>6, LeadAccepts DEF LeaveReads
<1>7. CASE LeaveWrites(c)
  BY <1>7, LeadSet DEF LeaveWrites
<1>8. CASE AnswerReads(c)
  BY <1>8, LeadAccepts DEF AnswerReads
<1>9. CASE AnswerWrites(c)
  BY <1>9, LeadSet DEF AnswerWrites
<1>10. CASE AnswerAdvances(c)
  BY <1>10, LeadReturn DEF AnswerAdvances
<1> QED BY <1>2, <1>3, <1>4, <1>5, <1>6, <1>7, <1>8, <1>9, <1>10
        DEF ParticipantStep, JoinRoom, LeaveRoom, SubmitAnswer

LEMMA LeadInvariance == Spec => []LeadInv
<1>1. Init => LeadInv
  BY DEF Init, LeadInv, Live, AfterCommit, Idle
<1>2. TypeInv /\ LeadInv /\ [Next]_vars => LeadInv'
  <2> SUFFICES ASSUME TypeInv, LeadInv, [Next]_vars PROVE LeadInv'
    OBVIOUS
  <2>1. CASE UNCHANGED vars
    BY <2>1 DEF vars, pending, LeadInv, Live, Begun
  <2>2. ASSUME NEW c \in Calls, CallStep(c) PROVE LeadInv'
    BY <2>2, LeadBroadcast, LeadStart, LeadHost, LeadRest, LeadParticipant
       DEF CallStep, HostStep, AdvanceQuizQuestion
  <2>3. CASE Reap \/ Expire
    BY <2>3 DEF Reap, Expire, DeleteSession, LeadInv, Live, Begun
  <2>4. CASE Crash
    BY <2>4 DEF Crash, LeadInv, Live, Begun, AfterCommit, Idle
  <2> QED BY <2>1, <2>2, <2>3, <2>4 DEF Next
<1> QED BY <1>1, <1>2, TypeInvariance, PTL DEF Spec

\* Redis never shows a live session that Mongo still has waiting, with any
\* number of handlers interleaved at their awaits and documents expiring or
\* being deleted and rebuilt under them.
THEOREM DatabaseLeads == Spec => []DatabaseLeadsCache
<1>1. LeadInv => DatabaseLeadsCache
  BY DEF LeadInv, Live, Begun, DatabaseLeadsCache
<1> QED BY <1>1, LeadInvariance, PTL

-----------------------------------------------------------------------------
(***************************************************************************)
(* A pause holds.  What a call is about to SET may have nothing to do with *)
(* the document it replaces, so the property needs to know which copies    *)
(* are still the document: those of the calls that are not stale.          *)
(***************************************************************************)

\* Where a call holds the document it read, to SET it back.
HoldsCopy(op, pc) ==
    pc \in {"set", "show", "config"} \/ (op = "disconnect" /\ pc = "hold")

MovesOn(op, pc) == op \in {"next", "advance"} /\ pc = "set"

CopyInv ==
    /\ \A c \in Calls \ stale :
           HoldsCopy(call[c].op, call[c].pc)
               => session = NoSession \/ call[c].doc = session
    /\ \A c \in Calls :
           MovesOn(call[c].op, call[c].pc) => ~call[c].doc.paused

LEMMA CopyRun ==
  ASSUME TypeInv, CopyInv, NEW c \in Calls, NEW op, NEW pc, NEW doc,
         Run(c, op, pc, doc), session' = session,
         stale' = stale \/ stale' = stale \ {c},
         HoldsCopy(op, pc) => session = NoSession \/ doc = session,
         MovesOn(op, pc) => ~doc.paused
  PROVE  CopyInv'
<1>1. call'[c].op = op /\ call'[c].pc = pc /\ call'[c].doc = doc
  BY RunMoves
<1>2. \A d \in Calls \ {c} : call'[d] = call[d]
  BY RunMoves
<1>3. ASSUME NEW d \in Calls \ stale', HoldsCopy(call'[d].op, call'[d].pc)
      PROVE  session' = NoSession \/ call'[d].doc = session'
  BY <1>1, <1>2, <1>3 DEF CopyInv
<1>4. ASSUME NEW d \in Calls, MovesOn(call'[d].op, call'[d].pc)
      PROVE  ~call'[d].doc.paused
  BY <1>1, <1>2, <1>4 DEF CopyInv
<1> QED BY <1>3, <1>4 DEF CopyInv, HoldsCopy, MovesOn

LEMMA CopyGoto ==
  ASSUME TypeInv, CopyInv, NEW c \in Calls, NEW pc, NEW doc,
         Goto(c, pc, doc), session' = session,
         stale' = stale \/ stale' = stale \ {c},
         ~HoldsCopy(call[c].op, pc)
  PROVE  CopyInv'
  BY CopyRun DEF Goto, HoldsCopy, MovesOn

LEMMA CopyGet ==
  ASSUME TypeInv, CopyInv, NEW c \in Calls, NEW op, NEW pc,
         GetSession(c, op, pc), session' = session,
         MovesOn(op, pc) => ~session.paused
  PROVE  CopyInv'
  BY CopyRun DEF GetSession

LEMMA CopyReturn ==
  ASSUME TypeInv, CopyInv, NEW c \in Calls, session' = session,
         Return(c) \/ \E delays : ReturnArming(c, delays)
  PROVE  CopyInv'
<1>1. /\ call'[c] = Idle
      /\ \A d \in Calls \ {c} : /\ call'[d].op = call[d].op
                                /\ call'[d].pc = call[d].pc
                                /\ call'[d].doc = call[d].doc
  BY DEF Return, Finish, ReturnArming, TypeInv, CallType, CallRecords
<1>2. ~HoldsCopy(Idle.op, Idle.pc) /\ ~MovesOn(Idle.op, Idle.pc)
  BY DEF HoldsCopy, MovesOn, Idle
<1>3. stale' = stale \ {c}
  BY DEF Return, ReturnArming
<1>4. ASSUME NEW d \in Calls \ stale', HoldsCopy(call'[d].op, call'[d].pc)
      PROVE  session' = NoSession \/ call'[d].doc = session'
  BY <1>1, <1>2, <1>3, <1>4 DEF CopyInv
<1>5. ASSUME NEW d \in Calls, MovesOn(call'[d].op, call'[d].pc)
      PROVE  ~call'[d].doc.paused
  BY <1>1, <1>2, <1>5 DEF CopyInv
<1> QED BY <1>4, <1>5 DEF CopyInv, HoldsCopy, MovesOn

\* A SET makes every other copy stale, and its caller keeps none to SET again.
LEMMA CopySet ==
  ASSUME TypeInv, CopyInv, NEW c \in Calls, NEW doc, SetSession(c, doc),
         \/ Finish(c)
         \/ \E pc \in {"after", "shown", "finished", "reread", "kick", "gone"} : \E d :
                Goto(c, pc, d)
  PROVE  CopyInv'
<1>1. /\ ~HoldsCopy(call'[c].op, call'[c].pc)
      /\ ~MovesOn(call'[c].op, call'[c].pc)
  <2>1. CASE Finish(c)
    <3>1. call'[c] = Idle
      BY <2>1 DEF Finish, TypeInv, CallType
    <3> QED BY <3>1 DEF Idle, HoldsCopy, MovesOn
  <2>2. ASSUME NEW pc \in {"after", "shown", "finished", "reread", "kick", "gone"},
               NEW d, Goto(c, pc, d)
        PROVE  ~HoldsCopy(call'[c].op, call'[c].pc) /\ ~MovesOn(call'[c].op, call'[c].pc)
    <3>1. call'[c].pc = pc
      BY <2>2, RunMoves DEF Goto
    <3> QED BY <3>1 DEF HoldsCopy, MovesOn
  <2> QED BY <2>1, <2>2
<1>2. \A d \in Calls \ {c} : call'[d] = call[d]
  BY DEF Finish, Goto, Run, TypeInv, CallType
<1>3. \A d \in Calls \ {c} : HoldsCopy(call[d].op, call[d].pc) => d \in stale'
  BY DEF SetSession, Writers, HoldsCopy
<1>4. ASSUME NEW d \in Calls \ stale', HoldsCopy(call'[d].op, call'[d].pc)
      PROVE  FALSE
  BY <1>1, <1>2, <1>3, <1>4
<1>5. ASSUME NEW d \in Calls, MovesOn(call'[d].op, call'[d].pc)
      PROVE  ~call'[d].doc.paused
  BY <1>1, <1>2, <1>5 DEF CopyInv
<1> QED BY <1>4, <1>5 DEF CopyInv, HoldsCopy, MovesOn

\* The steps that SET the document back.
Write(c) ==
    \/ ShowQuestion(c) \/ FinishQuiz(c) \/ AdvanceSet(c)
    \/ StartWrites(c) \/ StartConfigures(c)
    \/ NextWrites(c) \/ PauseWrites(c) \/ ResumeWrites(c) \/ EndWrites(c)
    \/ \E mode \in {"auto", "tutor"} : ModeWrites(c, mode)
    \/ DisconnectWrites(c) \/ DisconnectPauses(c) \/ HttpStartWrites(c)
    \/ JoinWrites(c) \/ LeaveWrites(c) \/ AnswerWrites(c)

LEMMA CopyWrite ==
  ASSUME TypeInv, CopyInv, NEW c \in Calls, Write(c)
  PROVE  CopyInv'
<1>1. \E doc : SetSession(c, doc)
  BY DEF Write, ShowQuestion, FinishQuiz, AdvanceSet, StartWrites, StartConfigures,
         NextWrites, PauseWrites, ResumeWrites, EndWrites, ModeWrites,
         DisconnectWrites, DisconnectPauses, HttpStartWrites, JoinWrites,
         LeaveWrites, AnswerWrites
<1>2. \/ Finish(c)
      \/ \E pc \in {"after", "shown", "finished", "reread", "kick", "gone"} : \E d :
             Goto(c, pc, d)
  BY DEF Write, ShowQuestion, FinishQuiz, AdvanceSet, StartWrites, StartConfigures,
         NextWrites, PauseWrites, ResumeWrites, EndWrites, ModeWrites,
         DisconnectWrites, DisconnectPauses, HttpStartWrites, JoinWrites,
         LeaveWrites, AnswerWrites
<1> QED BY <1>1, <1>2, CopySet

LEMMA CopyAccepts ==
  ASSUME TypeInv, CopyInv, NEW c \in Calls, NEW op, NEW guard,
         Accepts(c, op, guard), op \in {"next", "advance"} => ~session.paused
  PROVE  CopyInv'
  BY CopyGet DEF Accepts, MovesOn

LEMMA CopyBroadcast ==
  ASSUME TypeInv, CopyInv, NEW c \in Calls,
         Broadcast(c) \/ TimerStep(c) \/ QuestionStart(c) \/ NextBroadcasts(c)
  PROVE  CopyInv'
<1> USE DEF MovesOn
<1>1. ASSUME EnterBroadcast(c), session' = session PROVE CopyInv'
  BY <1>1, CopyReturn, CopyGet DEF EnterBroadcast
<1>2. CASE ShowQuestion(c) \/ FinishQuiz(c) \/ AdvanceSet(c)
  BY <1>2, CopyWrite DEF Write
<1>3. CASE QuestionShown(c)
  BY <1>3, CopyReturn DEF QuestionShown
<1>4. CASE QuizFinished(c) \/ BroadcastFails(c) \/ Advanced(c)
  BY <1>4, CopyReturn DEF QuizFinished, BroadcastFails, Advanced
<1>5. CASE AdvanceTimer(c)
  <2>1. CASE session = NoSession \/ session.paused
    BY <1>5, <2>1 DEF AdvanceTimer, CopyInv
  <2>2. CASE ~(session = NoSession \/ session.paused)
    BY <1>5, <2>2, CopyGet DEF AdvanceTimer
  <2> QED BY <2>1, <2>2
<1>6. CASE BroadcastTimer(c)
  BY <1>6, CopyGet DEF BroadcastTimer, CopyInv
<1>7. CASE UnlessLiveKick(c)
  BY <1>7, CopyGet DEF UnlessLiveKick, CopyInv
<1>8. CASE BroadcastTimerChecked(c) \/ PlainKick(c) \/ QuestionStart(c)
           \/ NextBroadcasts(c)
  BY <1>1, <1>8
     DEF BroadcastTimerChecked, PlainKick, QuestionStart, NextBroadcasts
<1> QED BY <1>2, <1>3, <1>4, <1>5, <1>6, <1>7, <1>8 DEF Broadcast, TimerStep

LEMMA CopyHost ==
  ASSUME TypeInv, CopyInv, NEW c \in Calls, HostStep(c)
  PROVE  CopyInv'
<1> USE DEF MovesOn, HoldsCopy
<1>1. CASE Write(c)
  BY <1>1, CopyWrite
<1>2. CASE StartChecks(c)
  BY <1>2, CopyRun DEF StartChecks
<1>3. CASE StartCommits(c)
  BY <1>3, CopyGoto DEF StartCommits, At
<1>4. CASE StartReads(c) \/ StartRereads(c)
  BY <1>4, CopyGet DEF StartReads, StartRereads
<1>5. CASE StartReturns(c)
  BY <1>5, CopyReturn DEF StartReturns
<1>6. CASE NextReads(c)
  BY <1>6, CopyAccepts DEF NextReads, Accepts
<1>7. CASE PauseReads(c) \/ ResumeReads(c) \/ DisconnectReads(c)
           \/ \E mode \in {"auto", "tutor"} : ModeReads(c, mode)
  BY <1>7, CopyAccepts DEF PauseReads, ResumeReads, DisconnectReads, ModeReads
<1>8. CASE EndReads(c)
  BY <1>8, CopyGet DEF EndReads
<1>9. CASE EndCommits(c)
  BY <1>9, CopyReturn DEF EndCommits
<1>10. CASE AbortCommits(c) \/ HttpStartFinds(c) \/ HttpEndFinds(c)
  BY <1>10, CopyRun DEF AbortCommits, HttpStartFinds, HttpEndFinds
<1>11. CASE AbortDeletes(c)
  <2>1. \A d \in Calls : \/ call'[d] = call[d]
                         \/ call'[d] = Idle
    BY <1>11 DEF AbortDeletes, Finish, TypeInv, CallType
  <2> QED BY <1>11, <2>1 DEF AbortDeletes, DeleteSession, CopyInv, Idle
<1>12. CASE DisconnectRereads(c)
  BY <1>12, CopyGet, CopyReturn DEF DisconnectRereads
<1>13. CASE HttpStartSaves(c)
  BY <1>13, CopyGoto DEF HttpStartSaves, At
<1>14. CASE HttpStartReads(c)
  BY <1>14, CopyGet, CopyReturn DEF HttpStartReads
<1>15. CASE HttpStartGivesUp(c)
  BY <1>15, CopyReturn DEF HttpStartGivesUp
<1>16. CASE HttpStartShown(c) \/ HttpEndSaves(c)
  BY <1>16, CopyReturn DEF HttpStartShown, HttpEndSaves
<1>17. CASE QuestionStart(c) \/ NextBroadcasts(c)
  BY <1>17, CopyBroadcast
<1>18. CASE StartFails(c)
  BY <1>18, CopyReturn DEF StartFails
<1>19. CASE AbortFails(c)
  BY <1>19 DEF AbortFails, CopyInv
<1> QED BY <1>1, <1>2, <1>3, <1>4, <1>5, <1>6, <1>7, <1>8, <1>9, <1>10, <1>11,
           <1>12, <1>13, <1>14, <1>15, <1>16, <1>17, <1>18, <1>19
        DEF HostStep, StartQuizSession, AdvanceQuizQuestion, PauseQuizSession,
            ResumeQuizSession, EndQuizSession, AbortQuizSession, ModeToggle,
            HostDisconnects, HttpStart, HttpEnd, Write

LEMMA CopyParticipant ==
  ASSUME "joinTwice" \notin Ops,
         TypeInv, CopyInv, NEW c \in Calls, ParticipantStep(c)
  PROVE  CopyInv'
<1> USE DEF MovesOn, HoldsCopy
<1>1. CASE Write(c)
  BY <1>1, CopyWrite
<1>2. CASE JoinFinds(c)
  BY <1>2, CopyRun DEF JoinFinds
<1>3. CASE JoinReads(c)
  BY <1>3, CopyGoto, CopyReturn DEF JoinReads, At
<1>4. CASE JoinLocks(c)
  <2>1. CASE GetSession(c, "join", "set")
    BY <1>4, <2>1, CopyGet DEF JoinLocks
  <2>2. CASE session = NoSession /\ Goto(c, "set", call[c].doc) /\ UNCHANGED stale
    BY <1>4, <2>2, CopyRun DEF JoinLocks, At, Goto
  <2>3. CASE Return(c)
    BY <1>4, <2>3, CopyReturn DEF JoinLocks
  <2> QED BY <1>4, <2>1, <2>2, <2>3 DEF JoinLocks
<1>5. CASE LeaveReads(c) \/ AnswerReads(c)
  BY <1>5, CopyAccepts DEF LeaveReads, AnswerReads
<1>6. CASE AnswerAdvances(c)
  BY <1>6, CopyReturn DEF AnswerAdvances
<1> QED BY <1>1, <1>2, <1>3, <1>4, <1>5, <1>6
        DEF ParticipantStep, JoinRoom, LeaveRoom, SubmitAnswer, Write

LEMMA CopyInvariance ==
  ASSUME "joinTwice" \notin Ops
  PROVE  Spec => []CopyInv
<1> USE DEF HoldsCopy, MovesOn
<1>1. Init => CopyInv
  BY DEF Init, CopyInv, Idle
<1>2. TypeInv /\ CopyInv /\ [Next]_vars => CopyInv'
  <2> SUFFICES ASSUME TypeInv, CopyInv, [Next]_vars PROVE CopyInv'
    OBVIOUS
  <2>1. CASE UNCHANGED vars
    BY <2>1 DEF vars, pending, CopyInv
  <2>2. ASSUME NEW c \in Calls, CallStep(c) PROVE CopyInv'
    BY <2>2, CopyBroadcast, CopyHost, CopyParticipant DEF CallStep
  <2>3. CASE Reap \/ Expire
    BY <2>3 DEF Reap, Expire, DeleteSession, CopyInv
  <2>4. CASE Crash
    BY <2>4 DEF Crash, CopyInv, Idle
  <2> QED BY <2>1, <2>2, <2>3, <2>4 DEF Next
<1> QED BY <1>1, <1>2, TypeInvariance, PTL DEF Spec

\* Nothing but a Write stores a document.
LEMMA OnlyWritesStore ==
  ASSUME [Next]_vars
  PROVE  session' = session \/ session' = NoSession \/ \E c \in Calls : Write(c)
<1>1. CASE UNCHANGED vars
  BY <1>1 DEF vars
<1>2. ASSUME NEW c \in Calls, Broadcast(c) \/ TimerStep(c)
      PROVE  session' = session \/ Write(c)
  BY <1>2 DEF Broadcast, QuestionShown, QuizFinished, BroadcastFails, TimerStep,
              AdvanceTimer, Advanced, BroadcastTimer, BroadcastTimerChecked,
              PlainKick, UnlessLiveKick, Write
<1>3. ASSUME NEW c \in Calls, HostStep(c)
      PROVE  session' = session \/ session' = NoSession \/ Write(c)
  <2>1. CASE StartQuizSession(c) \/ QuestionStart(c) \/ AdvanceQuizQuestion(c)
             \/ PauseQuizSession(c) \/ ResumeQuizSession(c)
    BY <2>1 DEF StartQuizSession, StartChecks, StartCommits, StartFails, StartReads,
                StartRereads, StartReturns, QuestionStart, AdvanceQuizQuestion, NextReads,
                NextBroadcasts, PauseQuizSession, PauseReads, ResumeQuizSession,
                ResumeReads, Accepts, Write
  <2>2. CASE EndQuizSession(c) \/ AbortQuizSession(c) \/ ModeToggle(c)
             \/ HostDisconnects(c)
    BY <2>2 DEF EndQuizSession, EndReads, EndCommits, AbortQuizSession,
                AbortCommits, AbortFails, AbortDeletes, DeleteSession, ModeToggle,
                ModeReads, HostDisconnects, DisconnectReads, DisconnectRereads,
                Accepts, Write
  <2>3. CASE HttpStart(c) \/ HttpEnd(c)
    BY <2>3 DEF HttpStart, HttpStartFinds, HttpStartSaves, HttpStartReads,
                HttpStartGivesUp, HttpStartShown, HttpEnd, HttpEndFinds,
                HttpEndSaves, Write
  <2> QED BY <1>3, <2>1, <2>2, <2>3 DEF HostStep
<1>4. ASSUME NEW c \in Calls, ParticipantStep(c)
      PROVE  session' = session \/ Write(c)
  BY <1>4 DEF ParticipantStep, JoinRoom, JoinFinds, JoinReads, JoinLocks, LeaveRoom,
              LeaveReads, SubmitAnswer, AnswerReads, AnswerAdvances, Accepts, Write
<1>5. CASE Reap \/ Expire \/ Crash
  BY <1>5 DEF Reap, Expire, Crash, DeleteSession
<1> QED BY <1>1, <1>2, <1>3, <1>4, <1>5 DEF Next, CallStep

\* A Write is not the last thing its call does, or it ends it.
LEMMA WriteMovesOn ==
  ASSUME TypeInv, NEW c \in Calls, Write(c)
  PROVE  call'[c] # call[c]
<1>1. call \in [Calls -> CallRecords]
  BY DEF TypeInv, CallType
<1>2. ASSUME NEW pc, NEW doc, Goto(c, pc, doc) PROVE call'[c].pc = pc
  BY <1>1, <1>2 DEF Goto, Run, CallRecords
<1>3. ASSUME Finish(c) PROVE call'[c].pc = "idle"
  BY <1>1, <1>3 DEF Finish, Idle
<1>4. CASE ShowQuestion(c)
  BY <1>2, <1>4 DEF ShowQuestion, At
<1>5. CASE FinishQuiz(c) \/ AdvanceSet(c) \/ StartWrites(c) \/ StartConfigures(c)
           \/ NextWrites(c)
  BY <1>2, <1>5 DEF FinishQuiz, AdvanceSet, StartWrites, StartConfigures,
                    NextWrites, At
<1>6. CASE EndWrites(c) \/ DisconnectWrites(c) \/ HttpStartWrites(c)
  BY <1>2, <1>6 DEF EndWrites, DisconnectWrites, HttpStartWrites, At
<1>7. CASE PauseWrites(c) \/ ResumeWrites(c) \/ DisconnectPauses(c)
           \/ JoinWrites(c) \/ LeaveWrites(c)
  BY <1>3, <1>7 DEF PauseWrites, ResumeWrites, DisconnectPauses, JoinWrites,
                    LeaveWrites, At
<1>8. ASSUME NEW mode \in {"auto", "tutor"}, ModeWrites(c, mode)
      PROVE  call'[c] # call[c]
  BY <1>3, <1>8 DEF ModeWrites, At
<1>9. CASE AnswerWrites(c)
  BY <1>2, <1>3, <1>9 DEF AnswerWrites, At
<1> QED BY <1>4, <1>5, <1>6, <1>7, <1>8, <1>9 DEF Write

\* What a Write does to the index: nothing, unless it starts the quiz or moves
\* it on from a copy that is not paused.
LEMMA WriteKeepsIndex ==
  ASSUME TypeInv, CopyInv, NEW c \in Calls, Write(c), session # NoSession,
         \A d \in stale : call'[d] = call[d], session.paused, session'.paused
  PROVE  session'.idx = session.idx
<1>1. CASE StartWrites(c)
  BY <1>1 DEF StartWrites, SetSession, StartDoc
<1>2. CASE ~StartWrites(c)
  <2>1. HoldsCopy(call[c].op, call[c].pc)
    BY <1>2 DEF Write, ShowQuestion, FinishQuiz, AdvanceSet, StartConfigures,
                NextWrites, PauseWrites, ResumeWrites, EndWrites, ModeWrites,
                DisconnectWrites, DisconnectPauses, HttpStartWrites, JoinWrites,
                LeaveWrites, AnswerWrites, At, HoldsCopy
  <2>2. c \notin stale
    BY WriteMovesOn
  <2>3. call[c].doc = session /\ call[c].doc \in Doc
    BY <2>1, <2>2 DEF CopyInv, TypeInv, StoreType
  <2>4. CASE AdvanceSet(c) \/ NextWrites(c)
    BY <2>3, <2>4 DEF AdvanceSet, NextWrites, At, CopyInv, MovesOn
  <2>5. CASE ShowQuestion(c) \/ FinishQuiz(c) \/ EndWrites(c) \/ HttpStartWrites(c)
    BY <2>3, <2>5 DEF ShowQuestion, FinishQuiz, EndWrites, HttpStartWrites,
                      SetSession, WithQuestion, Completed, Doc
  <2>6. CASE PauseWrites(c) \/ ResumeWrites(c) \/ DisconnectPauses(c)
             \/ \E mode \in {"auto", "tutor"} : ModeWrites(c, mode)
    BY <2>3, <2>6 DEF PauseWrites, ResumeWrites, DisconnectPauses, ModeWrites,
                      SetSession, Doc
  <2>7. CASE StartConfigures(c) \/ DisconnectWrites(c) \/ JoinWrites(c)
             \/ LeaveWrites(c) \/ AnswerWrites(c)
    BY <2>3, <2>7 DEF StartConfigures, DisconnectWrites, JoinWrites, LeaveWrites,
                      AnswerWrites, SetSession
  <2> QED BY <1>2, <2>4, <2>5, <2>6, <2>7 DEF Write
<1> QED BY <1>1, <1>2

\* While a session stays paused, no timer, however it came to be armed, and no
\* next moves the question index, unless its call had read the document before
\* another one stored the pause.  Two joins of one user at once are assumed away:
\* the one that loses the join lock SETs a copy it has altered and not read again.
THEOREM PauseHolds ==
  ASSUME "joinTwice" \notin Ops
  PROVE  Spec => PausedStands
<1> DEFINE Stands ==
      (/\ session # NoSession /\ session' # NoSession
       /\ session.paused /\ session'.paused
       /\ \A c \in stale : call'[c] = call[c]) => session'.idx = session.idx
<1>1. TypeInv /\ CopyInv /\ [Next]_vars => [Stands]_vars
  BY OnlyWritesStore, WriteKeepsIndex
<1>2. Spec => []CopyInv
  BY CopyInvariance
<1> QED BY <1>1, <1>2, TypeInvariance, PTL DEF Spec, PausedStands
=============================================================================
