--------------------------- MODULE LiveQuiz_proofs ---------------------------
(***************************************************************************)
(* Theorems about a session whose documents all come from its start: no    *)
(* join rebuilds a document out of what Mongo says.  Every document is     *)
(* then made from the one startQuizSession stores by the updates of the    *)
(* handlers, and a copy that is not stale is the document.                 *)
(***************************************************************************)
EXTENDS LiveSession_proofs

NoJoins == Ops \cap {"join", "joinTwice"} = {}

\* A call belongs to an operation that is exercised, or to a timer.
OpsInv == \A c \in Calls : call[c].op \in Ops \cup {"none", "broadcast", "advance"}

\* The shapes of the steps that do not SET a document: a read of the document,
\* a step that only moves the call on, a return, and a callback that ends at once.
Reads(c) ==
    \E op \in {call[c].op, "broadcast", "advance"} \cup Ops, pc \in Pcs :
        /\ GetSession(c, op, pc)
        /\ op = "advance" => "advance" \in timers
        /\ op = "broadcast" /\ pc = "show" => session.status # "completed"
        /\ HoldsCopy(op, pc) => session # NoSession
        /\ session' = session

Moves(c) ==
    \E op \in {call[c].op} \cup Ops, pc \in Pcs :
        /\ Run(c, op, pc, NoSession)
        /\ ~HoldsCopy(op, pc)
        /\ session' = session /\ stale' = stale

Leaves(c) ==
    \/ /\ Return(c) \/ \E delays : ReturnArming(c, delays)
       /\ session' = session
    \/ Finish(c) /\ DeleteSession

Stays == call' = call /\ session' = session /\ stale' = stale

LEMMA TimerShapes ==
  ASSUME NEW c \in Calls,
         Broadcast(c) \/ TimerStep(c) \/ QuestionStart(c) \/ NextBroadcasts(c)
  PROVE  Write(c) \/ Reads(c) \/ Leaves(c) \/ Stays
<1> USE LiveSessionAssumption DEF Reads, Leaves, Stays, Pcs, HoldsCopy
<1>1. ASSUME EnterBroadcast(c), session' = session
      PROVE  Reads(c) \/ Leaves(c)
  BY <1>1 DEF EnterBroadcast
<1>2. CASE ShowQuestion(c) \/ FinishQuiz(c) \/ AdvanceSet(c)
  BY <1>2 DEF Write
<1>3. CASE QuestionShown(c) \/ QuizFinished(c) \/ BroadcastFails(c) \/ Advanced(c)
  BY <1>3 DEF QuestionShown, QuizFinished, BroadcastFails, Advanced
<1>4. CASE AdvanceTimer(c)
  BY <1>4 DEF AdvanceTimer, TimerDue
<1>5. CASE BroadcastTimer(c)
  BY <1>5 DEF BroadcastTimer
<1>6. CASE UnlessLiveKick(c)
  BY <1>6 DEF UnlessLiveKick
<1>7. CASE BroadcastTimerChecked(c) \/ PlainKick(c) \/ QuestionStart(c)
           \/ NextBroadcasts(c)
  BY <1>1, <1>7
     DEF BroadcastTimerChecked, PlainKick, QuestionStart, NextBroadcasts
<1> QED BY <1>2, <1>3, <1>4, <1>5, <1>6, <1>7 DEF Broadcast, TimerStep

LEMMA HostShapes ==
  ASSUME NEW c \in Calls, HostStep(c)
  PROVE  Write(c) \/ Reads(c) \/ Moves(c) \/ Leaves(c) \/ Stays
<1> USE DEF Reads, Moves, Leaves, Stays, Pcs, HoldsCopy
<1>0. "advance" \notin Ops
  BY LiveSessionAssumption DEF OpNames
<1>1. ASSUME NEW op, NEW guard, Accepts(c, op, guard)
      PROVE  Reads(c)
  BY <1>0, <1>1 DEF Accepts, Begins
<1>2. CASE StartChecks(c)
  BY <1>2 DEF StartChecks, Begins
<1>3. CASE StartCommits(c)
  BY <1>3 DEF StartCommits, At, Goto
<1>4. CASE StartFails(c) \/ StartReturns(c)
  BY <1>4 DEF StartFails, StartReturns
<1>5. CASE StartReads(c)
  BY <1>5 DEF StartReads, At
<1>6. CASE StartRereads(c)
  BY <1>6 DEF StartRereads, At
<1>7. CASE NextReads(c) \/ PauseReads(c) \/ ResumeReads(c) \/ DisconnectReads(c)
           \/ \E mode \in {"auto", "tutor"} : ModeReads(c, mode)
  BY <1>1, <1>7 DEF NextReads, PauseReads, ResumeReads, DisconnectReads, ModeReads
<1>8. CASE QuestionStart(c) \/ NextBroadcasts(c)
  BY <1>8, TimerShapes
<1>9. CASE EndReads(c)
  BY <1>9 DEF EndReads, Begins
<1>10. CASE EndCommits(c) \/ HttpStartGivesUp(c) \/ HttpStartShown(c) \/ HttpEndSaves(c)
  BY <1>10 DEF EndCommits, HttpStartGivesUp, HttpStartShown, HttpEndSaves
<1>11. CASE AbortCommits(c)
  BY <1>11 DEF AbortCommits, Begins
<1>12. CASE AbortFails(c)
  BY <1>12 DEF AbortFails
<1>13. CASE AbortDeletes(c)
  BY <1>13 DEF AbortDeletes
<1>14. CASE DisconnectRereads(c)
  BY <1>14 DEF DisconnectRereads, At
<1>15. CASE HttpStartFinds(c) \/ HttpEndFinds(c)
  BY <1>15 DEF HttpStartFinds, HttpEndFinds, Begins
<1>16. CASE HttpStartSaves(c)
  BY <1>16 DEF HttpStartSaves, At, Goto
<1>17. CASE HttpStartReads(c)
  BY <1>17 DEF HttpStartReads, At
<1>18. CASE Write(c)
  BY <1>18
<1> QED BY <1>2, <1>3, <1>4, <1>5, <1>6, <1>7, <1>8, <1>9, <1>10, <1>11, <1>12,
           <1>13, <1>14, <1>15, <1>16, <1>17, <1>18
        DEF HostStep, StartQuizSession, AdvanceQuizQuestion, PauseQuizSession,
            ResumeQuizSession, EndQuizSession, AbortQuizSession, ModeToggle,
            HostDisconnects, HttpStart, HttpEnd, Write

LEMMA Shapes ==
  ASSUME NoJoins, OpsInv, NEW c \in Calls, CallStep(c)
  PROVE  Write(c) \/ Reads(c) \/ Moves(c) \/ Leaves(c) \/ Stays
<1>1. CASE Broadcast(c) \/ TimerStep(c)
  BY <1>1, TimerShapes
<1>2. CASE HostStep(c)
  BY <1>2, HostShapes
<1>3. CASE LeaveReads(c) \/ AnswerReads(c)
  BY <1>3 DEF LeaveReads, AnswerReads, Accepts, Begins, Reads, Pcs
<1>4. CASE AnswerAdvances(c)
  BY <1>4 DEF AnswerAdvances, Leaves
<1>5. CASE LeaveWrites(c) \/ AnswerWrites(c)
  BY <1>5 DEF Write
<1>6. ~JoinRoom(c)
  BY DEF NoJoins, OpsInv, JoinRoom, JoinFinds, JoinReads, JoinLocks, JoinWrites,
         Begins, At
<1> QED BY <1>1, <1>2, <1>3, <1>4, <1>5, <1>6
        DEF CallStep, ParticipantStep, LeaveRoom, SubmitAnswer

-----------------------------------------------------------------------------
\* What a handler makes of the copy it holds, before it SETs it.
Made(doc, new) ==
    \/ new \in {doc, WithQuestion(doc), Completed(doc),
                [doc EXCEPT !.paused = TRUE], [doc EXCEPT !.paused = FALSE]}
    \/ \E mode \in Ops \cap {"auto", "tutor"} : new = [doc EXCEPT !.mode = mode]

Moved(doc, new) == new = [doc EXCEPT !.idx = Following(@)]

\* A SET stores what startQuizSession makes or what a handler made of its copy,
\* and its call returns or goes on with that or with nothing.
Sets(c, new) ==
    /\ SetSession(c, new)
    /\ \/ StartWrites(c) /\ new = StartDoc
       \/ /\ HoldsCopy(call[c].op, call[c].pc)
          /\ \/ Made(call[c].doc, new)
             \/ (AdvanceSet(c) \/ NextWrites(c)) /\ Moved(call[c].doc, new)
    /\ \/ Finish(c)
       \/ \E pc \in Pcs, doc \in {NoSession, new} :
              Goto(c, pc, doc) /\ pc \notin {"set", "show", "config", "hold"}

LEMMA WriteShape ==
  ASSUME NoJoins, OpsInv, NEW c \in Calls, Write(c)
  PROVE  \E new : Sets(c, new)
<1> DEFINE doc == call[c].doc
<1> USE DEF Sets, Pcs, HoldsCopy
<1>1. CASE ShowQuestion(c)
  BY <1>1 DEF ShowQuestion, At, Made
<1>2. CASE FinishQuiz(c)
  BY <1>2 DEF FinishQuiz, At, Made
<1>3. CASE AdvanceSet(c) \/ NextWrites(c)
  <2> DEFINE new == [doc EXCEPT !.idx = Following(@)]
  <2>1. Moved(doc, new)
    BY DEF Moved
  <2>2. SetSession(c, new) /\ Goto(c, "after", NoSession) /\ call[c].pc = "set"
    BY <1>3 DEF AdvanceSet, NextWrites, At
  <2> HIDE DEF new
  <2> QED BY <1>3, <2>1, <2>2
<1>4. CASE StartWrites(c)
  BY <1>4 DEF StartWrites
<1>5. CASE StartConfigures(c)
  BY <1>5 DEF StartConfigures, At, Made
<1>6. CASE PauseWrites(c) \/ ResumeWrites(c) \/ DisconnectPauses(c)
  <2> DEFINE on  == [doc EXCEPT !.paused = TRUE]
             off == [doc EXCEPT !.paused = FALSE]
  <2>1. Made(doc, on) /\ Made(doc, off)
    BY DEF Made
  <2>2. SetSession(c, on) \/ SetSession(c, off)
    BY <1>6 DEF PauseWrites, ResumeWrites, DisconnectPauses
  <2>3. Finish(c) /\ HoldsCopy(call[c].op, call[c].pc) /\ ~StartWrites(c)
    BY <1>6 DEF PauseWrites, ResumeWrites, DisconnectPauses, At, StartWrites
  <2> HIDE DEF on, off
  <2> QED BY <2>1, <2>2, <2>3 DEF HoldsCopy
<1>7. CASE EndWrites(c)
  BY <1>7 DEF EndWrites, At, Made
<1>8. ASSUME NEW mode \in {"auto", "tutor"}, ModeWrites(c, mode)
      PROVE  \E new : Sets(c, new)
  <2> DEFINE new == [doc EXCEPT !.mode = mode]
  <2>1. SetSession(c, new) /\ Finish(c) /\ call[c].pc = "set" /\ call[c].op = mode
    BY <1>8 DEF ModeWrites, At
  <2>2. mode \in Ops
    BY <2>1 DEF OpsInv
  <2>3. Made(doc, new)
    BY <2>2 DEF Made
  <2> HIDE DEF new
  <2> QED BY <2>1, <2>3
<1>9. CASE HttpStartWrites(c)
  BY <1>9 DEF HttpStartWrites, At, Made
<1>10. CASE DisconnectWrites(c) \/ LeaveWrites(c)
  BY <1>10 DEF DisconnectWrites, LeaveWrites, At, Made
<1>11. CASE AnswerWrites(c)
  BY <1>11 DEF AnswerWrites, At, Made
<1>12. ~JoinWrites(c)
  BY DEF NoJoins, OpsInv, JoinWrites, At
<1> QED BY <1>1, <1>2, <1>3, <1>4, <1>5, <1>6, <1>7, <1>8, <1>9, <1>10, <1>11, <1>12
        DEF Write

\* What the shapes leave of the calls: the others as they were, and the caller
\* with its own operation, one that begins, or none.
LEMMA OthersStay ==
  ASSUME TypeInv, NEW c \in Calls,
         \/ Finish(c) \/ \E delays : ReturnArming(c, delays)
         \/ \E op, pc, doc : Run(c, op, pc, doc)
         \/ call' = call
  PROVE  \A d \in Calls \ {c} : /\ call'[d].op = call[d].op
                                /\ call'[d].pc = call[d].pc
                                /\ call'[d].doc = call[d].doc
<1>1. CASE Finish(c)
  BY <1>1 DEF Finish, TypeInv, CallType
<1>2. CASE \E delays : ReturnArming(c, delays)
  BY <1>2 DEF ReturnArming, TypeInv, CallType, CallRecords
<1>3. CASE \E op, pc, doc : Run(c, op, pc, doc)
  BY <1>3, RunMoves
<1> QED BY <1>1, <1>2, <1>3

LEMMA ReturnsIdle ==
  ASSUME TypeInv, NEW c \in Calls,
         Finish(c) \/ \E delays : ReturnArming(c, delays)
  PROVE  call'[c] = Idle
  BY DEF Finish, ReturnArming, TypeInv, CallType, CallRecords

\* One step of a call, whatever it is: the documents and the copies after it.
Stepped(c) ==
    /\ \A d \in Calls \ {c} : /\ call'[d].op = call[d].op
                             /\ call'[d].pc = call[d].pc
                             /\ call'[d].doc = call[d].doc
    /\ call'[c].op \in {call[c].op, "none", "broadcast", "advance"} \cup Ops
    /\ call'[c].op = "advance" => call[c].op = "advance" \/ "advance" \in timers
    /\ \/ \E new : Sets(c, new) /\ call'[c].doc \in {NoSession, new}
       \/ /\ call'[c].doc \in {NoSession, session, call[c].doc}
          /\ session' = session \/ DeleteSession

LEMMA StepShape ==
  ASSUME TypeInv, NoJoins, OpsInv, NEW c \in Calls, CallStep(c)
  PROVE  Stepped(c)
<1> USE LiveSessionAssumption DEF Stepped, OpNames
<1>1. CASE Write(c)
  <2>1. PICK new : Sets(c, new)
    BY <1>1, WriteShape
  <2>2. CASE Finish(c)
    BY <2>1, <2>2, OthersStay, ReturnsIdle DEF Idle
  <2>3. ASSUME NEW pc \in Pcs, NEW doc \in {NoSession, new}, Goto(c, pc, doc)
        PROVE  Stepped(c)
    BY <2>1, <2>3, OthersStay, RunMoves DEF Goto
  <2> QED BY <2>1, <2>2, <2>3 DEF Sets
<1>2. CASE Reads(c)
  BY <1>2, OthersStay, RunMoves DEF Reads, GetSession
<1>3. CASE Moves(c)
  BY <1>3, OthersStay, RunMoves DEF Moves
<1>4. CASE Leaves(c)
  BY <1>4, OthersStay, ReturnsIdle DEF Leaves, Return, Idle, DeleteSession
<1>5. CASE Stays
  BY <1>5 DEF Stays
<1> QED BY <1>1, <1>2, <1>3, <1>4, <1>5, Shapes

-----------------------------------------------------------------------------
\* A step that is not the step of a call leaves the document as it is or
\* deletes it, and leaves the calls as they are or ends them all.
LEMMA OtherSteps ==
  ASSUME TypeInv, NoJoins, OpsInv, [Next]_vars
  PROVE  \/ \E c \in Calls : CallStep(c) /\ Stepped(c)
         \/ call' = call /\ session' = session /\ stale' = stale
         \/ call' = call /\ DeleteSession
         \/ call' = [c \in Calls |-> Idle] /\ session' = session
<1>1. ASSUME NEW c \in Calls, CallStep(c) PROVE Stepped(c)
  BY <1>1, StepShape
<1>2. CASE Reap \/ Expire
  BY <1>2 DEF Reap, Expire
<1>3. CASE Crash
  BY <1>3 DEF Crash
<1>4. CASE UNCHANGED vars
  BY <1>4 DEF vars
<1> QED BY <1>1, <1>2, <1>3, <1>4 DEF Next

LEMMA OpsInvariance == ASSUME NoJoins PROVE Spec => []OpsInv
<1>1. Init => OpsInv
  BY DEF Init, OpsInv, Idle
<1>2. TypeInv /\ OpsInv /\ [Next]_vars => OpsInv'
  <2> SUFFICES ASSUME TypeInv, OpsInv, [Next]_vars PROVE OpsInv'
    OBVIOUS
  <2>1. ASSUME NEW c \in Calls, Stepped(c) PROVE OpsInv'
    BY <2>1 DEF Stepped, OpsInv
  <2>2. CASE call' = call \/ call' = [c \in Calls |-> Idle]
    BY <2>2 DEF OpsInv, Idle
  <2> QED BY <2>1, <2>2, OtherSteps
<1> QED BY <1>1, <1>2, TypeInvariance, PTL DEF Spec

\* A set of documents that the handlers do not lead out of.
Closed(D) ==
    /\ D \subseteq Doc /\ StartDoc \in D
    /\ \A doc \in D : \A new : Made(doc, new) \/ Moved(doc, new) => new \in D

DocsIn(D) ==
    /\ session \in D \cup {NoSession}
    /\ \A c \in Calls : call[c].doc \in D \cup {NoSession}

LEMMA DocsInit == ASSUME NEW D, Init PROVE DocsIn(D)
  BY DEF Init, DocsIn, Idle

LEMMA DocsNext ==
  ASSUME NoJoins, NEW D, Closed(D), TypeInv, OpsInv, DocsIn(D), [Next]_vars
  PROVE  DocsIn(D)'
<1>1. ASSUME NEW c \in Calls, Stepped(c) PROVE DocsIn(D)'
  <2>1. ASSUME NEW new, Sets(c, new) PROVE new \in D /\ session' = new
    <3>1. HoldsCopy(call[c].op, call[c].pc) => call[c].doc \in D
      <4>1. HoldsCopy(call[c].op, call[c].pc) => call[c].doc \in Doc
        BY HeldDoc DEF HoldsCopy, UsesDoc
      <4> QED BY <4>1, NoSessionAssumption DEF DocsIn
    <3> QED BY <2>1, <3>1 DEF Sets, SetSession, Closed
  <2>2. call'[c].doc \in D \cup {NoSession} /\ session' \in D \cup {NoSession}
    BY <1>1, <2>1 DEF Stepped, DocsIn, DeleteSession
  <2> QED BY <1>1, <2>2 DEF Stepped, DocsIn
<1>2. CASE /\ call' = call \/ call' = [c \in Calls |-> Idle]
           /\ session' \in {session, NoSession}
  BY <1>2 DEF DocsIn, Idle
<1> QED BY <1>1, <1>2, OtherSteps DEF DeleteSession

\* A copy that is not stale is the document: what deletes the document makes
\* every copy of it stale, and no copy is taken where there is none.
FreshInv ==
    \A c \in Calls \ stale :
        HoldsCopy(call[c].op, call[c].pc)
            => session # NoSession /\ call[c].doc = session

\* Where there is no document after a step, a copy held then was held before.
LEMMA NoCopyOfNothing ==
  ASSUME TypeInv, NoJoins, OpsInv, NEW c \in Calls, CallStep(c),
         HoldsCopy(call'[c].op, call'[c].pc), session' = NoSession
  PROVE  call'[c] = call[c] /\ stale' = stale /\ session' = session
<1>1. CASE Write(c)
  <2>1. PICK new : Sets(c, new)
    BY <1>1, WriteShape
  <2>2. CASE Finish(c)
    BY <2>2, ReturnsIdle DEF Idle, HoldsCopy
  <2>3. ASSUME NEW pc \in Pcs, NEW doc, Goto(c, pc, doc),
               pc \notin {"set", "show", "config", "hold"}
        PROVE  FALSE
    BY <2>3, RunMoves DEF Goto, HoldsCopy
  <2> QED BY <2>1, <2>2, <2>3 DEF Sets
<1>2. CASE Reads(c)
  BY <1>2, RunMoves DEF Reads, GetSession
<1>3. CASE Moves(c)
  BY <1>3, RunMoves DEF Moves
<1>4. CASE Leaves(c)
  BY <1>4, ReturnsIdle DEF Leaves, Return, Idle, HoldsCopy
<1>5. CASE Stays
  BY <1>5 DEF Stays
<1> QED BY <1>1, <1>2, <1>3, <1>4, <1>5, Shapes

LEMMA StaleKept ==
  ASSUME NoJoins, OpsInv, NEW c \in Calls, CallStep(c)
  PROVE  (\E doc : SetSession(c, doc)) \/ DeleteSession \/ stale \ {c} \subseteq stale'
<1>1. CASE Write(c)
  BY <1>1, WriteShape DEF Sets
<1>2. CASE Reads(c) \/ Moves(c) \/ Leaves(c) \/ Stays
  BY <1>2 DEF Reads, Moves, Leaves, Stays, GetSession, Return, ReturnArming
<1> QED BY <1>1, <1>2, Shapes

LEMMA FreshInvariance == ASSUME NoJoins PROVE Spec => []FreshInv
<1> DEFINE Some == \A c \in Calls \ stale :
                       HoldsCopy(call[c].op, call[c].pc) => session # NoSession
<1>1. Init => Some
  BY DEF Init, Idle, HoldsCopy
<1>2. TypeInv /\ OpsInv /\ Some /\ [Next]_vars => Some'
  <2> SUFFICES ASSUME TypeInv, OpsInv, Some, [Next]_vars, session' = NoSession,
                      NEW d \in Calls \ stale', HoldsCopy(call'[d].op, call'[d].pc)
               PROVE  FALSE
    BY DEF HoldsCopy
  <2>1. ASSUME HoldsCopy(call[d].op, call[d].pc) PROVE d \in Writers
    BY <2>1 DEF Writers, HoldsCopy
  <2>2. ASSUME NEW c \in Calls, CallStep(c), Stepped(c) PROVE FALSE
    <3>1. CASE d = c
      BY <2>2, <3>1, NoCopyOfNothing
    <3>2. CASE d # c
      <4>1. HoldsCopy(call[d].op, call[d].pc)
        BY <2>2, <3>2 DEF Stepped
      <4>2. d \notin stale
        BY <2>1, <2>2, <3>2, <4>1, StaleKept DEF SetSession, DeleteSession
      <4>3. session' = NoSession /\ session # NoSession
        BY <4>1, <4>2
      <4>4. ~DeleteSession /\ ~\E doc : SetSession(c, doc)
        BY <2>1, <3>2, <4>1 DEF DeleteSession, SetSession
      <4> QED BY <2>2, <4>3, <4>4 DEF Stepped, Sets
    <3> QED BY <3>1, <3>2
  <2>3. CASE call' = [c \in Calls |-> Idle]
    BY <2>3 DEF Idle, HoldsCopy
  <2>4. CASE call' = call /\ session' = session /\ stale' = stale
    BY <2>4
  <2>5. CASE call' = call /\ DeleteSession
    BY <2>1, <2>5 DEF DeleteSession
  <2> QED BY <2>2, <2>3, <2>4, <2>5, OtherSteps
<1>3. Some /\ CopyInv => FreshInv
  BY DEF CopyInv, FreshInv
<1>4. Spec => []CopyInv
  BY CopyInvariance DEF NoJoins
<1> QED BY <1>1, <1>2, <1>3, <1>4, TypeInvariance, OpsInvariance, PTL DEF Spec

-----------------------------------------------------------------------------
\* A SET that loses no update replaces the document by what its handler makes
\* of it.
LEMMA FreshSets ==
  ASSUME TypeInv, FreshInv, NEW c \in Calls, NEW new, Sets(c, new), ~lost'
  PROVE  /\ session' = new
         /\ \/ StartWrites(c) /\ new = StartDoc
            \/ /\ session \in Doc
               /\ \/ Made(session, new)
                  \/ (AdvanceSet(c) \/ NextWrites(c)) /\ Moved(session, new)
<1>1. c \notin stale /\ session' = new
  BY DEF Sets, SetSession
<1> QED BY <1>1 DEF Sets, FreshInv, TypeInv, StoreType

LEMMA FreshSteps ==
  ASSUME TypeInv, NoJoins, OpsInv, FreshInv, [Next]_vars, ~lost', session' # session
  PROVE  \/ session' = NoSession
         \/ \E c \in Calls : StartWrites(c) /\ session' = StartDoc
         \/ session \in Doc /\ Made(session, session')
         \/ /\ session \in Doc /\ Moved(session, session')
            /\ \E c \in Calls : AdvanceSet(c) \/ NextWrites(c)
  BY FreshSets, OtherSteps DEF Stepped, DeleteSession

\* The documents of a quiz that has been started.
StartedDocs ==
    {doc \in Doc : doc.status \in {"live", "completed"} /\ doc.idx # Null}

LEMMA StartedInvariance == ASSUME NoJoins PROVE Spec => []DocsIn(StartedDocs)
<1>1. Closed(StartedDocs)
  <2>1. StartDoc \in StartedDocs
    BY LiveSessionAssumption
       DEF StartDoc, StartedDocs, Doc, Statuses, Indexes, Modes
  <2>2. ASSUME NEW doc \in StartedDocs, NEW new, Made(doc, new) PROVE new \in StartedDocs
    <3>1. WithQuestion(doc) \in StartedDocs
      BY DEF StartedDocs, WithQuestion, Doc
    <3>2. Completed(doc) \in StartedDocs
      BY DEF StartedDocs, Completed, Doc, Statuses
    <3>3. /\ [doc EXCEPT !.paused = TRUE] \in StartedDocs
          /\ [doc EXCEPT !.paused = FALSE] \in StartedDocs
      BY DEF StartedDocs, Doc
    <3>4. \A mode \in {"auto", "tutor"} : [doc EXCEPT !.mode = mode] \in StartedDocs
      BY DEF StartedDocs, Doc, Modes
    <3> QED BY <2>2, <3>1, <3>2, <3>3, <3>4 DEF Made
  <2>3. ASSUME NEW doc \in StartedDocs, NEW new, Moved(doc, new) PROVE new \in StartedDocs
    <3>1. Following(doc.idx) \in Indexes /\ Following(doc.idx) # Null
      BY FollowingType, LiveSessionAssumption DEF Following, StartedDocs, Doc, Indexes
    <3> QED BY <2>3, <3>1 DEF StartedDocs, Moved, Doc
  <2>4. StartedDocs \subseteq Doc
    BY DEF StartedDocs
  <2> QED BY <2>1, <2>2, <2>3, <2>4 DEF Closed
<1>2. Init => DocsIn(StartedDocs)
  BY DocsInit
<1>3. TypeInv /\ OpsInv /\ DocsIn(StartedDocs) /\ [Next]_vars => DocsIn(StartedDocs)'
  BY <1>1, DocsNext
<1> QED BY <1>2, <1>3, TypeInvariance, OpsInvariance, PTL DEF Spec

\* A broadcast is about to show a copy that was not completed when it was taken.
ShowInv ==
    \A c \in Calls : At(c, "broadcast", "show") => call[c].doc.status # "completed"

LEMMA ShowInvariance == ASSUME NoJoins PROVE Spec => []ShowInv
<1>1. Init => ShowInv
  BY DEF Init, ShowInv, At, Idle
<1>2. TypeInv /\ OpsInv /\ ShowInv /\ [Next]_vars => ShowInv'
  <2> SUFFICES ASSUME TypeInv, OpsInv, ShowInv, [Next]_vars,
                      NEW d \in Calls, At(d, "broadcast", "show")'
               PROVE  call'[d].doc.status # "completed"
    BY DEF ShowInv
  <2>1. ASSUME NEW c \in Calls, CallStep(c), Stepped(c), d # c
        PROVE  call'[d].doc.status # "completed"
    BY <2>1 DEF Stepped, ShowInv, At
  <2>2. ASSUME CallStep(d) PROVE call'[d].doc.status # "completed"
    <3>1. CASE Write(d)
      <4>1. PICK new : Sets(d, new)
        BY <3>1, WriteShape
      <4> QED BY <4>1, ReturnsIdle, RunMoves DEF Sets, Goto, Idle, At
    <3>2. CASE Reads(d)
      BY <3>2, RunMoves DEF Reads, GetSession, At
    <3>3. CASE Moves(d)
      BY <3>3, RunMoves DEF Moves, At, HoldsCopy
    <3>4. CASE Leaves(d)
      BY <3>4, ReturnsIdle DEF Leaves, Return, Idle, At
    <3>5. CASE Stays
      BY <3>5 DEF Stays, ShowInv, At
    <3> QED BY <2>2, <3>1, <3>2, <3>3, <3>4, <3>5, Shapes
  <2>3. CASE call' = call \/ call' = [c \in Calls |-> Idle]
    BY <2>3 DEF ShowInv, At, Idle
  <2> QED BY <2>1, <2>2, <2>3, OtherSteps
<1> QED BY <1>1, <1>2, TypeInvariance, OpsInvariance, PTL DEF Spec

\* Every status in Redis that the state machine has no transition to is the
\* doing of a start: whatever else overlaps, pauses, toggles, disconnects,
\* expires or restarts, a completed session is not revived while no update is
\* lost.  Joins are assumed away: they rebuild documents in the status Mongo
\* has, and an end asks for no status.
THEOREM StatusFollowsTable ==
  ASSUME NoJoins
  PROVE  Spec => LegalTransitions
<1> DEFINE Legal ==
             (session # NoSession /\ session' # NoSession /\ ~lost')
                 => \/ CanTransition(session.status, session'.status)
                    \/ \E c \in Calls : StartWrites(c)
<1>1. TypeInv /\ OpsInv /\ FreshInv /\ DocsIn(StartedDocs) /\ [Next]_vars => [Legal]_vars
  <2> SUFFICES ASSUME TypeInv, OpsInv, FreshInv, DocsIn(StartedDocs), [Next]_vars,
                      session # NoSession, session' # NoSession, ~lost',
                      ~\E c \in Calls : StartWrites(c)
               PROVE  CanTransition(session.status, session'.status)
    OBVIOUS
  <2>1. session \in Doc /\ session.status \in {"live", "completed"}
    BY DEF DocsIn, StartedDocs
  <2>2. CASE session' = session
    BY <2>2 DEF CanTransition
  <2>3. CASE Made(session, session') \/ Moved(session, session')
    <3>1. session'.status \in {session.status, "completed"}
      BY <2>1, <2>3 DEF Made, Moved, WithQuestion, Completed, Doc
    <3> QED BY <2>1, <3>1 DEF CanTransition
  <2> QED BY <2>2, <2>3, FreshSteps
<1> QED BY <1>1, TypeInvariance, OpsInvariance, FreshInvariance, StartedInvariance,
           PTL DEF Spec, LegalTransitions

-----------------------------------------------------------------------------
NoToggles == Ops \cap {"auto", "tutor"} = {}

\* The documents in the mode the quiz was created with.
ModeDocs == {doc \in Doc : doc.mode = QuizMode}

LEMMA ModeInvariance ==
  ASSUME NoJoins, NoToggles
  PROVE  Spec => []DocsIn(ModeDocs)
<1>1. Closed(ModeDocs)
  <2>1. StartDoc \in ModeDocs
    BY LiveSessionAssumption DEF StartDoc, ModeDocs, Doc, Statuses, Indexes, Modes
  <2>2. ASSUME NEW doc \in ModeDocs, NEW new, Made(doc, new) PROVE new \in ModeDocs
    <3>1. WithQuestion(doc) \in ModeDocs
      BY DEF ModeDocs, WithQuestion, Doc
    <3>2. Completed(doc) \in ModeDocs
      BY DEF ModeDocs, Completed, Doc, Statuses
    <3>3. /\ [doc EXCEPT !.paused = TRUE] \in ModeDocs
          /\ [doc EXCEPT !.paused = FALSE] \in ModeDocs
      BY DEF ModeDocs, Doc
    <3> QED BY <2>2, <3>1, <3>2, <3>3 DEF Made, NoToggles
  <2>3. ASSUME NEW doc \in ModeDocs, NEW new, Moved(doc, new) PROVE new \in ModeDocs
    BY <2>3, FollowingType DEF ModeDocs, Moved, Doc
  <2>4. ModeDocs \subseteq Doc
    BY DEF ModeDocs
  <2> QED BY <2>1, <2>2, <2>3, <2>4 DEF Closed
<1>2. Init => DocsIn(ModeDocs)
  BY DocsInit
<1>3. TypeInv /\ OpsInv /\ DocsIn(ModeDocs) /\ [Next]_vars => DocsIn(ModeDocs)'
  BY <1>1, DocsNext
<1> QED BY <1>2, <1>3, TypeInvariance, OpsInvariance, PTL DEF Spec

-----------------------------------------------------------------------------
(***************************************************************************)
(* A quiz in auto mode never stalls.  What carries it on is an armed       *)
(* timer, the plain broadcast each start leaves, or a call at a step after *)
(* which one of these, or such a call, is there.  A broadcast clears the   *)
(* timers in the very step after which it is bound to arm its own.         *)
(***************************************************************************)
Going ==
    /\ session # NoSession /\ session.status = "live"
    /\ session.mode = "auto" /\ ~session.paused

Carries(op, pc) ==
    \/ op = "broadcast" /\ pc \in {"check", "show", "shown"}
    \/ op = "advance" /\ pc \in {"set", "after"}
    \/ op = "start" /\ pc \in {"reread", "config", "kick"}
    \/ op = "next" /\ pc \in {"set", "after"}

CarriedOn ==
    \/ timers # {} \/ kicks["plain"] > 0
    \/ \E c \in Calls : Carries(call[c].op, call[c].pc)

MovingInv == ~lost /\ Going => CarriedOn

LEMMA CallCarries ==
  ASSUME NEW c \in Calls, Carries(call'[c].op, call'[c].pc)
  PROVE  CarriedOn'
  BY DEF CarriedOn, Carries

LEMMA RunCarries ==
  ASSUME TypeInv, NEW c \in Calls, NEW op, NEW pc, NEW doc, Run(c, op, pc, doc),
         Carries(op, pc)
  PROVE  CarriedOn'
  BY RunMoves, CallCarries

LEMMA GetCarries ==
  ASSUME TypeInv, NEW c \in Calls, NEW op, NEW pc, GetSession(c, op, pc),
         Carries(op, pc)
  PROVE  CarriedOn'
  BY RunCarries DEF GetSession

\* A broadcast of a session that is going takes a copy and shows it.
LEMMA EnterCarries ==
  ASSUME TypeInv, NEW c \in Calls, EnterBroadcast(c), session' = session, Going'
  PROVE  CarriedOn'
<1>1. GetSession(c, "broadcast", "show")
  BY DEF EnterBroadcast, Going
<1> QED BY <1>1, GetCarries DEF Carries

\* A call that carries nothing, and clears nothing, leaves what does.
LEMMA Undisturbed ==
  ASSUME MovingInv, ~lost, Going, NEW c \in Calls, Stepped(c),
         ~Carries(call[c].op, call[c].pc), timers \subseteq timers', kicks' = kicks
  PROVE  CarriedOn'
  BY DEF MovingInv, CarriedOn, Carries, Stepped

\* Nothing of what is known to stall a quiz is exercised.
NoKnownStall == NoJoins /\ NoToggles /\ Ops \cap {"resume", "crash"} = {}

MovingContext ==
    /\ TypeInv /\ OpsInv /\ FreshInv /\ ShowInv
    /\ DocsIn(ModeDocs) /\ DocsIn(StartedDocs) /\ MovingInv

LEMMA MovingBroadcast ==
  ASSUME NoKnownStall, MovingContext, ~lost', Going', NEW c \in Calls, Stepped(c),
         Broadcast(c) \/ QuestionStart(c) \/ NextBroadcasts(c)
  PROVE  CarriedOn'
<1> USE DEF MovingContext
<1>1. CASE ShowQuestion(c)
  <2>1. Goto(c, "shown", WithQuestion(call[c].doc)) /\ call[c].op = "broadcast"
    BY <1>1 DEF ShowQuestion, At
  <2> QED BY <2>1, RunCarries DEF Goto, Carries
<1>2. CASE QuestionShown(c)
  <2>1. call[c].doc \in Doc /\ call[c].doc.mode = QuizMode
    BY <1>2, HeldDoc, NoSessionAssumption
       DEF QuestionShown, At, UsesDoc, DocsIn, ModeDocs
  <2>2. QuizMode = "auto"
    BY <1>2 DEF QuestionShown, Going, DocsIn, ModeDocs
  <2> QED BY <1>2, <2>1, <2>2 DEF QuestionShown, CarriedOn
<1>3. CASE FinishQuiz(c)
  BY <1>3, HeldDoc
     DEF FinishQuiz, At, UsesDoc, SetSession, Completed, Doc, Going
<1>4. CASE QuizFinished(c)
  BY <1>4, Undisturbed DEF QuizFinished, At, Carries, Going
<1>5. CASE BroadcastFails(c)
  <2>1. call[c].doc \in StartedDocs /\ call[c].doc.status # "completed"
    BY <1>5, HeldDoc, NoSessionAssumption
       DEF BroadcastFails, At, UsesDoc, DocsIn, ShowInv
  <2> QED BY <1>5, <2>1 DEF BroadcastFails, StartedDocs
<1>6. CASE QuestionStart(c)
  BY <1>6, EnterCarries DEF QuestionStart
<1>7. CASE NextBroadcasts(c)
  BY <1>7, EnterCarries DEF NextBroadcasts
<1> QED BY <1>1, <1>2, <1>3, <1>4, <1>5, <1>6, <1>7 DEF Broadcast

LEMMA MovingTimer ==
  ASSUME NoKnownStall, MovingContext, ~lost', Going', NEW c \in Calls, Stepped(c),
         TimerStep(c)
  PROVE  CarriedOn'
<1> USE DEF MovingContext, Carries
<1>1. CASE AdvanceTimer(c)
  <2>1. GetSession(c, "advance", "set")
    BY <1>1 DEF AdvanceTimer, Going
  <2> QED BY <2>1, GetCarries
<1>2. CASE AdvanceSet(c)
  BY <1>2, RunCarries DEF AdvanceSet, At, Goto
<1>3. CASE Advanced(c)
  BY <1>3 DEF Advanced, CarriedOn
<1>4. CASE BroadcastTimer(c)
  <2>1. GetSession(c, "broadcast", "check")
    BY <1>4 DEF BroadcastTimer, Going
  <2> QED BY <2>1, GetCarries
<1>5. CASE BroadcastTimerChecked(c)
  BY <1>5, EnterCarries DEF BroadcastTimerChecked
<1>6. CASE PlainKick(c)
  BY <1>6, EnterCarries DEF PlainKick
<1>7. CASE UnlessLiveKick(c)
  <2>1. session' = session /\ ~lost /\ timers' = timers /\ kicks'["plain"] = kicks["plain"]
        /\ call[c].pc = "idle"
    BY <1>7 DEF UnlessLiveKick, Due, TypeInv, DelayType, Kicks
  <2> QED BY <2>1 DEF MovingInv, CarriedOn, Going, Stepped
<1> QED BY <1>1, <1>2, <1>3, <1>4, <1>5, <1>6, <1>7 DEF TimerStep

LEMMA MovingStart ==
  ASSUME NoKnownStall, MovingContext, ~lost', Going', NEW c \in Calls, Stepped(c),
         StartQuizSession(c)
  PROVE  CarriedOn'
<1> USE DEF MovingContext, Carries
<1>1. CASE StartChecks(c) \/ StartCommits(c) \/ StartFails(c)
  BY <1>1, Undisturbed
     DEF StartChecks, Begins, StartCommits, StartFails, At, Going, pending
<1>2. CASE StartReads(c)
  BY <1>2, Undisturbed DEF StartReads, At, Going, pending
<1>3. CASE StartWrites(c)
  BY <1>3, RunCarries DEF StartWrites, At, Goto
<1>4. CASE StartRereads(c)
  BY <1>4, GetCarries DEF StartRereads
<1>5. CASE StartConfigures(c)
  BY <1>5, RunCarries DEF StartConfigures, At, Goto
<1>6. CASE StartReturns(c)
  <2>1. PICK second \in Kicks :
            kicks' = [k \in Kicks |-> kicks[k] + (IF k = "plain" THEN 1 ELSE 0)
                                               + (IF k = second  THEN 1 ELSE 0)]
    BY <1>6 DEF StartReturns
  <2>2. "plain" \in Kicks /\ kicks["plain"] \in Nat
    BY DEF TypeInv, DelayType, Kicks
  <2>3. kicks'["plain"] > 0
    BY <2>1, <2>2
  <2> QED BY <2>3 DEF CarriedOn
<1> QED BY <1>1, <1>2, <1>3, <1>4, <1>5, <1>6 DEF StartQuizSession

LEMMA MovingHost ==
  ASSUME NoKnownStall, MovingContext, ~lost', Going', NEW c \in Calls, Stepped(c),
         \/ NextReads(c) \/ NextWrites(c) \/ PauseQuizSession(c) \/ ResumeQuizSession(c)
         \/ EndQuizSession(c) \/ AbortQuizSession(c) \/ ModeToggle(c)
  PROVE  CarriedOn'
<1> USE DEF MovingContext, Carries
<1>1. CASE NextReads(c)
  BY <1>1, GetCarries DEF NextReads, Accepts
<1>2. CASE NextWrites(c)
  BY <1>2, RunCarries DEF NextWrites, At, Goto
<1>3. CASE PauseReads(c)
  BY <1>3, Undisturbed DEF PauseReads, Accepts, Begins, Going, pending
<1>4. CASE PauseWrites(c)
  BY <1>4, HeldDoc DEF PauseWrites, At, UsesDoc, SetSession, Doc, Going
<1>5. ~ResumeQuizSession(c) /\ ~ModeToggle(c)
  BY DEF NoKnownStall, NoToggles, OpsInv, ResumeQuizSession, ResumeReads, ResumeWrites,
         ModeToggle, ModeReads, ModeWrites, Accepts, Begins, At
<1>6. CASE EndReads(c) \/ EndCommits(c)
  BY <1>6, Undisturbed DEF EndReads, EndCommits, Begins, At, Going, pending
<1>7. CASE EndWrites(c)
  BY <1>7, HeldDoc DEF EndWrites, At, UsesDoc, SetSession, Completed, Doc, Going
<1>8. CASE AbortCommits(c) \/ AbortFails(c)
  BY <1>8, Undisturbed DEF AbortCommits, AbortFails, Begins, Going, pending
<1>9. CASE AbortDeletes(c)
  BY <1>9 DEF AbortDeletes, DeleteSession, Going
<1> QED BY <1>1, <1>2, <1>3, <1>4, <1>5, <1>6, <1>7, <1>8, <1>9
        DEF PauseQuizSession, EndQuizSession, AbortQuizSession

LEMMA MovingRest ==
  ASSUME NoKnownStall, MovingContext, ~lost', Going', NEW c \in Calls, Stepped(c),
         HostDisconnects(c) \/ HttpStart(c) \/ HttpEnd(c) \/ ParticipantStep(c)
  PROVE  CarriedOn'
<1> USE DEF MovingContext, Carries
<1>1. ASSUME HoldsCopy(call[c].op, call[c].pc), c \notin stale
      PROVE  call[c].doc = session /\ session \in Doc
  BY <1>1 DEF FreshInv, TypeInv, StoreType
<1>2. CASE DisconnectReads(c) \/ DisconnectRereads(c)
  BY <1>2, Undisturbed
     DEF DisconnectReads, DisconnectRereads, Accepts, Begins, At, Going, pending
<1>3. CASE DisconnectWrites(c) \/ LeaveWrites(c) \/ AnswerWrites(c)
  <2>1. HoldsCopy(call[c].op, call[c].pc) /\ SetSession(c, call[c].doc)
        /\ call[c].op \in {"disconnect", "leave", "answer"}
        /\ timers' = timers /\ kicks' = kicks
    BY <1>3 DEF DisconnectWrites, LeaveWrites, AnswerWrites, At, HoldsCopy, pending
  <2>2. session' = session /\ ~lost
    BY <1>1, <2>1 DEF SetSession
  <2> QED BY <2>1, <2>2, Undisturbed DEF Going
<1>4. CASE DisconnectPauses(c)
  BY <1>4, HeldDoc DEF DisconnectPauses, At, UsesDoc, SetSession, Doc, Going
<1>5. CASE HttpStartFinds(c) \/ HttpStartSaves(c) \/ HttpStartReads(c)
           \/ HttpStartGivesUp(c) \/ HttpEnd(c)
  BY <1>5, Undisturbed
     DEF HttpStartFinds, HttpStartSaves, HttpStartReads, HttpStartGivesUp, HttpEnd,
         HttpEndFinds, HttpEndSaves, Begins, At, Going, pending
<1>6. CASE HttpStartWrites(c)
  <2>1. HoldsCopy(call[c].op, call[c].pc) /\ SetSession(c, WithQuestion(call[c].doc))
        /\ call[c].op = "httpStart" /\ timers' = timers /\ kicks' = kicks
    BY <1>6 DEF HttpStartWrites, At, HoldsCopy, pending
  <2>2. session' = WithQuestion(session) /\ session \in Doc /\ ~lost
    BY <1>1, <2>1 DEF SetSession
  <2>3. Going
    BY <2>2, NoSessionAssumption DEF WithQuestion, Doc, Going
  <2> QED BY <2>1, <2>2, <2>3, Undisturbed
<1>7. CASE HttpStartShown(c)
  BY <1>7, Undisturbed DEF HttpStartShown, At, Going, pending
<1>8. CASE LeaveReads(c) \/ AnswerReads(c)
  BY <1>8, Undisturbed DEF LeaveReads, AnswerReads, Accepts, Begins, Going, pending
<1>9. CASE AnswerAdvances(c)
  BY <1>9, Undisturbed DEF AnswerAdvances, At, Going, pending
<1>10. ~JoinRoom(c)
  BY DEF NoKnownStall, NoJoins, OpsInv, JoinRoom, JoinFinds, JoinReads, JoinLocks,
         JoinWrites, Begins, At
<1> QED BY <1>2, <1>3, <1>4, <1>5, <1>6, <1>7, <1>8, <1>9, <1>10
        DEF HostDisconnects, HttpStart, ParticipantStep, LeaveRoom, SubmitAnswer

LEMMA MovingInvariance == ASSUME NoKnownStall PROVE Spec => []MovingInv
<1>1. Init => MovingInv
  BY DEF Init, MovingInv, Going
<1>2. MovingContext /\ [Next]_vars => MovingInv'
  <2> SUFFICES ASSUME MovingContext, [Next]_vars, ~lost', Going'
               PROVE  CarriedOn'
    BY DEF MovingInv
  <2>1. ASSUME NEW c \in Calls, CallStep(c) PROVE CarriedOn'
    <3>1. Stepped(c)
      BY <2>1, StepShape DEF NoKnownStall, MovingContext
    <3> QED BY <2>1, <3>1, MovingBroadcast, MovingTimer, MovingStart, MovingHost,
               MovingRest DEF CallStep, HostStep, AdvanceQuizQuestion
  <2>2. CASE Reap \/ Expire
    BY <2>2 DEF Reap, Expire, DeleteSession, Going
  <2>3. ~Crash
    BY DEF Crash, NoKnownStall
  <2>4. CASE UNCHANGED vars
    BY <2>4 DEF vars, pending, MovingContext, MovingInv, Going, CarriedOn
  <2> QED BY <2>1, <2>2, <2>3, <2>4 DEF Next
<1>3. ASSUME NoKnownStall PROVE NoJoins /\ NoToggles
  BY <1>3 DEF NoKnownStall
<1> QED BY <1>1, <1>2, <1>3, TypeInvariance, OpsInvariance, FreshInvariance,
           ShowInvariance, ModeInvariance, StartedInvariance, PTL
        DEF Spec, MovingContext

\* A live session in auto mode that is not paused always has what will carry it
\* on, whatever broadcasts, starts, nexts, pauses, ends, leaves, answers and
\* disconnects overlap and whatever delays run out in between, while no update
\* is lost.  The assumption leaves out what is known to stall it: a resume arms
\* no timer, a crash loses them, a question shown in tutor mode arms none, and a
\* join may rebuild a live document after the timers are gone.
THEOREM NeverStallsAlways == ASSUME NoKnownStall PROVE Spec => []NeverStalls
<1>1. MovingInv => NeverStalls
  BY DEF MovingInv, Going, CarriedOn, Carries, NeverStalls, WillSchedule, Kicks
<1> QED BY <1>1, MovingInvariance, PTL

=============================================================================
