---------------------------- MODULE LiveSession ----------------------------
(***************************************************************************)
(* The life of one live quiz session in one server process of Quvolt.      *)
(*                                                                         *)
(* Every handler of server/services and server/sockets works on a private  *)
(* copy of the session document: it GETs the whole document from Redis,    *)
(* awaits, changes its copy, SETs the whole document back, awaits again    *)
(* and only then publishes and arms timers.  Nothing orders two handlers   *)
(* between those awaits.  One step of this module is one stretch of code   *)
(* between two awaits, with the Redis or Mongo command it issues; the      *)
(* calls in progress are the slots Calls.                                  *)
(***************************************************************************)
EXTENDS Integers, FiniteSets

CONSTANTS
    NumQuestions,   \* questions of the quiz
    QuizMode,       \* the mode the quiz was created with: "auto" or "tutor"
    Calls,          \* slots for handler calls and timer callbacks in progress
    Ops,            \* the operations users, the network and Redis exercise
    MaxKicks,       \* bound: delayed first broadcasts pending or on the way
    Prompt,         \* calls finish before a delay of 300 ms or more, armed
                    \* meanwhile, is over
    NoSession,      \* no document under the room code
    Null            \* currentQuestionIndex of a session that has not started

Modes    == {"auto", "tutor", "unset"}
Statuses == {"waiting", "live", "completed", "aborted"}
Terminal == {"completed", "aborted"}
Indexes  == 0..NumQuestions \cup {Null}
Timers   == {"advance", "broadcast"}
Kicks    == {"plain", "unlessLive"}

OpNames == {"start", "restart", "httpStart", "httpEnd", "question", "next", "pause",
            "resume", "end", "abort", "join", "leave", "disconnect", "auto",
            "tutor", "answer", "expire", "crash", "joinTwice"}

ASSUME LiveSessionAssumption ==
    /\ NumQuestions \in Nat \ {0}
    /\ QuizMode \in {"auto", "tutor"}
    /\ Ops \subseteq OpNames
    /\ MaxKicks \in Nat
    /\ Prompt \in BOOLEAN
    /\ Null \notin Int

\* The control part of the Redis document.  An index beyond the last question
\* behaves like NumQuestions.  question stands for questionState and
\* questionExpiry: "timed" is live with an expiry, "untimed" live with none.
Doc == [status   : Statuses,
        idx      : Indexes,
        question : {"waiting", "timed", "untimed"},
        paused   : BOOLEAN,
        mode     : Modes]

ASSUME NoSessionAssumption == NoSession \notin Doc

Pcs == {"idle", "set", "after", "check", "show", "shown", "finished",
        "commit", "read", "reread", "config", "kick", "find", "lock",
        "gone", "hold"}

VARIABLES
    session,      \* the Redis document, or NoSession
    dbStatus,     \* status of the QuizSession in Mongo
    timers,       \* activeTimers of the room
    kicks,        \* delayed first broadcasts: "plain" and "unlessLive"
    reap,         \* the deletion ten minutes after the end is pending
    screen,       \* index of the last question published as new_question
    call,         \* the calls in progress, each with its copy of the document
                  \* and the delays armed since it began
    stale,        \* calls whose copy another call has since overwritten
    lost          \* some SET has overwritten a document its caller never saw

pending == <<kicks, reap>>
vars == <<session, dbStatus, timers, kicks, reap, screen, call, stale, lost>>

Idle == [op |-> "none", pc |-> "idle", doc |-> NoSession, armed |-> {}]

At(c, op, pc) == call[c].op = op /\ call[c].pc = pc

\* What joinRoom stores when the room has no document yet.
JoinDoc(status) == [status |-> status, idx |-> Null, question |-> "waiting",
                    paused |-> FALSE, mode |-> "unset"]

\* What startQuizSession stores, whatever was there before.
StartDoc == [status |-> "live", idx |-> 0, question |-> "waiting",
             paused |-> FALSE, mode |-> QuizMode]

\* currentQuestionIndex += 1, with JavaScript's null + 1 = 1.
Following(i) == IF i = Null THEN 1
                ELSE IF i < NumQuestions THEN i + 1 ELSE NumQuestions

TypeOK ==
    /\ session \in Doc \cup {NoSession}
    /\ dbStatus \in Statuses
    /\ timers \subseteq Timers
    /\ kicks \in [Kicks -> Nat]
    /\ reap \in BOOLEAN
    /\ screen \in Indexes
    /\ call \in [Calls -> [op  : OpNames \cup {"none", "broadcast", "advance"},
                           pc  : Pcs,
                           doc : Doc \cup {NoSession},
                           armed : SUBSET (Timers \cup Kicks)]]
    /\ stale \subseteq Calls
    /\ lost \in BOOLEAN

\* POST /quiz/:id/start has just created the session and cleared its room.
Init ==
    /\ session = NoSession
    /\ dbStatus = "waiting"
    /\ timers = {}
    /\ kicks = [k \in Kicks |-> 0]
    /\ reap = FALSE
    /\ screen = Null
    /\ call = [c \in Calls |-> Idle]
    /\ stale = {}
    /\ lost = FALSE

-----------------------------------------------------------------------------
(***************************************************************************)
(* The session store: getSession and setSession.                           *)
(***************************************************************************)

\* c goes on as op at pc, holding doc.
Run(c, op, pc, doc) ==
    call' = [call EXCEPT ![c].op = op, ![c].pc = pc, ![c].doc = doc]

Goto(c, pc, doc) == Run(c, call[c].op, pc, doc)

Finish(c) == call' = [call EXCEPT ![c] = Idle]

Return(c) == Finish(c) /\ stale' = stale \ {c}

\* c returns having armed delays, which the calls still in progress do not outlast.
ReturnArming(c, delays) ==
    /\ call' = [d \in Calls |->
          IF d = c THEN Idle
          ELSE IF Prompt /\ call[d].pc # "idle"
               THEN [call[d] EXCEPT !.armed = @ \cup delays]
               ELSE call[d]]
    /\ stale' = stale \ {c}

\* A delay is over, and c is free to run its callback.
Due(c, delay) ==
    /\ call[c].pc = "idle"
    /\ \A d \in Calls : delay \notin call[d].armed

\* The kicks of a start (at most 500 ms) are over before a timer armed since.
TimerDue(c, timer) ==
    /\ timer \in timers
    /\ Due(c, timer)
    /\ (Prompt /\ session # NoSession /\ \E k \in Kicks : kicks[k] > 0)
           => session.question = "waiting"

\* c takes a copy of the document and goes on at pc.
GetSession(c, op, pc) ==
    /\ Run(c, op, pc, session)
    /\ stale' = stale \ {c}

\* The calls that will SET the copy they hold.
Writers == {d \in Calls : call[d].pc \in {"set", "show", "lock", "hold", "config"}}

\* c replaces the whole document, whatever happened to it since c's copy.
SetSession(c, doc) ==
    /\ session' = doc
    /\ stale' = Writers \ {c}
    /\ lost' = (lost \/ c \in stale)

\* Whoever holds a copy of a deleted document can bring it back.
DeleteSession ==
    /\ session' = NoSession
    /\ stale' = Writers

\* A user's event: op is exercised and a call can begin.
Begins(c, op) == op \in Ops /\ call[c].pc = "idle"

-----------------------------------------------------------------------------
(***************************************************************************)
(* broadcastQuestionEnhanced                                               *)
(***************************************************************************)

\* Its getSession and first two guards: no document, or a completed one.
EnterBroadcast(c) ==
    IF session = NoSession \/ session.status = "completed"
    THEN Return(c)
    ELSE GetSession(c, "broadcast", "show")

\* question:start and question:update of the host.
QuestionStart(c) ==
    /\ Begins(c, "question")
    /\ session # NoSession
    /\ EnterBroadcast(c)
    /\ UNCHANGED <<session, dbStatus, timers, pending, screen, lost>>

\* The document once its question is live, with an expiry but in tutor mode.
WithQuestion(doc) ==
    [doc EXCEPT !.question = IF doc.mode = "tutor" THEN "untimed" ELSE "timed"]

ShowQuestion(c) ==
    /\ At(c, "broadcast", "show")
    /\ call[c].doc.idx \in 0..(NumQuestions - 1)
    /\ timers' = {}
    /\ SetSession(c, WithQuestion(call[c].doc))
    /\ Goto(c, "shown", WithQuestion(call[c].doc))
    /\ UNCHANGED <<dbStatus, pending, screen>>

\* Mutant: a question already on the screens is neither published nor armed.
QuestionShownOnce(c) ==
    /\ At(c, "broadcast", "shown")
    /\ screen' = call[c].doc.idx
    /\ IF screen = call[c].doc.idx
       THEN Return(c) /\ UNCHANGED timers
       ELSE /\ timers' = timers \cup {"advance"}
            /\ ReturnArming(c, {"advance"})
    /\ UNCHANGED <<session, dbStatus, pending, lost>>

\* After the SET: publish and arm the advance timer.
QuestionShown(c) ==
    /\ At(c, "broadcast", "shown")
    /\ screen' = call[c].doc.idx
    /\ \/ /\ call[c].doc.mode = "tutor"
          /\ Return(c)
          /\ UNCHANGED timers
       \/ /\ call[c].doc.mode # "tutor"
          /\ timers' = timers \cup {"advance"}
          /\ ReturnArming(c, {"advance"})
    /\ UNCHANGED <<session, dbStatus, pending, lost>>

\* The document of a quiz that is over.
Completed(doc) == [doc EXCEPT !.status = "completed", !.question = "waiting"]

\* Mutant: the quiz is over with the last question instead of after it.
FinishQuizEarly(c) ==
    /\ At(c, "broadcast", "show")
    /\ call[c].doc.idx = NumQuestions - 1
    /\ call[c].doc.status = "live"
    /\ timers' = {}
    /\ SetSession(c, Completed(call[c].doc))
    /\ Goto(c, "finished", NoSession)
    /\ UNCHANGED <<dbStatus, pending, screen>>

FinishQuiz(c) ==
    /\ At(c, "broadcast", "show")
    /\ call[c].doc.idx = NumQuestions
    /\ call[c].doc.status = "live"
    /\ timers' = {}
    /\ SetSession(c, Completed(call[c].doc))
    /\ Goto(c, "finished", NoSession)
    /\ UNCHANGED <<dbStatus, pending, screen>>

\* The Mongo transaction commits or fails; a failure is only logged.
QuizFinished(c) ==
    /\ At(c, "broadcast", "finished")
    /\ dbStatus' \in {dbStatus, "completed"}
    /\ reap' = TRUE
    /\ Return(c)
    /\ UNCHANGED <<session, timers, kicks, screen, lost>>

\* No question at a null index; a session that is not live cannot complete.
\* The timers are cleared before either is found out.
BroadcastFails(c) ==
    LET d == call[c].doc IN
    /\ At(c, "broadcast", "show")
    /\ \/ d.idx = Null
       \/ d.idx = NumQuestions /\ d.status # "live"
    /\ timers' = {}
    /\ Return(c)
    /\ UNCHANGED <<session, dbStatus, pending, screen, lost>>

Broadcast(c) == \/ ShowQuestion(c) \/ QuestionShown(c)
                \/ FinishQuiz(c) \/ QuizFinished(c) \/ BroadcastFails(c)

-----------------------------------------------------------------------------
(***************************************************************************)
(* scheduleNextAction: the timer callbacks                                 *)
(***************************************************************************)

\* Mutant: the callback does not ask whether the session is paused.
AdvanceTimerAnyhow(c) ==
    /\ TimerDue(c, "advance")
    /\ timers' = timers \ {"advance"}
    /\ IF session = NoSession
       THEN UNCHANGED <<call, stale>>
       ELSE GetSession(c, "advance", "set")
    /\ UNCHANGED <<session, dbStatus, pending, screen, lost>>

AdvanceTimer(c) ==
    /\ TimerDue(c, "advance")
    /\ timers' = timers \ {"advance"}
    /\ IF session = NoSession \/ session.paused
       THEN UNCHANGED <<call, stale>>
       ELSE GetSession(c, "advance", "set")
    /\ UNCHANGED <<session, dbStatus, pending, screen, lost>>

AdvanceSet(c) ==
    /\ At(c, "advance", "set")
    /\ SetSession(c, [call[c].doc EXCEPT !.idx = Following(@)])
    /\ Goto(c, "after", NoSession)
    /\ UNCHANGED <<dbStatus, timers, pending, screen>>

\* Mutant: the broadcast of the next question is not scheduled.
AdvancedSilently(c) ==
    /\ At(c, "advance", "after")
    /\ Return(c)
    /\ UNCHANGED <<session, dbStatus, timers, pending, screen, lost>>

\* interQuestionDelay may be 0: a call in progress may well outlast it.
Advanced(c) ==
    /\ At(c, "advance", "after")
    /\ timers' = timers \cup {"broadcast"}
    /\ Return(c)
    /\ UNCHANGED <<session, dbStatus, pending, screen, lost>>

\* The callback reads the document once for its own guard ...
BroadcastTimer(c) ==
    /\ TimerDue(c, "broadcast")
    /\ timers' = timers \ {"broadcast"}
    /\ IF session = NoSession \/ session.paused
       THEN UNCHANGED <<call, stale>>
       ELSE GetSession(c, "broadcast", "check")
    /\ UNCHANGED <<session, dbStatus, pending, screen, lost>>

\* ... and broadcastQuestionEnhanced reads it again.
BroadcastTimerChecked(c) ==
    /\ At(c, "broadcast", "check")
    /\ EnterBroadcast(c)
    /\ UNCHANGED <<session, dbStatus, timers, pending, screen, lost>>

-----------------------------------------------------------------------------
(***************************************************************************)
(* startQuizSession, reached by the socket events start_quiz (one more     *)
(* plain broadcast) and session:start (one more, skipped if a question is  *)
(* live by then)                                                           *)
(***************************************************************************)

\* Bound: each start under way will leave two kicks.
Starting == {c \in Calls : call[c].op = "start"}
RoomForKicks == kicks["plain"] + kicks["unlessLive"]
                    + 2 * Cardinality(Starting) + 2 <= MaxKicks

StartChecks(c) ==
    /\ Begins(c, "start")
    /\ RoomForKicks
    /\ dbStatus \in {"waiting"} \cup (IF "restart" \in Ops THEN {"live"} ELSE {})
    /\ Run(c, "start", "commit", NoSession)
    /\ UNCHANGED <<session, dbStatus, timers, pending, screen, stale, lost>>

\* Mutant: a failed transaction is only logged, as it is at the end of a quiz.
StartMayCommit(c) ==
    /\ At(c, "start", "commit")
    /\ dbStatus' \in {dbStatus, "live"}
    /\ Goto(c, "read", NoSession)
    /\ UNCHANGED <<session, timers, pending, screen, stale, lost>>

\* The transaction does not look at the status the check has seen.
StartCommits(c) ==
    /\ At(c, "start", "commit")
    /\ dbStatus' = "live"
    /\ Goto(c, "read", NoSession)
    /\ UNCHANGED <<session, timers, pending, screen, stale, lost>>

\* The transaction is reported to have failed.  It may have committed all the
\* same; without a replica set it is no transaction, and only the update of the
\* quiz may be missing.
StartFails(c) ==
    /\ At(c, "start", "commit")
    /\ dbStatus' \in {dbStatus, "live"}
    /\ Return(c)
    /\ UNCHANGED <<session, timers, pending, screen, lost>>

StartReads(c) ==
    /\ At(c, "start", "read")
    /\ GetSession(c, "start", "hold")
    /\ UNCHANGED <<session, dbStatus, timers, pending, screen, lost>>

\* Whether there is a template configuration to add was found out before.
StartWrites(c) ==
    /\ At(c, "start", "hold")
    /\ SetSession(c, StartDoc)
    /\ Goto(c, "reread", NoSession) \/ Goto(c, "kick", NoSession)
    /\ UNCHANGED <<dbStatus, timers, pending, screen>>

StartRereads(c) ==
    /\ At(c, "start", "reread")
    /\ GetSession(c, "start", IF session = NoSession THEN "kick" ELSE "config")
    /\ UNCHANGED <<session, dbStatus, timers, pending, screen, lost>>

\* The template configuration is added to the copy just read.
StartConfigures(c) ==
    /\ At(c, "start", "config")
    /\ SetSession(c, call[c].doc)
    /\ Goto(c, "kick", NoSession)
    /\ UNCHANGED <<dbStatus, timers, pending, screen>>

StartReturns(c) ==
    /\ At(c, "start", "kick")
    /\ \E second \in Kicks :
           /\ kicks' = [k \in Kicks |-> kicks[k] + (IF k = "plain" THEN 1 ELSE 0)
                                                + (IF k = second  THEN 1 ELSE 0)]
           /\ ReturnArming(c, {"plain", second})
    /\ UNCHANGED <<session, dbStatus, timers, reap, screen, lost>>

StartQuizSession(c) ==
    \/ StartChecks(c) \/ StartCommits(c) \/ StartFails(c) \/ StartReads(c)
    \/ StartWrites(c) \/ StartRereads(c) \/ StartConfigures(c) \/ StartReturns(c)

PlainKick(c) ==
    /\ Due(c, "plain")
    /\ kicks["plain"] > 0
    /\ kicks' = [kicks EXCEPT !["plain"] = @ - 1]
    /\ EnterBroadcast(c)
    /\ UNCHANGED <<session, dbStatus, timers, reap, screen, lost>>

\* A live question is only published again; otherwise the broadcast follows,
\* with a getSession of its own.
UnlessLiveKick(c) ==
    /\ Due(c, "unlessLive")
    /\ kicks["unlessLive"] > 0
    /\ kicks' = [kicks EXCEPT !["unlessLive"] = @ - 1]
    /\ IF session # NoSession /\ session.question # "waiting"
       THEN UNCHANGED <<call, stale>>
       ELSE GetSession(c, "broadcast", "check")
    /\ UNCHANGED <<session, dbStatus, timers, reap, screen, lost>>

-----------------------------------------------------------------------------
(***************************************************************************)
(* The host's controls over sockets                                        *)
(***************************************************************************)

\* A handler has read the document and accepted it.
Accepts(c, op, guard) ==
    /\ Begins(c, op)
    /\ session # NoSession
    /\ guard
    /\ GetSession(c, op, "set")
    /\ UNCHANGED <<session, dbStatus, timers, pending, screen, lost>>

NextReads(c) == Accepts(c, "next", ~session.paused)

NextWrites(c) ==
    /\ At(c, "next", "set")
    /\ SetSession(c, [call[c].doc EXCEPT !.idx = Following(@)])
    /\ Goto(c, "after", NoSession)
    /\ UNCHANGED <<dbStatus, timers, pending, screen>>

NextBroadcasts(c) ==
    /\ At(c, "next", "after")
    /\ EnterBroadcast(c)
    /\ UNCHANGED <<session, dbStatus, timers, pending, screen, lost>>

AdvanceQuizQuestion(c) == NextReads(c) \/ NextWrites(c) \/ NextBroadcasts(c)

\* Neither pause nor resume asks whether the session is live.
PauseReads(c) == Accepts(c, "pause", ~session.paused)

PauseWrites(c) ==
    /\ At(c, "pause", "set")
    /\ timers' = {}
    /\ SetSession(c, [call[c].doc EXCEPT !.paused = TRUE])
    /\ Finish(c)
    /\ UNCHANGED <<dbStatus, pending, screen>>

PauseQuizSession(c) == PauseReads(c) \/ PauseWrites(c)

\* The timer resumeQuizSession registers is a member of a sorted set that no
\* worker reads; emitTimerTick is undefined.  Neither changes anything here.
ResumeReads(c) == Accepts(c, "resume", session.paused)

ResumeWrites(c) ==
    /\ At(c, "resume", "set")
    /\ SetSession(c, [call[c].doc EXCEPT !.paused = FALSE])
    /\ Finish(c)
    /\ UNCHANGED <<dbStatus, timers, pending, screen>>

ResumeQuizSession(c) == ResumeReads(c) \/ ResumeWrites(c)

\* No status is required to end a session; the document goes first, then the
\* Mongo transaction, which may fail.
EndReads(c) ==
    /\ Begins(c, "end")
    /\ GetSession(c, "end", IF session = NoSession THEN "after" ELSE "set")
    /\ UNCHANGED <<session, dbStatus, timers, pending, screen, lost>>

\* Mutant: the end prepares the room for the next quiz instead of closing it.
EndResets(c) ==
    /\ At(c, "end", "set")
    /\ timers' = {}
    /\ SetSession(c, [call[c].doc EXCEPT !.status = "waiting",
                                         !.question = "waiting"])
    /\ Goto(c, "after", NoSession)
    /\ UNCHANGED <<dbStatus, pending, screen>>

\* Mutant: the end writes a status that no other code knows.
EndWritesFinished(c) ==
    /\ At(c, "end", "set")
    /\ timers' = {}
    /\ SetSession(c, [call[c].doc EXCEPT !.status = "finished",
                                         !.question = "waiting"])
    /\ Goto(c, "after", NoSession)
    /\ UNCHANGED <<dbStatus, pending, screen>>

EndWrites(c) ==
    /\ At(c, "end", "set")
    /\ timers' = {}
    /\ SetSession(c, Completed(call[c].doc))
    /\ Goto(c, "after", NoSession)
    /\ UNCHANGED <<dbStatus, pending, screen>>

EndCommits(c) ==
    /\ At(c, "end", "after")
    /\ dbStatus' \in {dbStatus, "completed"}
    /\ Return(c)
    /\ UNCHANGED <<session, timers, pending, screen, lost>>

EndQuizSession(c) == EndReads(c) \/ EndWrites(c) \/ EndCommits(c)

\* Mongo first, then the document; the timers stay armed.
AbortCommits(c) ==
    /\ Begins(c, "abort")
    /\ dbStatus' = "aborted"
    /\ Run(c, "abort", "after", NoSession)
    /\ UNCHANGED <<session, timers, pending, screen, stale, lost>>

\* As for a start: reported to have failed, and the document stays.
AbortFails(c) ==
    /\ Begins(c, "abort")
    /\ dbStatus' = "aborted"
    /\ UNCHANGED <<session, timers, pending, screen, call, stale, lost>>

AbortDeletes(c) ==
    /\ At(c, "abort", "after")
    /\ DeleteSession
    /\ Finish(c)
    /\ UNCHANGED <<dbStatus, timers, pending, screen, lost>>

AbortQuizSession(c) == AbortCommits(c) \/ AbortFails(c) \/ AbortDeletes(c)

\* session:modeToggle changes the mode and leaves the timers alone.
ModeReads(c, mode) == Accepts(c, mode, TRUE)

ModeWrites(c, mode) ==
    /\ At(c, mode, "set")
    /\ SetSession(c, [call[c].doc EXCEPT !.mode = mode])
    /\ Finish(c)
    /\ UNCHANGED <<dbStatus, timers, pending, screen>>

ModeToggle(c) ==
    \E mode \in {"auto", "tutor"} : ModeReads(c, mode) \/ ModeWrites(c, mode)

-----------------------------------------------------------------------------
(***************************************************************************)
(* Participants                                                            *)
(***************************************************************************)

\* joinRoom looks the session up in Mongo; its status travels in the copy.
JoinFinds(c) ==
    /\ Begins(c, "join")
    /\ Run(c, "join", "find", JoinDoc(dbStatus))
    /\ UNCHANGED <<session, dbStatus, timers, pending, screen, stale, lost>>

\* Without a document the join prepares a new one, in whatever status Mongo
\* has; with one it brings the copy to that status, unless it is terminal.
JoinReads(c) ==
    LET status == call[c].doc.status IN
    /\ At(c, "join", "find")
    /\ \/ /\ session = NoSession
          /\ Goto(c, "lock", call[c].doc)
          /\ stale' = stale \ {c}
       \/ /\ session # NoSession
          /\ status \notin Terminal
          /\ Goto(c, "lock",
                  [session EXCEPT !.status = status,
                                  !.idx = IF status = "live" THEN @ ELSE Null])
          /\ stale' = stale \ {c}
       \/ /\ session # NoSession
          /\ status \in Terminal
          /\ Return(c)
    /\ UNCHANGED <<session, dbStatus, timers, pending, screen, lost>>

\* The join lock taken, the copy is replaced by a fresh one if there is one.
\* The lock lost to another join of the same user ("joinTwice"), the copy is
\* used as it is.  A participant who is in the room by now writes nothing.
JoinLocks(c) ==
    /\ At(c, "join", "lock")
    /\ \/ session # NoSession /\ GetSession(c, "join", "set")
       \/ /\ session = NoSession \/ "joinTwice" \in Ops
          /\ Goto(c, "set", call[c].doc)
          /\ UNCHANGED stale
       \/ Return(c)
    /\ UNCHANGED <<session, dbStatus, timers, pending, screen, lost>>

JoinWrites(c) ==
    /\ At(c, "join", "set")
    /\ SetSession(c, call[c].doc)
    /\ Finish(c)
    /\ UNCHANGED <<dbStatus, timers, pending, screen>>

JoinRoom(c) == JoinFinds(c) \/ JoinReads(c) \/ JoinLocks(c) \/ JoinWrites(c)

\* leaveRoom and participant:leave take the participant out of the copy.
LeaveReads(c) == Accepts(c, "leave", TRUE)

LeaveWrites(c) ==
    /\ At(c, "leave", "set")
    /\ SetSession(c, call[c].doc)
    /\ Finish(c)
    /\ UNCHANGED <<dbStatus, timers, pending, screen>>

LeaveRoom(c) == LeaveReads(c) \/ LeaveWrites(c)

\* The host's socket goes: leaveRoom, then a pause of a live session that
\* neither clears the timers nor records the time left.
DisconnectReads(c) == Accepts(c, "disconnect", TRUE)

DisconnectWrites(c) ==
    /\ At(c, "disconnect", "set")
    /\ SetSession(c, call[c].doc)
    /\ Goto(c, "gone", NoSession)
    /\ UNCHANGED <<dbStatus, timers, pending, screen>>

DisconnectRereads(c) ==
    /\ At(c, "disconnect", "gone")
    /\ IF session # NoSession /\ session.status = "live"
       THEN GetSession(c, "disconnect", "hold")
       ELSE Return(c)
    /\ UNCHANGED <<session, dbStatus, timers, pending, screen, lost>>

DisconnectPauses(c) ==
    /\ At(c, "disconnect", "hold")
    /\ SetSession(c, [call[c].doc EXCEPT !.paused = TRUE])
    /\ Finish(c)
    /\ UNCHANGED <<dbStatus, timers, pending, screen>>

HostDisconnects(c) == \/ DisconnectReads(c) \/ DisconnectWrites(c)
                      \/ DisconnectRereads(c) \/ DisconnectPauses(c)

\* An answer that reaches its SET, to the current question if there is one: the
\* client need not name it.  The window is closed on an expiry of null (a question
\* in tutor mode), open as long as no expiry was ever set (before the first
\* question, and in a document of a join), and else it depends on the clock.
AnswerReads(c) == Accepts(c, "answer", /\ session.status = "live"
                                       /\ ~session.paused
                                       /\ session.question # "untimed"
                                       /\ session.idx \in 0..(NumQuestions - 1))

\* Everyone in the copy has answered by now, or not.
AnswerWrites(c) ==
    /\ At(c, "answer", "set")
    /\ SetSession(c, call[c].doc)
    /\ Goto(c, "after", call[c].doc) \/ Finish(c)
    /\ UNCHANGED <<dbStatus, timers, pending, screen>>

AnswerAdvances(c) ==
    /\ At(c, "answer", "after")
    /\ \/ /\ call[c].doc.mode = "auto"
          /\ timers' = timers \cup {"advance"}
          /\ ReturnArming(c, {"advance"})
       \/ /\ call[c].doc.mode # "auto"
          /\ Return(c)
          /\ UNCHANGED timers
    /\ UNCHANGED <<session, dbStatus, pending, screen, lost>>

SubmitAnswer(c) == AnswerReads(c) \/ AnswerWrites(c) \/ AnswerAdvances(c)

-----------------------------------------------------------------------------
(***************************************************************************)
(* The HTTP routes of SessionController and SessionManager.  (HTTP pause   *)
(* and resume change nothing: "paused" is no status of a QuizSession.)     *)
(***************************************************************************)

\* findOne of a waiting session ...
HttpStartFinds(c) ==
    /\ Begins(c, "httpStart")
    /\ dbStatus = "waiting"
    /\ Run(c, "httpStart", "commit", NoSession)
    /\ UNCHANGED <<session, dbStatus, timers, pending, screen, stale, lost>>

\* ... its save ...
HttpStartSaves(c) ==
    /\ At(c, "httpStart", "commit")
    /\ dbStatus' = "live"
    /\ Goto(c, "read", NoSession)
    /\ UNCHANGED <<session, timers, pending, screen, stale, lost>>

\* ... and LiveState.enter, whose broadcastQuestion clears no timer.
HttpStartReads(c) ==
    /\ At(c, "httpStart", "read")
    /\ IF session = NoSession \/ session.status = "completed"
       THEN Return(c)
       ELSE GetSession(c, "httpStart", "set")
    /\ UNCHANGED <<session, dbStatus, timers, pending, screen, lost>>

\* Past the last question the manager ends the session it holds, in Mongo only.
\* A null index throws, except in tutor mode, which needs no time limit.
HttpStartGivesUp(c) ==
    LET d == call[c].doc IN
    /\ At(c, "httpStart", "set")
    /\ \/ d.idx = NumQuestions /\ dbStatus' = "completed"
       \/ d.idx = Null /\ d.mode # "tutor" /\ UNCHANGED dbStatus
    /\ Return(c)
    /\ UNCHANGED <<session, timers, pending, screen, lost>>

HttpStartWrites(c) ==
    LET d == call[c].doc IN
    /\ At(c, "httpStart", "set")
    /\ d.idx # NumQuestions
    /\ d.idx = Null => d.mode = "tutor"
    /\ SetSession(c, WithQuestion(d))
    /\ Goto(c, "after", WithQuestion(d))
    /\ UNCHANGED <<dbStatus, timers, pending, screen>>

HttpStartShown(c) ==
    /\ At(c, "httpStart", "after")
    /\ screen' = call[c].doc.idx
    /\ \/ /\ call[c].doc.mode = "tutor"
          /\ Return(c)
          /\ UNCHANGED timers
       \/ /\ call[c].doc.mode # "tutor"
          /\ timers' = timers \cup {"advance"}
          /\ ReturnArming(c, {"advance"})
    /\ UNCHANGED <<session, dbStatus, pending, lost>>

HttpStart(c) == \/ HttpStartFinds(c) \/ HttpStartSaves(c) \/ HttpStartReads(c)
                \/ HttpStartGivesUp(c) \/ HttpStartWrites(c) \/ HttpStartShown(c)

\* findOne of a live session, then save: the document and the timers stay.
HttpEndFinds(c) ==
    /\ Begins(c, "httpEnd")
    /\ dbStatus = "live"
    /\ Run(c, "httpEnd", "commit", NoSession)
    /\ UNCHANGED <<session, dbStatus, timers, pending, screen, stale, lost>>

HttpEndSaves(c) ==
    /\ At(c, "httpEnd", "commit")
    /\ dbStatus' = "completed"
    /\ Return(c)
    /\ UNCHANGED <<session, timers, pending, screen, lost>>

HttpEnd(c) == HttpEndFinds(c) \/ HttpEndSaves(c)

-----------------------------------------------------------------------------
(***************************************************************************)
(* Deletion, expiry and restart                                            *)
(***************************************************************************)

\* The deletion armed when the quiz finished, whatever the room holds by now.
Reap ==
    /\ reap
    /\ reap' = FALSE
    /\ DeleteSession
    /\ UNCHANGED <<dbStatus, timers, kicks, screen, call, lost>>

\* SESSION_TTL_SECONDS without a SET.
Expire ==
    /\ "expire" \in Ops
    /\ session # NoSession
    /\ DeleteSession
    /\ UNCHANGED <<dbStatus, timers, pending, screen, call, lost>>

\* The process restarts: its calls and timers are gone.  The recovery that
\* server.js means to run (rebootQuizzes) is never reached: the undefined
\* startAnalyticsWorker throws just before it.
Crash ==
    /\ "crash" \in Ops
    /\ timers' = {}
    /\ kicks' = [k \in Kicks |-> 0]
    /\ reap' = FALSE
    /\ call' = [c \in Calls |-> Idle]
    /\ stale' = {}
    /\ UNCHANGED <<session, dbStatus, screen, lost>>

-----------------------------------------------------------------------------
TimerStep(c) ==
    \/ AdvanceTimer(c) \/ AdvanceSet(c) \/ Advanced(c)
    \/ BroadcastTimer(c) \/ BroadcastTimerChecked(c)
    \/ PlainKick(c) \/ UnlessLiveKick(c)

HostStep(c) ==
    \/ StartQuizSession(c) \/ QuestionStart(c) \/ AdvanceQuizQuestion(c)
    \/ PauseQuizSession(c) \/ ResumeQuizSession(c) \/ EndQuizSession(c)
    \/ AbortQuizSession(c) \/ ModeToggle(c) \/ HostDisconnects(c)
    \/ HttpStart(c) \/ HttpEnd(c)

ParticipantStep(c) == JoinRoom(c) \/ LeaveRoom(c) \/ SubmitAnswer(c)

CallStep(c) ==
    Broadcast(c) \/ TimerStep(c) \/ HostStep(c) \/ ParticipantStep(c)

Next ==
    \/ \E c \in Calls : CallStep(c)
    \/ Reap \/ Expire \/ Crash

Spec == Init /\ [][Next]_vars

\* Redis and Mongo answer, so a call under way goes on.  A timer that is due
\* fires once a slot is free; the slots are a bound of the model, so they may
\* be taken again and again before: hence strong fairness.
GoesOn(c) == call[c].pc # "idle" /\ CallStep(c)

Fairness ==
    /\ \A c \in Calls : WF_vars(GoesOn(c))
    /\ SF_vars(\E c \in Calls : AdvanceTimer(c))
    /\ SF_vars(\E c \in Calls : BroadcastTimer(c))
    /\ SF_vars(\E c \in Calls : PlainKick(c))
    /\ SF_vars(\E c \in Calls : UnlessLiveKick(c))

FairSpec == Spec /\ Fairness

-----------------------------------------------------------------------------
(***************************************************************************)
(* Properties.  Most of them speak of behaviours without a lost update     *)
(* (~lost): no handler has yet SET back a document that another handler    *)
(* had replaced since it read its copy.  What a lost update does is        *)
(* stated by CompletedIsFinal.                                             *)
(***************************************************************************)

\* A session is never live in Redis while Mongo still has it waiting: the
\* start commits to Mongo before it writes the document, and a join that found
\* the session waiting cannot bring a live document about.
DatabaseLeadsCache ==
    session # NoSession /\ session.status = "live" => dbStatus # "waiting"

WillSchedule(c) ==
    \/ call[c].op \in {"broadcast", "advance", "start", "next"}
    \/ At(c, "answer", "after")

\* A live, unpaused session in auto mode always has something that will move
\* it on: an armed timer, a delayed first broadcast, or a call on its way to
\* arm one.  Every broadcast clears the timers of the room before it arms its
\* own, so two overlapping broadcasts must not leave it without any.
NeverStalls ==
    (/\ ~lost /\ session # NoSession
     /\ session.status = "live" /\ session.mode = "auto" /\ ~session.paused)
    => \/ timers # {}
       \/ \E k \in Kicks : kicks[k] > 0
       \/ \E c \in Calls : WillSchedule(c)

\* The questions reach the screens in order, none left out, and the quiz
\* finishes only once the last one has been on them, although the first one
\* is broadcast two or three times by delays that overlap.  It takes calls that
\* end before an advance or a first broadcast armed meanwhile is due (Prompt).
NoQuestionSkipped ==
    [][ ~lost' =>
        /\ screen' # screen => screen' = IF screen = Null THEN 0 ELSE screen + 1
        /\ \A c \in Calls : FinishQuiz(c) => screen = NumQuestions - 1 ]_vars

\* While a session stays paused its question index stands still: no timer that
\* was armed before the pause, or is armed under it by a broadcast or an answer
\* still in progress, moves it, and no next sent during the pause does.  What does
\* move it is the SET of a call that had read the document before the pause was
\* stored (a next sent just before, an advance that was just due): such overtaken
\* calls are left out, and nothing else is.
PausedStands ==
    [][ (/\ session # NoSession /\ session' # NoSession
         /\ session.paused /\ session'.paused
         /\ \A c \in stale : call'[c] = call[c])
         => session'.idx = session.idx ]_vars

\* In tutor mode only the host moves on, by a next or by starting anew; automatic
\* advancement is off.  The toggle leaves the timer armed in auto mode, and its
\* callback does not ask for the mode.
TutorStands ==
    [][ (/\ session # NoSession /\ session' # NoSession /\ ~lost'
         /\ session.status = "live" /\ session'.status = "live"
         /\ session.mode = "tutor" /\ session'.mode = "tutor"
         /\ session.idx \in Int /\ session'.idx # session.idx)
         => \E c \in Calls : NextWrites(c) \/ StartWrites(c) ]_vars

\* TRANSITIONS of utils/sessionStateMachine.js.
CanTransition(from, to) ==
    \/ from = to
    \/ <<from, to>> \in {<<"waiting", "live">>, <<"waiting", "aborted">>,
                         <<"live", "completed">>, <<"live", "aborted">>,
                         <<"completed", "waiting">>, <<"aborted", "waiting">>}

\* Only the start and the last broadcast of a quiz ask the state machine; the
\* status in Redis follows its table all the same while timers, repeated
\* broadcasts, leaves, ends and aborts of a quiz that was started overlap.  (An
\* end asks for no status, and a join rebuilds documents: both can complete a
\* session that waits, so joins are not part of the run.)  A start writes live
\* whatever it finds: it asked before its transaction, and another start and an
\* end may have come in between.
LegalTransitions ==
    [][ (session # NoSession /\ session' # NoSession /\ ~lost')
         => \/ CanTransition(session.status, session'.status)
            \/ \E c \in Calls : StartWrites(c) ]_vars

\* A live session that no update is lost in comes to its end by itself: each
\* question advances, each advance broadcasts, the last one completes.
Finishes ==
    (session # NoSession /\ session.status = "live")
    ~> (session = NoSession \/ session.status = "completed" \/ lost)

\* A completed session stays completed, whatever handlers were under way.
CompletedIsFinal ==
    [][ (/\ session # NoSession /\ session' # NoSession
         /\ session.status = "completed")
         => session'.status = "completed" ]_vars

\* No question is published to a session that Mongo has as completed.
EndedStaysSilent == [][ screen' # screen => dbStatus # "completed" ]_vars
=============================================================================
