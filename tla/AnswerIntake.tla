---------------------------- MODULE AnswerIntake ----------------------------
(***************************************************************************)
(* The answers to the questions of one live, unpaused session in auto      *)
(* mode.  submitAnswer GETs the whole session document, takes a lock in    *)
(* Redis, adds to its copy of the leaderboard and the question's counters, *)
(* SETs the whole document back and may end the question; broadcasts,      *)
(* advances, joins and leaves do the same with the same document in        *)
(* between.  One step is one stretch of code between two awaits.           *)
(***************************************************************************)
EXTENDS Integers, FiniteSets

CONSTANTS
    Users,          \* authenticated users who know the room code
    Active,         \* those who do anything; the others only sit in the room
    NumQuestions,
    Calls,          \* slots for handler calls in progress
    Ops,            \* the operations exercised
    MaxExpiries,    \* bound: how often the lock of one answer runs out
    NoUser

Questions == 0..(NumQuestions - 1)

OpNames == {"answer", "advance", "show", "join", "leave", "lockExpiry"}

ASSUME IntakeAssumption ==
    /\ NumQuestions \in Nat \ {0}
    /\ IsFiniteSet(Users)
    /\ Active \subseteq Users
    /\ Ops \subseteq OpNames
    /\ MaxExpiries \in Nat
    /\ NoUser \notin Users

VARIABLES
    doc,        \* the Redis document: the current question, its counter of
                \* answers, the participants, the leaderboard
    locks,      \* answer locks held in Redis, per user and question
    call,       \* the calls in progress, each with its copy of the document
    accepted,   \* answers accepted so far, per user and question
    expired     \* how often the lock of an answer has run out

vars == <<doc, locks, call, accepted, expired>>

Tally == [Users -> [Questions -> Nat]]

Nothing == [u \in Users |-> [q \in Questions |-> 0]]

\* An index beyond the last question finds no question; all of them are alike.
Doc == [idx : 0..NumQuestions, answers : Nat, members : SUBSET Users, credit : Tally]

\* currentQuestionIndex += 1, which nothing bounds.
Following(i) == IF i < NumQuestions THEN i + 1 ELSE i

\* Everyone has joined and the first question is on the screens.
FirstDoc == [idx |-> 0, answers |-> 0, members |-> Users, credit |-> Nothing]

Idle == [op |-> "none", pc |-> "idle", user |-> NoUser, doc |-> FirstDoc]

At(c, op, pc) == call[c].op = op /\ call[c].pc = pc

\* The lock and the score of a call belong to this question.
Asked(c) == call[c].doc.idx

TypeOK ==
    /\ doc \in Doc
    /\ locks \subseteq Users \X Questions
    /\ call \in [Calls -> [op   : OpNames \cup {"none"},
                           pc   : {"idle", "lock", "set", "after"},
                           user : Users \cup {NoUser},
                           doc  : Doc]]
    /\ accepted \in Tally
    /\ expired \in Tally

Init ==
    /\ doc = FirstDoc
    /\ locks = {}
    /\ call = [c \in Calls |-> Idle]
    /\ accepted = Nothing
    /\ expired = Nothing

-----------------------------------------------------------------------------
\* c reads the document for op and goes on at pc.
GetSession(c, op, pc, user) ==
    /\ op \in Ops
    /\ call[c].pc = "idle"
    /\ call' = [call EXCEPT ![c] =
                   [op |-> op, pc |-> pc, user |-> user, doc |-> doc]]
    /\ UNCHANGED <<doc, locks, accepted, expired>>

\* c stores new over whatever the document holds by now.
SetSession(c, new) ==
    /\ doc' = new
    /\ call' = [call EXCEPT ![c].doc = new, ![c].pc = "after"]

Return(c) == call' = [call EXCEPT ![c] = Idle]

\* Mutant: an answer to no question goes on to the lock.
AnswerReadsAnyhow(c, u) == GetSession(c, "answer", "lock", u)

\* An answer is to the current question, if there is one: the client may send
\* the id of its question along, which then has to match, or leave it out.
AnswerReads(c, u) ==
    doc.idx \in Questions /\ GetSession(c, "answer", "lock", u)

\* Mutant: the answer lock is taken without NX.
AnswerLocksAgain(c) ==
    /\ At(c, "answer", "lock")
    /\ locks' = locks \cup {<<call[c].user, Asked(c)>>}
    /\ \/ Return(c)
       \/ call' = [call EXCEPT ![c].pc = "set"]
    /\ UNCHANGED <<doc, accepted, expired>>

\* SET NX of the lock.  Whether the window was open when the document was read
\* is up to the clock; a late answer is refused only after the lock is taken.
AnswerLocks(c) ==
    LET key == <<call[c].user, Asked(c)>> IN
    /\ At(c, "answer", "lock")
    /\ \/ key \in locks /\ Return(c) /\ UNCHANGED locks
       \/ /\ key \notin locks
          /\ locks' = locks \cup {key}
          /\ \/ Return(c)
             \/ call' = [call EXCEPT ![c].pc = "set"]
    /\ UNCHANGED <<doc, accepted, expired>>

\* Mutant: the credit goes to the question that is current when it is stored.
AnswerWritesCurrent(c) ==
    LET u == call[c].user
        q == Asked(c)
    IN  /\ At(c, "answer", "set")
        /\ SetSession(c, [call[c].doc EXCEPT !.credit[u][doc.idx] = @ + 1,
                                             !.answers = @ + 1])
        /\ accepted' = [accepted EXCEPT ![u][q] = @ + 1]
        /\ UNCHANGED <<locks, expired>>

AnswerWrites(c) ==
    LET u == call[c].user
        q == Asked(c)
    IN  /\ At(c, "answer", "set")
        /\ SetSession(c, [call[c].doc EXCEPT !.credit[u][q] = @ + 1,
                                             !.answers = @ + 1])
        /\ accepted' = [accepted EXCEPT ![u][q] = @ + 1]
        /\ UNCHANGED <<locks, expired>>

\* As many answers as participants in the stored copy: question:end is sent
\* (and the advance brought forward).
QuestionEnds(c) ==
    /\ At(c, "answer", "after")
    /\ call[c].doc.answers >= Cardinality(call[c].doc.members)
    /\ Return(c)
    /\ UNCHANGED <<doc, locks, accepted, expired>>

AnswerReturns(c) ==
    /\ At(c, "answer", "after")
    /\ call[c].doc.answers < Cardinality(call[c].doc.members)
    /\ Return(c)
    /\ UNCHANGED <<doc, locks, accepted, expired>>

\* A user who knows the code answers, in the participants map or not.
SubmitAnswer(c) ==
    \/ \E u \in Active : AnswerReads(c, u)
    \/ AnswerLocks(c) \/ AnswerWrites(c) \/ QuestionEnds(c) \/ AnswerReturns(c)

-----------------------------------------------------------------------------
(***************************************************************************)
(* The other handlers that store the document they have read.              *)
(***************************************************************************)

AdvanceReads(c) == GetSession(c, "advance", "set", NoUser)

AdvanceWrites(c) ==
    /\ At(c, "advance", "set")
    /\ doc' = [call[c].doc EXCEPT !.idx = Following(@)]
    /\ Return(c)
    /\ UNCHANGED <<locks, accepted, expired>>

ShowReads(c) == GetSession(c, "show", "set", NoUser)

\* The counters start again; the leaderboard and the locks stay.  Beyond the last
\* question the session is completed instead, and no answer finds a question.
ShowWrites(c) ==
    /\ At(c, "show", "set")
    /\ doc' = [call[c].doc EXCEPT
                 !.answers = IF call[c].doc.idx \in Questions THEN 0 ELSE @]
    /\ Return(c)
    /\ UNCHANGED <<locks, accepted, expired>>

JoinReads(c, u) == u \notin doc.members /\ GetSession(c, "join", "set", u)

JoinWrites(c) ==
    /\ At(c, "join", "set")
    /\ doc' = [call[c].doc EXCEPT !.members = @ \cup {call[c].user}]
    /\ Return(c)
    /\ UNCHANGED <<locks, accepted, expired>>

LeaveReads(c, u) == u \in doc.members /\ GetSession(c, "leave", "set", u)

LeaveWrites(c) ==
    /\ At(c, "leave", "set")
    /\ doc' = [call[c].doc EXCEPT !.members = @ \ {call[c].user}]
    /\ Return(c)
    /\ UNCHANGED <<locks, accepted, expired>>

OtherWriter(c) ==
    \/ AdvanceReads(c) \/ AdvanceWrites(c)
    \/ ShowReads(c) \/ ShowWrites(c)
    \/ \E u \in Active : JoinReads(c, u) \/ LeaveReads(c, u)
    \/ JoinWrites(c) \/ LeaveWrites(c)

\* A lock is gone after ten minutes: longer than any answer takes and than any
\* question lasts, but not longer than a pause may be.
LockExpires ==
    /\ "lockExpiry" \in Ops
    /\ \E key \in locks :
           /\ \A c \in Calls : call[c].pc = "set" =>
                  <<call[c].user, Asked(c)>> # key
           /\ expired[key[1]][key[2]] < MaxExpiries
           /\ locks' = locks \ {key}
           /\ expired' = [expired EXCEPT ![key[1]][key[2]] = @ + 1]
    /\ UNCHANGED <<doc, call, accepted>>

Next == LockExpires \/ \E c \in Calls : SubmitAnswer(c) \/ OtherWriter(c)

Spec == Init /\ [][Next]_vars

-----------------------------------------------------------------------------
(***************************************************************************)
(* Properties                                                              *)
(***************************************************************************)

\* Only the first answer of a user to a question is accepted, although every
\* submit_answer is handled twice, users tap twice, and stale copies take the
\* index back to a question already answered; and one more for each time the
\* lock of that answer ran out before.
AtMostOneAccepted ==
    \A u \in Users, q \in Questions : accepted[u][q] <= 1 + expired[u][q]

\* No stale copy brings the leaderboard credit that no accepted answer earned.
NeverOverpaid ==
    \A u \in Users, q \in Questions : doc.credit[u][q] <= accepted[u][q]

\* What the participants see implements the promise.
Promise == INSTANCE AnswerPromise WITH credit <- doc.credit, forgotten <- expired
PromiseKept == Promise!Spec

\* question:end is sent only when every participant has answered.
EndsWhenAllAnswered ==
    [][ \A c \in Calls : QuestionEnds(c) =>
            \A u \in call[c].doc.members : accepted[u][Asked(c)] > 0 ]_vars

\* With no call under way, every accepted answer is on the leaderboard.
CreditKept == (\A c \in Calls : call[c].pc = "idle") => doc.credit = accepted
=============================================================================
