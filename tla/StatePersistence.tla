-------------------------- MODULE StatePersistence --------------------------
(***************************************************************************)
(* How the answers that were accepted get into the database: a call that   *)
(* tries, backs off and tries again, a queue in Redis (in memory, if Redis *)
(* fails) for what it could not write, and the processor that drains the   *)
(* queue every five minutes, whose runs may overlap.  Mongo and Redis are  *)
(* external: a command may fail, and an error may hide that it was done.   *)
(***************************************************************************)
EXTENDS Naturals, Sequences

CONSTANTS
    Items,        \* the submissions to be stored
    Calls,        \* slots for calls of persistSubmission in progress
    Runs,         \* slots for overlapping runs of the processor
    MaxAttempts,  \* tries of a call (3)
    MaxRetries,   \* tries of an entry of the queue (5)
    MaxFaults,    \* bound: errors of Redis, and errors that hide a success
    None

ASSUME StatePersistenceAssumption ==
    /\ {MaxAttempts, MaxRetries, MaxFaults} \subseteq Nat
    /\ MaxAttempts > 0 /\ MaxRetries > 0
    /\ None \notin Items

VARIABLES
    call,      \* what each call is doing
    run,       \* what each run of the processor is doing
    redis,     \* the queue in Redis
    memory,    \* the queue in memory
    begun,     \* submissions given to persistSubmission
    refused,   \* submissions Mongo found invalid
    givenUp,   \* submissions the processor has tried MaxRetries times
    lost,      \* what was in memory at a restart, or popped with the reply lost
    stored,    \* how many documents each submission has
    tries,     \* how often each was tried
    hidden,    \* how many errors about it hid a success
    faults     \* how many faults there were

vars == <<call, run, redis, memory, begun, refused, givenUp, lost, stored,
          tries, hidden, faults>>

fates == <<refused, givenUp, lost>>
queue == <<redis, memory>>

Entry == [item : Items, retryCount : 0 .. MaxRetries - 1]

TypeOK ==
    /\ call \in [Calls -> [pc : {"idle", "try", "queue"}, item : Items \cup {None},
                           attempt : 0 .. MaxAttempts]]
    /\ run \in [Runs -> [pc : {"idle", "pull", "work", "requeue"}, items : Seq(Entry)]]
    /\ redis \in Seq(Entry) /\ memory \in Seq(Entry)
    /\ begun \subseteq Items /\ refused \subseteq Items
    /\ givenUp \subseteq Items /\ lost \subseteq Items
    /\ stored \in [Items -> Nat] /\ tries \in [Items -> Nat]
    /\ hidden \in [Items -> Nat]
    /\ faults \in 0 .. MaxFaults

IdleCall == [pc |-> "idle", item |-> None, attempt |-> 0]
IdleRun  == [pc |-> "idle", items |-> <<>>]

Init ==
    /\ call = [c \in Calls |-> IdleCall] /\ run = [p \in Runs |-> IdleRun]
    /\ redis = <<>> /\ memory = <<>>
    /\ begun = {} /\ refused = {} /\ givenUp = {} /\ lost = {}
    /\ stored = [i \in Items |-> 0] /\ tries = [i \in Items |-> 0]
    /\ hidden = [i \in Items |-> 0]
    /\ faults = 0

\* The submissions with an entry in s.
ItemsOf(s) == {s[n].item : n \in 1 .. Len(s)}

-----------------------------------------------------------------------------
(***************************************************************************)
(* Commands to Mongo and Redis (external)                                  *)
(***************************************************************************)
Fault == faults < MaxFaults /\ faults' = faults + 1

\* Submission.create inserts a document: no index makes a submission unique.
Succeeds(i) ==
    /\ stored' = [stored EXCEPT ![i] = @ + 1]
    /\ tries' = [tries EXCEPT ![i] = @ + 1]
    /\ UNCHANGED <<hidden, faults>>

Fails(i) ==
    /\ tries' = [tries EXCEPT ![i] = @ + 1]
    /\ \/ UNCHANGED <<stored, hidden, faults>>
       \/ /\ Fault
          /\ stored' = [stored EXCEPT ![i] = @ + 1]
          /\ hidden' = [hidden EXCEPT ![i] = @ + 1]

\* Mutant: an entry that Redis does not take is dropped.
PushOrDrop(entry) ==
    \/ redis' = Append(redis, entry) /\ UNCHANGED <<memory, hidden, faults>>
    \/ Fault /\ UNCHANGED <<redis, memory, hidden>>

\* queueFailedOperation: what Redis does not take is kept in memory.
Push(entry) ==
    \/ redis' = Append(redis, entry) /\ UNCHANGED <<memory, hidden, faults>>
    \/ /\ Fault
       /\ memory' = Append(memory, entry)
       /\ \/ UNCHANGED <<redis, hidden>>
          \/ /\ redis' = Append(redis, entry)
             /\ hidden' = [hidden EXCEPT ![entry.item] = @ + 1]

-----------------------------------------------------------------------------
(***************************************************************************)
(* executeWithRetry                                                        *)
(***************************************************************************)
Begin(c, i) ==
    /\ call[c].pc = "idle" /\ i \notin begun
    /\ begun' = begun \cup {i}
    /\ call' = [call EXCEPT ![c] = [pc |-> "try", item |-> i, attempt |-> 1]]
    /\ UNCHANGED <<run, queue, fates, stored, tries, hidden, faults>>

TrySucceeds(c) ==
    /\ call[c].pc = "try"
    /\ Succeeds(call[c].item)
    /\ call' = [call EXCEPT ![c] = IdleCall]
    /\ UNCHANGED <<run, queue, begun, fates>>

\* A ValidationError is no reason to try again.
TryIsRefused(c) ==
    /\ call[c].pc = "try"
    /\ refused' = refused \cup {call[c].item}
    /\ tries' = [tries EXCEPT ![call[c].item] = @ + 1]
    /\ call' = [call EXCEPT ![c] = IdleCall]
    /\ UNCHANGED <<run, queue, begun, givenUp, lost, stored, hidden, faults>>

TryFails(c) ==
    /\ call[c].pc = "try"
    /\ Fails(call[c].item)
    /\ call' = IF call[c].attempt < MaxAttempts
               THEN [call EXCEPT ![c].attempt = @ + 1]
               ELSE [call EXCEPT ![c].pc = "queue"]
    /\ UNCHANGED <<run, queue, begun, fates>>

QueueFailed(c) ==
    /\ call[c].pc = "queue"
    /\ Push([item |-> call[c].item, retryCount |-> 0])
    /\ call' = [call EXCEPT ![c] = IdleCall]
    /\ UNCHANGED <<run, begun, fates, stored, tries>>

CallStep(c) == TrySucceeds(c) \/ TryIsRefused(c) \/ TryFails(c) \/ QueueFailed(c)

-----------------------------------------------------------------------------
(***************************************************************************)
(* processFailedOperationsQueue                                            *)
(***************************************************************************)

\* The interval starts a run whether or not the one before has ended.
StartRun(p) ==
    /\ run[p].pc = "idle"
    /\ run' = [run EXCEPT ![p].pc = "pull"]
    /\ UNCHANGED <<call, queue, begun, fates, stored, tries, hidden, faults>>

Pop(p) ==
    /\ run[p].pc = "pull" /\ redis # <<>>
    /\ run' = [run EXCEPT ![p].items = Append(@, Head(redis))]
    /\ redis' = Tail(redis)
    /\ UNCHANGED <<call, memory, begun, fates, stored, tries, hidden, faults>>

\* Mutant: the queue in memory is emptied only when the run is over.
TakeMemoryLater(p) ==
    /\ run' = [run EXCEPT ![p] = [pc |-> "work", items |-> @.items \o memory]]
    /\ UNCHANGED memory

\* Mutant: a run that got nothing from Redis ends before it looks in memory.
TakeMemorySometimes(p) ==
    IF run[p].items = <<>> THEN run' = [run EXCEPT ![p] = IdleRun] /\ UNCHANGED memory
    ELSE run' = [run EXCEPT ![p] = [pc |-> "work", items |-> @.items \o memory]] /\ memory' = <<>>

\* The queue in memory is taken and emptied at once.
TakeMemory(p) ==
    /\ run' = [run EXCEPT ![p] = [pc |-> "work", items |-> @.items \o memory]]
    /\ memory' = <<>>

PullEnds(p) ==
    /\ run[p].pc = "pull" /\ redis = <<>>
    /\ TakeMemory(p)
    /\ UNCHANGED <<call, redis, begun, fates, stored, tries, hidden, faults>>

\* Redis fails: the run goes on with what it has, and with what is in memory.
\* An entry that was popped with the reply lost is lost.
PullFails(p) ==
    /\ run[p].pc = "pull" /\ Fault
    /\ TakeMemory(p)
    /\ \/ UNCHANGED <<redis, lost>>
       \/ /\ redis # <<>>
          /\ redis' = Tail(redis) /\ lost' = lost \cup {Head(redis).item}
    /\ UNCHANGED <<call, begun, refused, givenUp, stored, tries, hidden>>

Current(p) == Head(run[p].items)

\* What is left of s after one more failed try of its head.
Counted(s) == <<[Head(s) EXCEPT !.retryCount = @ + 1]>> \o Tail(s)

\* Mutant: an entry is given up one try late.
WorkFailsLate(p) ==
    /\ run[p].pc = "work" /\ run[p].items # <<>>
    /\ Fails(Current(p).item)
    /\ IF Current(p).retryCount < MaxRetries
       THEN /\ run' = [run EXCEPT ![p] = [pc |-> "requeue", items |-> Counted(@.items)]]
            /\ UNCHANGED givenUp
       ELSE /\ run' = [run EXCEPT ![p].items = Tail(@)]
            /\ givenUp' = givenUp \cup {Current(p).item}
    /\ UNCHANGED <<call, queue, begun, refused, lost>>

WorkSucceeds(p) ==
    /\ run[p].pc = "work" /\ run[p].items # <<>>
    /\ Succeeds(Current(p).item)
    /\ run' = [run EXCEPT ![p].items = Tail(@)]
    /\ UNCHANGED <<call, queue, begun, fates>>

WorkFails(p) ==
    /\ run[p].pc = "work" /\ run[p].items # <<>>
    /\ Fails(Current(p).item)
    /\ IF Current(p).retryCount + 1 < MaxRetries
       THEN /\ run' = [run EXCEPT ![p] = [pc |-> "requeue", items |-> Counted(@.items)]]
            /\ UNCHANGED givenUp
       ELSE /\ run' = [run EXCEPT ![p].items = Tail(@)]
            /\ givenUp' = givenUp \cup {Current(p).item}
    /\ UNCHANGED <<call, queue, begun, refused, lost>>

Requeue(p) ==
    /\ run[p].pc = "requeue"
    /\ Push(Current(p))
    /\ run' = [run EXCEPT ![p] = [pc |-> "work", items |-> Tail(@.items)]]
    /\ UNCHANGED <<call, begun, fates, stored, tries>>

RunEnds(p) ==
    /\ run[p].pc = "work" /\ run[p].items = <<>>
    /\ run' = [run EXCEPT ![p] = IdleRun]
    /\ UNCHANGED <<call, queue, begun, fates, stored, tries, hidden, faults>>

RunStep(p) ==
    \/ StartRun(p) \/ Pop(p) \/ PullEnds(p) \/ PullFails(p)
    \/ WorkSucceeds(p) \/ WorkFails(p) \/ Requeue(p) \/ RunEnds(p)

-----------------------------------------------------------------------------
\* The submissions a call, a run or the memory of the process has in hand.
InHand == {call[c].item : c \in {d \in Calls : call[d].pc # "idle"}}
          \cup (UNION {ItemsOf(run[p].items) : p \in Runs}) \cup ItemsOf(memory)

\* The process restarts: what it had in hand is gone, what is in Redis is not.
Crash ==
    /\ lost' = lost \cup InHand
    /\ call' = [c \in Calls |-> IdleCall] /\ run' = [p \in Runs |-> IdleRun]
    /\ memory' = <<>>
    /\ UNCHANGED <<redis, begun, refused, givenUp, stored, tries, hidden, faults>>

Next ==
    \/ \E c \in Calls : CallStep(c) \/ \E i \in Items : Begin(c, i)
    \/ \E p \in Runs : RunStep(p)
    \/ Crash

Spec == Init /\ [][Next]_vars

\* Calls go on, the interval fires, and a run goes on to its end.
FairSpec ==
    /\ Spec
    /\ \A c \in Calls : WF_vars(CallStep(c))
    /\ \A p \in Runs : WF_vars(RunStep(p))

-----------------------------------------------------------------------------
(***************************************************************************)
(* Properties                                                              *)
(***************************************************************************)
Waiting == InHand \cup ItemsOf(redis)

\* No submission is forgotten: one that persistSubmission was given is in the
\* database, is still on its way there, or is known to be refused, given up, or
\* lost to a restart or with a reply of Redis.
NothingForgotten ==
    \A i \in begun :
        stored[i] > 0 \/ i \in Waiting \cup refused \cup givenUp \cup lost

\* Overlapping runs never store a submission twice: more than one document takes
\* an error that hid a success.
StoredOnce == \A i \in Items : stored[i] <= 1 + hidden[i]

\* A submission is tried no more often than its call and the queue allow, plus
\* one round of the queue for each error that hid a success.
TriesBounded ==
    \A i \in Items : tries[i] <= MaxAttempts + MaxRetries * (1 + hidden[i])

\* What waits does not wait forever, however often the database fails, unless the
\* process restarts over and over: each run of the processor ends.
Settles ==
    <>[][~Crash]_vars =>
        \A i \in Items : (i \in Waiting) ~> (i \notin Waiting)

=============================================================================
