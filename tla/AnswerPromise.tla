--------------------------- MODULE AnswerPromise ---------------------------
(***************************************************************************)
(* What answering promises to the participants of a session, whatever the  *)
(* server does inside: an answer is accepted at most once per participant  *)
(* and question, as long as the server remembers it, and the leaderboard   *)
(* never holds credit for an answer that was not accepted.  It does not    *)
(* promise that credit is kept.                                            *)
(***************************************************************************)
EXTENDS Integers

CONSTANTS Users, Questions

VARIABLES
    accepted,   \* answers accepted, per participant and question
    forgotten,  \* how often the server has forgotten about an answer
    credit      \* answers the stored leaderboard has credited

Nothing == [u \in Users |-> [q \in Questions |-> 0]]

Covers(a, b) == \A u \in Users, q \in Questions : b[u][q] <= a[u][q]

Init == accepted = Nothing /\ forgotten = Nothing /\ credit = Nothing

\* An answer is accepted; the credit of others may get lost on the way.
Accept(u, q) ==
    /\ accepted[u][q] <= forgotten[u][q]
    /\ accepted' = [accepted EXCEPT ![u][q] = @ + 1]
    /\ credit' \in [Users -> [Questions -> Nat]]
    /\ Covers(accepted', credit')
    /\ UNCHANGED forgotten

\* The server forgets that the participant has answered.
Forget(u, q) ==
    /\ forgotten' = [forgotten EXCEPT ![u][q] = @ + 1]
    /\ UNCHANGED <<accepted, credit>>

\* Another handler stores the leaderboard it has read before.
StoreAgain ==
    /\ credit' \in [Users -> [Questions -> Nat]]
    /\ Covers(accepted, credit')
    /\ UNCHANGED <<accepted, forgotten>>

Next ==
    \/ StoreAgain
    \/ \E u \in Users, q \in Questions : Accept(u, q) \/ Forget(u, q)

Spec == Init /\ [][Next]_<<accepted, forgotten, credit>>
=============================================================================
