--------------------------- MODULE PaymentPromise ---------------------------
(***************************************************************************)
(* What the payment service promises to the buyers of paid quizzes: an     *)
(* order gives access to its quiz only after the gateway has the money,    *)
(* and access once given is withdrawn only when the money is returned.     *)
(* It does not promise that access comes, nor that it ends with a refund.  *)
(***************************************************************************)
CONSTANT Orders

VARIABLES
    access,   \* whether the order gives access to the quiz
    money     \* what the gateway has: none, paid, or returned

Init == /\ access = [o \in Orders |-> FALSE]
        /\ money = [o \in Orders |-> "none"]

\* The gateway takes the money, and later it may return it.
Take(o) == /\ money[o] = "none" /\ money' = [money EXCEPT ![o] = "paid"]
           /\ UNCHANGED access

GiveBack(o) == /\ money[o] = "paid" /\ money' = [money EXCEPT ![o] = "returned"]
               /\ UNCHANGED access

Grant(o) == /\ money[o] # "none" /\ access' = [access EXCEPT ![o] = TRUE]
            /\ UNCHANGED money

Withdraw(o) == /\ money[o] = "returned" /\ access' = [access EXCEPT ![o] = FALSE]
               /\ UNCHANGED money

Next == \E o \in Orders : Take(o) \/ GiveBack(o) \/ Grant(o) \/ Withdraw(o)

Spec == Init /\ [][Next]_<<access, money>>
=============================================================================
