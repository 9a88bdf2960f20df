---------------------------- MODULE PlayerAccount ----------------------------
(***************************************************************************)
(* What PlayerWorkflow promises about one account, with no handlers, event *)
(* loop, mutex or Activities: every change is one atomic step.             *)
(*   - the first registration claims the name;                             *)
(*   - one level is open at a time, it is the next one of its campaign, and *)
(*     a lost single attempt is never open again;                          *)
(*   - only the open level earns points, and no debit overdraws them.      *)
(* Player.tla is shown to implement this specification.                    *)
(***************************************************************************)
EXTENDS Naturals

CONSTANTS Campaigns, MaxLevel, TotalLevels, SingleAttempt, Awards, Prices,
          FreezeCost, Hashes, ChildMayFail, NoHash, None

VARIABLES
    hash,            \* who owns the name
    balance, earned, \* spendable and lifetime points
    next, lost,      \* per campaign: the next level, a level timed out
    open             \* the open level

vars == <<hash, balance, earned, next, lost, open>>

Init ==
    /\ hash = NoHash
    /\ balance = 0 /\ earned = 0
    /\ next = [c \in Campaigns |-> 1]
    /\ lost = [c \in Campaigns |-> FALSE]
    /\ open = None

Claim ==
    /\ hash = NoHash /\ hash' \in Hashes
    /\ UNCHANGED <<balance, earned, next, lost, open>>

Open(c) ==
    /\ hash # NoHash /\ open = None
    /\ next[c] <= TotalLevels[c]
    /\ ~(c \in SingleAttempt /\ lost[c])
    /\ open' = <<c, next[c]>>
    /\ UNCHANGED <<hash, balance, earned, next, lost>>

Win(c) ==
    /\ open = <<c, next[c]>> /\ open' = None
    /\ next' = [next EXCEPT ![c] = @ + 1]
    /\ \E award \in Awards : balance' = balance + award /\ earned' = earned + award
    /\ UNCHANGED <<hash, lost>>

Lose(c) ==
    /\ open = <<c, next[c]>> /\ open' = None
    /\ lost' = [lost EXCEPT ![c] = TRUE]
    /\ UNCHANGED <<hash, balance, earned, next>>

\* A paid hint of the open level, or a streak freeze.
Debit(amount) ==
    /\ hash # NoHash
    /\ amount \in Prices => open # None \/ amount = FreezeCost
    /\ balance >= amount /\ balance' = balance - amount
    /\ UNCHANGED <<hash, earned, next, lost, open>>

\* A failed level takes the whole account with it.
Wipe ==
    /\ ChildMayFail /\ open # None
    /\ hash' = NoHash
    /\ balance' = 0 /\ earned' = 0
    /\ next' = [c \in Campaigns |-> 1]
    /\ lost' = [c \in Campaigns |-> FALSE]
    /\ open' = None

Next ==
    \/ Claim \/ Wipe
    \/ \E c \in Campaigns : Open(c) \/ Win(c) \/ Lose(c)
    \/ \E amount \in Prices \cup {FreezeCost} : Debit(amount)

Spec == Init /\ [][Next]_vars

=============================================================================
