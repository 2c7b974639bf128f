------------------------------- MODULE Ledger -------------------------------
(***************************************************************************)
(* What the bank of myBank promises about money: every transaction of an   *)
(* ATM (ATM.cpp:143-322) takes effect at once, or not at all, and a        *)
(* commission that leaves an account is carried to the bank's own account. *)
(* Bank.tla implements it as long as no two threads update one balance at  *)
(* the same time.                                                          *)
(***************************************************************************)
EXTENDS Naturals

CONSTANTS
    AccountId,
    Amount        \* the sums of money an ATM line can name

VARIABLES
    balance,      \* the open accounts, each with its money
    transit,      \* commission taken and not yet credited
    vault         \* the bank's own account (_back_account)

vars == <<balance, transit, vault>>

TypeOK ==
    /\ DOMAIN balance \subseteq AccountId
    /\ \A id \in DOMAIN balance : balance[id] \in Nat
    /\ transit \in Nat
    /\ vault \in Nat

Init ==
    /\ balance = [id \in {} |-> 0]
    /\ transit = 0
    /\ vault = 0

Open(id, amount) ==
    /\ id \notin DOMAIN balance
    /\ balance' = [other \in DOMAIN balance \cup {id} |->
                     IF other = id THEN amount ELSE balance[other]]
    /\ UNCHANGED <<transit, vault>>

Close(id) ==
    /\ balance' = [other \in DOMAIN balance \ {id} |-> balance[other]]
    /\ UNCHANGED <<transit, vault>>

Deposit(id, amount) ==
    /\ balance' = [balance EXCEPT ![id] = @ + amount]
    /\ UNCHANGED <<transit, vault>>

Withdraw(id, amount) ==
    /\ amount <= balance[id]
    /\ balance' = [balance EXCEPT ![id] = @ - amount]
    /\ UNCHANGED <<transit, vault>>

Transfer(from, to, amount) ==
    /\ from # to
    /\ amount <= balance[from]
    /\ balance' = [balance EXCEPT ![from] = @ - amount, ![to] = @ + amount]
    /\ UNCHANGED <<transit, vault>>

Commission(id, amount) ==
    /\ amount <= balance[id]
    /\ balance' = [balance EXCEPT ![id] = @ - amount]
    /\ transit' = transit + amount
    /\ UNCHANGED vault

Credit ==
    /\ vault' = vault + transit
    /\ transit' = 0
    /\ UNCHANGED balance

Next ==
    \/ \E amount \in Amount :
         \/ \E id \in AccountId : Open(id, amount)
         \/ \E id \in DOMAIN balance : Deposit(id, amount) \/ Withdraw(id, amount)
         \/ \E from, to \in DOMAIN balance : Transfer(from, to, amount)
    \/ \E id \in DOMAIN balance : Close(id)
    \/ \E id \in DOMAIN balance :
         \E amount \in 0 .. balance[id] : Commission(id, amount)
    \/ Credit

Spec == Init /\ [][Next]_vars
=============================================================================
