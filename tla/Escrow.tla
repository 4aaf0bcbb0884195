------------------------------- MODULE Escrow -------------------------------
(***************************************************************************)
(* What a cross-zone transfer promises its two parties, without seals,     *)
(* proofs, committees, clocks or batches: the amount leaves the sender     *)
(* once, is held under an id that is never used again, and then goes       *)
(* either to the recipient or back to the sender, once and whole.          *)
(* CrossZone implements this specification.                                *)
(***************************************************************************)
EXTENDS Integers

CONSTANTS Identities, Transfers, Amounts, Supply,
          Total(_)        \* the sum of a map of amounts

VARIABLES
    balance,          \* what every identity may spend
    deposit,          \* what is held under every id
    used              \* ids that were ever used

esVars == <<balance, deposit, used>>

NoDeposit == [amount |-> 0]
Deposits == [from : Identities, to : Identities, amount : Amounts]
HeldDeposits == {t \in Transfers : deposit[t] # NoDeposit}

\* The sum of the deposits of T, and the part that came from a.
DepositSum(T) == Total([t \in T |-> deposit[t].amount])
DepositSumOf(a, T) == DepositSum({t \in T : deposit[t].from = a})

ESInit ==
    /\ balance \in [Identities -> 0..Supply]
    /\ Total(balance) = Supply
    /\ deposit = [t \in Transfers |-> NoDeposit]
    /\ used = {}

Deposit(t, from, to, amount) ==
    /\ t \notin used
    /\ 0 < amount /\ amount <= balance[from]
    /\ balance' = [balance EXCEPT ![from] = @ - amount]
    /\ deposit' = [deposit EXCEPT ![t] = [from |-> from, to |-> to, amount |-> amount]]
    /\ used' = used \cup {t}

Pay(t) ==
    /\ t \in HeldDeposits
    /\ balance' = [balance EXCEPT ![deposit[t].to] = @ + deposit[t].amount]
    /\ deposit' = [deposit EXCEPT ![t] = NoDeposit]
    /\ UNCHANGED used

Return(T) ==
    /\ T # {} /\ T \subseteq HeldDeposits
    /\ balance' = [a \in Identities |-> balance[a] + DepositSumOf(a, T)]
    /\ deposit' = [t \in Transfers |-> IF t \in T THEN NoDeposit ELSE deposit[t]]
    /\ UNCHANGED used

ESNext ==
    \/ \E t \in Transfers, from, to \in Identities, amount \in Amounts :
          Deposit(t, from, to, amount)
    \/ \E t \in Transfers : Pay(t)
    \/ \E T \in SUBSET Transfers : Return(T)

ESSpec == ESInit /\ [][ESNext]_esVars
=============================================================================
