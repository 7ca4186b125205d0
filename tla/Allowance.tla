------------------------------- MODULE Allowance -------------------------------
(***************************************************************************)
(* What an append-only ledger with a cap promises, whoever writes to it:   *)
(* grants are given one at a time, none is taken back, and no account ever *)
(* has more of them than its cap.                                          *)
(***************************************************************************)
EXTENDS Naturals

CONSTANTS Account, Cap

VARIABLE granted

Grant(a) ==
    /\ granted[a] < Cap[a]
    /\ granted' = [granted EXCEPT ![a] = @ + 1]

Init ==
    /\ granted \in [Account -> Nat]
    /\ \A a \in Account : granted[a] <= Cap[a]
Next == \E a \in Account : Grant(a)
Spec == Init /\ [][Next]_granted
=============================================================================
