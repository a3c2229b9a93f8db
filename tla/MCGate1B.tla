------------------------------ MODULE MCGate1B ------------------------------
(***************************************************************************)
(* Values for model checking Gate1B: how each payment spells its nonce,    *)
(* and the symmetries of processes, keys and payments.                     *)
(***************************************************************************)
EXTENDS Gate1B, TLC

CONSTANTS p1, p2, k1, k2, pay1, pay2, pay3, rk1, rk2, n1, in1

(* One replay key for all payments; or a second one for pay3, which is the *)
(* authorization of the others with its nonce spelled otherwise.           *)
OneSpelling == [pay \in Payment |-> rk1]
TwoSpellings == [pay \in Payment |-> IF pay = pay3 THEN rk2 ELSE rk1]
OneAuthorization == [key \in ReplayKey |-> n1]

ProcKeySymmetry ==
  {f @@ g : f \in Permutations(Proc), g \in Permutations(Key)}

(* Payments with one replay key are exchanged.                             *)
PaymentSymmetry ==
  {f @@ g : f \in ProcKeySymmetry, g \in Permutations(Payment \ {pay3})}
=============================================================================
