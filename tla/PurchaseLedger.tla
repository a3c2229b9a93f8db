--------------------------- MODULE PurchaseLedger ---------------------------
(***************************************************************************)
(* What a buyer may rely on, without locks, files, processes or crashes: a *)
(* ledger of purchases.  A purchase reserves one replay key that no other  *)
(* purchase has, becomes paid only by the authorization it spells being    *)
(* used on chain, and is answered once, after it is paid.  Nothing ever    *)
(* goes back and no answer changes.  Gate1B implements this ledger.        *)
(*                                                                         *)
(* A replay key is the nonce of an authorization as the buyer spelled it.  *)
(* The ledger does not promise that an authorization has one spelling: two *)
(* purchases may be paid by one authorization under two replay keys.       *)
(***************************************************************************)
CONSTANTS
  Key,       \* idempotency keys
  ReplayKey, \* spellings of payment authorizations
  Nonce,     \* payment authorizations
  NonceOf,   \* NonceOf[n]: the authorization that replay key n spells
  Answer,    \* results a purchase may be answered with
  Nothing    \* no authorization, no answer yet

ASSUME LedgerAssumption ==
  /\ NonceOf \in [ReplayKey -> Nonce]
  /\ Nothing \notin ReplayKey \cup Answer

VARIABLES
  phase,     \* phase[k]: how far the purchase of key k is
  payment,   \* payment[k]: the replay key reserved for it
  answer,    \* answer[k]: its answer
  used       \* the authorizations used on chain

ledgerVars == <<phase, payment, answer, used>>

LedgerInit ==
  /\ phase = [k \in Key |-> "none"]
  /\ payment = [k \in Key |-> Nothing]
  /\ answer = [k \in Key |-> Nothing]
  /\ used = {}

Reserve(k, n) ==
  /\ phase[k] = "none"
  /\ \A j \in Key : payment[j] # n
  /\ phase' = [phase EXCEPT ![k] = "reserved"]
  /\ payment' = [payment EXCEPT ![k] = n]
  /\ UNCHANGED <<answer, used>>

Pay(k) ==
  /\ phase[k] = "reserved"
  /\ NonceOf[payment[k]] \in used
  /\ phase' = [phase EXCEPT ![k] = "paid"]
  /\ UNCHANGED <<payment, answer, used>>

Fulfil(k, a) ==
  /\ phase[k] = "paid"
  /\ phase' = [phase EXCEPT ![k] = "fulfilled"]
  /\ answer' = [answer EXCEPT ![k] = a]
  /\ UNCHANGED <<payment, used>>

Use(n) ==
  /\ n \notin used
  /\ used' = used \cup {n}
  /\ UNCHANGED <<phase, payment, answer>>

LedgerNext ==
  \/ \E k \in Key :
       \/ \E n \in ReplayKey : Reserve(k, n)
       \/ Pay(k)
       \/ \E a \in Answer : Fulfil(k, a)
  \/ \E n \in Nonce : Use(n)

LedgerSpec == LedgerInit /\ [][LedgerNext]_ledgerVars

=============================================================================
