---------------------------- MODULE BuyerClient ----------------------------
(***************************************************************************)
(* The buyer's payment client (clients/x402-buyer) against the server's    *)
(* ledger of purchases (PurchaseLedger, which Gate1B implements).  A call  *)
(* asks without payment, has a person approve the challenge, has a wallet  *)
(* sign it, and sends the request once more with the same idempotency key. *)
(* Requests and answers may be lost, the server may change its price, and  *)
(* the buyer may call again, with the same key or with another.            *)
(*                                                                         *)
(* The key the caller has in mind, the one the client puts in the header   *)
(* and gives to the wallet, and the one the server goes by need not be the *)
(* same: the client looks for it in two places only, and the server        *)
(* prefers the one in the body of the request.                             *)
(***************************************************************************)
EXTENDS PurchaseLedger, FiniteSets

CONSTANTS
  BuyerCall,   \* calls of request()
  Terms        \* amount, receiver and network of a payment requirement

VARIABLES
  required,    \* the terms the server asks now
  step,        \* step[c]: where the call is, or how it ended
  key,         \* key[c]: the client's idempotencyKey, sent in the header
  body,        \* body[c]: the idempotency_key in the body, if any
  challenge,   \* challenge[c]: the parsed challenge
  signature,   \* signature[c]: the replay key of what the wallet signed
  sent,        \* paid requests on their way: [call, key, replayKey, terms]
  approved     \* the calls and terms a person approved

buyerSide == <<step, key, body, challenge, signature, approved>>
buyerVars == <<ledgerVars, required, buyerSide, sent>>

Ended == {"not charged", "declined", "failed", "paid", "refused"}
Message == [call : BuyerCall, key : Key, replayKey : ReplayKey, terms : Terms]

BuyerTypeOK ==
  /\ phase \in [Key -> {"none", "reserved", "paid", "fulfilled"}]
  /\ payment \in [Key -> ReplayKey \cup {Nothing}]
  /\ answer \in [Key -> Answer \cup {Nothing}]
  /\ used \subseteq Nonce
  /\ required \in Terms
  /\ step \in [BuyerCall -> {"new", "asked", "approve", "sign", "sent"} \cup Ended]
  /\ key \in [BuyerCall -> Key \cup {Nothing}]
  /\ body \in [BuyerCall -> Key \cup {Nothing}]
  /\ challenge \in [BuyerCall -> Terms \cup {Nothing}]
  /\ signature \in [BuyerCall -> ReplayKey \cup {Nothing}]
  /\ sent \subseteq Message
  /\ approved \subseteq BuyerCall \X Terms

BuyerInit ==
  /\ LedgerInit
  /\ required \in Terms
  /\ step = [c \in BuyerCall |-> "new"]
  /\ key = [c \in BuyerCall |-> Nothing]
  /\ body = [c \in BuyerCall |-> Nothing]
  /\ challenge = [c \in BuyerCall |-> Nothing]
  /\ signature = [c \in BuyerCall |-> Nothing]
  /\ sent = {}
  /\ approved = {}

Move(c, from, to) == step[c] = from /\ step' = [step EXCEPT ![c] = to]

-----------------------------------------------------------------------------
(* request().                                                              *)

(* The key of the header.  One given as the option idempotencyKey, or as   *)
(* the property "Idempotency-Key" of a plain headers object, is found.     *)
(* One given in a Headers object, which requestJson makes of any headers,  *)
(* or spelled in another case, is not, and a fresh one replaces it.        *)
Place == {"option", "Headers", "nowhere"}
idempotencyKey(where, given, fresh) == IF where = "option" THEN given ELSE fresh

Fresh(k) == \A c \in BuyerCall : k \notin {key[c], body[c]}

Request(c, where, given, inBody) ==
  /\ Move(c, "new", "asked")
  /\ \E fresh \in Key :
       /\ Fresh(fresh) /\ fresh # inBody
       /\ key' = [key EXCEPT ![c] = idempotencyKey(where, given, fresh)]
  /\ body' = [body EXCEPT ![c] = inBody]
  /\ UNCHANGED <<ledgerVars, required, challenge, signature, sent,
                 approved>>

(* The key the server goes by, of those in the body and in the header.     *)
keySeen(inBody, inHeader) == IF inBody # Nothing THEN inBody ELSE inHeader
serverKey(c) == keySeen(body[c], key[c])

(* Any first answer but 402 is returned as it is.                          *)
NotCharged(c) ==
  /\ Move(c, "asked", "not charged")
  /\ UNCHANGED <<ledgerVars, required, key, body, challenge, signature, sent,
                 approved>>

(* 402 with a valid challenge, in the header or in the body.               *)
Challenged(c) ==
  /\ Move(c, "asked", "approve")
  /\ challenge' = [challenge EXCEPT ![c] = required]
  /\ UNCHANGED <<ledgerVars, required, key, body, signature, sent,
                 approved>>

Decline(c) ==
  /\ Move(c, "approve", "declined")
  /\ UNCHANGED <<ledgerVars, required, key, body, challenge, signature, sent,
                 approved>>

Approve(c) ==
  /\ Move(c, "approve", "sign")
  /\ approved' = approved \cup {<<c, challenge[c]>>}
  /\ UNCHANGED <<ledgerVars, required, key, body, challenge, signature, sent>>

(* 402 with a challenge that cannot be decoded or is outside the policy.   *)
BadChallenge(c) ==
  /\ Move(c, "asked", "failed")
  /\ UNCHANGED <<ledgerVars, required, key, body, challenge, signature, sent,
                 approved>>

(* Before anything is signed: no answer, no approval, a wallet on another  *)
(* chain, no signer, no signature.                                         *)
Fail(c) ==
  /\ step[c] \in {"asked", "approve", "sign"}
  /\ step' = [step EXCEPT ![c] = "failed"]
  /\ UNCHANGED <<ledgerVars, required, key, body, challenge, signature, sent,
                 approved>>

(* A wallet signs a fresh authorization; it is given the key of the header *)
(* and the address, not the body, so it may also return the one it signed  *)
(* for the same key and terms.                                             *)
MaySign(c, n) ==
  \A d \in BuyerCall :
    signature[d] # Nothing /\ NonceOf[signature[d]] = NonceOf[n]
      => key[d] = key[c] /\ challenge[d] = challenge[c]

Send(c, k, n) ==
  sent' = sent \cup
    {[call |-> c, key |-> k, replayKey |-> n, terms |-> challenge[c]]}

SignAndSend_OtherKey(c, n) ==
  /\ Move(c, "sign", "sent")
  /\ MaySign(c, n)
  /\ signature' = [signature EXCEPT ![c] = n]
  /\ \E k \in Key : Send(c, keySeen(body[c], k), n)
  /\ UNCHANGED <<ledgerVars, required, key, body, challenge, approved>>

(* The signature goes out at once, with the header and the body of the     *)
(* first request.                                                          *)
SignAndSend(c, n) ==
  /\ Move(c, "sign", "sent")
  /\ MaySign(c, n)
  /\ signature' = [signature EXCEPT ![c] = n]
  /\ Send(c, serverKey(c), n)
  /\ UNCHANGED <<ledgerVars, required, key, body, challenge, approved>>

Delivered(c) == \A m \in sent : m.call # c

(* The second answer.  Success can only be a fulfilled purchase; a new     *)
(* challenge or any other status is an error, and nothing is tried again.  *)
Paid(c) ==
  /\ Move(c, "sent", "paid")
  /\ Delivered(c)
  /\ phase[serverKey(c)] = "fulfilled" /\ payment[serverKey(c)] = signature[c]
  /\ UNCHANGED <<ledgerVars, required, key, body, challenge, signature, sent,
                 approved>>

(* Also when the answer, or the request itself, is lost.                   *)
Refused(c) ==
  /\ Move(c, "sent", "refused")
  /\ UNCHANGED <<ledgerVars, required, key, body, challenge, signature, sent,
                 approved>>

-----------------------------------------------------------------------------
(* The server and the chain.                                               *)

(* A paid request arrives, or is lost.  Terms the server does not ask are  *)
(* refused; a purchase that has the key or the replay key is kept.         *)
Receive(m) ==
  /\ sent' = sent \ {m}
  /\ \/ m.terms = required /\ Reserve(m.key, m.replayKey)
     \/ UNCHANGED ledgerVars
  /\ UNCHANGED <<required, buyerSide>>

Serve(k) ==
  /\ Pay(k) \/ \E a \in Answer : Fulfil(k, a)
  /\ UNCHANGED <<required, buyerSide, sent>>

Transfer(n) ==
  /\ \E k \in Key : payment[k] # Nothing /\ NonceOf[payment[k]] = n
  /\ Use(n)
  /\ UNCHANGED <<required, buyerSide, sent>>

Reprice ==
  /\ required' \in Terms
  /\ UNCHANGED <<ledgerVars, buyerSide, sent>>

BuyerNext ==
  \/ \E c \in BuyerCall :
       \/ \E where \in Place, given \in Key, inBody \in Key \cup {Nothing} :
            Request(c, where, given, inBody)
       \/ NotCharged(c) \/ Challenged(c) \/ BadChallenge(c)
       \/ Decline(c) \/ Approve(c) \/ Fail(c)
       \/ \E n \in ReplayKey : SignAndSend(c, n)
       \/ Paid(c) \/ Refused(c)
  \/ \E m \in sent : Receive(m)
  \/ \E k \in Key : Serve(k)
  \/ \E n \in Nonce : Transfer(n)
  \/ Reprice

BuyerSpec == BuyerInit /\ [][BuyerNext]_buyerVars

-----------------------------------------------------------------------------
(* The buyer's calls under one key of the header all reach the server      *)
(* under one key: so it is unless the caller repeats a key there with      *)
(* different keys in the body.                                             *)
OneKey(c) == \A d \in BuyerCall : key[d] = key[c] => serverKey(d) = serverKey(c)

(* A buyer pays what was approved.  Whatever is lost, repriced or called   *)
(* again: an authorization that was used was signed after a person         *)
(* approved those terms in a call, and pays the purchase under the key by  *)
(* which the server saw that call, so that there is at most one charge for *)
(* each such key; calls that the server sees under one key are charged at  *)
(* most once between them; a call that was declined signed nothing; and    *)
(* one that reports payment has an answered purchase behind it.  Nothing   *)
(* of the kind holds of the key the caller gave: one that the client does  *)
(* not find is replaced, and a call repeated with it is another purchase.  *)
PaidAsApproved ==
  /\ \A n \in used : \E c \in BuyerCall :
       /\ signature[c] # Nothing /\ NonceOf[signature[c]] = n
       /\ payment[serverKey(c)] = signature[c]
       /\ <<c, challenge[c]>> \in approved
  /\ \A c, d \in BuyerCall :
       /\ Nothing \notin {signature[c], signature[d]}
       /\ {NonceOf[signature[c]], NonceOf[signature[d]]} \subseteq used
       /\ serverKey(c) = serverKey(d) /\ OneKey(c) /\ OneKey(d)
       => NonceOf[signature[c]] = NonceOf[signature[d]]
  /\ \A c \in BuyerCall :
       /\ step[c] \in {"not charged", "declined", "failed"} =>
            signature[c] = Nothing
       /\ step[c] = "paid" => /\ NonceOf[signature[c]] \in used
                              /\ answer[serverKey(c)] # Nothing

=============================================================================
