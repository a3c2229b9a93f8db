------------------------- MODULE StorefrontProofs -------------------------
(***************************************************************************)
(* Proofs about Storefront for any number of sessions, offers and requests *)
(* at a time, and for any download limit and any number of faults.         *)
(*                                                                         *)
(* SaleInv adds to FulfilledOnce that whoever says "paid" (an event, a     *)
(* request past the check) is right.  SendInv counts the files on their    *)
(* way, so it needs that the server works on finitely many requests.       *)
(***************************************************************************)
EXTENDS Storefront, FiniteSetTheorems, TLAPS

FiniteRequests == IsFiniteSet(Request)

InSale(r) == jobs[r] # NoJob /\ jobs[r].kind \in Sale

SaleInv ==
  /\ \A e \in events : e.paid => checkout[e.session] = "paid"
  /\ \A r \in Request : InSale(r) =>
       /\ jobs[r].paid => checkout[jobs[r].session] = "paid"
       /\ jobs[r].at \in {"lookup", "commit"} => jobs[r].paid
  /\ FulfilledOnce
  /\ \A t \in Token : downloads[t] > 0 => t \in granted

(* Requests that are sending the file of token t.                          *)
Sending(t) ==
  {r \in Request : jobs[r] # NoJob /\ jobs[r].kind = "download" /\ jobs[r].token = t}

SendInv ==
  \A t \in Token :
    /\ served[t] + Cardinality(Sending(t)) <= downloads[t]
    /\ downloads[t] <= MaxDownloads

(* What a write of the state file may never do.                            *)
Final ==
  /\ \A s \in Session : Known(s) => processed'[s] = processed[s]
  /\ granted \subseteq granted'
  /\ orders \subseteq orders'
  /\ \A t \in Token : downloads[t] <= downloads'[t]

-----------------------------------------------------------------------------
(* Typing.                                                                 *)

(* A request that is a sale has the fields of a sale.                      *)
LEMMA SaleFields ==
  ASSUME TypeOK, NEW r \in Request, InSale(r)
  PROVE  jobs[r] \in [kind : {"webhook", "claim"}, session : Session, paid : BOOLEAN,
            at : {"retrieve", "check", "lookup", "commit", "link", "reply", "error"},
            offer : Offer \cup {NoOffer}, result : Outcome \cup {NoOutcome}]
  BY DEF TypeOK, InSale, Job, Sale

(* The answer of processPaidSession to a sale is again a sale.             *)
LEMMA ReturnedFields ==
  ASSUME TypeOK, NEW r \in Request, InSale(r), NEW o \in Outcome \cup {NoOutcome}
  PROVE  /\ Returned(jobs[r], o) \in Job
         /\ Returned(jobs[r], o).kind \in Sale
         /\ Returned(jobs[r], o).session = jobs[r].session
         /\ Returned(jobs[r], o).paid = jobs[r].paid
         /\ Returned(jobs[r], o).at \in {"link", "reply"}
  BY SaleFields DEF Returned, Job, Sale

LEMMA OutcomeType ==
  ASSUME NEW o \in Offer \cup {NoOffer}, NEW ready \in BOOLEAN
  PROVE  /\ OutcomeOf(o, ready) \in Outcome
         /\ OutcomeOf(o, ready).offer = o
         /\ OutcomeOf(o, ready).status = "paid" => o # NoOffer /\ o \notin Credit
  BY DEF OutcomeOf, Outcome

LEMMA InitTyped == Init => TypeOK
  BY StorefrontAssumption DEF Init, TypeOK

LEMMA StepTyped == TypeOK /\ [Next]_vars => TypeOK'
<1> SUFFICES ASSUME TypeOK, [Next]_vars PROVE TypeOK'
  OBVIOUS
<1> USE StorefrontAssumption
<1>1. ASSUME NEW s \in Session, NEW paidNow \in BOOLEAN, Complete(s, paidNow)
      PROVE  TypeOK'
  BY <1>1 DEF TypeOK, Complete, Event, file
<1>2. ASSUME NEW s \in Session, DelayedPayment(s) PROVE TypeOK'
  <2>1. [session |-> s, paid |-> TRUE] \in Event
    BY DEF Event
  <2> QED BY <1>2, <2>1 DEF TypeOK, DelayedPayment, file
<1>3. ASSUME NEW r \in Request, NEW job \in Job \cup {NoJob}, Become(r, job)
      PROVE  TypeOK'
  BY <1>3 DEF TypeOK, Become, file
<1>4. ASSUME NEW r \in Request, NEW e \in Event, Deliver(r, e) PROVE TypeOK'
  <2>1. NewSale("webhook", e.session, e.paid, "check") \in Job
    BY DEF NewSale, Job, Event
  <2> QED BY <1>3, <1>4, <2>1 DEF Deliver
<1>5. ASSUME NEW r \in Request, NEW s \in Session, Claim(r, s) PROVE TypeOK'
  <2>1. NewSale("claim", s, FALSE, "retrieve") \in Job
    BY DEF NewSale, Job
  <2> QED BY <1>3, <1>5, <2>1 DEF Claim
<1>6. ASSUME NEW r \in Request, Retrieve(r) PROVE TypeOK'
  <2>1. InSale(r)
    BY <1>6 DEF Retrieve, At, InSale, Sale
  <2>2. [jobs[r] EXCEPT !.at = "check",
           !.paid = checkout[jobs[r].session] = "paid"] \in Job
    BY <2>1, SaleFields DEF Job
  <2> QED BY <1>3, <1>6, <2>2 DEF Retrieve
<1>7. ASSUME NEW r \in Request, Check(r) PROVE TypeOK'
  <2>1. InSale(r)
    BY <1>7 DEF Check, At, InSale
  <2>2. /\ Returned(jobs[r], NoOutcome) \in Job
        /\ Returned(jobs[r], processed[jobs[r].session]) \in Job
        /\ [jobs[r] EXCEPT !.at = "lookup"] \in Job
    BY <2>1, SaleFields, ReturnedFields DEF Job, TypeOK
  <2> QED BY <1>3, <1>7, <2>2 DEF Check
<1>8. ASSUME NEW r \in Request, NEW o \in Offer \cup {NoOffer}, Lookup(r, o)
      PROVE  TypeOK'
  <2>1. InSale(r)
    BY <1>8 DEF Lookup, At, InSale
  <2>2. [jobs[r] EXCEPT !.offer = o, !.at = "commit"] \in Job
    BY <2>1, SaleFields DEF Job
  <2> QED BY <1>3, <1>8, <2>2 DEF Lookup
<1>9. ASSUME NEW r \in Request, NEW label \in {"link", "error", "reply"}, InSale(r),
             jobs' = [jobs EXCEPT ![r].at = label]
      PROVE  jobs' \in [Request -> Job \cup {NoJob}]
  <2>1. [jobs[r] EXCEPT !.at = label] \in Job
    BY <1>9, SaleFields DEF Job
  <2> QED BY <1>9, <2>1 DEF TypeOK
<1>10. ASSUME NEW r \in Request, NEW o \in Offer \cup {NoOffer}, Link(r, o)
       PROVE  TypeOK'
  <2>1. InSale(r)
    BY <1>10 DEF Link, At, InSale, Sale
  <2>2. jobs' \in [Request -> Job \cup {NoJob}]
    BY <1>9, <1>10, <2>1 DEF Link
  <2>3. links' \subseteq Token
    BY <1>10, <2>1, SaleFields DEF Link, Token, TypeOK
  <2> QED BY <1>10, <2>2, <2>3 DEF TypeOK, Link, file
<1>11. ASSUME NEW r \in Request, CallFails(r) \/ CommitFails(r) PROVE TypeOK'
  <2>1. InSale(r)
    <3>1. \E label : At(r, Sale, label)
      BY <1>11 DEF CallFails, CommitFails
    <3> QED BY <3>1 DEF At, InSale
  <2>2. jobs' \in [Request -> Job \cup {NoJob}]
    BY <1>9, <1>11, <2>1 DEF CallFails, CommitFails
  <2> QED BY <1>11, <2>2 DEF TypeOK, CallFails, CommitFails, file
<1>12. ASSUME NEW r \in Request, NEW ready \in BOOLEAN, Commit(r, ready)
       PROVE  TypeOK'
  <2> DEFINE s == jobs[r].session
             outcome == OutcomeOf(jobs[r].offer, ready)
  <2>1. InSale(r)
    BY <1>12 DEF Commit, At, InSale
  <2>2. s \in Session /\ outcome \in Outcome
    BY <2>1, SaleFields, OutcomeType
  <2>3. Save(s, outcome) /\ jobs' = [jobs EXCEPT ![r] = Returned(jobs[r], outcome)]
    BY <1>12 DEF Commit, TypeOK
  <2>4. jobs' \in [Request -> Job \cup {NoJob}]
    BY <2>1, <2>2, <2>3, ReturnedFields DEF TypeOK
  <2>5. /\ processed' \in [Session -> Outcome \cup {NoOutcome}]
        /\ granted' \subseteq Token
        /\ downloads' \in [Token -> Nat]
        /\ orders' \subseteq Session
    <3> HIDE DEF s, outcome
    <3>1. outcome.offer \in Digital => <<s, outcome.offer>> \in Token
      BY <2>2 DEF Token, Offer
    <3> QED BY <2>2, <2>3, <3>1 DEF Save, TypeOK
  <2> QED BY <1>12, <2>4, <2>5 DEF TypeOK, Commit
<1>13. ASSUME NEW r \in Request, ProcessedMeanwhile(r) PROVE TypeOK'
  <2>1. InSale(r)
    BY <1>13 DEF ProcessedMeanwhile, At, InSale
  <2>2. Returned(jobs[r], processed[jobs[r].session]) \in Job
    BY <2>1, SaleFields, ReturnedFields DEF TypeOK
  <2> QED BY <1>3, <1>13, <2>2 DEF ProcessedMeanwhile
<1>14. ASSUME NEW r \in Request, Reply(r) PROVE TypeOK'
  BY <1>14 DEF TypeOK, Reply, file
<1>15. ASSUME NEW r \in Request, Fail(r) PROVE TypeOK'
  BY <1>3, <1>15 DEF Fail
<1>16. ASSUME NEW r \in Request, NEW t \in Token, Download(r, t) PROVE TypeOK'
  BY <1>16 DEF TypeOK, Download, Job
<1>17. ASSUME NEW r \in Request, Send(r) PROVE TypeOK'
  <2>1. jobs[r].token \in Token
    BY <1>17 DEF Send, TypeOK, Job
  <2> QED BY <1>17, <2>1 DEF TypeOK, Send, file
<1>18. CASE Crash
  BY <1>18 DEF TypeOK, Crash, file
<1>19. CASE UNCHANGED vars
  BY <1>19 DEF TypeOK, vars, file
<1> QED
  BY <1>1, <1>2, <1>4, <1>5, <1>6, <1>7, <1>8, <1>10, <1>11, <1>12, <1>13, <1>14,
     <1>15, <1>16, <1>17, <1>18, <1>19 DEF Next, Step

(* Typing is invariant.                                                    *)
THEOREM StoreTypeCorrect == Spec => []TypeOK
  BY InitTyped, StepTyped, PTL DEF Spec

-----------------------------------------------------------------------------
(* Sales.                                                                  *)

(* FulfilledOnce and the rest of SaleInv only look at the variables below: *)
(* a step that leaves the file alone keeps it if no session goes back from *)
(* paid and no request claims a payment that was not made.                 *)
LEMMA SaleInvKept ==
  ASSUME TypeOK, SaleInv, UNCHANGED <<processed, granted, orders>>,
         \A s \in Session : checkout[s] = "paid" => checkout'[s] = "paid",
         \A e \in events' : e \in Event /\ (e.paid => checkout'[e.session] = "paid"),
         \A r \in Request : InSale(r)' =>
           /\ jobs'[r].paid => checkout'[jobs'[r].session] = "paid"
           /\ jobs'[r].at \in {"lookup", "commit"} => jobs'[r].paid,
         \A t \in Token : downloads'[t] > 0 => t \in granted
  PROVE  SaleInv'
<1>1. FulfilledOnce'
  BY DEF SaleInv, FulfilledOnce
<1> QED BY <1>1 DEF SaleInv

(* The same for a request that only moves on.                              *)
LEMMA BecomeKeepsSale ==
  ASSUME TypeOK, SaleInv, NEW r \in Request, NEW job \in Job \cup {NoJob}, Become(r, job),
         job # NoJob /\ job.kind \in Sale =>
           /\ job.paid => checkout[job.session] = "paid"
           /\ job.at \in {"lookup", "commit"} => job.paid
  PROVE  SaleInv'
<1>1. \A q \in Request : jobs'[q] = IF q = r THEN job ELSE jobs[q]
  BY DEF Become, TypeOK
<1>2. \A q \in Request : InSale(q)' =>
        /\ jobs'[q].paid => checkout'[jobs'[q].session] = "paid"
        /\ jobs'[q].at \in {"lookup", "commit"} => jobs'[q].paid
  BY <1>1 DEF SaleInv, InSale, Become
<1> QED BY <1>2, SaleInvKept DEF SaleInv, Become, file, TypeOK

LEMMA InitSale == Init => SaleInv
  BY StorefrontAssumption DEF Init, SaleInv, FulfilledOnce, InSale, Token

LEMMA StepSale == TypeOK /\ SaleInv /\ [Next]_vars => SaleInv'
<1> SUFFICES ASSUME TypeOK, SaleInv, [Next]_vars PROVE SaleInv'
  OBVIOUS
<1> USE StorefrontAssumption
<1>0. TypeOK'
  BY StepTyped
<1>1. ASSUME NEW s \in Session, NEW paidNow \in BOOLEAN, Complete(s, paidNow)
      PROVE  SaleInv'
  <2>1. \A x \in Session : checkout[x] = "paid" => checkout'[x] = "paid"
    BY <1>1 DEF Complete, TypeOK
  <2>2. \A e \in events' : e \in Event /\ (e.paid => checkout'[e.session] = "paid")
    BY <1>1, <2>1, <1>0 DEF Complete, TypeOK, SaleInv, Event
  <2>3. \A r \in Request : InSale(r) => jobs[r].session \in Session
    BY SaleFields
  <2> QED BY <1>1, <2>1, <2>2, <2>3, SaleInvKept DEF Complete, SaleInv, InSale, file
<1>2. ASSUME NEW s \in Session, DelayedPayment(s) PROVE SaleInv'
  <2>1. \A x \in Session : checkout[x] = "paid" => checkout'[x] = "paid"
    BY <1>2 DEF DelayedPayment, TypeOK
  <2>2. \A e \in events' : e \in Event /\ (e.paid => checkout'[e.session] = "paid")
    BY <1>2, <2>1, <1>0 DEF DelayedPayment, TypeOK, SaleInv, Event
  <2>3. \A r \in Request : InSale(r) => jobs[r].session \in Session
    BY SaleFields
  <2> QED BY <1>2, <2>1, <2>2, <2>3, SaleInvKept DEF DelayedPayment, SaleInv, InSale, file
<1>3. ASSUME NEW r \in Request, NEW e \in Event, Deliver(r, e) PROVE SaleInv'
  <2> DEFINE job == NewSale("webhook", e.session, e.paid, "check")
  <2>1. job \in Job /\ job.at = "check" /\ (job.paid => checkout[job.session] = "paid")
    BY <1>3 DEF Deliver, NewSale, Job, Event, SaleInv
  <2> QED BY <1>3, <2>1, BecomeKeepsSale DEF Deliver
<1>4. ASSUME NEW r \in Request, NEW s \in Session, Claim(r, s) PROVE SaleInv'
  <2> DEFINE job == NewSale("claim", s, FALSE, "retrieve")
  <2>1. job \in Job /\ job.at = "retrieve" /\ job.paid = FALSE
    BY DEF NewSale, Job
  <2> QED BY <1>4, <2>1, BecomeKeepsSale DEF Claim
<1>5. ASSUME NEW r \in Request, Retrieve(r) PROVE SaleInv'
  <2>1. InSale(r)
    BY <1>5 DEF Retrieve, At, InSale, Sale
  <2> DEFINE job == [jobs[r] EXCEPT !.at = "check",
                       !.paid = checkout[jobs[r].session] = "paid"]
  <2>2. /\ job \in Job /\ job.at = "check"
        /\ job.paid => checkout[job.session] = "paid"
    BY <2>1, SaleFields DEF Job
  <2> QED BY <1>5, <2>2, BecomeKeepsSale DEF Retrieve
<1>6. ASSUME NEW r \in Request, Check(r) PROVE SaleInv'
  <2>1. InSale(r)
    BY <1>6 DEF Check, At, InSale
  <2>2. PICK job \in Job :
          /\ Become(r, job)
          /\ job.session = jobs[r].session /\ job.paid = jobs[r].paid
          /\ job.at = "lookup" => job.paid
          /\ job.at # "commit"
    <3>1. CASE ~jobs[r].paid
      BY <1>6, <3>1, <2>1, ReturnedFields DEF Check
    <3>2. CASE jobs[r].paid /\ Known(jobs[r].session)
      BY <1>6, <3>2, <2>1, SaleFields, ReturnedFields DEF Check, TypeOK
    <3>3. CASE jobs[r].paid /\ ~Known(jobs[r].session)
      <4>1. [jobs[r] EXCEPT !.at = "lookup"] \in Job
        BY <2>1, SaleFields DEF Job
      <4> QED BY <1>6, <3>3, <4>1, <2>1, SaleFields DEF Check
    <3> QED BY <3>1, <3>2, <3>3, <2>1, SaleFields
  <2> QED BY <2>1, <2>2, BecomeKeepsSale DEF SaleInv
<1>7. ASSUME NEW r \in Request, NEW o \in Offer \cup {NoOffer}, Lookup(r, o)
      PROVE  SaleInv'
  <2>1. InSale(r) /\ jobs[r].at = "lookup"
    BY <1>7 DEF Lookup, At, InSale
  <2> DEFINE job == [jobs[r] EXCEPT !.offer = o, !.at = "commit"]
  <2>2. job \in Job /\ job.session = jobs[r].session /\ job.paid = jobs[r].paid
    BY <2>1, SaleFields DEF Job
  <2> QED BY <1>7, <2>1, <2>2, BecomeKeepsSale DEF Lookup, SaleInv
<1>8. ASSUME NEW r \in Request, NEW label \in {"link", "error", "reply"}, InSale(r),
             jobs' = [jobs EXCEPT ![r].at = label],
             UNCHANGED <<checkout, events, file>>
      PROVE  SaleInv'
  <2>1. \A q \in Request : InSale(q)' =>
          /\ jobs'[q].paid => checkout'[jobs'[q].session] = "paid"
          /\ jobs'[q].at \in {"lookup", "commit"} => jobs'[q].paid
    <3>1. [jobs[r] EXCEPT !.at = label].session = jobs[r].session
      BY <1>8, SaleFields
    <3>2. [jobs[r] EXCEPT !.at = label].paid = jobs[r].paid
      BY <1>8, SaleFields
    <3>3. [jobs[r] EXCEPT !.at = label].at = label
      BY <1>8, SaleFields
    <3>4. \A q \in Request : q # r => jobs'[q] = jobs[q]
      BY <1>8 DEF TypeOK
    <3>5. jobs'[r] = [jobs[r] EXCEPT !.at = label]
      BY <1>8 DEF TypeOK
    <3> QED BY <1>8, <3>1, <3>2, <3>3, <3>4, <3>5 DEF SaleInv, InSale
  <2> QED BY <1>8, <2>1, SaleInvKept DEF SaleInv, TypeOK, file
<1>9. ASSUME NEW r \in Request, NEW o \in Offer \cup {NoOffer}, Link(r, o)
      PROVE  SaleInv'
  <2>1. InSale(r)
    BY <1>9 DEF Link, At, InSale, Sale
  <2> QED BY <1>8, <1>9, <2>1 DEF Link
<1>10. ASSUME NEW r \in Request, CallFails(r) \/ CommitFails(r) PROVE SaleInv'
  <2>1. InSale(r)
    <3>1. \E label : At(r, Sale, label)
      BY <1>10 DEF CallFails, CommitFails
    <3> QED BY <3>1 DEF At, InSale
  <2> QED BY <1>8, <1>10, <2>1 DEF CallFails, CommitFails
<1>11. ASSUME NEW r \in Request, NEW ready \in BOOLEAN, Commit(r, ready)
       PROVE  SaleInv'
  <2> DEFINE s == jobs[r].session
             outcome == OutcomeOf(jobs[r].offer, ready)
             t0 == <<s, outcome.offer>>
  <2>1. InSale(r) /\ jobs[r].paid /\ checkout[s] = "paid"
    BY <1>11 DEF Commit, At, InSale, SaleInv
  <2>2. /\ s \in Session /\ outcome \in Outcome /\ outcome # NoOutcome
        /\ outcome.status = "paid" => outcome.offer \in Digital \cup Service
        /\ outcome.offer \in Service => outcome.status = "paid"
    <3>1. s \in Session /\ outcome \in Outcome
      BY <2>1, SaleFields, OutcomeType
    <3>2. /\ outcome.status = "paid" => outcome.offer \in Digital \cup Service
          /\ outcome.offer \in Service => outcome.status = "paid"
      BY <2>1, SaleFields DEF OutcomeOf, Offer
    <3> QED BY <3>1, <3>2
  <2>3. /\ Save(s, outcome)
        /\ jobs' = [jobs EXCEPT ![r] = Returned(jobs[r], outcome)]
        /\ UNCHANGED <<checkout, events>>
        /\ processed[s] = NoOutcome
    BY <1>11 DEF Commit, Known, TypeOK
  <2>4. \A q \in Request : InSale(q)' =>
          /\ jobs'[q].paid => checkout'[jobs'[q].session] = "paid"
          /\ jobs'[q].at \in {"lookup", "commit"} => jobs'[q].paid
    <3> HIDE DEF outcome
    <3>1. \A q \in Request :
            jobs'[q] = IF q = r THEN Returned(jobs[r], outcome) ELSE jobs[q]
      BY <2>3 DEF TypeOK
    <3> QED BY <2>1, <2>2, <2>3, <3>1, ReturnedFields DEF SaleInv, InSale
  <2> HIDE DEF s, outcome
  <2>5. \A o \in Offer : <<s, o>> \notin granted
    BY <2>2, <2>3 DEF SaleInv, FulfilledOnce
  <2>6. s \notin orders
    BY <2>2, <2>3 DEF SaleInv, FulfilledOnce
  <2>7. /\ processed' = [processed EXCEPT ![s] = outcome]
        /\ outcome.status = "paid" /\ outcome.offer \in Digital =>
             granted' = granted \cup {t0} /\ downloads' = [downloads EXCEPT ![t0] = 0]
        /\ ~(outcome.status = "paid" /\ outcome.offer \in Digital) =>
             granted' = granted /\ downloads' = downloads
        /\ outcome.offer \in Service => orders' = orders \cup {s}
        /\ outcome.offer \notin Service => orders' = orders
    BY <2>3 DEF Save
  <2>8. FulfilledOnce'
    <3> SUFFICES ASSUME NEW x \in Session
                 PROVE  /\ processed'[x] # NoOutcome => checkout'[x] = "paid"
                        /\ \A o \in Offer : <<x, o>> \in granted' <=>
                             /\ processed'[x] # NoOutcome
                             /\ processed'[x].status = "paid"
                             /\ o = processed'[x].offer /\ o \in Digital
                        /\ x \in orders' <=> /\ processed'[x] # NoOutcome
                                             /\ processed'[x].status = "paid"
                                             /\ processed'[x].offer \in Service
      BY DEF FulfilledOnce
    <3>1. CASE x = s
      <4>1. processed'[x] = outcome /\ outcome # NoOutcome /\ checkout'[x] = "paid"
        BY <2>1, <2>2, <2>3, <2>7, <3>1 DEF TypeOK
      <4>2. \A o \in Offer : <<x, o>> \in granted' <=>
              outcome.status = "paid" /\ o = outcome.offer /\ o \in Digital
        BY <2>5, <2>7, <3>1
      <4>3. x \in orders' <=> outcome.status = "paid" /\ outcome.offer \in Service
        BY <2>2, <2>6, <2>7, <3>1
      <4> QED BY <4>1, <4>2, <4>3
    <3>2. CASE x # s
      <4>1. processed'[x] = processed[x] /\ checkout'[x] = checkout[x]
        BY <2>3, <2>7, <3>2 DEF TypeOK
      <4>2. \A o \in Offer : <<x, o>> \in granted' <=> <<x, o>> \in granted
        BY <2>7, <3>2
      <4>3. x \in orders' <=> x \in orders
        BY <2>7, <3>2
      <4>4. /\ processed[x] # NoOutcome => checkout[x] = "paid"
            /\ \A o \in Offer : <<x, o>> \in granted <=>
                 /\ processed[x] # NoOutcome
                 /\ processed[x].status = "paid"
                 /\ o = processed[x].offer /\ o \in Digital
            /\ x \in orders <=> /\ processed[x] # NoOutcome
                                /\ processed[x].status = "paid"
                                /\ processed[x].offer \in Service
        BY DEF SaleInv, FulfilledOnce
      <4> QED BY <4>1, <4>2, <4>3, <4>4
    <3> QED BY <3>1, <3>2
  <2>9. \A t \in Token : downloads'[t] > 0 => t \in granted'
    BY <2>7 DEF SaleInv, TypeOK
  <2> QED BY <2>3, <2>4, <2>8, <2>9 DEF SaleInv
<1>12. ASSUME NEW r \in Request, ProcessedMeanwhile(r) PROVE SaleInv'
  <2>1. InSale(r)
    BY <1>12 DEF ProcessedMeanwhile, At, InSale
  <2> DEFINE job == Returned(jobs[r], processed[jobs[r].session])
  <2>2. /\ job \in Job /\ job.at \in {"link", "reply"}
        /\ job.session = jobs[r].session /\ job.paid = jobs[r].paid
    BY <2>1, SaleFields, ReturnedFields DEF TypeOK
  <2> QED BY <1>12, <2>1, <2>2, BecomeKeepsSale DEF ProcessedMeanwhile, SaleInv
<1>13. ASSUME NEW r \in Request, NEW job \in Job \cup {NoJob},
              job = NoJob \/ job.kind = "download",
              jobs' = [jobs EXCEPT ![r] = job], events' \subseteq events,
              UNCHANGED <<checkout, processed, granted, orders>>,
              \A t \in Token : downloads'[t] > 0 => t \in granted
       PROVE  SaleInv'
  <2>1. \A q \in Request : InSale(q)' => InSale(q) /\ jobs'[q] = jobs[q]
    BY <1>13 DEF TypeOK, InSale, Sale
  <2> QED BY <1>13, <2>1, SaleInvKept DEF SaleInv, TypeOK
<1>14. ASSUME NEW r \in Request, Reply(r) PROVE SaleInv'
  BY <1>13, <1>14 DEF Reply, SaleInv, file
<1>15. ASSUME NEW r \in Request, Fail(r) PROVE SaleInv'
  BY <1>13, <1>15 DEF Fail, Become, SaleInv, file
<1>16. ASSUME NEW r \in Request, NEW t \in Token, Download(r, t) PROVE SaleInv'
  <2>1. [kind |-> "download", token |-> t] \in Job
    BY DEF Job
  <2>2. \A x \in Token : downloads'[x] > 0 => x \in granted
    BY <1>16 DEF Download, SaleInv, TypeOK
  <2> QED BY <1>13, <1>16, <2>1, <2>2 DEF Download
<1>17. ASSUME NEW r \in Request, Send(r) PROVE SaleInv'
  BY <1>13, <1>17 DEF Send, SaleInv, file
<1>18. CASE Crash
  <2>1. \A q \in Request : ~InSale(q)'
    BY <1>18 DEF Crash, InSale
  <2> QED BY <1>18, <2>1, SaleInvKept DEF Crash, SaleInv, TypeOK, file
<1>19. CASE UNCHANGED vars
  BY <1>19, SaleInvKept DEF vars, file, SaleInv, TypeOK, InSale
<1> QED
  BY <1>1, <1>2, <1>3, <1>4, <1>5, <1>6, <1>7, <1>9, <1>10, <1>11, <1>12, <1>14,
     <1>15, <1>16, <1>17, <1>18, <1>19 DEF Next, Step

LEMMA SaleCorrect == Spec => [](TypeOK /\ SaleInv)
<1>1. Init => TypeOK /\ SaleInv
  BY InitTyped, InitSale
<1>2. TypeOK /\ SaleInv /\ [Next]_vars => (TypeOK /\ SaleInv)'
  BY StepTyped, StepSale
<1> QED BY <1>1, <1>2, PTL DEF Spec

(* A paid session is fulfilled once and in one form.                       *)
THEOREM StoreFulfilledOnce == Spec => []FulfilledOnce
<1>1. SaleInv => FulfilledOnce
  BY DEF SaleInv
<1> QED BY <1>1, SaleCorrect, PTL

-----------------------------------------------------------------------------
(* The state file.                                                         *)

(* What a commit does to the file besides the outcome: the counter it      *)
(* resets was never used.                                                  *)
LEMMA CommitKeeps ==
  ASSUME TypeOK, SaleInv, NEW r \in Request, NEW ready \in BOOLEAN, Commit(r, ready)
  PROVE  Final /\ downloads' = downloads
<1> DEFINE s == jobs[r].session
           outcome == OutcomeOf(jobs[r].offer, ready)
<1>1. InSale(r)
  BY DEF Commit, At, InSale
<1>2. s \in Session /\ outcome \in Outcome
  BY <1>1, SaleFields, OutcomeType
<1>3. Save(s, outcome) /\ processed[s] = NoOutcome
  BY <1>2 DEF Commit, Known
<1> HIDE DEF s, outcome
<1>4. downloads' = downloads
  <2>1. CASE outcome.status = "paid" /\ outcome.offer \in Digital
    <3>1. <<s, outcome.offer>> \in Token \ granted
      BY <1>2, <1>3, <2>1 DEF SaleInv, FulfilledOnce, Token, Offer
    <3>2. downloads[<<s, outcome.offer>>] = 0
      BY <3>1 DEF SaleInv, TypeOK
    <3> QED BY <1>3, <2>1, <3>1, <3>2 DEF Save, TypeOK
  <2>2. CASE ~(outcome.status = "paid" /\ outcome.offer \in Digital)
    BY <1>3, <2>2 DEF Save
  <2> QED BY <2>1, <2>2
<1>5. /\ \A x \in Session : Known(x) => processed'[x] = processed[x]
      /\ granted \subseteq granted' /\ orders \subseteq orders'
  BY <1>2, <1>3 DEF Save, Known, TypeOK
<1> QED BY <1>4, <1>5 DEF Final, TypeOK

LEMMA StepFinal == TypeOK /\ SaleInv /\ [Next]_vars => Final
<1> SUFFICES ASSUME TypeOK, SaleInv, [Next]_vars PROVE Final
  OBVIOUS
<1>1. ASSUME NEW r \in Request, NEW ready \in BOOLEAN, Commit(r, ready) PROVE Final
  BY <1>1, CommitKeeps
<1>2. ASSUME NEW r \in Request, NEW t \in Token, Download(r, t) PROVE Final
  BY <1>2 DEF Download, Final, TypeOK
<1>3. ASSUME UNCHANGED file PROVE Final
  BY <1>3 DEF file, Final, TypeOK
<1>4. ASSUME NEW r \in Request, NEW o \in Offer \cup {NoOffer}, Lookup(r, o) \/ Link(r, o)
      PROVE  UNCHANGED file
  BY <1>4 DEF Lookup, Link, Become
<1>5. ASSUME NEW s \in Session, NEW paidNow \in BOOLEAN,
             Complete(s, paidNow) \/ DelayedPayment(s)
      PROVE  UNCHANGED file
  BY <1>5 DEF Complete, DelayedPayment
<1>6. Crash \/ UNCHANGED vars => UNCHANGED file
  BY DEF Crash, vars, file
<1>7. CASE Next
  <2>1. ASSUME NEW r \in Request, Step(r) \/ CallFails(r) \/ CommitFails(r) PROVE Final
    <3>1. CASE \E ready \in BOOLEAN : Commit(r, ready)
      BY <1>1, <3>1
    <3>2. CASE \E o \in Offer \cup {NoOffer} : Lookup(r, o) \/ Link(r, o)
      BY <1>3, <1>4, <3>2
    <3>3. CASE Retrieve(r) \/ Check(r) \/ ProcessedMeanwhile(r) \/ Reply(r) \/ Fail(r)
                 \/ Send(r) \/ CallFails(r) \/ CommitFails(r)
      <4>1. UNCHANGED file
        BY <3>3 DEF Retrieve, Check, ProcessedMeanwhile, Reply, Fail, Send, CallFails,
                    CommitFails, Become
      <4> QED BY <4>1, <1>3
    <3> QED BY <2>1, <3>1, <3>2, <3>3 DEF Step
  <2>2. ASSUME NEW r \in Request, NEW e \in Event, Deliver(r, e) PROVE Final
    <3>1. UNCHANGED file
      BY <2>2 DEF Deliver, Become
    <3> QED BY <3>1, <1>3
  <2>3. ASSUME NEW r \in Request, NEW s \in Session, Claim(r, s) PROVE Final
    <3>1. UNCHANGED file
      BY <2>3 DEF Claim, Become
    <3> QED BY <3>1, <1>3
  <2> QED BY <1>2, <1>3, <1>5, <1>6, <1>7, <2>1, <2>2, <2>3 DEF Next
<1> QED BY <1>3, <1>6, <1>7

(* No write of the state file takes back a sale, an entitlement, an order  *)
(* or a counted download.                                                  *)
THEOREM StoreSalesAreFinal == Spec => SalesAreFinal
<1>1. TypeOK /\ SaleInv /\ [Next]_vars => [Final]_vars
  BY StepFinal
<1> QED BY <1>1, SaleCorrect, PTL DEF Spec, SalesAreFinal, Final

-----------------------------------------------------------------------------
(* Downloads.                                                              *)

LEMMA SendingFinite ==
  ASSUME IsFiniteSet(Request), NEW t
  PROVE  IsFiniteSet(Sending(t)) /\ Cardinality(Sending(t)) \in Nat
<1>1. Sending(t) \subseteq Request
  BY DEF Sending
<1> QED BY <1>1, FS_Subset, FS_CardinalityType

(* A step that sends nothing and lets no download start or grow keeps the  *)
(* count.                                                                  *)
LEMMA SendInvKept ==
  ASSUME TypeOK, SendInv, IsFiniteSet(Request), UNCHANGED <<served, downloads>>,
         \A t \in Token : Sending(t)' \subseteq Sending(t)
  PROVE  SendInv'
<1> SUFFICES ASSUME NEW t \in Token
             PROVE  /\ served'[t] + Cardinality(Sending(t)') <= downloads'[t]
                    /\ downloads'[t] <= MaxDownloads
  BY DEF SendInv
<1> DEFINE now == Sending(t)
           next == Sending(t)'
<1>1. IsFiniteSet(now) /\ Cardinality(now) \in Nat
  BY SendingFinite
<1>2. next \subseteq now
  OBVIOUS
<1> HIDE DEF now, next
<1>3. Cardinality(next) <= Cardinality(now) /\ Cardinality(next) \in Nat
  BY <1>1, <1>2, FS_Subset, FS_CardinalityType
<1>4. /\ served[t] + Cardinality(now) <= downloads[t]
      /\ downloads[t] <= MaxDownloads
  BY DEF SendInv, now
<1>5. served[t] \in Nat /\ downloads[t] \in Nat
  BY DEF TypeOK
<1>6. served'[t] + Cardinality(next) <= downloads'[t]
  BY <1>1, <1>3, <1>4, <1>5
<1> QED BY <1>4, <1>6 DEF next

(* The same for a request that is no download and becomes none.            *)
LEMMA OtherJobKeepsSending ==
  ASSUME TypeOK, SendInv, IsFiniteSet(Request), NEW r \in Request, NEW job,
         jobs' = [jobs EXCEPT ![r] = job], job = NoJob \/ job.kind # "download",
         UNCHANGED <<served, downloads>>
  PROVE  SendInv'
<1>1. \A t \in Token : Sending(t)' \subseteq Sending(t)
  BY DEF Sending, TypeOK
<1> QED BY <1>1, SendInvKept

LEMMA InitSend == FiniteRequests /\ Init => SendInv
<1> SUFFICES ASSUME Init, NEW t \in Token
             PROVE  /\ served[t] + Cardinality(Sending(t)) <= downloads[t]
                    /\ downloads[t] <= MaxDownloads
  BY DEF SendInv
<1>1. Sending(t) = {}
  BY DEF Init, Sending
<1> QED BY <1>1, FS_EmptySet, StorefrontAssumption DEF Init

LEMMA StepSend ==
  FiniteRequests /\ TypeOK /\ SaleInv /\ SendInv /\ [Next]_vars => SendInv'
<1> SUFFICES ASSUME IsFiniteSet(Request), TypeOK, SaleInv, SendInv, [Next]_vars
             PROVE  SendInv'
  BY DEF FiniteRequests
<1>1. ASSUME NEW r \in Request, NEW job, Become(r, job),
             job = NoJob \/ job.kind # "download"
      PROVE  SendInv'
  BY <1>1, OtherJobKeepsSending DEF Become, file
<1>2. ASSUME NEW r \in Request, NEW e \in Event, Deliver(r, e) PROVE SendInv'
  BY <1>1, <1>2 DEF Deliver, NewSale
<1>3. ASSUME NEW r \in Request, NEW s \in Session, Claim(r, s) PROVE SendInv'
  BY <1>1, <1>3 DEF Claim, NewSale
<1>4. ASSUME NEW r \in Request, Retrieve(r) PROVE SendInv'
  <2>1. InSale(r)
    BY <1>4 DEF Retrieve, At, InSale, Sale
  <2>2. [jobs[r] EXCEPT !.at = "check",
           !.paid = checkout[jobs[r].session] = "paid"].kind # "download"
    BY <2>1, SaleFields
  <2> QED BY <1>1, <1>4, <2>2 DEF Retrieve
<1>5. ASSUME NEW r \in Request, Check(r) PROVE SendInv'
  <2>1. InSale(r)
    BY <1>5 DEF Check, At, InSale
  <2>2. PICK job \in Job : Become(r, job) /\ job.kind # "download"
    <3>1. /\ Returned(jobs[r], NoOutcome) \in Job
          /\ Returned(jobs[r], NoOutcome).kind \in Sale
          /\ Returned(jobs[r], processed[jobs[r].session]) \in Job
          /\ Returned(jobs[r], processed[jobs[r].session]).kind \in Sale
      BY <2>1, SaleFields, ReturnedFields DEF TypeOK
    <3>2. /\ [jobs[r] EXCEPT !.at = "lookup"] \in Job
          /\ [jobs[r] EXCEPT !.at = "lookup"].kind \in Sale
      BY <2>1, SaleFields DEF Job, Sale
    <3> QED BY <1>5, <3>1, <3>2 DEF Check, Sale
  <2> QED BY <1>1, <2>2
<1>6. ASSUME NEW r \in Request, NEW o \in Offer \cup {NoOffer}, Lookup(r, o)
      PROVE  SendInv'
  <2>1. InSale(r)
    BY <1>6 DEF Lookup, At, InSale
  <2>2. [jobs[r] EXCEPT !.offer = o, !.at = "commit"].kind # "download"
    BY <2>1, SaleFields
  <2> QED BY <1>1, <1>6, <2>2 DEF Lookup
<1>7. ASSUME NEW r \in Request, NEW label, InSale(r),
             jobs' = [jobs EXCEPT ![r].at = label], UNCHANGED <<served, downloads>>
      PROVE  SendInv'
  <2>1. [jobs[r] EXCEPT !.at = label].kind # "download"
    BY <1>7, SaleFields
  <2>2. jobs' = [jobs EXCEPT ![r] = [jobs[r] EXCEPT !.at = label]]
    BY <1>7 DEF TypeOK
  <2> QED BY <1>7, <2>1, <2>2, OtherJobKeepsSending
<1>8. ASSUME NEW r \in Request, NEW o \in Offer \cup {NoOffer}, Link(r, o)
      PROVE  SendInv'
  <2>1. InSale(r)
    BY <1>8 DEF Link, At, InSale, Sale
  <2> QED BY <1>7, <1>8, <2>1 DEF Link, file
<1>9. ASSUME NEW r \in Request, CallFails(r) \/ CommitFails(r) PROVE SendInv'
  <2>1. InSale(r)
    <3>1. \E label : At(r, Sale, label)
      BY <1>9 DEF CallFails, CommitFails
    <3> QED BY <3>1 DEF At, InSale
  <2> QED BY <1>7, <1>9, <2>1 DEF CallFails, CommitFails, file
<1>10. ASSUME NEW r \in Request, NEW ready \in BOOLEAN, Commit(r, ready)
       PROVE  SendInv'
  <2> DEFINE outcome == OutcomeOf(jobs[r].offer, ready)
  <2>1. InSale(r)
    BY <1>10 DEF Commit, At, InSale
  <2>2. outcome \in Outcome
    BY <2>1, SaleFields, OutcomeType
  <2>3. jobs' = [jobs EXCEPT ![r] = Returned(jobs[r], outcome)] /\ UNCHANGED served
    BY <1>10 DEF Commit, TypeOK
  <2> HIDE DEF outcome
  <2>4. Returned(jobs[r], outcome).kind # "download"
    BY <2>1, <2>2, ReturnedFields DEF Sale
  <2>5. downloads' = downloads
    BY <1>10, CommitKeeps
  <2> QED BY <2>3, <2>4, <2>5, OtherJobKeepsSending
<1>11. ASSUME NEW r \in Request, ProcessedMeanwhile(r) PROVE SendInv'
  <2>1. InSale(r)
    BY <1>11 DEF ProcessedMeanwhile, At, InSale
  <2>2. Returned(jobs[r], processed[jobs[r].session]).kind # "download"
    BY <2>1, SaleFields, ReturnedFields DEF TypeOK, Sale
  <2> QED BY <1>1, <1>11, <2>2 DEF ProcessedMeanwhile
<1>12. ASSUME NEW r \in Request, Reply(r) PROVE SendInv'
  BY <1>12, OtherJobKeepsSending DEF Reply, file
<1>13. ASSUME NEW r \in Request, Fail(r) PROVE SendInv'
  BY <1>1, <1>13 DEF Fail
<1>14. ASSUME NEW r \in Request, NEW t \in Token, Download(r, t) PROVE SendInv'
  <2> SUFFICES ASSUME NEW x \in Token
               PROVE  /\ served'[x] + Cardinality(Sending(x)') <= downloads'[x]
                      /\ downloads'[x] <= MaxDownloads
    BY DEF SendInv
  <2>1. Sending(x)' = IF x = t THEN Sending(x) \cup {r} ELSE Sending(x)
    BY <1>14, StorefrontAssumption DEF Download, Sending, TypeOK, Job
  <2>2. /\ served[x] + Cardinality(Sending(x)) <= downloads[x]
        /\ downloads[x] <= MaxDownloads
    BY DEF SendInv
  <2>3. /\ served' = served
        /\ downloads'[x] = IF x = t THEN downloads[x] + 1 ELSE downloads[x]
        /\ downloads[t] < MaxDownloads
        /\ served[x] \in Nat /\ downloads[x] \in Nat
    BY <1>14 DEF Download, TypeOK
  <2>4. r \notin Sending(t)
    BY <1>14 DEF Download, Sending
  <2>5. IsFiniteSet(Sending(x)) /\ Cardinality(Sending(x)) \in Nat
    BY SendingFinite
  <2>6. Cardinality(Sending(x)') =
          IF x = t THEN Cardinality(Sending(x)) + 1 ELSE Cardinality(Sending(x))
    BY <2>1, <2>4, <2>5, FS_AddElement
  <2> QED BY <2>2, <2>3, <2>5, <2>6, StorefrontAssumption
<1>15. ASSUME NEW r \in Request, Send(r) PROVE SendInv'
  <2> DEFINE t == jobs[r].token
  <2> SUFFICES ASSUME NEW x \in Token
               PROVE  /\ served'[x] + Cardinality(Sending(x)') <= downloads'[x]
                      /\ downloads'[x] <= MaxDownloads
    BY DEF SendInv
  <2>1. Sending(x)' = IF x = t THEN Sending(x) \ {r} ELSE Sending(x)
    BY <1>15 DEF Send, Sending, TypeOK
  <2>2. /\ served[x] + Cardinality(Sending(x)) <= downloads[x]
        /\ downloads[x] <= MaxDownloads
    BY DEF SendInv
  <2>3. /\ downloads' = downloads
        /\ served'[x] = IF x = t THEN served[x] + 1 ELSE served[x]
        /\ served[x] \in Nat /\ downloads[x] \in Nat
    BY <1>15 DEF Send, TypeOK, file
  <2>4. r \in Sending(t)
    BY <1>15 DEF Send, Sending
  <2>5. IsFiniteSet(Sending(x)) /\ Cardinality(Sending(x)) \in Nat
    BY SendingFinite
  <2>6. Cardinality(Sending(x)') =
          IF x = t THEN Cardinality(Sending(x)) - 1 ELSE Cardinality(Sending(x))
    BY <2>1, <2>4, <2>5, FS_RemoveElement
  <2> HIDE DEF t
  <2> QED BY <2>2, <2>3, <2>5, <2>6
<1>16. CASE Crash
  <2>1. \A t \in Token : Sending(t)' = {}
    BY <1>16 DEF Crash, Sending
  <2> QED BY <1>16, <2>1, SendInvKept DEF Crash, file
<1>17. ASSUME UNCHANGED <<jobs, served, downloads>> PROVE SendInv'
  BY <1>17, SendInvKept DEF Sending
<1>18. ASSUME NEW s \in Session, NEW paidNow \in BOOLEAN,
              Complete(s, paidNow) \/ DelayedPayment(s)
       PROVE  SendInv'
  BY <1>17, <1>18 DEF Complete, DelayedPayment, file
<1>19. CASE UNCHANGED vars
  BY <1>17, <1>19 DEF vars, file
<1> QED
  BY <1>2, <1>3, <1>4, <1>5, <1>6, <1>8, <1>9, <1>10, <1>11, <1>12, <1>13, <1>14,
     <1>15, <1>16, <1>18, <1>19 DEF Next, Step

(* No more files are sent than were counted, nor beyond the limit.         *)
THEOREM StoreDownloadsBounded == ASSUME FiniteRequests PROVE Spec => []DownloadsBounded
<1> DEFINE Inv == TypeOK /\ SaleInv /\ SendInv
<1>1. Init => Inv
  BY InitTyped, InitSale, InitSend
<1>2. Inv /\ [Next]_vars => Inv'
  BY StepTyped, StepSale, StepSend
<1>3. Inv => DownloadsBounded
  <2> SUFFICES ASSUME Inv, NEW t \in Token
               PROVE  /\ served[t] <= downloads[t] /\ downloads[t] <= MaxDownloads
                      /\ downloads[t] > 0 => t \in granted
    BY DEF DownloadsBounded
  <2>1. Cardinality(Sending(t)) \in Nat
    BY SendingFinite DEF FiniteRequests
  <2>2. served[t] + Cardinality(Sending(t)) <= downloads[t] /\ downloads[t] <= MaxDownloads
    BY DEF SendInv
  <2>3. served[t] \in Nat /\ downloads[t] \in Nat
    BY DEF TypeOK
  <2>4. downloads[t] > 0 => t \in granted
    BY DEF SaleInv
  <2> QED BY <2>1, <2>2, <2>3, <2>4
<1> HIDE DEF Inv
<1> QED BY <1>1, <1>2, <1>3, PTL DEF Spec

=============================================================================
