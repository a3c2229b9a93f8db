---------------------------- MODULE McpSessions ----------------------------
(***************************************************************************)
(* MCP sessions and their principals (server-runtime.mjs, POST, GET and    *)
(* DELETE /mcp; marketplace-tools.mjs).  A session is bound at initialize  *)
(* to the credit account and to the marketplace credential of the request, *)
(* kept in two maps beside the map of transports; its tools act for the    *)
(* credentials of the initialize request, resolved again at each call.     *)
(*                                                                         *)
(* Every request carries one bearer token or none.  Each action is the     *)
(* code between two awaits; the operator edits both credential files       *)
(* between any two of them.                                                *)
(***************************************************************************)
EXTENDS Naturals

CONSTANTS
  Token,        \* bearer tokens
  CreditToken,  \* those of the form ck_..., which may name a credit account
  Session,      \* generated session ids, never used twice
  Call,         \* tool calls of a behaviour
  Nobody,       \* no token; the principal null
  Unset,        \* the map has no such key
  MaxRestart    \* bound: restarts of the server

ASSUME SessionAssumption ==
  /\ CreditToken \subseteq Token /\ {Nobody, Unset} \cap Token = {}
  /\ Nobody # Unset /\ MaxRestart \in Nat

VARIABLES
  listed,      \* tokens the marketplace file lists, enabled and not expired
  accounts,    \* credit tokens with an account in the state file
  opener,      \* opener[s]: the token of the initialize request
  authContext, \* authContext[s]: the credit principal its tools act for
  transports,  \* sessions with a transport
  sessionPrincipals, marketplaceSessionPrincipals,  \* the two maps
  stage,       \* stage[s]: "unused", "connecting" or "initialized"
  calls,       \* calls[c]: a tool call and, once it ran, for whom
  restarts

sessionMaps == <<transports, sessionPrincipals, marketplaceSessionPrincipals>>
serverOf == <<opener, authContext, stage>>
credentials == <<listed, accounts>>
sessionVars == <<credentials, serverOf, sessionMaps, calls, restarts>>

Principal == Token \cup {Nobody}
ToolCall ==
  [session : Session, caller : Principal, bound : Principal, ran : BOOLEAN,
   market : Principal, credit : Principal]
NoCall == [session |-> Unset]

SessionTypeOK ==
  /\ listed \subseteq Token /\ accounts \subseteq CreditToken
  /\ opener \in [Session -> Principal]
  /\ authContext \in [Session -> Principal]
  /\ transports \subseteq Session
  /\ sessionPrincipals \in [Session -> Principal \cup {Unset}]
  /\ marketplaceSessionPrincipals \in [Session -> Principal \cup {Unset}]
  /\ stage \in [Session -> {"unused", "connecting", "initialized"}]
  /\ calls \in [Call -> ToolCall \cup {NoCall}]
  /\ restarts \in 0 .. MaxRestart

SessionInit ==
  /\ listed \in SUBSET Token /\ accounts \in SUBSET CreditToken
  /\ opener = [s \in Session |-> Nobody]
  /\ authContext = [s \in Session |-> Nobody]
  /\ transports = {}
  /\ sessionPrincipals = [s \in Session |-> Unset]
  /\ marketplaceSessionPrincipals = [s \in Session |-> Unset]
  /\ stage = [s \in Session |-> "unused"]
  /\ calls = [c \in Call |-> NoCall]
  /\ restarts = 0

-----------------------------------------------------------------------------
(* Principals.                                                             *)

marketplacePrincipal(token) == IF token \in listed THEN token ELSE Nobody
resolveCreditPrincipal(token) == IF token \in accounts THEN token ELSE Nobody

sessionAuthorizationMatches_AnonymousFirst(s, token) ==
  /\ sessionPrincipals[s] # Unset
  /\ \/ sessionPrincipals[s] = Nobody
     \/ /\ marketplaceSessionPrincipals[s] = marketplacePrincipal(token)
        /\ resolveCreditPrincipal(token) = sessionPrincipals[s]

(* Anonymous sessions stay anonymous; others need both principals.         *)
sessionAuthorizationMatches(s, token) ==
  /\ sessionPrincipals[s] # Unset
  /\ marketplaceSessionPrincipals[s] = marketplacePrincipal(token)
  /\ \/ sessionPrincipals[s] = Nobody
     \/ resolveCreditPrincipal(token) = sessionPrincipals[s]

-----------------------------------------------------------------------------
(* Initialize.                                                             *)

(* The credit principal is resolved and the server of the session is made. *)
Initialize(s, token) ==
  /\ stage[s] = "unused"
  /\ opener' = [opener EXCEPT ![s] = token]
  /\ authContext' = [authContext EXCEPT ![s] = resolveCreditPrincipal(token)]
  /\ stage' = [stage EXCEPT ![s] = "connecting"]
  /\ UNCHANGED <<credentials, sessionMaps, calls, restarts>>

(* onsessioninitialized, after the awaits: the marketplace principal is    *)
(* resolved again.  If its file cannot be read the function throws with    *)
(* the transport already registered and neither principal set.             *)
SessionInitialized(s) ==
  /\ stage[s] = "connecting"
  /\ stage' = [stage EXCEPT ![s] = "initialized"]
  /\ transports' = transports \cup {s}
  /\ \/ /\ marketplaceSessionPrincipals' =
             [marketplaceSessionPrincipals EXCEPT
                ![s] = marketplacePrincipal(opener[s])]
        /\ sessionPrincipals' = [sessionPrincipals EXCEPT ![s] = authContext[s]]
     \/ UNCHANGED <<sessionPrincipals, marketplaceSessionPrincipals>>
  /\ UNCHANGED <<credentials, opener, authContext, calls, restarts>>

-----------------------------------------------------------------------------
(* Requests of a session.                                                  *)

(* POST or GET with a session id: the request must match the session.  The *)
(* call keeps, for the properties, what the session was bound to then.     *)
CallTool(c, s, token) ==
  /\ calls[c] = NoCall
  /\ s \in transports /\ sessionAuthorizationMatches(s, token)
  /\ calls' = [calls EXCEPT ![c] =
       [session |-> s, caller |-> token,
        bound |-> marketplaceSessionPrincipals[s], ran |-> FALSE,
        market |-> Nobody, credit |-> Nobody]]
  /\ UNCHANGED <<credentials, serverOf, sessionMaps, restarts>>

(* Whom the tools of a session act for.  Every marketplace tool, public or *)
(* not, is handed the credential of the initialize request, if it is valid *)
(* now (which tools a session has was decided by its role at initialize    *)
(* and is left out); legacy redemption acts for the account of the         *)
(* session, if it still exists.                                            *)
marketActor(s) == marketplacePrincipal(opener[s])
creditActor(s) == IF authContext[s] \in accounts THEN authContext[s] ELSE Nobody

(* The tool runs after the dispatch.                                       *)
RunTool(c) ==
  LET s == calls[c].session IN
  /\ calls[c] # NoCall /\ ~calls[c].ran
  /\ calls' = [calls EXCEPT
       ![c].ran = TRUE,
       ![c].market = marketActor(s),
       ![c].credit = creditActor(s)]
  /\ UNCHANGED <<credentials, serverOf, sessionMaps, restarts>>

Forget(S) ==
  /\ transports' = transports \ S
  /\ sessionPrincipals' =
       [s \in Session |-> IF s \in S THEN Unset ELSE sessionPrincipals[s]]
  /\ marketplaceSessionPrincipals' =
       [s \in Session |-> IF s \in S THEN Unset
                          ELSE marketplaceSessionPrincipals[s]]

(* DELETE closes the transport, whose onclose is forgetMcpSession; a call  *)
(* in progress goes on.                                                    *)
Delete(s, token) ==
  /\ s \in transports /\ sessionAuthorizationMatches(s, token)
  /\ Forget({s})
  /\ UNCHANGED <<credentials, serverOf, calls, restarts>>

(* The maps are in memory only; calls in progress are lost.                *)
Restart ==
  /\ restarts < MaxRestart
  /\ restarts' = restarts + 1
  /\ Forget(Session)
  /\ stage' = [s \in Session |-> IF stage[s] = "unused" THEN "unused"
                                 ELSE "initialized"]
  /\ calls' = [c \in Call |-> IF calls[c] # NoCall /\ ~calls[c].ran
                              THEN NoCall ELSE calls[c]]
  /\ UNCHANGED <<credentials, opener, authContext>>

-----------------------------------------------------------------------------
(* The operator and the clock.                                             *)

(* Provisioned, enabled again or renewed, at any time.                     *)
Grant(token) ==
  /\ token \notin listed
  /\ listed' = listed \cup {token}
  /\ UNCHANGED <<accounts, serverOf, sessionMaps, calls, restarts>>

(* Removed, disabled or expired.                                           *)
Revoke(token) ==
  /\ token \in listed
  /\ listed' = listed \ {token}
  /\ UNCHANGED <<accounts, serverOf, sessionMaps, calls, restarts>>

EditAccounts ==
  /\ accounts' \in SUBSET CreditToken
  /\ UNCHANGED <<listed, serverOf, sessionMaps, calls, restarts>>

SessionNext ==
  \/ \E s \in Session : SessionInitialized(s)
  \/ \E s \in Session, token \in Principal :
       \/ Initialize(s, token) \/ Delete(s, token)
       \/ \E c \in Call : CallTool(c, s, token)
  \/ \E c \in Call : RunTool(c)
  \/ \E token \in Token : Grant(token) \/ Revoke(token)
  \/ Restart \/ EditAccounts

SessionSpec == SessionInit /\ [][SessionNext]_sessionVars

-----------------------------------------------------------------------------
(* Sessions keep their principals, whatever was granted, revoked, closed   *)
(* or restarted between the steps.  A session bound to a marketplace       *)
(* credential admits only who presents it, and its tools then act for that *)
(* credential or for nobody; a credit account is used only for a caller    *)
(* who presented its token; and a session whose initialization failed half *)
(* way, or that was closed, admits nobody (docs/MCP_ARCHITECTURE.md:41-43: *)
(* sessions are bound to the identity resolved at initialization).  Of a   *)
(* session whose opener presented a credential that was not valid then     *)
(* nothing is said but the credit: it is bound to nobody, any caller       *)
(* without a valid credential matches it, and if the opener's credential   *)
(* becomes valid later the tools act for it.                               *)
SessionsKeepPrincipals ==
  /\ \A c \in Call :
       calls[c] # NoCall =>
         /\ calls[c].bound \in {Nobody, calls[c].caller}
         /\ calls[c].bound # Nobody =>
              calls[c].market \in {Nobody, calls[c].bound}
         /\ calls[c].credit \in {Nobody, calls[c].caller}
  /\ \A s \in Session, token \in Principal :
       sessionAuthorizationMatches(s, token) =>
         /\ s \in transports
         /\ authContext[s] \in {Nobody, token}

=============================================================================
