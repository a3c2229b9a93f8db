------------------------------ MODULE MCServer ------------------------------
(***************************************************************************)
(* The parts of the server that are checked together: the revenue funnel   *)
(* and the MCP sessions.  They share no state, so a behaviour is one of    *)
(* the one or of the other; `part` says which.                             *)
(***************************************************************************)
EXTENDS RevenueFunnel, McpSessions, TLC

CONSTANTS rk1, rk2, n1, n2

(* Two authorizations, each spelled in one way; one that is spelled in two *)
(* ways is checked with the engine (MCGate1B).                             *)
SpelledAlone == [key \in ReplayKey |-> IF key = rk1 THEN n1 ELSE n2]

VARIABLE part

vars == <<part, funnelVars, sessionVars>>

ServerInit ==
  /\ part \in {"funnel", "sessions"}
  /\ FunnelInit
  /\ IF part = "sessions" THEN SessionInit
     ELSE SessionInit /\ listed = {} /\ accounts = {}

ServerNext ==
  /\ UNCHANGED part
  /\ \/ part = "funnel" /\ FunnelNext /\ UNCHANGED sessionVars
     \/ part = "sessions" /\ SessionNext /\ UNCHANGED funnelVars

ServerSpec == ServerInit /\ [][ServerNext]_vars

(* All variables of both parts have their types.                           *)
TypeOK == FunnelTypeOK /\ SessionTypeOK
=============================================================================
