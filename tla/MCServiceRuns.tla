--------------------------- MODULE MCServiceRuns ---------------------------
(***************************************************************************)
(* The service's stores of runs and actions on small instances: AgentRuns, *)
(* beside it ChatRuns, and the action store with more ids than records.    *)
(* They share no variable, so each can be checked alone: part, chosen at   *)
(* the start, says which one a behaviour is about, and the others stay as  *)
(* they are, in the initial state of which their properties hold.          *)
(***************************************************************************)
EXTENDS AgentRuns, ChatRuns, ActionStore, TLC

VARIABLE part

PartsInit == Init /\ ChatInit /\ RecordsInit /\ part \in {"agent", "chat", "actions"}
PartsNext ==
    /\ UNCHANGED part
    /\ \/ part = "agent" /\ Next /\ UNCHANGED <<chatVars, recordVars>>
       \/ part = "chat" /\ ChatNext /\ UNCHANGED <<vars, recordVars>>
       \/ part = "actions" /\ RecordsNext /\ UNCHANGED <<vars, chatVars>>
PartsSpec == PartsInit /\ [][PartsNext]_<<part, vars, chatVars, recordVars>>

Symmetry == Permutations(RunIds) \cup Permutations(Tools) \cup Permutations(CallIds)
              \cup Permutations(Handlers) \cup Permutations(ActionIds)
=============================================================================
