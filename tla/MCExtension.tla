---------------------------- MODULE MCExtension ----------------------------
(***************************************************************************)
(* What the extension takes from a student's sources (MCConnectors) and    *)
(* what it keeps for the student: missions, the career vault, the          *)
(* full-screen workspace and the sign-in.  Again the components share no   *)
(* variable and part says which one a behaviour is about.                  *)
(***************************************************************************)
EXTENDS MCConnectors, Missions, CareerVault, Workspace, SignIn

storeVars == <<missionVars, vaultVars, workspaceVars, signInVars>>

ExtensionInit ==
    /\ part \in ConnectorParts \union {"missions", "vault", "workspace", "sign-in"}
    /\ ConnectorsStart
    /\ MissionInit /\ VaultInit /\ WorkspaceInit /\ SignInInit
    /\ part # "sign-in" => setup = "none"

ExtensionNext ==
    \/ ConnectorsNext /\ UNCHANGED storeVars
    \/ /\ UNCHANGED allVars
       /\ \/ part = "missions" /\ MissionNext /\ UNCHANGED <<vaultVars, workspaceVars, signInVars>>
          \/ part = "vault" /\ VaultNext /\ UNCHANGED <<missionVars, workspaceVars, signInVars>>
          \/ part = "workspace" /\ WorkspaceNext /\ UNCHANGED <<missionVars, vaultVars, signInVars>>
          \/ part = "sign-in" /\ SignInNext /\ UNCHANGED <<missionVars, vaultVars, workspaceVars>>

ExtensionSpec == ExtensionInit /\ [][ExtensionNext]_<<allVars, storeVars>>
=============================================================================
