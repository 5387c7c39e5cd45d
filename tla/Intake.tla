--------------------------------- MODULE Intake ---------------------------------
(***************************************************************************)
(* What a repository goes through before its calls can be joined to those  *)
(* of others: its tree comes to be on the disk (Workspace.tla), the files  *)
(* of the tree are parsed (ShardedScan.tla), and from what those say come  *)
(* the claims that the join finds by their names (Emission.tla).           *)
(***************************************************************************)
EXTENDS Workspace, ShardedScan, Emission

VARIABLE part        \* "disk", "scan" or "names": which of them goes on

intakeVars == <<part, workspaceVars, scanVars, namingVars>>

IntakeInit ==
    /\ part \in {"disk", "scan", "names"}
    /\ WorkspaceInit /\ ScanInit /\ NamingInit
    /\ part # "disk" => \A r \in Repo : tree[r]["dest"] = Absent
    /\ part # "scan" => [host |-> host, nature |-> nature, yield |-> yield] = CHOOSE c \in Cases : TRUE

IntakeNext ==
    \/ part = "disk" /\ WorkspaceNext /\ UNCHANGED <<part, scanVars, namingVars>>
    \/ part = "scan" /\ ScanNext /\ UNCHANGED <<part, workspaceVars, namingVars>>
    \/ part = "names" /\ NamingNext /\ UNCHANGED <<part, workspaceVars, scanVars>>

\* A scan's fairness is that of its threads: nothing else of the three has to go on.
IntakeFairness == WF_scanVars(part = "scan" /\ Parsing(Goes))

IntakeSpec == IntakeInit /\ [][IntakeNext]_intakeVars /\ IntakeFairness
=================================================================================
