---------------------------------- MODULE Hosts ----------------------------------
(***************************************************************************)
(* What the tools have in common: a host links while claims change         *)
(* (Linking.tla), writes a graph store and reads it (Stores.tla), or loads *)
(* what was scanned and answers questions about it (Embedded.tla).  They   *)
(* share the shape of an edge, the link pass and the readers of its edges. *)
(***************************************************************************)
EXTENDS Linking, Stores, Embedded

VARIABLE part        \* "links", "stores" or "embedded": which of them the host does

hostsVars == <<part, linkingVars, storesVars, embeddedVars>>

HostsInit ==
    /\ part \in {"links", "stores", "embedded"}
    /\ LinkingInit /\ StoresInit /\ EmbeddedInit
    /\ part # "stores" => nodes = Nodes \ {CHOOSE n \in Nodes : TRUE}
    /\ part # "links" => host = "server"
    /\ part # "embedded" => checkout = CHOOSE clean \in CleanCheckouts : TRUE

HostsNext ==
    \/ part = "links" /\ LinkingNext /\ UNCHANGED <<part, storesVars, embeddedVars>>
    \/ part = "stores" /\ StoresNext /\ UNCHANGED <<part, linkingVars, embeddedVars>>
    \/ part = "embedded" /\ EmbeddedNext /\ UNCHANGED <<part, linkingVars, storesVars>>

HostsSpec == HostsInit /\ [][HostsNext]_hostsVars

================================================================================
