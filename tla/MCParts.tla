------------------------------- MODULE MCParts --------------------------------
(* Smaller parts that need no fairness, for MCRunAlone: the process group of *)
(* a child, the evidence of one attempt, the stores of workspaces and        *)
(* workflows, the model catalog, the installs of providers, the text of a    *)
(* turn, and the panels of the page. Their properties hold in their initial  *)
(* states, too, so that they can be checked whichever part moves.            *)
EXTENDS ChildGroup, AttemptEvidence, LocalStores, ModelCatalog, ProviderInstall,
        TurnStream, Panels

CONSTANTS k1, k2, k3, f1, f2, mx, my, mz, ml, shipped

VARIABLE part  \* the part that moves in this behaviour

(* Three clients; a duplicate of a workflow tries two names.                 *)
MCClients   == {k1, k2, k3}
MCFlows     == {f1, f2}
MCCopyNames == <<f1, f2>>

(* One alias, one variant, and models that share a slug or have the name of  *)
(* another's slug.                                                           *)
MCNames == <<ml, mx, my, mz>>
MCIds   == {mx, my, ml, mz}
MCSlugs == {my, mz}

MCPreferred == [s \in Sites |-> shipped]

partsVars == <<groupVars, evidenceVars, storesVars, catalogVars, installVars, streamVars,
               panelsVars>>
PartNames == {"group", "evidence", "stores", "catalog", "setup", "stream", "panels"}

(* The parts that do not move have one initial state, and keep it.           *)
PartsInit ==
    /\ GroupInit /\ (part # "group" => user = "turn")
    /\ EvidenceInit /\ (part # "evidence" => provider = "mock")
    /\ InstallInit /\ (part # "setup" => installed = 0)
    /\ StreamInit /\ (part # "stream" => streamProvider = "agy")
    /\ CatalogInit
    /\ part # "catalog" =>
           remote = {[id |-> ml, slug |-> None, created |-> 0, tools |-> FALSE]}
    /\ StoresInit
    /\ PanelsInit /\ (part # "panels" => \A f \in Customs : stored[f] = 0)

PartsNext ==
    \/ /\ part = "group" /\ GroupNext
       /\ UNCHANGED <<evidenceVars, storesVars, catalogVars, installVars, streamVars,
                      panelsVars>>
    \/ /\ part = "evidence" /\ EvidenceNext
       /\ UNCHANGED <<groupVars, storesVars, catalogVars, installVars, streamVars,
                      panelsVars>>
    \/ /\ part = "stores" /\ StoresNext
       /\ UNCHANGED <<groupVars, evidenceVars, catalogVars, installVars, streamVars,
                      panelsVars>>
    \/ /\ part = "catalog" /\ CatalogNext
       /\ UNCHANGED <<groupVars, evidenceVars, storesVars, installVars, streamVars,
                      panelsVars>>
    \/ /\ part = "setup" /\ InstallNext
       /\ UNCHANGED <<groupVars, evidenceVars, storesVars, catalogVars, streamVars,
                      panelsVars>>
    \/ /\ part = "stream" /\ StreamNext
       /\ UNCHANGED <<groupVars, evidenceVars, storesVars, catalogVars, installVars,
                      panelsVars>>
    \/ /\ part = "panels" /\ PanelsNext
       /\ UNCHANGED <<groupVars, evidenceVars, storesVars, catalogVars, installVars,
                      streamVars>>

PartsTypeOK ==
    /\ part = "group" => GroupTypeOK
    /\ part = "evidence" => EvidenceTypeOK
    /\ part = "stores" => StoresTypeOK
    /\ part = "catalog" => CatalogTypeOK
    /\ part = "setup" => InstallTypeOK
    /\ part = "stream" => StreamTypeOK
===============================================================================
