--------------------------------- MODULE Api ---------------------------------
(* The three parts of the HTTP side, which share no state: the reads of the    *)
(* chain (Backend), the cached block number (ChainProvider) and the            *)
(* experiments (Lab).  A behaviour exercises one of them.                      *)
EXTENDS Backend, ChainProvider, Lab

VARIABLE part

Init ==
  /\ part \in {"chain", "provider", "lab"}
  /\ BackendInit /\ ProviderInit /\ LabInit

Next ==
  /\ UNCHANGED part
  /\ \/ part = "chain"    /\ BackendNext  /\ UNCHANGED <<providerVars, labVars>>
     \/ part = "provider" /\ ProviderNext /\ UNCHANGED <<backendVars, labVars>>
     \/ part = "lab"      /\ LabNext      /\ UNCHANGED <<backendVars, providerVars>>

Spec == Init /\ [][Next]_<<part, backendVars, providerVars, labVars>>
=============================================================================
