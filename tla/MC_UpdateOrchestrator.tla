----------------------- MODULE MC_UpdateOrchestrator -----------------------
(* Instantiates UpdateOrchestrator for TLC: both feature adapters call    *)
(* Apply, with manifests that take every branch of the partition.         *)
EXTENDS UpdateOrchestrator

MCBundles == {"swdv-42", "swdv-43"}
MCCallers == {"uoFeature", "suFeature"}
MCManifests ==
  { [bundles |-> <<>>, k8s |-> TRUE],
    [bundles |-> <<"swdv-42">>, k8s |-> TRUE],
    [bundles |-> <<"swdv-43">>, k8s |-> FALSE],
    [bundles |-> <<"swdv-42", "swdv-43">>, k8s |-> TRUE] }
==============================================================================
