------------------------ MODULE MC_SelfUpdateManager ------------------------
(* Instantiates SelfUpdateManager for TLC: two bundles, so that feedback   *)
(* for one bundle can reach the operation of the other.                    *)
EXTENDS SelfUpdateManager

MCBundles == {"swdv-42", "swdv-43"}
==============================================================================
