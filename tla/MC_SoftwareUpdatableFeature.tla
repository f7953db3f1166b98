---------------------- MODULE MC_SoftwareUpdatableFeature ----------------------
EXTENDS SoftwareUpdatableFeature

MCCallers == {"suFeature", "uoFeature"}
MCCorrelationIDs == {"action-1", "action-2"}
=============================================================================
