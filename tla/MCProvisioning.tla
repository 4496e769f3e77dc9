--------------------------- MODULE MCProvisioning ---------------------------
EXTENDS Provisioning
ThreeSections == <<"wireless", "nodes", "nodog">>
FourSections == <<"wireless", "nodes", "nodog", "chilli">>
=============================================================================
