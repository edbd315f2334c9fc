------------------------ MODULE MCUpdateCoordinator ------------------------
EXTENDS UpdateCoordinator
=============================================================================
