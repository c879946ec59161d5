------------------------- MODULE MCGenerationOwner --------------------------
EXTENDS GenerationOwner
=============================================================================
