-------------------------- MODULE MCPagePipeline --------------------------
EXTENDS PagePipeline
=============================================================================
