-------------------------- MODULE MCTrackedConsumer --------------------------
EXTENDS TrackedConsumer
=============================================================================
