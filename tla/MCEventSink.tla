----------------------------- MODULE MCEventSink -----------------------------
EXTENDS EventSink
=============================================================================
