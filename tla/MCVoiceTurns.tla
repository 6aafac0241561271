---- MODULE MCVoiceTurns ----
EXTENDS VoiceTurns
====
