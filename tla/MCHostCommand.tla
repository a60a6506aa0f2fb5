----------------------------- MODULE MCHostCommand -----------------------------
EXTENDS HostCommand
================================================================================
