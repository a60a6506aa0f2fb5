------------------------------ MODULE MCRxBuffers ------------------------------
EXTENDS RxBuffers
================================================================================
