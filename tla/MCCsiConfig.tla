------------------------------ MODULE MCCsiConfig ------------------------------
EXTENDS CsiConfig
================================================================================
