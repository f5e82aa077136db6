------------------------------- MODULE MCBatcher -------------------------------
EXTENDS DynamicBatcher
================================================================================
