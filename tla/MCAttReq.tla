------------------------------- MODULE MCAttReq -------------------------------
EXTENDS AttReq
===============================================================================
