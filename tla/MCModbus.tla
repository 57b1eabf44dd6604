------------------------------ MODULE MCModbus ------------------------------
EXTENDS ModbusMaster, TLC

\* All but the one between sending a request and registering its reply.
BeforeSending == Handlers \ {"register"}
=============================================================================
