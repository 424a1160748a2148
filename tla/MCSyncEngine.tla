---------------------------- MODULE MCSyncEngine ----------------------------
(* Values for the model checker that a configuration file cannot write.    *)
EXTENDS SyncEngine

PlainOption   == {[resume |-> FALSE, defer |-> FALSE]}
FreshOptions  == {[resume |-> FALSE, defer |-> d] : d \in BOOLEAN}
DeferOptions  == {[resume |-> r, defer |-> TRUE] : r \in BOOLEAN}
=============================================================================
