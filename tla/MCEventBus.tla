----------------------------- MODULE MCEventBus -----------------------------
(* Instances of EventBus: one event type, handlers with their own service   *)
(* name, or two anonymous handlers that share one.                          *)
EXTENDS EventBus

MCTopicOf == [e \in Events |-> CHOOSE t \in Topics : TRUE]
MCSubTopic == [h \in Handlers |-> CHOOSE t \in Topics : TRUE]
MCNameOf == [h \in Handlers |-> h]
=============================================================================
