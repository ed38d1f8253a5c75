----------------------------- MODULE MCEventBus -----------------------------
(* Two consumers with room for one event each: a publisher, a drain and    *)
(* the close task meet at full queues.                                     *)
EXTENDS EventBus
=============================================================================
