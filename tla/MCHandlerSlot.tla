---------------------------- MODULE MCHandlerSlot ----------------------------
(* The instance of HandlerSlot for TLC.                                      *)
EXTENDS HandlerSlot

===============================================================================
