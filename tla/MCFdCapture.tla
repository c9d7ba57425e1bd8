---------------------------- MODULE MCFdCapture ------------------------------
(***************************************************************************)
(* Small instances of FdCapture for TLC.                                   *)
(***************************************************************************)
EXTENDS FdCapture, TLC

\* The batches of one ToolInvoker, and requests with an invoker each.
OneInvoker == [b \in Batches |-> "lock"]
InvokerEach == [b \in Batches |-> b]
==============================================================================
