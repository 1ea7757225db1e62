----------------------------- MODULE MCProcess -----------------------------
(* Process with a channel of one or two events, pipes of one line and two  *)
(* numbered lines: the channel fills up, progress reports are dropped, and *)
(* a line waits in each reader's hand while the child exits.               *)
EXTENDS Process
=============================================================================
