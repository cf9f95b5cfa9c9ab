----------------------------- MODULE MCProcess -----------------------------
(* An instance of Process for TLC: two handlers, and more signals than the *)
(* channel has room for.                                                   *)
EXTENDS Process
=============================================================================
