---------------------------- MODULE FilteredLoki ----------------------------
(***************************************************************************)
(* What a client of the gateway may rely on, whatever surface it uses: a   *)
(* store of which it sees the part that is its own.  A question is         *)
(* answered bit by bit, or all at once, or not at all; what has been shown *)
(* is not taken back, and after the end of an answer nothing follows it.   *)
(***************************************************************************)
CONSTANTS
    Conn, Questions,
    View(_, _)      \* what of the store a deployment shows to a question

VARIABLES
    deployed,   \* the deployment
    asked,      \* the question of each connection, in a sequence of at most one
    shown,      \* what its client has seen
    ended       \* is its answer over?

vars == <<deployed, asked, shown, ended>>

Init ==
    /\ asked = [c \in Conn |-> << >>]
    /\ shown = [c \in Conn |-> {}]
    /\ ended = [c \in Conn |-> FALSE]

Ask(c, q) ==
    /\ asked[c] = << >>
    /\ asked' = [asked EXCEPT ![c] = <<q>>]
    /\ UNCHANGED <<deployed, shown, ended>>

Pending(c) == asked[c] # << >> /\ ~ended[c]

\* Some more of the answer; it may be the last of it, and it may be nothing.
Show(c, more, last) ==
    /\ shown' = [shown EXCEPT ![c] = @ \cup more]
    /\ ended' = [ended EXCEPT ![c] = last]
    /\ UNCHANGED <<deployed, asked>>

\* The service stops, in the middle of any number of answers.
Stop ==
    /\ ended' = [c \in Conn |-> asked[c] # << >>]
    /\ UNCHANGED <<deployed, asked, shown>>

Next ==
    \/ \E c \in Conn :
          \/ \E q \in Questions : Ask(c, q)
          \/ /\ Pending(c)
             /\ \E more \in SUBSET View(deployed, asked[c][1]), last \in BOOLEAN : Show(c, more, last)
    \/ Stop

Spec == Init /\ [][Next]_vars
=============================================================================
