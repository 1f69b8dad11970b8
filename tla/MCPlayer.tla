------------------------------ MODULE MCPlayer ------------------------------
(* The kinds of 's' commands of the runs of Player. *)
EXTENDS Player

Http(a) == [autostart |-> a, file |-> FALSE, format |-> "known"]
File(a) == [autostart |-> a, file |-> TRUE, format |-> "known"]
Unnamed(a) == [autostart |-> a, file |-> FALSE, format |-> "?"]

Direct == {Http(1)}
Stopped == {Http(0), Http(1)}
Waiting == {Http(1), Http(3)}
Gapless == {Http(1), Http(3), File(3), Unnamed(3)}

\* One of each, and a format the player does not have.
Every == {Http(1), Http(3), File(3), Unnamed(3),
          [autostart |-> 1, file |-> FALSE, format |-> "none"]}
=============================================================================
