------------------------------ MODULE MCWorkspace ------------------------------
EXTENDS Workspace

CONSTANTS home, web

(* The folder web is below the folder home.                                *)
Nested == [f \in {home, web} |-> IF f = home THEN {home, web} ELSE {web}]

(* Two folders beside each other.                                          *)
Beside == [f \in {home, web} |-> {f}]

=============================================================================
