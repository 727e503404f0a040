---------------------------- MODULE MCAutomation ----------------------------
(* Model-checking instance of the automation flags and their persistence.  *)
EXTENDS Automation, TLC

\* Both flags off, as when config.ini has no [automation] section.
MCDefault == [f \in {"auto_unlock", "auto_hangup"} |-> FALSE]

\* Handlers are interchangeable.
Symmetry == Permutations(Handlers)
=============================================================================
