------------------------------ MODULE MCGuest ------------------------------
(* Values of SandboxSupervisor's constants for the runs. *)
EXTENDS SandboxSupervisor

MCDeclared  == {[name |-> "model", upper |-> TRUE]}
MCListeners == {"connect", "dns", "raw"}

\* Every way to ask, with a listed name, another, both, and what does not parse.
MCAsks == Requests
=============================================================================
