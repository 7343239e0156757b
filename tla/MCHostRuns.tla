----------------------------- MODULE MCHostRuns -----------------------------
(* Instances of HostRuns for TLC. *)
EXTENDS HostRuns

MCModes == {[manage |-> TRUE, extract |-> TRUE, adapter |-> "codex"],
            [manage |-> FALSE, extract |-> FALSE, adapter |-> "aider"]}
PiModes == {[manage |-> FALSE, extract |-> TRUE, adapter |-> "pi"]}

=============================================================================
