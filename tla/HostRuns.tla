------------------------------ MODULE HostRuns ------------------------------
(***************************************************************************)
(* Several bunsen processes on one host: each resolves its kernel and its  *)
(* rootfs in the shared caches (session.rs resolve_sandbox_inputs, main.rs *)
(* run_main), then runs a sandbox that boots what the caches hold by then. *)
(***************************************************************************)
EXTENDS Caches, SandboxRun

hostRunVars == <<cacheVars, runVars>>

\* Some processes only get as far as the caches.
ASSUME HostAssumption == Runs \subseteq Procs

Init == CacheInit /\ RunInit

Resolve(p) ==
  /\ KernelStep(p) \/ RootfsStep(p) \/ KillResolver(p)
  /\ UNCHANGED runVars

\* sandbox_run::run starts with both paths; firecracker opens them when it is
\* configured, and a file that has gone by then fails the start.
Run(p) ==
  /\ stage[p] = "ready"
  /\ RunStep(p) \/ VmExit(p) \/ Neighbour(p) \/ KillRun(p) \/ TailDies(p)
  /\ at[p] = "configure" /\ at'[p] = "boot" => rootfs # "none"
  /\ UNCHANGED cacheVars

Next == (\E p \in Procs : Resolve(p)) \/ (\E p \in Runs : Run(p))
Spec == Init /\ [][Next]_hostRunVars

\* What a VM boots from is a whole image, though it is opened long after it was
\* looked up, while other processes find the cache entry corrupt, drop it, rebuild
\* it and are killed doing so (resolve_rootfs, start_firecracker).
BootsWhole ==
  [][\A p \in Runs : at[p] = "configure" /\ at'[p] = "boot" => rootfs = "whole"]_hostRunVars

=============================================================================
