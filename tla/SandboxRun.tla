----------------------------- MODULE SandboxRun -----------------------------
(***************************************************************************)
(* One Sandbox Run as the host sees it: sandbox_run::run with the          *)
(* privileged commands of privileged_net.rs, the ruleset of sandbox_nft.rs,*)
(* the addresses of sandbox_net.rs, the start and the drop of              *)
(* firecracker.rs and the extraction of sandbox_fetch.rs, in a process     *)
(* that may be killed at any point.                                        *)
(*                                                                         *)
(* TAP devices, firewall rules, nftables tables, /tmp/bunsen-fc-* and the  *)
(* firecracker processes belong to the host and outlive the process; what  *)
(* it binds does not.  All of them are named after the run id, which no    *)
(* two Runs share; the /30 network is a hash of it, which they may share.  *)
(***************************************************************************)
EXTENDS Naturals, Sequences, SequencesExt

CONSTANTS
  Runs,      \* one bunsen process for each
  Modes,     \* what a Run may be asked: [manage, extract, adapter]
  Deaths     \* bound: bunsen processes killed

ASSUME SandboxAssumption ==
  /\ Modes \subseteq [manage : BOOLEAN, extract : BOOLEAN,
                      adapter : {"claude-code", "aider", "codex", "pi"}]
  /\ Deaths \in Nat

VARIABLES
  mode,        \* per Run: what was asked
  taken,       \* per Run: another Run whose id hashes to the same network has port 53
  at,          \* per Run: where sandbox_run::run is
  held,        \* per Run: the guards whose Drop is still to come
  bound,       \* per Run: the ports it listens on, of {"proxy", "dns"}
  loaded,      \* per Run: nft -f succeeded
  superr,      \* per Run: the supervisor returned an error
  result,      \* per Run: "none", "ok" or "failed"
  history,     \* per Run: <<history files the agent wrote, files kept>>
  taps, allows, dirs, tails,  \* host: TAPs, firewall rules, run dirs, journalctls
  tables,      \* host: Run -> ports its nftables table accepts, {} if no table
  vm,          \* host: Run -> "none", "idle" (not booted), "on" or "off"
  stays,       \* per Run: what it was to remove and could not, nor told anyone
  deaths

localVars == <<mode, taken, bound, loaded, superr, result, history>>
hostVars  == <<taps, allows, dirs, tails, tables, vm, stays>>
runVars == <<localVars, at, held, hostVars, deaths>>

RunInit ==
  /\ mode \in [Runs -> Modes] /\ taken = [r \in Runs |-> FALSE]
  /\ at = [r \in Runs |-> "probe"] /\ held = [r \in Runs |-> {}]
  /\ bound = held /\ loaded = [r \in Runs |-> FALSE] /\ superr = loaded
  /\ result = [r \in Runs |-> "none"] /\ history = [r \in Runs |-> <<{}, {}>>]
  /\ taps = {} /\ allows = {} /\ dirs = {} /\ tails = {} /\ deaths = 0
  /\ tables = [r \in Runs |-> {}] /\ vm = [r \in Runs |-> "none"] /\ stays = held

At(r, here, next) == at[r] = here /\ at' = [at EXCEPT ![r] = next]
Hold(r, g) == held' = [held EXCEPT ![r] = @ \cup {g}]

\* `?`: the locals are dropped, the guards with them, and the process exits with 1.
Fail(r, here) ==
  /\ At(r, here, "unwind") /\ result' = [result EXCEPT ![r] = "failed"]
  /\ UNCHANGED <<mode, taken, bound, loaded, superr, history, held>>

-----------------------------------------------------------------------------
(* The privileged commands: what each may answer and do to the host.  A removal
   drops the exit code of the command it runs, so its caller is told nothing of
   one that failed; it is also run before the command that creates. *)

exec_delete_tap(s, r) == {s \ {r}, s}
exec_remove_tap_allow(s, r) == {s \ {r}, s}
exec_delete_nft(s, r) == {[s EXCEPT ![r] = {}], s}

\* What was to go and is still there.
Removed(r, what, gone) ==
  stays' = [stays EXCEPT ![r] = IF gone THEN @ ELSE @ \cup {what}]

\* Three ip commands: when the second or third fails the device stays.
exec_create_tap(s, r) == {<<TRUE, s \cup {r}>>, <<FALSE, s>>, <<FALSE, s \cup {r}>>}
exec_add_tap_allow(s, r) == {<<TRUE, s \cup {r}>>, <<FALSE, s>>}
exec_apply_nft(s, r, ports) == {<<TRUE, [s EXCEPT ![r] = ports]>>, <<FALSE, s>>}

\* An address has port 53 once.
exec_bind_dns(r) == IF taken[r] THEN {{}} ELSE {{}, {"dns"}}

\* ChildReaper: the tail is killed when the pump's task is dropped, if it has one.
Reap(r) == IF "tail" \in stays[r] THEN tails ELSE tails \ {r}

-----------------------------------------------------------------------------
(* Before the VM *)

\* A host firewall that drops the guest's traffic refuses the Run, unless the Run
\* manages the firewall; a probe that fails lets it go on.
ProbeFirewall(r) ==
  /\ \/ At(r, "probe", "tap") /\ UNCHANGED <<localVars, held>>
     \/ ~mode[r].manage /\ Fail(r, "probe")
  /\ UNCHANGED <<hostVars, deaths>>

\* The guard exists only once the device is up: a failure leaves it half-made.
CreateTap(r) ==
  /\ \E clean \in exec_delete_tap(taps, r) : \E out \in exec_create_tap(clean, r) :
       /\ taps' = out[2]
       /\ \/ /\ out[1] /\ At(r, "tap", IF mode[r].manage THEN "allow" ELSE "listen")
             /\ Hold(r, "tap") /\ UNCHANGED localVars
          \/ ~out[1] /\ Fail(r, "tap")
  /\ UNCHANGED <<allows, dirs, tails, tables, vm, stays, deaths>>

AddTapAllow(r) ==
  /\ \E clean \in exec_remove_tap_allow(allows, r) : \E out \in exec_add_tap_allow(clean, r) :
       /\ allows' = out[2]
       /\ \/ out[1] /\ At(r, "allow", "listen") /\ Hold(r, "allow") /\ UNCHANGED localVars
          \/ ~out[1] /\ Fail(r, "allow")
  /\ UNCHANGED <<taps, dirs, tails, tables, vm, stays, deaths>>

\* The proxy takes any port.  Neither listener is needed to go on.
BindListeners(r) ==
  /\ At(r, "listen", "nft")
  /\ \E proxy \in {{}, {"proxy"}}, dns \in exec_bind_dns(r) :
       bound' = [bound EXCEPT ![r] = proxy \cup dns]
  /\ UNCHANGED <<mode, taken, loaded, superr, result, history, held, hostVars, deaths>>

\* Mutant: port 53 is opened whether or not it was bound.
BuildRulesetOpensDns(r) == bound[r] \cup {"dns"}

\* What the ruleset accepts from the TAP; the rest it logs and drops.
build_ruleset(r) == bound[r]

\* Without a proxy there is no ruleset, and one that does not load is a warning.
ApplyNft(r) ==
  /\ At(r, "nft", "tail")
  /\ \E clean \in exec_delete_nft(tables, r) :
       \E out \in IF "proxy" \in bound[r] THEN exec_apply_nft(clean, r, build_ruleset(r))
                                        ELSE {<<FALSE, clean>>} :
         loaded' = [loaded EXCEPT ![r] = out[1]] /\ tables' = out[2]
  /\ UNCHANGED <<mode, taken, bound, superr, result, history, held, taps, allows, dirs,
                 tails, vm, stays, deaths>>

\* journalctl is started and its stdout handed to the pump; a stdout that cannot be
\* adapted leaves the child running, dropped and owned by no reaper.
WatchDropLog(r) ==
  /\ At(r, "tail", "prepare")
  /\ \/ loaded[r] /\ tails' = tails \cup {r} /\ \E adapted \in BOOLEAN : Removed(r, "tail", adapted)
     \/ UNCHANGED <<tails, stays>>
  /\ UNCHANGED <<localVars, held, taps, allows, dirs, tables, vm, deaths>>

-----------------------------------------------------------------------------
(* start_firecracker: only the handle it returns removes the run directory *)

PrepareRunDir(r) ==
  /\ \/ At(r, "prepare", "image") /\ dirs' = dirs \cup {r} /\ UNCHANGED <<localVars, held>>
     \/ Fail(r, "prepare") /\ dirs' = dirs \ {r}
  /\ UNCHANGED <<taps, allows, tails, tables, vm, stays, deaths>>

\* The Workspace's ext4 image and the listeners for the guest, in the directory.
MakeWorkspaceImage(r) ==
  /\ \/ At(r, "image", "spawn") /\ UNCHANGED <<localVars, held>>
     \/ Fail(r, "image")
  /\ UNCHANGED <<hostVars, deaths>>

\* The Child is dropped without being killed when anything after this fails.
SpawnFirecracker(r) ==
  /\ LET idle == [vm EXCEPT ![r] = "idle"]
     IN  \/ At(r, "spawn", "configure") /\ vm' = idle /\ UNCHANGED <<localVars, held>>
         \/ Fail(r, "spawn") /\ vm' \in {vm, idle}
  /\ UNCHANGED <<taps, allows, dirs, tails, tables, stays, deaths>>

\* The API's answer to a PUT.
fc_put(status) == status < 400

\* Firecracker opens kernel, rootfs and Workspace image when it is told of them; the
\* first PUT that is refused ends the start.
ConfigureVm(r) ==
  /\ \E status \in {204, 400} :
       \/ fc_put(status) /\ At(r, "configure", "boot") /\ UNCHANGED <<localVars, held>>
       \/ ~fc_put(status) /\ Fail(r, "configure")
  /\ UNCHANGED <<hostVars, deaths>>

\* InstanceStart, then the guest's four vsock connections: the VM may run when one
\* of them fails.
BootVm(r) ==
  /\ \/ /\ At(r, "boot", "supervise") /\ Hold(r, "dir")
        /\ vm' = [vm EXCEPT ![r] = "on"] /\ UNCHANGED localVars
     \/ Fail(r, "boot") /\ vm' \in {vm, [vm EXCEPT ![r] = "on"]}
  /\ UNCHANGED <<taps, allows, dirs, tails, tables, stays, deaths>>

-----------------------------------------------------------------------------
(* From the VM's end to the process's *)

\* The guest reboots, or the VM process dies.
VmExit(r) ==
  /\ vm[r] \in {"idle", "on"} /\ vm' = [vm EXCEPT ![r] = "off"]
  /\ UNCHANGED <<localVars, at, held, taps, allows, dirs, tails, tables, stays, deaths>>

\* Mutant: the end of the agent's streams is taken for the end of the VM.
SupervisedNoWait(r) ==
  /\ At(r, "supervise", IF mode[r].extract THEN "extract" ELSE "clean")
  /\ bound' = [bound EXCEPT ![r] = {}] /\ tails' = Reap(r)
  /\ UNCHANGED <<mode, taken, loaded, superr, result, history, held, taps, allows, dirs, tables,
                 vm, stays, deaths>>

\* The supervisor waits for the VM and aborts the listeners and the drop log; an
\* event it cannot write makes it return before any of that, or after it.
Supervised(r) ==
  /\ At(r, "supervise", IF mode[r].extract THEN "extract" ELSE "clean")
  /\ \/ /\ vm[r] = "off" /\ bound' = [bound EXCEPT ![r] = {}] /\ tails' = Reap(r)
        /\ \E failed \in BOOLEAN : superr' = [superr EXCEPT ![r] = failed]
     \/ superr' = [superr EXCEPT ![r] = TRUE] /\ UNCHANGED <<bound, tails>>
  /\ UNCHANGED <<mode, taken, loaded, result, history, held, taps, allows, dirs, tables,
                 vm, stays, deaths>>

\* agent_history_subpaths
HistoryPaths(adapter) ==
  CASE adapter = "aider" -> {<<"chat">>, <<"input">>, <<"llm">>}
    [] adapter = "codex" -> {}
    [] adapter = "pi" -> {<<".pi", "agent", "sessions">>}
    [] OTHER -> {<<".claude">>}

\* A file of the history: its path below the Workspace, and what is there.
HistoryFiles(adapter) == [path : HistoryPaths(adapter), kind : {"file", "link"}]

\* debugfs rdump puts what it finds under the base name of its path.
debugfs_rdump(files) == {[f EXCEPT !.path = <<Last(f.path)>>] : f \in files}

\* Links and special files are removed before anything on the host reads the tree.
scrub_extracted_tree(tree) == {f \in tree : f.kind = "file"}

\* The narrow copy takes the subpaths it finds in that tree.
copy_agent_history_narrow(adapter, tree) == {f \in tree : f.path \in HistoryPaths(adapter)}

\* Fetch into the Pool, then dump, scrub and copy the history; each may fail.
Extract(r) ==
  /\ At(r, "extract", "clean")
  /\ \/ result' = [result EXCEPT ![r] = "failed"] /\ UNCHANGED history
     \/ \E kind \in {"none", "file", "link"} :
          LET adapter == mode[r].adapter
              wrote == {f \in HistoryFiles(adapter) : f.kind = kind}
          IN  /\ history' = [history EXCEPT ![r] =
                   <<wrote, copy_agent_history_narrow(adapter,
                              scrub_extracted_tree(debugfs_rdump(wrote)))>>]
              /\ UNCHANGED result
  /\ UNCHANGED <<mode, taken, bound, loaded, superr, held, hostVars, deaths>>

DeleteNft(r) ==
  /\ At(r, "clean", "unwind")
  /\ tables' \in exec_delete_nft(tables, r) /\ Removed(r, "table", tables'[r] = {})
  /\ result' = [result EXCEPT ![r] = IF superr[r] \/ @ = "failed" THEN "failed" ELSE "ok"]
  /\ UNCHANGED <<mode, taken, bound, loaded, superr, history, held, taps, allows, dirs,
                 tails, vm, deaths>>

\* Guards are dropped in the reverse of the order they were made; what one of them
\* cannot remove stays, and the Run ends as it would have.
Drop(r, g, after) ==
  /\ at[r] = "unwind" /\ g \in held[r] /\ held[r] \cap after = {}
  /\ held' = [held EXCEPT ![r] = @ \ {g}]
  /\ UNCHANGED <<localVars, at, tails, tables, vm, deaths>>

DropHandle(r) ==
  /\ Drop(r, "dir", {}) /\ dirs' \in {dirs \ {r}, dirs} /\ Removed(r, "dir", r \notin dirs')
  /\ UNCHANGED <<taps, allows>>

\* Mutant: the guard forgets the rule, not the guard.
DropAllowOnly(r) ==
  Drop(r, "allow", {"dir"}) /\ UNCHANGED <<taps, allows, dirs, stays>>

DropAllow(r) ==
  /\ Drop(r, "allow", {"dir"})
  /\ allows' \in exec_remove_tap_allow(allows, r) /\ Removed(r, "allow", r \notin allows')
  /\ UNCHANGED <<taps, dirs>>

DropTap(r) ==
  /\ Drop(r, "tap", {"dir", "allow"})
  /\ taps' \in exec_delete_tap(taps, r) /\ Removed(r, "tap", r \notin taps')
  /\ UNCHANGED <<allows, dirs>>

\* The process ends, and with it the sockets it had bound.
Exit(r) ==
  /\ held[r] = {} /\ At(r, "unwind", "over")
  /\ bound' = [bound EXCEPT ![r] = {}]
  /\ UNCHANGED <<mode, taken, loaded, superr, result, history, held, hostVars, deaths>>

\* SIGKILL runs no Drop.
KillRun(r) ==
  /\ deaths < Deaths /\ at[r] \notin {"over", "killed"}
  /\ at' = [at EXCEPT ![r] = "killed"] /\ bound' = [bound EXCEPT ![r] = {}]
  /\ deaths' = deaths + 1
  /\ UNCHANGED <<mode, taken, loaded, superr, result, history, held, hostVars>>

\* The other Run binds the port and gives it back; an address has it once.
Neighbour(r) ==
  /\ taken[r] \/ "dns" \notin bound[r]
  /\ taken' = [taken EXCEPT ![r] = ~@]
  /\ UNCHANGED <<mode, at, held, bound, loaded, superr, result, history, hostVars, deaths>>

\* An orphaned journalctl ends when it next writes to the pipe nobody reads.
TailDies(r) ==
  /\ r \in tails /\ (at[r] \in {"over", "killed"} \/ "tail" \in stays[r])
  /\ tails' = tails \ {r}
  /\ UNCHANGED <<localVars, at, held, taps, allows, dirs, tables, vm, stays, deaths>>

RunStep(r) ==
  \/ ProbeFirewall(r) \/ CreateTap(r) \/ AddTapAllow(r) \/ BindListeners(r) \/ ApplyNft(r)
  \/ WatchDropLog(r) \/ PrepareRunDir(r) \/ MakeWorkspaceImage(r) \/ SpawnFirecracker(r)
  \/ ConfigureVm(r) \/ BootVm(r)
  \/ Supervised(r) \/ Extract(r) \/ DeleteNft(r) \/ DropHandle(r)
  \/ DropAllow(r) \/ DropTap(r) \/ Exit(r)

RunNext == \E r \in Runs : RunStep(r) \/ VmExit(r) \/ Neighbour(r) \/ KillRun(r) \/ TailDies(r)
RunSpec == RunInit /\ [][RunNext]_runVars

-----------------------------------------------------------------------------
(* Properties *)

RunTypeOK ==
  /\ mode \in [Runs -> Modes] /\ taken \in [Runs -> BOOLEAN]
  /\ at \in [Runs -> {"probe", "tap", "allow", "listen", "nft", "tail", "prepare", "image",
                      "spawn", "configure", "boot", "supervise", "extract", "clean", "unwind", "over", "killed"}]
  /\ held \in [Runs -> SUBSET {"tap", "allow", "dir"}]
  /\ bound \in [Runs -> SUBSET {"proxy", "dns"}]
  /\ loaded \in [Runs -> BOOLEAN] /\ superr \in [Runs -> BOOLEAN]
  /\ result \in [Runs -> {"none", "ok", "failed"}]
  /\ taps \subseteq Runs /\ allows \subseteq Runs /\ dirs \subseteq Runs /\ tails \subseteq Runs
  /\ tables \in [Runs -> SUBSET {"proxy", "dns"}]
  /\ vm \in [Runs -> {"none", "idle", "on", "off"}]
  /\ stays \in [Runs -> SUBSET {"tap", "allow", "dir", "table", "tail"}]
  /\ deaths \in 0..Deaths

\* What a Run may leave on the host when its process has ended by itself: what it
\* tried to remove and could not, and of what it did not try, after success nothing
\* and after an error at most the TAP whose creation failed half-way, and the table,
\* the directory, the VM and the journalctl of a start that failed; a firewall rule
\* never (TapGuard, TapAllowGuard, FirecrackerHandle::drop, ChildReaper, run).
LeftoversExplained ==
  \A r \in Runs : at[r] = "over" =>
    /\ r \in allows => "allow" \in stays[r]
    /\ r \in taps /\ "tap" \notin stays[r] => vm[r] = "none" /\ r \notin dirs /\ tables[r] = {}
    /\ result[r] = "ok" =>
         /\ vm[r] = "off"
         /\ r \in dirs => "dir" \in stays[r]
         /\ r \in tails => "tail" \in stays[r]
         /\ tables[r] # {} => "table" \in stays[r]

\* A ruleset that was loaded is there for as long as its VM runs, through failures
\* and teardown; it goes first only after a supervisor error (run, delete_nft).
FilteredWhileUp ==
  \A r \in Runs : loaded[r] /\ vm[r] = "on" /\ tables[r] = {} =>
    superr[r] /\ at[r] \in {"unwind", "over", "killed"}

\* The ports a table opens are this Run's own listeners for as long as its VM is
\* supervised, also when two Runs hash to one network and only one of them gets
\* port 53 (build_ruleset, exec_bind_dns).
OpensOwnPorts ==
  \A r \in Runs : at[r] = "supervise" => tables[r] \subseteq bound[r]

\* The disk is read out when no guest writes it, unless the supervisor failed, and
\* while the directory that holds it exists (run, extract_workspace_from_ext4).
ExtractsQuietDisk ==
  \A r \in Runs : at[r] = "extract" => r \in dirs /\ (vm[r] = "off" \/ superr[r])

\* firecracker.rs:521: "the narrow agent-history copy preserves `.claude/` (or
\* per-adapter equivalents) onto the host".
HistoryPreserved ==
  \A r \in Runs : history[r][2] = scrub_extracted_tree(history[r][1])

=============================================================================
