--------------------------- MODULE HostRunsProofs ---------------------------
(***************************************************************************)
(* What HostRuns.tla keeps for any number of processes and kills: what a   *)
(* Sandbox Run leaves on the host, when its VM is filtered, and what it    *)
(* boots from.                                                             *)
(***************************************************************************)
EXTENDS HostRuns, FiniteSetTheorems, TLAPS

(* A Run that is being set up, by what it has got; one that has a VM. *)
Early   == {"probe", "tap", "allow", "listen", "nft"}
NoDir   == Early \cup {"tail", "prepare"}
NoVm    == NoDir \cup {"image", "spawn"}
Settled == {"unwind", "over"}

-----------------------------------------------------------------------------
(* One Run *)

\* What is on the host for Run r is held by a guard, could not be removed, or is
\* explained by how r ended.
TapOwned(r) ==
  /\ r \in taps /\ at[r] # "killed" =>
       \/ "tap" \in held[r] \/ "tap" \in stays[r]
       \/ (at[r] \in Settled /\ vm[r] = "none" /\ r \notin dirs /\ tables[r] = {})
  /\ "tap" \in held[r] => at[r] \notin {"probe", "tap"}

AllowOwned(r) ==
  r \in allows /\ at[r] # "killed" => "allow" \in held[r] \/ "allow" \in stays[r]

DirOwned(r) ==
  /\ r \in dirs => at[r] \notin NoDir
  /\ at[r] \in {"image", "spawn", "configure", "boot", "supervise", "extract", "clean"} => r \in dirs
  /\ at[r] \in {"supervise", "extract", "clean"} => "dir" \in held[r]

\* The VM is up from spawn on, the table from nft on.
VmStage(r) == at[r] \in NoVm => vm[r] = "none"
TableStage(r) ==
  /\ at[r] \in Early => tables[r] = {} /\ ~loaded[r]
  /\ at[r] \in {"tail", "prepare", "image", "spawn", "configure", "boot", "supervise"} =>
       tables[r] \subseteq bound[r]

\* A table goes before its VM only after the supervisor failed.
TableGone(r) ==
  loaded[r] /\ tables[r] = {} =>
    at[r] \in Settled \cup {"killed"} /\ (vm[r] = "on" => superr[r])

Quiet(r) == at[r] \in {"extract", "clean"} /\ ~superr[r] =>
  vm[r] = "off" /\ (r \in tails => "tail" \in stays[r])

Success(r) ==
  /\ result[r] = "ok" =>
       /\ at[r] \in Settled \cup {"killed"}
       /\ vm[r] = "off" /\ (tables[r] # {} => "table" \in stays[r])
       /\ r \in tails => "tail" \in stays[r]
       /\ r \in dirs /\ at[r] # "killed" => "dir" \in held[r] \/ "dir" \in stays[r]
  /\ at[r] = "over" => held[r] = {}

RunInv(r) == /\ TapOwned(r) /\ AllowOwned(r) /\ DirOwned(r) /\ VmStage(r) /\ TableStage(r)
             /\ TableGone(r) /\ Quiet(r) /\ Success(r)

\* No step of Run p, its VM or its neighbour touches what belongs to another Run.
Untouched(q) ==
  /\ at'[q] = at[q] /\ held'[q] = held[q] /\ bound'[q] = bound[q] /\ loaded'[q] = loaded[q]
  /\ superr'[q] = superr[q] /\ result'[q] = result[q] /\ tables'[q] = tables[q] /\ vm'[q] = vm[q]
  /\ stays'[q] = stays[q]
  /\ (q \in taps' <=> q \in taps) /\ (q \in allows' <=> q \in allows)
  /\ (q \in dirs' <=> q \in dirs) /\ (q \in tails' <=> q \in tails)

Alone(p) == \A q \in Runs : q # p => Untouched(q)

LEMMA UntouchedKeeps ==
  ASSUME NEW q \in Runs, RunInv(q), Untouched(q) PROVE RunInv(q)'
  BY DEF Untouched, RunInv, TapOwned, AllowOwned, DirOwned, VmStage, TableStage, TableGone,
         Quiet, Success

LEMMA FailStep ==
  ASSUME RunTypeOK, NEW p \in Runs, NEW here, Fail(p, here)
  PROVE  /\ at[p] = here /\ at'[p] = "unwind" /\ result'[p] = "failed"
         /\ at' \in [Runs -> {"probe", "tap", "allow", "listen", "nft", "tail", "prepare", "image",
                      "spawn", "configure", "boot", "supervise", "extract", "clean", "unwind", "over", "killed"}]
         /\ result' \in [Runs -> {"none", "ok", "failed"}]
         /\ \A q \in Runs : q # p => at'[q] = at[q] /\ result'[q] = result[q]
         /\ UNCHANGED <<mode, taken, bound, loaded, superr, held>>
  BY DEF Fail, At, RunTypeOK

\* What the privileged commands may answer.
LEMMA TapAnswers ==
  ASSUME NEW s, NEW r, NEW out \in exec_create_tap(s, r)
  PROVE  out[2] = s \/ out[2] = s \cup {r}
<1>1. out = <<TRUE, s \cup {r}>> \/ out = <<FALSE, s>> \/ out = <<FALSE, s \cup {r}>>
  BY DEF exec_create_tap
<1>2. CASE out = <<TRUE, s \cup {r}>>
  BY <1>2
<1>3. CASE out = <<FALSE, s>>
  BY <1>3
<1>4. CASE out = <<FALSE, s \cup {r}>>
  BY <1>4
<1> QED
  BY <1>1, <1>2, <1>3, <1>4

LEMMA AllowAnswers ==
  ASSUME NEW s, NEW r, NEW out \in exec_add_tap_allow(s, r)
  PROVE  out[2] = s \cup {r} \/ (~out[1] /\ out[2] = s)
<1>1. out = <<TRUE, s \cup {r}>> \/ out = <<FALSE, s>>
  BY DEF exec_add_tap_allow
<1>2. CASE out = <<TRUE, s \cup {r}>>
  BY <1>2
<1>3. CASE out = <<FALSE, s>>
  BY <1>3
<1> QED
  BY <1>1, <1>2, <1>3

LEMMA AllowRefused ==
  ASSUME NEW s, NEW r, NEW out \in exec_add_tap_allow(s, r), ~out[1]
  PROVE  out[2] = s
<1>1. out = <<TRUE, s \cup {r}>> \/ out = <<FALSE, s>>
  BY DEF exec_add_tap_allow
<1>2. CASE out = <<TRUE, s \cup {r}>>
  BY <1>2
<1>3. CASE out = <<FALSE, s>>
  BY <1>3
<1> QED
  BY <1>1, <1>2, <1>3

LEMMA NftAnswers ==
  ASSUME NEW s, NEW r, NEW ports, NEW out \in exec_apply_nft(s, r, ports)
  PROVE  /\ out[1] \in BOOLEAN
         /\ (out[1] /\ out[2] = [s EXCEPT ![r] = ports]) \/ (~out[1] /\ out[2] = s)
<1>1. out = <<TRUE, [s EXCEPT ![r] = ports]>> \/ out = <<FALSE, s>>
  BY DEF exec_apply_nft
<1>2. CASE out = <<TRUE, [s EXCEPT ![r] = ports]>>
  BY <1>2
<1>3. CASE out = <<FALSE, s>>
  BY <1>3
<1> QED
  BY <1>1, <1>2, <1>3

\* What could not be removed is told of the Run that tried.
LEMMA RemovedStep ==
  ASSUME RunTypeOK, NEW p \in Runs, NEW what \in {"tap", "allow", "dir", "table", "tail"},
         NEW gone, Removed(p, what, gone)
  PROVE  /\ stays' \in [Runs -> SUBSET {"tap", "allow", "dir", "table", "tail"}]
         /\ stays[p] \subseteq stays'[p] /\ (~gone => what \in stays'[p])
         /\ stays'[p] \subseteq stays[p] \cup {what}
         /\ \A q \in Runs : q # p => stays'[q] = stays[q]
  BY DEF Removed, RunTypeOK

LEMMA BeforeVm ==
  ASSUME RunTypeOK, NEW p \in Runs, RunInv(p),
         ProbeFirewall(p) \/ CreateTap(p) \/ AddTapAllow(p) \/ BindListeners(p)
  PROVE  RunTypeOK' /\ RunInv(p)' /\ Alone(p)
<1> USE DEF RunTypeOK, RunInv, TapOwned, AllowOwned, DirOwned, VmStage, TableStage, TableGone,
            Quiet, Success, Untouched, Alone, Early, NoDir, NoVm, Settled, At, Hold,
            localVars, hostVars
<1>1. CASE ProbeFirewall(p)
  BY <1>1, FailStep DEF ProbeFirewall
<1>2. CASE CreateTap(p)
  <2>0. PICK clean \in exec_delete_tap(taps, p) : \E out \in exec_create_tap(clean, p) :
          /\ taps' = out[2]
          /\ \/ /\ out[1] /\ At(p, "tap", IF mode[p].manage THEN "allow" ELSE "listen")
                /\ Hold(p, "tap") /\ UNCHANGED localVars
             \/ ~out[1] /\ Fail(p, "tap")
    BY <1>2 DEF CreateTap
  <2>1. PICK out \in exec_create_tap(clean, p) :
          /\ taps' = out[2]
          /\ \/ /\ out[1] /\ At(p, "tap", IF mode[p].manage THEN "allow" ELSE "listen")
                /\ Hold(p, "tap") /\ UNCHANGED localVars
             \/ ~out[1] /\ Fail(p, "tap")
    BY <2>0
  <2>2. taps' \subseteq Runs /\ \A q \in Runs : q # p => (q \in taps' <=> q \in taps)
    <3>1. clean \in {taps \ {p}, taps} /\ (taps' = clean \/ taps' = clean \cup {p})
      BY <2>1, TapAnswers DEF exec_delete_tap
    <3> QED
      BY <3>1
  <2>3. UNCHANGED <<allows, dirs, tails, tables, vm, stays, deaths>> /\ at[p] = "tap"
    BY <1>2, FailStep DEF CreateTap
  <2>4. CASE Fail(p, "tap")
    BY <2>2, <2>3, <2>4, FailStep
  <2>5. CASE At(p, "tap", IF mode[p].manage THEN "allow" ELSE "listen") /\ Hold(p, "tap") /\ UNCHANGED localVars
    <3>1. /\ at'[p] \in {"allow", "listen"} /\ held'[p] = held[p] \cup {"tap"}
          /\ \A q \in Runs : q # p => at'[q] = at[q] /\ held'[q] = held[q]
      BY <2>5
    <3>2. RunTypeOK'
      BY <2>2, <2>3, <2>5
    <3>3. Alone(p)
      BY <2>2, <2>3, <2>5, <3>1
    <3>4. UNCHANGED <<bound, loaded, superr, result>>
      BY <2>5
    <3>5. RunInv(p)'
      BY <2>3, <3>1, <3>4
    <3> QED
      BY <3>2, <3>3, <3>5
  <2> QED
    BY <2>1, <2>4, <2>5
<1>3. CASE AddTapAllow(p)
  <2>0. PICK clean \in exec_remove_tap_allow(allows, p) : \E out \in exec_add_tap_allow(clean, p) :
          /\ allows' = out[2]
          /\ \/ out[1] /\ At(p, "allow", "listen") /\ Hold(p, "allow") /\ UNCHANGED localVars
             \/ ~out[1] /\ Fail(p, "allow")
    BY <1>3 DEF AddTapAllow
  <2>1. PICK out \in exec_add_tap_allow(clean, p) :
          /\ allows' = out[2]
          /\ \/ out[1] /\ At(p, "allow", "listen") /\ Hold(p, "allow") /\ UNCHANGED localVars
             \/ ~out[1] /\ Fail(p, "allow")
    BY <2>0
  <2>2. /\ allows' \subseteq Runs /\ \A q \in Runs : q # p => (q \in allows' <=> q \in allows)
        /\ ~out[1] => (p \in allows' => p \in allows)
    <3>1. /\ clean \in {allows \ {p}, allows}
          /\ allows' = clean \cup {p} \/ allows' = clean
          /\ ~out[1] => allows' = clean
      BY <2>1, AllowAnswers, AllowRefused DEF exec_remove_tap_allow
    <3> QED
      BY <3>1
  <2>3. UNCHANGED <<taps, dirs, tails, tables, vm, stays, deaths>> /\ at[p] = "allow"
    BY <1>3, FailStep DEF AddTapAllow
  <2>4. CASE ~out[1] /\ Fail(p, "allow")
    BY <2>2, <2>3, <2>4, FailStep
  <2>5. CASE At(p, "allow", "listen") /\ Hold(p, "allow") /\ UNCHANGED localVars
    <3>1. /\ at'[p] = "listen" /\ held'[p] = held[p] \cup {"allow"}
          /\ \A q \in Runs : q # p => at'[q] = at[q] /\ held'[q] = held[q]
      BY <2>5
    <3>2. RunTypeOK'
      BY <2>2, <2>3, <2>5
    <3>3. Alone(p)
      BY <2>2, <2>3, <2>5, <3>1
    <3>4. UNCHANGED <<bound, loaded, superr, result>>
      BY <2>5
    <3>5. RunInv(p)'
      BY <2>3, <3>1, <3>4
    <3> QED
      BY <3>2, <3>3, <3>5
  <2> QED
    BY <2>1, <2>4, <2>5
<1>4. CASE BindListeners(p)
  BY <1>4 DEF BindListeners, exec_bind_dns
<1> QED
  BY <1>1, <1>2, <1>3, <1>4

LEMMA UpToBoot ==
  ASSUME RunTypeOK, NEW p \in Runs, RunInv(p),
         \/ ApplyNft(p) \/ WatchDropLog(p) \/ PrepareRunDir(p) \/ MakeWorkspaceImage(p)
         \/ SpawnFirecracker(p) \/ ConfigureVm(p) \/ BootVm(p)
  PROVE  RunTypeOK' /\ RunInv(p)' /\ Alone(p)
<1> USE DEF RunTypeOK, RunInv, TapOwned, AllowOwned, DirOwned, VmStage, TableStage, TableGone,
            Quiet, Success, Untouched, Alone, Early, NoDir, NoVm, Settled, At, Hold,
            localVars, hostVars
<1>1. CASE ApplyNft(p)
  <2>0. PICK clean \in exec_delete_nft(tables, p) :
          \E out \in IF "proxy" \in bound[p] THEN exec_apply_nft(clean, p, build_ruleset(p))
                                            ELSE {<<FALSE, clean>>} :
            loaded' = [loaded EXCEPT ![p] = out[1]] /\ tables' = out[2]
    BY <1>1 DEF ApplyNft
  <2>1. PICK out \in (IF "proxy" \in bound[p] THEN exec_apply_nft(clean, p, build_ruleset(p))
                                              ELSE {<<FALSE, clean>>}) :
          loaded' = [loaded EXCEPT ![p] = out[1]] /\ tables' = out[2]
    BY <2>0
  <2>2. /\ out[1] \in BOOLEAN
        /\ \/ /\ "proxy" \in bound[p] /\ out[1]
              /\ tables' = [clean EXCEPT ![p] = bound[p]]
           \/ ~out[1] /\ tables' = clean
        /\ clean \in {[tables EXCEPT ![p] = {}], tables}
    <3>0. clean \in {[tables EXCEPT ![p] = {}], tables}
      BY <2>0 DEF exec_delete_nft
    <3>1. CASE "proxy" \in bound[p]
      BY <2>1, <3>0, <3>1, NftAnswers DEF build_ruleset
    <3>2. CASE "proxy" \notin bound[p]
      <4>1. out = <<FALSE, clean>>
        BY <2>1, <3>2
      <4> QED
        BY <2>1, <3>0, <4>1
    <3> QED
      BY <3>1, <3>2
  <2>3. /\ tables' \in [Runs -> SUBSET {"proxy", "dns"}]
        /\ \A q \in Runs : q # p => tables'[q] = tables[q]
        /\ tables'[p] \subseteq bound[p] /\ (out[1] => tables'[p] # {}) /\ out[1] \in BOOLEAN
    <3>1. at[p] = "nft" /\ tables[p] = {}
      BY <1>1 DEF ApplyNft
    <3> QED
      BY <2>2, <3>1
  <2>4. /\ at[p] = "nft" /\ at' = [at EXCEPT ![p] = "tail"]
        /\ UNCHANGED <<mode, taken, bound, superr, result, history, held, taps, allows, dirs,
                       tails, vm, stays, deaths>>
    BY <1>1 DEF ApplyNft
  <2>5. loaded' \in [Runs -> BOOLEAN] /\ loaded'[p] = out[1] /\ at'[p] = "tail"
        /\ \A q \in Runs : q # p => at'[q] = at[q] /\ loaded'[q] = loaded[q]
    BY <2>1, <2>3, <2>4
  <2>6. RunTypeOK'
    BY <2>3, <2>4, <2>5
  <2>7. Alone(p)
    BY <2>3, <2>4, <2>5
  <2>8. RunInv(p)'
    BY <2>3, <2>4, <2>5
  <2> QED
    BY <2>6, <2>7, <2>8
<1>2. CASE WatchDropLog(p)
  <2>1. /\ at[p] = "tail" /\ at'[p] = "prepare" /\ \A q \in Runs : q # p => at'[q] = at[q]
        /\ at' \in [Runs -> {"probe", "tap", "allow", "listen", "nft", "tail", "prepare", "image",
                      "spawn", "configure", "boot", "supervise", "extract", "clean", "unwind", "over", "killed"}]
        /\ UNCHANGED <<localVars, held, taps, allows, dirs, tables, vm, deaths>>
        /\ tails' = tails \/ tails' = tails \cup {p}
    BY <1>2 DEF WatchDropLog
  <2>2. /\ stays' \in [Runs -> SUBSET {"tap", "allow", "dir", "table", "tail"}]
        /\ stays[p] \subseteq stays'[p] /\ \A q \in Runs : q # p => stays'[q] = stays[q]
    BY <1>2, RemovedStep DEF WatchDropLog
  <2> QED
    BY <2>1, <2>2
<1>3. CASE PrepareRunDir(p)
  BY <1>3, FailStep DEF PrepareRunDir
<1>4. CASE MakeWorkspaceImage(p)
  BY <1>4, FailStep DEF MakeWorkspaceImage
<1>5. CASE SpawnFirecracker(p)
  BY <1>5, FailStep DEF SpawnFirecracker
<1>6. CASE ConfigureVm(p)
  BY <1>6, FailStep DEF ConfigureVm
<1>7. CASE BootVm(p)
  BY <1>7, FailStep DEF BootVm
<1> QED
  BY <1>1, <1>2, <1>3, <1>4, <1>5, <1>6, <1>7

LEMMA ToTheEnd ==
  ASSUME RunTypeOK, NEW p \in Runs, RunInv(p),
         \/ Supervised(p) \/ Extract(p) \/ DeleteNft(p) \/ DropHandle(p) \/ DropAllow(p)
         \/ DropTap(p) \/ Exit(p)
  PROVE  RunTypeOK' /\ RunInv(p)' /\ Alone(p)
<1> USE DEF RunTypeOK, RunInv, TapOwned, AllowOwned, DirOwned, VmStage, TableStage, TableGone,
            Quiet, Success, Untouched, Alone, Early, NoDir, NoVm, Settled, At,
            localVars, hostVars
<1>1. CASE Supervised(p)
  <2>1. /\ at[p] = "supervise" /\ at'[p] \in {"extract", "clean"}
        /\ \A q \in Runs : q # p => at'[q] = at[q]
        /\ UNCHANGED <<mode, taken, loaded, result, history, held, taps, allows, dirs, tables,
                       vm, stays, deaths>>
    BY <1>1 DEF Supervised
  <2>2. \/ /\ vm[p] = "off" /\ bound' = [bound EXCEPT ![p] = {}]
           /\ tails' \in {tails, tails \ {p}} /\ ("tail" \in stays[p] \/ p \notin tails')
           /\ \E failed \in BOOLEAN : superr' = [superr EXCEPT ![p] = failed]
        \/ superr' = [superr EXCEPT ![p] = TRUE] /\ UNCHANGED <<bound, tails>>
    BY <1>1 DEF Supervised, Reap
  <2>3. RunTypeOK'
    BY <1>1, <2>2, ZenonT(60) DEF Supervised
  <2>4. Alone(p)
    BY <2>1, <2>2
  <2>5. RunInv(p)'
    BY <2>1, <2>2
  <2> QED
    BY <2>3, <2>4, <2>5
<1>2. CASE Extract(p)
  <2>1. /\ At(p, "extract", "clean")
        /\ result' = [result EXCEPT ![p] = "failed"] \/ result' = result
        /\ UNCHANGED <<mode, taken, bound, loaded, superr, held, hostVars, deaths>>
    BY <1>2 DEF Extract
  <2> QED
    BY <2>1
<1>3. CASE DeleteNft(p)
  <2>1. /\ at[p] = "clean" /\ at'[p] = "unwind" /\ tables'[p] \in {{}, tables[p]}
        /\ result'[p] = IF superr[p] \/ result[p] = "failed" THEN "failed" ELSE "ok"
        /\ UNCHANGED <<mode, taken, bound, loaded, superr, history, held, taps, allows, dirs,
                       tails, vm, deaths>>
        /\ tables' \in [Runs -> SUBSET {"proxy", "dns"}]
        /\ result' \in [Runs -> {"none", "ok", "failed"}]
        /\ \A q \in Runs : q # p => at'[q] = at[q] /\ tables'[q] = tables[q] /\ result'[q] = result[q]
    BY <1>3 DEF DeleteNft, exec_delete_nft
  <2>2. /\ stays' \in [Runs -> SUBSET {"tap", "allow", "dir", "table", "tail"}]
        /\ stays[p] \subseteq stays'[p] /\ \A q \in Runs : q # p => stays'[q] = stays[q]
        /\ tables'[p] # {} => "table" \in stays'[p]
    BY <1>3, RemovedStep, Zenon DEF DeleteNft
  <2>3. RunTypeOK'
    <3>1. at' = [at EXCEPT ![p] = "unwind"]
      BY <1>3 DEF DeleteNft
    <3> QED
      BY <2>1, <2>2, <3>1
  <2>4. Alone(p)
    BY <2>1, <2>2
  <2>5. RunInv(p)'
    BY <2>1, <2>2
  <2> QED
    BY <2>3, <2>4, <2>5
<1>4. CASE DropHandle(p)
  <2>1. /\ at[p] = "unwind" /\ held' = [held EXCEPT ![p] = @ \ {"dir"}]
        /\ dirs' \in {dirs \ {p}, dirs}
        /\ UNCHANGED <<localVars, at, tails, tables, vm, deaths, taps, allows>>
    BY <1>4 DEF DropHandle, Drop
  <2>2. /\ stays' \in [Runs -> SUBSET {"tap", "allow", "dir", "table", "tail"}]
        /\ stays[p] \subseteq stays'[p] /\ \A q \in Runs : q # p => stays'[q] = stays[q]
        /\ p \in dirs' => "dir" \in stays'[p]
    BY <1>4, RemovedStep, Zenon DEF DropHandle
  <2>3. RunTypeOK'
    BY <2>1, <2>2
  <2>4. Alone(p)
    BY <2>1, <2>2
  <2>5. RunInv(p)'
    BY <2>1, <2>2
  <2> QED
    BY <2>3, <2>4, <2>5
<1>5. CASE DropAllow(p)
  <2>1. /\ at[p] = "unwind" /\ held' = [held EXCEPT ![p] = @ \ {"allow"}]
        /\ allows' \in {allows \ {p}, allows}
        /\ UNCHANGED <<localVars, at, tails, tables, vm, deaths, taps, dirs>>
    BY <1>5 DEF DropAllow, Drop, exec_remove_tap_allow
  <2>2. /\ stays' \in [Runs -> SUBSET {"tap", "allow", "dir", "table", "tail"}]
        /\ stays[p] \subseteq stays'[p] /\ \A q \in Runs : q # p => stays'[q] = stays[q]
        /\ p \in allows' => "allow" \in stays'[p]
    BY <1>5, RemovedStep, Zenon DEF DropAllow
  <2>3. RunTypeOK'
    BY <2>1, <2>2
  <2>4. Alone(p)
    BY <2>1, <2>2
  <2>5. RunInv(p)'
    BY <2>1, <2>2
  <2> QED
    BY <2>3, <2>4, <2>5
<1>6. CASE DropTap(p)
  <2>1. /\ at[p] = "unwind" /\ held' = [held EXCEPT ![p] = @ \ {"tap"}]
        /\ taps' \in {taps \ {p}, taps}
        /\ UNCHANGED <<localVars, at, tails, tables, vm, deaths, allows, dirs>>
    BY <1>6 DEF DropTap, Drop, exec_delete_tap
  <2>2. /\ stays' \in [Runs -> SUBSET {"tap", "allow", "dir", "table", "tail"}]
        /\ stays[p] \subseteq stays'[p] /\ \A q \in Runs : q # p => stays'[q] = stays[q]
        /\ p \in taps' => "tap" \in stays'[p]
    BY <1>6, RemovedStep, Zenon DEF DropTap
  <2>3. RunTypeOK'
    BY <2>1, <2>2
  <2>4. Alone(p)
    BY <2>1, <2>2
  <2>5. RunInv(p)'
    BY <2>1, <2>2
  <2> QED
    BY <2>3, <2>4, <2>5
<1>7. CASE Exit(p)
  BY <1>7 DEF Exit
<1> QED
  BY <1>1, <1>2, <1>3, <1>4, <1>5, <1>6, <1>7

LEMMA Outside ==
  ASSUME RunTypeOK, NEW p \in Runs, RunInv(p),
         VmExit(p) \/ Neighbour(p) \/ KillRun(p) \/ TailDies(p)
  PROVE  RunTypeOK' /\ RunInv(p)' /\ Alone(p)
<1> USE DEF RunTypeOK, RunInv, TapOwned, AllowOwned, DirOwned, VmStage, TableStage, TableGone,
            Quiet, Success, Untouched, Alone, Early, NoDir, NoVm, Settled,
            localVars, hostVars
<1>1. CASE VmExit(p)
  BY <1>1 DEF VmExit
<1>2. CASE Neighbour(p)
  BY <1>2 DEF Neighbour
<1>3. CASE KillRun(p)
  BY <1>3, SandboxAssumption DEF KillRun
<1>4. CASE TailDies(p)
  BY <1>4 DEF TailDies
<1> QED
  BY <1>1, <1>2, <1>3, <1>4

Others == \A r \in Runs : RunInv(r)

LEMMA RunTyping == RunInit => RunTypeOK /\ Others
<1> SUFFICES ASSUME RunInit PROVE RunTypeOK /\ Others
  OBVIOUS
<1>1. RunTypeOK
  BY SandboxAssumption DEF RunInit, RunTypeOK
<1>2. ASSUME NEW r \in Runs PROVE RunInv(r)
  BY DEF RunInit, RunInv, TapOwned, AllowOwned, DirOwned, VmStage, TableStage, TableGone,
         Quiet, Success, NoDir, NoVm, Early
<1> QED
  BY <1>1, <1>2 DEF Others

LEMMA RunSteps == RunTypeOK /\ Others /\ [Next]_hostRunVars => (RunTypeOK /\ Others)'
<1> SUFFICES ASSUME RunTypeOK, Others, [Next]_hostRunVars PROVE (RunTypeOK /\ Others)'
  OBVIOUS
<1>1. ASSUME NEW p \in Runs, RunStep(p) \/ VmExit(p) \/ Neighbour(p) \/ KillRun(p) \/ TailDies(p)
      PROVE  (RunTypeOK /\ Others)'
  <2>1. RunTypeOK' /\ RunInv(p)' /\ Alone(p)
    BY <1>1, BeforeVm, UpToBoot, ToTheEnd, Outside DEF RunStep, Others
  <2>2. \A q \in Runs : q # p => RunInv(q)'
    BY <2>1, UntouchedKeeps DEF Alone, Others
  <2> QED
    BY <2>1, <2>2 DEF Others
<1>2. CASE UNCHANGED runVars
  BY <1>2 DEF runVars, localVars, hostVars, RunTypeOK, Others, RunInv, TapOwned, AllowOwned,
     DirOwned, VmStage, TableStage, TableGone, Quiet, Success
<1> QED
  BY <1>1, <1>2 DEF Next, Resolve, Run, hostRunVars

\* What a Run leaves on the host, in every order of failures, kills and the VM's end, and
\* whatever other Runs do (sandbox_run::run, the guards' Drop).
THEOREM LeftoversAreExplained == Spec => []LeftoversExplained
<1>1. RunTypeOK /\ Others => LeftoversExplained
  BY DEF Others, RunInv, TapOwned, AllowOwned, Success, Settled, LeftoversExplained
<1>2. Init => RunTypeOK /\ Others
  BY RunTyping DEF Init
<1> QED
  BY <1>1, <1>2, RunSteps, PTL DEF Spec

\* A VM runs behind its ruleset once that was loaded (apply and delete of sandbox_nft.rs).
THEOREM StaysFiltered == Spec => []FilteredWhileUp
<1>1. RunTypeOK /\ Others => FilteredWhileUp
  BY DEF Others, RunInv, TableGone, Settled, FilteredWhileUp
<1>2. Init => RunTypeOK /\ Others
  BY RunTyping DEF Init
<1> QED
  BY <1>1, <1>2, RunSteps, PTL DEF Spec

\* The ruleset opens the Run's own listeners only (build_ruleset).
THEOREM OwnPortsOnly == Spec => []OpensOwnPorts
<1>1. RunTypeOK /\ Others => OpensOwnPorts
  BY DEF Others, RunInv, TableStage, OpensOwnPorts
<1>2. Init => RunTypeOK /\ Others
  BY RunTyping DEF Init
<1> QED
  BY <1>1, <1>2, RunSteps, PTL DEF Spec

\* The Workspace's disk is read when its VM is down (run, extract_workspace_from_ext4).
THEOREM DiskIsQuiet == Spec => []ExtractsQuietDisk
<1>1. RunTypeOK /\ Others => ExtractsQuietDisk
  BY DEF Others, RunInv, DirOwned, Quiet, ExtractsQuietDisk
<1>2. Init => RunTypeOK /\ Others
  BY RunTyping DEF Init
<1> QED
  BY <1>1, <1>2, RunSteps, PTL DEF Spec

-----------------------------------------------------------------------------
(* What is booted *)

\* An image is placed when it is whole; one that is not is dropped before it is booted.
ImageInv ==
  /\ rootfs \in {"none", "bad", "whole"}
  /\ stage \in [Procs -> Stages] /\ build \in [Procs -> {"none", "part", "whole"}]
  /\ \A p \in Procs : stage[p] = "place" => build[p] = "whole"
  /\ ReadyRootfsWhole

LEMMA KernelKeeps ==
  ASSUME ImageInv, NEW p \in Procs, KernelStep(p) \/ KillResolver(p)
  PROVE  ImageInv'
<1>1. UNCHANGED <<rootfs, build>>
  BY DEF KernelStep, LookupKernel, HashKernel, UnlinkKernel, FetchKernel, FillKernel, CheckBody,
         RenameKernel, KillResolver, imgVars
<1>2. \E s \in Stages \ {"place", "ready"} : Go(p, s)
  BY DEF KernelStep, LookupKernel, HashKernel, UnlinkKernel, FetchKernel, FillKernel, CheckBody,
         RenameKernel, KillResolver, Stages, Resolved
<1> QED
  BY <1>1, <1>2 DEF ImageInv, Go, ReadyRootfsWhole

LEMMA RootfsKeeps ==
  ASSUME ImageInv, NEW p \in Procs, RootfsStep(p)
  PROVE  ImageInv'
<1> USE DEF ImageInv, Go, ReadyRootfsWhole, Stages, Resolved
<1>1. CASE LookupRootfs(p)
  BY <1>1 DEF LookupRootfs, is_valid_ext4, imgVars
<1>2. CASE DropRootfs(p)
  BY <1>2 DEF DropRootfs
<1>3. CASE PullRootfs(p)
  <2>1. UNCHANGED rootfs /\ ((Go(p, "mkfs") /\ build' = [build EXCEPT ![p] = "part"])
                              \/ (Go(p, "failed") /\ UNCHANGED build))
    BY <1>3 DEF PullRootfs
  <2>2. stage[p] = "pull"
    BY <1>3 DEF PullRootfs
  <2> QED
    BY <2>1, <2>2
<1>4. CASE MakeRootfs(p)
  BY <1>4 DEF MakeRootfs
<1>5. CASE PlaceRootfs(p)
  BY <1>5 DEF PlaceRootfs
<1> QED
  BY <1>1, <1>2, <1>3, <1>4, <1>5 DEF RootfsStep

LEMMA ImageStep == ImageInv /\ [Next]_hostRunVars => ImageInv'
<1> SUFFICES ASSUME ImageInv, [Next]_hostRunVars PROVE ImageInv'
  OBVIOUS
<1>1. ASSUME NEW p \in Procs, Resolve(p) PROVE ImageInv'
  BY <1>1, KernelKeeps, RootfsKeeps DEF Resolve
<1>2. CASE UNCHANGED cacheVars
  BY <1>2 DEF cacheVars, imgVars, procVars, ImageInv, ReadyRootfsWhole
<1> QED
  BY <1>1, <1>2 DEF Next, Run, hostRunVars

\* A VM boots a whole image, for any number of processes that build, drop and replace it
\* (resolve_rootfs, create_ext4_from_dir, start_firecracker).
THEOREM WholeImagesBoot == Spec => BootsWhole
<1>1. Init => ImageInv
  BY DEF Init, CacheInit, ImageInv, ReadyRootfsWhole, Stages
<1>2. RunTypeOK /\ Others /\ ImageInv /\ [Next]_hostRunVars =>
        [\A p \in Runs : at[p] = "configure" /\ at'[p] = "boot" => rootfs = "whole"]_hostRunVars
  <2> SUFFICES ASSUME RunTypeOK, Others, ImageInv, [Next]_hostRunVars, NEW p \in Runs, at[p] = "configure", at'[p] = "boot"
               PROVE  rootfs = "whole"
    OBVIOUS
  <2>1. PICK q \in Runs : Run(q)
    BY DEF Next, Resolve, hostRunVars, runVars
  <2>2. Alone(q)
    BY <2>1, BeforeVm, UpToBoot, ToTheEnd, Outside DEF Run, RunStep, Others
  <2>3. q = p
    BY <2>2 DEF Alone, Untouched
  <2> QED
    BY <2>1, <2>3, HostAssumption DEF Run, ImageInv, ReadyRootfsWhole
<1>3. Init => RunTypeOK /\ Others
  BY RunTyping DEF Init
<1> QED
  BY <1>1, <1>2, <1>3, RunSteps, ImageStep, PTL DEF Spec, BootsWhole

-----------------------------------------------------------------------------
(* The kernel *)

Contents == {"part", "good", "bad"}
KernelTypes ==
  /\ stage \in [Procs -> Stages] /\ raced \in [Procs -> BOOLEAN]
  /\ body \in [Procs -> {"none", "good", "bad"}]
  /\ fd \in [Procs -> Inodes \cup {None}]
  /\ kernel \in Inodes \cup {None} /\ ktmp \in Inodes \cup {None}
  /\ data \in [Live -> Contents] /\ last \in [Live -> Procs \cup {None}]
  /\ \A p \in Procs : stage[p] \notin {"hash", "write"} => fd[p] = None

\* Who downloads and was not told of another download is alone, and the temporary name
\* denotes its own file.
Owns(p) ==
  /\ ktmp # None
  /\ stage[p] = "write" => fd[p] = ktmp /\ last[ktmp] = p
  /\ stage[p] = "check" /\ body[p] = "good" => data[ktmp] = "good"
  /\ stage[p] = "rename" => data[ktmp] = "good"

KernelInv ==
  /\ KernelTypes
  /\ \A p, q \in Procs : p # q /\ stage[p] \in Downloading /\ stage[q] \in Downloading => raced[p]
  /\ \A p \in Procs : stage[p] \in Downloading /\ ~raced[p] => Owns(p)

LEMMA AddOne ==
  ASSUME NEW S, IsFiniteSet(S), NEW x
  PROVE  /\ IsFiniteSet(S \cup {x}) /\ Cardinality(S \cup {x}) \in Nat /\ Cardinality(S) \in Nat
         /\ Cardinality(S \cup {x}) <= Cardinality(S) + 1
<1>1. IsFiniteSet(S \cup {x}) /\ Cardinality(S) \in Nat
  BY FS_AddElement, FS_CardinalityType
<1>2. Cardinality(S \cup {x}) = Cardinality(S) \/ Cardinality(S \cup {x}) = Cardinality(S) + 1
  BY FS_AddElement
<1> QED
  BY <1>1, <1>2

\* Names and descriptors are fewer than inodes.
LEMMA SpareInode == ASSUME KernelTypes PROVE \E i \in Inodes : i \notin Live
<1> DEFINE D == {fd[q] : q \in Procs}
           n == Cardinality(Procs)
<1>1. IsFiniteSet(Procs) /\ n \in Nat
  BY CachesAssumption, FS_CardinalityType
<1>2. IsFiniteSet(D) /\ Cardinality(D) <= n
  <2>1. fd \in Surjection(Procs, D)
    BY DEF KernelTypes, Surjection
  <2> QED
    BY <1>1, <2>1, FS_Surjection
<1>3. Cardinality(D) \in Nat
  BY <1>2, FS_CardinalityType
<1> HIDE DEF D, n
<1>4. IsFiniteSet(D \cup {kernel}) /\ Cardinality(D \cup {kernel}) <= n + 1
      /\ Cardinality(D \cup {kernel}) \in Nat
  <2>1. /\ IsFiniteSet(D \cup {kernel}) /\ Cardinality(D \cup {kernel}) \in Nat
        /\ Cardinality(D \cup {kernel}) <= Cardinality(D) + 1
    BY <1>2, AddOne
  <2> QED
    BY <1>1, <1>2, <1>3, <2>1
<1> DEFINE K == D \cup {kernel}
<1> HIDE DEF K
<1>5. IsFiniteSet(K \cup {ktmp}) /\ Cardinality(K \cup {ktmp}) <= n + 2
      /\ Cardinality(K \cup {ktmp}) \in Nat
  <2>1. IsFiniteSet(K) /\ Cardinality(K) <= n + 1 /\ Cardinality(K) \in Nat
    BY <1>4 DEF K
  <2>2. /\ IsFiniteSet(K \cup {ktmp}) /\ Cardinality(K \cup {ktmp}) \in Nat
        /\ Cardinality(K \cup {ktmp}) <= Cardinality(K) + 1
    BY <2>1, AddOne
  <2> QED
    BY <1>1, <2>1, <2>2
<1>6. Cardinality(Inodes) = n + 3
  <2>1. Cardinality(1 .. n + 3) = n + 3
    BY <1>1, FS_Interval
  <2> QED
    BY <2>1 DEF Inodes, n
<1>7. CASE Inodes \subseteq Live
  <2>1. Inodes \in SUBSET (K \cup {ktmp})
    BY <1>7 DEF Live, K, D
  <2>2. Cardinality(Inodes) <= Cardinality(K \cup {ktmp})
    BY <1>5, <2>1, FS_Subset
  <2> QED
    BY <1>1, <1>5, <1>6, <2>2
<1> QED
  BY <1>7

\* Files keeps the contents of what is still alive.
LEMMA FilesKept ==
  ASSUME NEW d, NEW l, Files(d, l),
         \A i \in Live' : d[i] \in Contents /\ l[i] \in Procs \cup {None}
  PROVE  /\ data' \in [Live' -> Contents] /\ last' \in [Live' -> Procs \cup {None}]
         /\ \A i \in Live' : data'[i] = d[i] /\ last'[i] = l[i]
  BY DEF Files

\* A step that touches no name, or loses one, keeps what the others own.
LEMMA OwnsStay ==
  ASSUME KernelInv, Files(data, last), NEW p \in Procs, Live' \subseteq Live,
         stage' \in [Procs -> Stages], fd' \in [Procs -> Inodes \cup {None}],
         body' \in [Procs -> {"none", "good", "bad"}], raced' \in [Procs -> BOOLEAN],
         kernel' \in Inodes \cup {None}, ktmp' \in Inodes \cup {None},
         \A q \in Procs : q # p => stage'[q] = stage[q] /\ fd'[q] = fd[q] /\ body'[q] = body[q]
                                     /\ raced'[q] = raced[q],
         ktmp' = ktmp \/ stage[p] \in Downloading, stage'[p] \notin {"hash", "write"} => fd'[p] = None,
         \/ stage'[p] \notin Downloading
         \/ /\ stage[p] = "check" /\ body[p] = "good" /\ stage'[p] = "rename"
            /\ raced' = raced /\ ktmp' = ktmp
  PROVE  KernelInv'
<1>1. /\ data' \in [Live' -> Contents] /\ last' \in [Live' -> Procs \cup {None}]
      /\ \A i \in Live' : data'[i] = data[i] /\ last'[i] = last[i]
  BY FilesKept DEF KernelInv, KernelTypes
<1>2. KernelTypes'
  BY <1>1 DEF KernelInv, KernelTypes
<1>3. \A a, b \in Procs : a # b /\ stage'[a] \in Downloading /\ stage'[b] \in Downloading => raced'[a]
  BY DEF KernelInv, Downloading
<1>4. ktmp' # None => ktmp' \in Live'
  BY DEF Live
<1>5. ASSUME NEW q \in Procs, stage'[q] \in Downloading, ~raced'[q] PROVE Owns(q)'
  <2>1. stage[q] \in Downloading /\ ~raced[q] /\ Owns(q)
    BY <1>5 DEF KernelInv, Downloading
  <2>2. ktmp' = ktmp
    BY <1>5, <2>1 DEF KernelInv
  <2> QED
    BY <1>1, <1>4, <2>1, <2>2, <1>5 DEF Owns, Downloading
<1> QED
  BY <1>2, <1>3, <1>5 DEF KernelInv

LEMMA KernelStays ==
  ASSUME KernelInv, NEW p \in Procs, KernelStep(p) \/ KillResolver(p)
  PROVE  KernelInv'
<1> USE DEF Go, Stages, Resolved, Downloading
<1>0. KernelTypes
  BY DEF KernelInv
<1>1. CASE LookupKernel(p)
  <2>1. Live' = Live
    BY <1>0, <1>1 DEF LookupKernel, Live, KernelTypes, fsVars
  <2>2. Files(data, last)
    BY <1>0, <1>1, <2>1 DEF LookupKernel, Files, KernelTypes, fsVars
  <2> QED
    BY <1>0, <1>1, <2>1, <2>2, OwnsStay DEF LookupKernel, KernelTypes, fsVars
<1>2. CASE HashKernel(p)
  <2>1. Live' \subseteq Live
    BY <1>0, <1>2 DEF HashKernel, Live, KernelTypes
  <2> QED
    BY <1>0, <1>2, <2>1, OwnsStay DEF HashKernel, KernelTypes
<1>3. CASE UnlinkKernel(p)
  <2>1. Live' \subseteq Live
    BY <1>0, <1>3 DEF UnlinkKernel, Live, KernelTypes
  <2> QED
    BY <1>0, <1>3, <2>1, OwnsStay DEF UnlinkKernel, KernelTypes
<1>4. CASE FetchKernel(p)
  <2>1. CASE Go(p, "failed") /\ UNCHANGED <<ktmp, data, last, fd, body, raced>>
    <3>1. Live' = Live /\ kernel' = kernel
      BY <1>4, <2>1 DEF FetchKernel, Live
    <3>2. Files(data, last)
      BY <1>0, <2>1, <3>1 DEF Files, KernelTypes
    <3>3. stage[p] = "fetch"
      BY <1>4 DEF FetchKernel
    <3>4. /\ stage' \in [Procs -> Stages] /\ stage'[p] = "failed"
          /\ \A q \in Procs : q # p => stage'[q] = stage[q]
      BY <1>0, <2>1 DEF KernelTypes
    <3> QED
      BY <1>0, <2>1, <3>1, <3>2, <3>3, <3>4, OwnsStay DEF KernelTypes
  <2>2. CASE ~(Go(p, "failed") /\ UNCHANGED <<ktmp, data, last, fd, body, raced>>)
    <3> DEFINE others == {q \in Procs \ {p} : stage[q] \in Downloading}
    <3>1. PICK b \in {"good", "bad"}, i \in TmpInode :
            /\ stage' = [stage EXCEPT ![p] = "write"] /\ body' = [body EXCEPT ![p] = b]
            /\ ktmp' = i /\ fd' = [fd EXCEPT ![p] = i]
            /\ Files([j \in Live \cup {i} |-> IF j = i THEN "part" ELSE data[j]],
                     [j \in Live \cup {i} |-> IF j = i THEN p ELSE last[j]])
            /\ raced' = [q \in Procs |-> raced[q] \/ (others # {} /\ q \in others \cup {p})]
      BY <1>4, <2>2 DEF FetchKernel
    <3>2. i \in Inodes /\ i # None
      <4>1. ASSUME ktmp # None PROVE i \in Inodes
        BY <1>0, <4>1 DEF TmpInode, KernelTypes
      <4>2. ASSUME ktmp = None PROVE i \in Inodes
        <5>1. (CHOOSE j \in Inodes : j \notin Live) \in Inodes
          BY <1>0, SpareInode
        <5> QED
          BY <4>2, <5>1 DEF TmpInode
      <4>3. Inodes \subseteq Nat
        BY CachesAssumption, FS_CardinalityType DEF Inodes
      <4> QED
        BY <4>1, <4>2, <4>3, CachesAssumption
    <3>3. kernel' = kernel /\ stage[p] = "fetch"
      BY <1>4 DEF FetchKernel
    <3>4. Live' \subseteq Live \cup {i} /\ i \in Live'
      BY <1>0, <3>1, <3>2, <3>3 DEF Live, KernelTypes
    <3>5. /\ data' \in [Live' -> Contents] /\ last' \in [Live' -> Procs \cup {None}]
          /\ last'[i] = p
      BY <1>0, <3>1, <3>4, FilesKept DEF KernelTypes, Contents
    <3>6. KernelTypes'
      <4>1. raced' \in [Procs -> BOOLEAN]
        BY <3>1
      <4> HIDE DEF others
      <4> QED
        BY <1>0, <3>1, <3>2, <3>3, <3>5, <4>1 DEF KernelTypes
    <3>7. \A q \in Procs : stage'[q] \in Downloading <=> q = p \/ stage[q] \in Downloading
      BY <1>0, <3>1, <3>3 DEF KernelTypes
    <3>8. \A q \in Procs : q # p /\ stage[q] \in Downloading => raced'[q] /\ raced'[p]
      BY <3>1
    <3>9. \A q \in Procs : raced[q] => raced'[q]
      BY <3>1
    <3>10. Owns(p)'
      BY <1>0, <3>1, <3>2, <3>5 DEF Owns, KernelTypes
    <3>11. \A q \in Procs : stage'[q] \in Downloading /\ ~raced'[q] => q = p
      BY <3>7, <3>8
    <3>12. \A a, q \in Procs : a # q /\ stage'[a] \in Downloading /\ stage'[q] \in Downloading => raced'[a]
      BY <3>7, <3>8, <3>9 DEF KernelInv
    <3> HIDE DEF others
    <3> QED
      BY <3>6, <3>10, <3>11, <3>12 DEF KernelInv
  <2> QED
    BY <2>1, <2>2
<1>5. CASE FillKernel(p)
  <2> DEFINE i == fd[p]
             d == [data EXCEPT ![i] = IF body[p] = "bad" THEN "bad" ELSE IF last[i] = p THEN "good" ELSE @]
             l == [last EXCEPT ![i] = IF @ = p THEN None ELSE @]
  <2>1. /\ stage[p] = "write" /\ stage' = [stage EXCEPT ![p] = "check"]
        /\ fd' = [fd EXCEPT ![p] = None] /\ Files(d, l)
        /\ UNCHANGED <<kernel, ktmp, body, raced>>
    BY <1>5 DEF FillKernel
  <2>2. Live' \subseteq Live
    BY <1>0, <2>1 DEF Live, KernelTypes
  <2>3. /\ \A j \in Live : d[j] \in Contents /\ l[j] \in Procs \cup {None}
        /\ \A j \in Live : j # i => d[j] = data[j] /\ l[j] = last[j]
        /\ i \in Live /\ body[p] = "good" /\ last[i] = p => d[i] = "good"
    BY <1>0 DEF KernelTypes, Contents
  <2>4. /\ data' \in [Live' -> Contents] /\ last' \in [Live' -> Procs \cup {None}]
        /\ \A j \in Live' : data'[j] = d[j] /\ last'[j] = l[j]
    <3> HIDE DEF d, l
    <3> QED
      BY <2>1, <2>2, <2>3, FilesKept
  <2> HIDE DEF d, l
  <2>5. KernelTypes'
    BY <1>0, <2>1, <2>4 DEF KernelTypes
  <2>6. \A q \in Procs : stage'[q] \in Downloading <=> stage[q] \in Downloading
    BY <1>0, <2>1 DEF KernelTypes
  <2>7. ASSUME NEW q \in Procs, stage'[q] \in Downloading, ~raced'[q] PROVE Owns(q)'
    <3>1. stage[q] \in Downloading /\ ~raced[q] /\ Owns(q)
      BY <2>1, <2>6, <2>7 DEF KernelInv
    <3>2. q = p
      BY <2>1, <3>1 DEF KernelInv
    <3>3. i = ktmp /\ last[i] = p /\ ktmp # None /\ stage'[p] = "check"
      BY <1>0, <2>1, <3>1, <3>2 DEF Owns, KernelTypes
    <3>4. i \in Live /\ i \in Live'
      BY <2>1, <3>3 DEF Live
    <3>5. body[p] = "good" => data'[i] = "good"
      BY <2>3, <2>4, <3>3, <3>4
    <3> QED
      BY <2>1, <3>2, <3>3, <3>5 DEF Owns
  <2> QED
    BY <2>1, <2>5, <2>6, <2>7 DEF KernelInv
<1>6. CASE CheckBody(p)
  <2>1. Live' \subseteq Live
    BY <1>0, <1>6 DEF CheckBody, Live, KernelTypes
  <2> QED
    BY <1>0, <1>6, <2>1, OwnsStay DEF CheckBody, KernelTypes
<1>7. CASE RenameKernel(p)
  <2>1. Live' \subseteq Live
    BY <1>0, <1>7 DEF RenameKernel, Live, KernelTypes
  <2> QED
    BY <1>0, <1>7, <2>1, OwnsStay, ZenonT(60) DEF RenameKernel, KernelTypes
<1>8. CASE KillResolver(p)
  <2>1. Live' \subseteq Live
    BY <1>0, <1>8 DEF KillResolver, Live, KernelTypes
  <2> QED
    BY <1>0, <1>8, <2>1, OwnsStay DEF KillResolver, KernelTypes
<1> QED
  BY <1>1, <1>2, <1>3, <1>4, <1>5, <1>6, <1>7, <1>8 DEF KernelStep

\* A kernel that was downloaded while nobody else did is whole when it is returned, for
\* any number of processes and kills (ensure_kernel_with).
THEOREM KernelsAreWhole == Spec => KernelWholeUnlessRaced
<1>1. Init => KernelInv
  <2> SUFFICES ASSUME Init PROVE KernelInv
    OBVIOUS
  <2>1. 1 \in Inodes /\ None \notin Inodes
    BY CachesAssumption, FS_CardinalityType DEF Inodes
  <2>2. fd = [p \in Procs |-> None] /\ stage = [p \in Procs |-> "kernel"] /\ Live = {kernel} \ {None}
    BY DEF Init, CacheInit, Live
  <2> QED
    BY <2>1, <2>2 DEF Init, CacheInit, KernelInv, KernelTypes, Contents, Stages, Downloading
<1>2. KernelInv /\ [Next]_hostRunVars => KernelInv'
  <2> SUFFICES ASSUME KernelInv, [Next]_hostRunVars PROVE KernelInv'
    OBVIOUS
  <2>1. ASSUME NEW p \in Procs, RootfsStep(p) PROVE KernelInv'
    <3>1. UNCHANGED <<fsVars, fd, body, raced>>
      BY <2>1 DEF RootfsStep, LookupRootfs, DropRootfs, PullRootfs, MakeRootfs, PlaceRootfs
    <3>2. /\ stage[p] \in {"rootfs", "drop", "pull", "mkfs", "place"}
          /\ \E s \in {"ready", "drop", "pull", "mkfs", "place", "failed"} : Go(p, s)
      BY <2>1 DEF RootfsStep, LookupRootfs, DropRootfs, PullRootfs, MakeRootfs, PlaceRootfs
    <3>3. /\ stage' \in [Procs -> Stages] /\ stage'[p] \notin Downloading \cup {"hash", "write"}
          /\ \A q \in Procs : q # p => stage'[q] = stage[q]
      BY <3>2 DEF Go, KernelInv, KernelTypes, Stages, Resolved, Downloading
    <3>4. fd[p] = None
      BY <3>2 DEF KernelInv, KernelTypes
    <3>5. KernelTypes'
      BY <3>1, <3>3, <3>4 DEF KernelInv, KernelTypes, Live, fsVars
    <3> QED
      BY <3>1, <3>3, <3>5 DEF KernelInv, Owns, fsVars
  <2>2. CASE UNCHANGED cacheVars
    BY <2>2 DEF cacheVars, fsVars, procVars, KernelInv, KernelTypes, Live, Owns
  <2> QED
    BY <2>1, <2>2, KernelStays DEF Next, Resolve, Run, hostRunVars
<1>3. KernelInv /\ [Next]_hostRunVars =>
        [\A p \in Procs : stage[p] = "rename" /\ stage'[p] = "rootfs" /\ ~raced[p] =>
           kernel' # None /\ data'[kernel'] = "good"]_cacheVars
  <2> SUFFICES ASSUME KernelInv, [Next]_hostRunVars, NEW p \in Procs,
                      stage[p] = "rename", stage'[p] = "rootfs", ~raced[p]
               PROVE  kernel' # None /\ data'[kernel'] = "good"
    OBVIOUS
  <2>1. PICK q \in Procs : KernelStep(q) \/ RootfsStep(q) \/ KillResolver(q)
    BY DEF Next, Resolve, Run, hostRunVars, cacheVars, procVars
  <2>2. \E s \in Stages : Go(q, s)
    BY <2>1 DEF KernelStep, LookupKernel, HashKernel, UnlinkKernel, FetchKernel, FillKernel,
         CheckBody, RenameKernel, KillResolver, RootfsStep, LookupRootfs, DropRootfs, PullRootfs,
         MakeRootfs, PlaceRootfs, Stages, Resolved
  <2>3. q = p
    BY <2>2 DEF Go, KernelInv, KernelTypes
  <2>4. RenameKernel(p)
    BY <2>1, <2>3 DEF KernelStep, LookupKernel, HashKernel, UnlinkKernel, FetchKernel, FillKernel,
         CheckBody, KillResolver, RootfsStep, LookupRootfs, DropRootfs, PullRootfs,
         MakeRootfs, PlaceRootfs, Go, KernelInv, KernelTypes
  <2>5. ktmp # None /\ data[ktmp] = "good"
    BY DEF KernelInv, Owns, Downloading
  <2>6. kernel' = ktmp /\ Files(data, last)
    BY <2>4, <2>5 DEF RenameKernel
  <2>7. ktmp \in Live'
    BY <2>5, <2>6 DEF Live
  <2> QED
    BY <2>5, <2>6, <2>7 DEF Files
<1> QED
  BY <1>1, <1>2, <1>3, PTL DEF Spec, KernelWholeUnlessRaced
=============================================================================
