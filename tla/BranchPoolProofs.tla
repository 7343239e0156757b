-------------------------- MODULE BranchPoolProofs --------------------------
(***************************************************************************)
(* What BranchPool.tla keeps for every set of branches, Runs, closes and   *)
(* manifests, and any number of commits.                                   *)
(***************************************************************************)
EXTENDS BranchPool, TLAPS

Ref == Commit \cup {NoCommit}

RunRecord == [pc : RunSteps, out : Name \cup {NoOutput}, base : Ref, head : Ref,
              told : Ref, tip : Ref, made : SUBSET Commit, late : SUBSET Commit, have : SUBSET Commit, saw : SUBSET Name,
              old : Ref, sha : Ref]

KeptEntry == {e \in Entry : IsKept(e)}

CloseRecord == [pc : CloseSteps, manifest : Seq(KeptEntry),
                seen : Seq([pool : Ref, host : Ref]), temps : SUBSET Nat]

Types ==
  /\ count \in Commit /\ past \in [Commit -> SUBSET Commit]
  /\ pool \in [Name -> Ref] /\ temp \in [Indices -> Ref] /\ stuck \subseteq Indices
  /\ host \in [HostRefs -> Ref] /\ mine \in [HostRefs -> SUBSET Commit]
  /\ run \in [Runs -> RunRecord] /\ close \in [Closers -> CloseRecord]

\* A Run that may still commit or report has something to build on.
Working == {"agent", "compare", "validate", "fetch", "update"}

\* What a Run refers to is among the first n commits.
Sound(x, n) ==
  /\ x.head <= n /\ x.base <= n /\ x.told <= n /\ x.tip <= n /\ x.sha <= n
  /\ x.have \subseteq 1 .. n /\ x.made \subseteq 1 .. n
  /\ x.pc \in Working => x.head # NoCommit /\ x.base # NoCommit
  /\ x.pc = "update" => x.tip # NoCommit
  /\ x.sha # NoCommit => x.pc = "ok"

\* Only commits that were made are referred to, and a commit reaches no later one.
Made ==
  /\ \A c \in 1 .. count : past[c] \subseteq 1 .. c /\ c \in past[c]
  /\ \A n \in Name : pool[n] <= count
  /\ \A b \in HostRefs : host[b] <= count /\ mine[b] \subseteq 1 .. count
  /\ \A r \in Runs : Sound(run[r], count)

-----------------------------------------------------------------------------
(* Typing *)

\* The pairs of a name are told apart by their first component.
LEMMA Names ==
  /\ \A r \in Runs : Audit(r) \in Name /\ Reserved(Audit(r))
  /\ \A q, r \in Runs : Audit(q) = Audit(r) => q = r
  BY DEF Audit, Name, Reserved

\* The commit after the last one.
LEMMA Grows ==
  ASSUME Types, Made, NEW P, P \subseteq 1 .. count, NewCommit(P)
  PROVE  /\ count' = count + 1 /\ count' \in Commit /\ count' \notin 1 .. count
         /\ past' \in [Commit -> SUBSET Commit]
         /\ \A c \in 1 .. count : past'[c] = past[c]
         /\ past'[count'] = {count'} \cup UNION {past[q] : q \in P}
         /\ \A c \in 1 .. count' : past'[c] \subseteq 1 .. c /\ c \in past'[c]
<1>1. count \in Nat /\ MaxCommit \in Nat /\ count < MaxCommit /\ count' = count + 1
  BY BranchPoolAssumption DEF NewCommit, Types, Commit
<1>2. \A q \in 1 .. count : q \in Commit /\ q \in Nat /\ q <= count
  BY <1>1 DEF Commit
<1>3. 1 .. count + 1 \subseteq Commit /\ count + 1 \in Commit /\ count + 1 \notin 1 .. count
  BY <1>1 DEF Commit
<1> DEFINE New == {count + 1} \cup UNION {past[q] : q \in P}
<1>4. \A q \in P : past[q] \subseteq 1 .. count
  <2> SUFFICES ASSUME NEW q \in P, NEW a \in past[q] PROVE a \in 1 .. count
    OBVIOUS
  <2>1. q \in 1 .. count /\ a \in 1 .. q
    BY DEF Made
  <2> QED
    BY <1>1, <2>1
<1>5. \A a \in 1 .. count : a \in 1 .. count + 1
  BY <1>1
<1>6. New \subseteq 1 .. count + 1 /\ count + 1 \in New
  <2>1. UNION {past[q] : q \in P} \subseteq 1 .. count
    BY <1>4
  <2>2. count + 1 \in 1 .. count + 1
    BY <1>1
  <2> QED
    BY <2>1, <2>2, <1>5
<1>7. past' = [past EXCEPT ![count + 1] = New]
  BY DEF NewCommit
<1> HIDE DEF New
<1>8. past' \in [Commit -> SUBSET Commit] /\ past'[count + 1] = New
  BY <1>3, <1>6, <1>7 DEF Types
<1>9. \A c \in 1 .. count : past'[c] = past[c]
  BY <1>2, <1>3, <1>7 DEF Types
<1>10. \A c \in 1 .. count + 1 : past'[c] \subseteq 1 .. c /\ c \in past'[c]
  <2>1. \A c \in 1 .. count + 1 : c = count + 1 \/ c \in 1 .. count
    BY <1>1
  <2> QED
    BY <2>1, <1>6, <1>8, <1>9 DEF Made
<1> QED
  BY <1>1, <1>3, <1>8, <1>9, <1>10 DEF New

\* What a Run that ended is left as.
EndState(r, o, s) ==
  [IdleRun EXCEPT !.pc = o, !.sha = s, !.out = run[r].out, !.made = run[r].made,
                  !.late = run[r].late]

\* A Run's end.
LEMMA Ends ==
  ASSUME Types, NEW r \in Runs, NEW o \in {"ok", "err"}, NEW s \in Ref, EndRun(r, o, s)
  PROVE  /\ run' \in [Runs -> RunRecord]
         /\ \A q \in Runs : q # r => run'[q] = run[q]
         /\ run'[r] = EndState(r, o, s)
<1> DEFINE e == EndState(r, o, s)
<1>1. run[r].out \in Name \cup {NoOutput} /\ run[r].made \subseteq Commit /\ run[r].late \subseteq Commit
  BY DEF Types, RunRecord
<1>2. e \in RunRecord
  BY <1>1 DEF EndState, RunRecord, IdleRun, RunSteps, Ref
<1>3. run' = [run EXCEPT ![r] = e]
  BY DEF EndRun, EndState
<1> HIDE DEF e
<1>4. run' \in [Runs -> RunRecord] /\ run'[r] = e /\ \A q \in Runs : q # r => run'[q] = run[q]
  BY <1>2, <1>3 DEF Types
<1> QED
  BY <1>4 DEF e

\* A Run goes on to its next step.
LEMMA Goes ==
  ASSUME Types, NEW r \in Runs, NEW s \in RunSteps, StepRun(r, s)
  PROVE  /\ run' \in [Runs -> RunRecord]
         /\ \A q \in Runs : q # r => run'[q] = run[q]
         /\ run'[r] = [run[r] EXCEPT !.pc = s]
         /\ Made /\ run[r].pc \in Working /\ s \in {"validate", "fetch"} => Sound(run'[r], count)
<1>1. /\ run' \in [Runs -> RunRecord]
      /\ \A q \in Runs : q # r => run'[q] = run[q]
      /\ run'[r] = [run[r] EXCEPT !.pc = s]
  BY ZenonT(60) DEF StepRun, Types, RunRecord
<1>2. ASSUME Made, run[r].pc \in Working, s \in {"validate", "fetch"} PROVE Sound(run'[r], count)
  <2>1. run[r] \in RunRecord /\ Sound(run[r], count)
    BY <1>2 DEF Types, Made
  <2> DEFINE x == run'[r]
  <2>2. /\ x.pc = s /\ x.head = run[r].head /\ x.base = run[r].base /\ x.sha = run[r].sha
        /\ x.have = run[r].have /\ x.made = run[r].made /\ x.told = run[r].told /\ x.tip = run[r].tip
    BY <1>1, <2>1 DEF RunRecord
  <2> HIDE DEF x
  <2>3. run[r].sha = NoCommit
    BY <1>2, <2>1 DEF Sound, Working
  <2> QED
    BY <1>2, <2>1, <2>2, <2>3 DEF Sound, x
<1> QED
  BY <1>1, <1>2

\* A commit of the agent, on either branch, with or without an import.
LEMMA Commits ==
  ASSUME Types, Made, NEW r \in Runs, AgentStep(r)
  PROVE  /\ MayCommit(r) /\ run[r].pc \in Working /\ UNCHANGED <<pool, temp, stuck, host, mine, close>>
         /\ \E P \in SUBSET ({run[r].head, run[r].base} \cup run[r].have) :
              P \subseteq 1 .. count /\ NewCommit(P)
         /\ run' \in [Runs -> RunRecord]
         /\ \A q \in Runs : q # r => run'[q] = run[q]
         /\ \E b \in {run[r].base, count'} :
              run'[r] = [run[r] EXCEPT !.head = count', !.base = b, !.made = @ \cup {count'},
                                       !.late = @ \cup Late(r)]
<1>1. run[r] \in RunRecord
  BY DEF Types
<1>2. MayCommit(r) /\ run[r].pc \in Working
  BY DEF AgentStep, AgentCommit, AgentCommitOnBase, MayCommit, Working
<1>3. {run[r].head, run[r].base} \cup run[r].have \subseteq 1 .. count
  <2>1. \A c \in Ref : c # NoCommit /\ c <= count => c \in 1 .. count
    BY BranchPoolAssumption DEF Ref, NoCommit, Commit, Types
  <2>2. run[r].head \in Ref /\ run[r].base \in Ref
    BY <1>1 DEF RunRecord
  <2> QED
    BY <1>2, <2>1, <2>2 DEF Made, Sound, Working
<1>4. \A P : NewCommit(P) /\ P \subseteq 1 .. count => count' \in Commit
  BY Grows
<1>5. CASE \E with \in {{}} \cup {{c} : c \in run[r].have} : AgentCommit(r, with)
  <2>1. PICK with \in {{}} \cup {{c} : c \in run[r].have} : AgentCommit(r, with)
    BY <1>5
  <2>2. with \subseteq run[r].have
    BY DEF Types
  <2>3. count' \in Commit
    BY <1>3, <1>4, <2>1, <2>2 DEF AgentCommit
  <2> DEFINE e == [run[r] EXCEPT !.head = count', !.base = run[r].base, !.made = @ \cup {count'},
                                 !.late = @ \cup Late(r)]
  <2>4. e \in RunRecord
    BY <1>1, <2>3 DEF RunRecord, Ref, Late
  <2>5. run' = [run EXCEPT ![r] = e]
    BY <1>1, <2>1 DEF AgentCommit, Types, RunRecord
  <2>6. run' \in [Runs -> RunRecord] /\ run'[r] = e /\ \A q \in Runs : q # r => run'[q] = run[q]
    <3> HIDE DEF e
    <3> QED
      BY <2>4, <2>5 DEF Types
  <2> QED
    BY <1>2, <1>3, <2>1, <2>2, <2>6 DEF AgentCommit
<1>6. CASE AgentCommitOnBase(r)
  <2>1. count' \in Commit
    BY <1>3, <1>4, <1>6 DEF AgentCommitOnBase
  <2> DEFINE e == [run[r] EXCEPT !.head = count', !.base = count', !.made = @ \cup {count'},
                                 !.late = @ \cup Late(r)]
  <2>2. e \in RunRecord
    BY <1>1, <2>1 DEF RunRecord, Ref, Late
  <2>3. run' = [run EXCEPT ![r] = e]
    BY <1>1, <1>6 DEF AgentCommitOnBase, Types, RunRecord
  <2>4. run' \in [Runs -> RunRecord] /\ run'[r] = e /\ \A q \in Runs : q # r => run'[q] = run[q]
    <3> HIDE DEF e
    <3> QED
      BY <2>2, <2>3 DEF Types
  <2> QED
    BY <1>2, <1>3, <1>6, <2>4 DEF AgentCommitOnBase
<1> QED
  BY <1>5, <1>6 DEF AgentStep

LEMMA TypesInit == Init => Types /\ Made
<1> SUFFICES ASSUME Init PROVE Types /\ Made
  OBVIOUS
<1>1. 1 \in Commit /\ count = 1
  BY BranchPoolAssumption DEF Commit, Init
<1>2. IdleRun \in RunRecord /\ Sound(IdleRun, 1)
  BY DEF IdleRun, RunRecord, RunSteps, Ref, Sound, Working, NoCommit
<1>3. IdleClose \in CloseRecord
  BY DEF IdleClose, CloseRecord, CloseSteps
<1>4. Types
  BY <1>1, <1>2, <1>3 DEF Init, Types, Ref
<1>5. Made
  BY <1>1, <1>2, SMTT(60) DEF Init, Made, NoCommit
<1> QED
  BY <1>4, <1>5

\* A close changes its own record only; git's answers have the types of its refs.
LEMMA CloseMoves ==
  ASSUME Types, NEW k \in Closers, CloseStep(k)
  PROVE  /\ close' \in [Closers -> CloseRecord]
         /\ \A j \in Closers : j # k => close'[j] = close[j]
         /\ temp' \in [Indices -> Ref] /\ host' \in [HostRefs -> Ref] /\ stuck' \subseteq Indices
         /\ UNCHANGED <<count, past, pool, mine, run>>
         /\ host' # host => Push(k)
<1>1. close[k] \in CloseRecord
  BY DEF Types
<1>a. ASSUME NEW x \in CloseRecord, close' = [close EXCEPT ![k] = x]
      PROVE  close' \in [Closers -> CloseRecord] /\ \A j \in Closers : j # k => close'[j] = close[j]
  BY <1>a DEF Types
<1>b. ASSUME NEW s \in CloseSteps, StepClose(k, s)
      PROVE  close' \in [Closers -> CloseRecord] /\ \A j \in Closers : j # k => close'[j] = close[j]
  BY <1>b DEF StepClose, Types, CloseRecord
<1>c. ASSUME NEW s \in CloseSteps, EndClose(k, s)
      PROVE  close' \in [Closers -> CloseRecord] /\ \A j \in Closers : j # k => close'[j] = close[j]
  <2> DEFINE x == [close[k] EXCEPT !.pc = s, !.seen = << >>, !.temps = {}]
  <2>0. << >> \in Seq([pool : Ref, host : Ref]) /\ {} \in SUBSET Nat
    OBVIOUS
  <2>1. x \in CloseRecord
    <3>1. \A q \in Seq([pool : Ref, host : Ref]), t \in SUBSET Nat :
            [close[k] EXCEPT !.pc = s, !.seen = q, !.temps = t] \in CloseRecord
      BY <1>1 DEF CloseRecord
    <3> QED
      BY <2>0, <3>1, Zenon
  <2>2. close' = [close EXCEPT ![k] = x]
    BY <1>1, <1>c DEF EndClose, Types, CloseRecord
  <2> QED
    BY <1>a, <2>1, <2>2
<1>2. ASSUME NEW m \in Manifests, CloseBegin(k, m)
      PROVE  close' \in [Closers -> CloseRecord] /\ \A j \in Closers : j # k => close'[j] = close[j]
  <2> DEFINE x == [close[k] EXCEPT !.pc = "resolve", !.manifest = Kept(m)]
  <2>1. Kept(m) \in Seq(KeptEntry)
    BY KeptAssumption DEF KeptEntry
  <2>2. x \in CloseRecord
    BY <1>1, <2>1 DEF CloseRecord, CloseSteps
  <2>3. close' = [close EXCEPT ![k] = x]
    BY <1>1, <1>2 DEF CloseBegin, Types, CloseRecord
  <2> HIDE DEF x
  <2> QED
    BY <1>a, <2>2, <2>3
<1>3. ASSUME Resolve(k)
      PROVE  /\ temp' \in [Indices -> Ref]
             /\ close' \in [Closers -> CloseRecord] /\ \A j \in Closers : j # k => close'[j] = close[j]
  <2> DEFINE i == Len(close[k].seen) + 1
             e == close[k].manifest[i]
             tip == host[e.to]
             v == [pool |-> pool[e.from], host |-> tip]
  <2>1. close[k].manifest \in Seq(KeptEntry) /\ close[k].seen \in Seq([pool : Ref, host : Ref])
    BY <1>1 DEF CloseRecord
  <2>2. i \in 1 .. Len(close[k].manifest) /\ i \in Nat
    <3>1. i <= Len(close[k].manifest)
      BY <1>3 DEF Resolve
    <3>2. Len(close[k].manifest) \in Nat /\ Len(close[k].seen) \in Nat
      BY <2>1
    <3> QED
      BY <3>1, <3>2
  <2>3. e \in KeptEntry
    BY <2>1, <2>2, SMTT(60)
  <2>4. e.from \in Name /\ e.to \in HostRefs
    BY <2>3 DEF KeptEntry, Entry
  <2>5. v \in [pool : Ref, host : Ref] /\ tip \in Ref
    BY <2>4 DEF Types
  <2>6. temp' \in [Indices -> Ref]
    BY <1>3, <2>5 DEF Resolve, Types
  <2>7. Append(close[k].seen, v) \in Seq([pool : Ref, host : Ref])
    BY <2>1, <2>5
  <2>8. CASE StepClose(k, "cleanup_err")
    BY <1>b, <2>6, <2>8 DEF CloseSteps
  <2>9. CASE ~StepClose(k, "cleanup_err")
    <3> DEFINE t == IF tip = NoCommit THEN close[k].temps ELSE close[k].temps \cup {i}
               x == [close[k] EXCEPT !.seen = Append(@, v), !.temps = t]
    <3>1. t \in SUBSET Nat
      BY <1>1, <2>2 DEF CloseRecord
    <3>2. x \in CloseRecord
      <4> HIDE DEF t, v, i
      <4> QED
        BY <1>1, <2>7, <3>1 DEF CloseRecord
    <3>3. close' = [close EXCEPT ![k] = x]
      BY <1>1, <1>3, <2>9 DEF Resolve, Types, CloseRecord
    <3> HIDE DEF x
    <3> QED
      BY <1>a, <2>6, <3>2, <3>3
  <2> QED
    BY <2>8, <2>9
<1>5. CASE Judge(k)
  BY <1>5, <1>b DEF Judge, CloseSteps, Types
<1>6. CASE Cleanup(k)
  <2>1. temp' \in [Indices -> Ref] /\ stuck' \subseteq Indices
    BY <1>6 DEF Cleanup, Types, Ref
  <2> QED
    BY <1>6, <1>b, <1>c, <2>1 DEF Cleanup, CloseSteps, Types
<1>7. CASE Push(k)
  <2>1. host' \in [HostRefs -> Ref]
    <3>1. \A i \in DOMAIN close[k].manifest : close[k].manifest[i].from \in Name
      BY <1>1 DEF CloseRecord, KeptEntry, Entry
    <3>2. ASSUME NEW b \in HostRefs PROVE Pushed(k)[b] \in Ref
      <4> DEFINE S == {close[k].manifest[i] : i \in DOMAIN close[k].manifest}
      <4>1. CASE \E e \in S : e.to = b
        <5>1. (CHOOSE e \in S : e.to = b) \in S
          BY <4>1
        <5>2. (CHOOSE e \in S : e.to = b).from \in Name
          BY <3>1, <5>1
        <5>3. pool[(CHOOSE e \in S : e.to = b).from] \in Ref
          BY <5>2 DEF Types
        <5> HIDE DEF S
        <5>4. Pushed(k)[b] \in {pool[(CHOOSE e \in S : e.to = b).from], host[b]}
          BY DEF Pushed, S
        <5> QED
          BY <5>3, <5>4 DEF Types
      <4>2. CASE ~ \E e \in S : e.to = b
        <5>1. ~ \E i \in DOMAIN close[k].manifest : close[k].manifest[i].to = b
          BY <4>2
        <5> QED
          BY <5>1 DEF Pushed, Types
      <4> QED
        BY <4>1, <4>2
    <3>3. Pushed(k) \in [HostRefs -> Ref]
      BY <3>2 DEF Pushed
    <3> QED
      BY <1>7, <3>3 DEF Push, Types
  <2> QED
    BY <1>7, <1>c, <2>1 DEF Push, CloseSteps, Types
<1> QED
  BY <1>2, <1>3, <1>5, <1>6, <1>7, Zenon DEF CloseStep, CloseBegin, Resolve, Types

\* What a Run's first step makes of its record.
Started(r) ==
  \/ \E n \in Bases, import \in Imports, out \in Outputs :
       /\ \A m \in {n} \cup import : Exists(m) /\ m # out
       /\ run'[r] = [IdleRun EXCEPT !.pc = "agent", !.out = out, !.base = pool[n], !.head = pool[n],
                     !.have = {pool[m] : m \in import}, !.saw = {m \in Name : Exists(m)}]
  \/ \E out \in Outputs : run'[r] = [IdleRun EXCEPT !.pc = "err", !.out = out]

LEMMA Starts ==
  ASSUME Types, Made, NEW r \in Runs, NEW n \in Bases, NEW import \in Imports, NEW out \in Outputs,
         Materialize(r, n, import, out)
  PROVE  /\ run[r].pc = "idle" /\ Started(r) /\ Sound(run'[r], count)
         /\ run' \in [Runs -> RunRecord] /\ \A q \in Runs : q # r => run'[q] = run[q]
<1> DEFINE have == {pool[m] : m \in import}
           saw  == {m \in Name : Exists(m)}
           live == [IdleRun EXCEPT !.pc = "agent", !.out = out, !.base = pool[n], !.head = pool[n],
                      !.have = have, !.saw = saw]
           dead == [IdleRun EXCEPT !.pc = "err", !.out = out]
           fine == (\A m \in {n} \cup import : Exists(m) /\ m # out) /\ n \notin import
<1>1. n \in Name /\ import \subseteq Name /\ out \in Name \cup {NoOutput}
  BY BranchPoolAssumption
<1>2. \A m \in Name : pool[m] \in Ref /\ pool[m] <= count /\ (Exists(m) => pool[m] \in 1 .. count)
  BY BranchPoolAssumption DEF Types, Made, Exists, Ref, NoCommit, Commit
<1>3. 1 .. count \subseteq Commit
  BY BranchPoolAssumption DEF Types, Commit
<1>4. count \in Nat
  BY BranchPoolAssumption DEF Types, Commit
<1>5. dead \in RunRecord /\ Sound(dead, count)
  <2>1. dead \in RunRecord
    BY <1>1 DEF IdleRun, RunRecord, RunSteps, Ref
  <2>2. /\ dead.pc = "err" /\ dead.head = 0 /\ dead.base = 0 /\ dead.sha = 0 /\ dead.told = 0 /\ dead.tip = 0
        /\ dead.have = {} /\ dead.made = {}
    BY DEF IdleRun, NoCommit
  <2> HIDE DEF dead
  <2> QED
    BY <1>4, <2>1, <2>2 DEF Sound, Working, NoCommit
<1>6. CASE fine
  <2>1. have \subseteq 1 .. count
    BY <1>1, <1>2, <1>6
  <2>2. pool[n] \in Ref /\ pool[n] <= count /\ pool[n] # NoCommit
    BY <1>1, <1>2, <1>6 DEF Exists
  <2>3. live \in RunRecord /\ Sound(live, count)
    <3>1. have \subseteq 1 .. count /\ have \subseteq Commit /\ saw \subseteq Name
      BY <1>3, <2>1
    <3> HIDE DEF have, saw
    <3>2. live \in RunRecord
      BY <1>1, <2>2, <3>1 DEF IdleRun, RunRecord, RunSteps, Ref
    <3>3. /\ live.pc = "agent" /\ live.head = pool[n] /\ live.base = pool[n] /\ live.sha = 0
          /\ live.have = have /\ live.made = {} /\ live.told = 0 /\ live.tip = 0
      BY DEF IdleRun, NoCommit
    <3> HIDE DEF live
    <3> QED
      BY <1>4, <2>2, <3>1, <3>2, <3>3 DEF Sound, Working, NoCommit
  <2>4. run' = [run EXCEPT ![r] = live]
    BY <1>6 DEF Materialize
  <2>5. run'[r] = live /\ run' \in [Runs -> RunRecord] /\ \A q \in Runs : q # r => run'[q] = run[q]
    <3> HIDE DEF live
    <3> QED
      BY <2>3, <2>4 DEF Types
  <2>6. Started(r)
    <3> HIDE DEF live
    <3>1. \E o \in Outputs : (\A m \in {n} \cup import : Exists(m) /\ m # o) /\ run'[r] = live /\ o = out
      BY <1>6, <2>5
    <3> QED
      BY <3>1, Zenon DEF Started, live
  <2> QED
    BY <2>3, <2>5, <2>6 DEF Materialize
<1>7. CASE ~fine
  <2>1. run' = [run EXCEPT ![r] = dead]
    BY <1>7 DEF Materialize
  <2>2. run'[r] = dead /\ run' \in [Runs -> RunRecord] /\ \A q \in Runs : q # r => run'[q] = run[q]
    <3> HIDE DEF dead
    <3> QED
      BY <1>5, <2>1 DEF Types
  <2>3. Started(r)
    BY <2>2, Zenon DEF Started
  <2> QED
    BY <1>5, <2>2, <2>3 DEF Materialize
<1> QED
  BY <1>6, <1>7

\* The fetch's second half: what it may make of the Pool and of the Run.
Fetched(r) ==
  \/ /\ pool' = [n \in Name |-> IF n = Audit(r) \/ (n = run[r].out /\ OutputAccepted(r))
                                 THEN run[r].tip ELSE pool[n]]
     /\ \/ OutputAccepted(r) /\ EndRun(r, "ok", Reported(r))
        \/ ~OutputAccepted(r) /\ EndRun(r, "err", NoCommit)
  \/ UNCHANGED pool /\ EndRun(r, "err", NoCommit)

LEMMA Fetches ==
  ASSUME Types, Made, NEW r \in Runs, FetchUpdate(r)
  PROVE  /\ run[r].pc = "update" /\ Fetched(r) /\ pool' \in [Name -> Ref]
         /\ \A n \in Name : pool'[n] \in {pool[n], run[r].tip}
<1>1. run[r].out \in Name \cup {NoOutput} /\ run[r].tip \in Ref /\ Audit(r) \in Name
  BY Names DEF Types, RunRecord
<1>2. NoOutput \notin Name
  BY BranchPoolAssumption
<1> DEFINE tip     == run[r].tip
           audited == [pool EXCEPT ![Audit(r)] = tip]
           written == IF run[r].out = NoOutput THEN audited ELSE [audited EXCEPT ![run[r].out] = tip]
<1>3. audited = [n \in Name |-> IF n = Audit(r) THEN tip ELSE pool[n]]
  BY <1>1 DEF Types
<1>4. written = [n \in Name |-> IF n = Audit(r) \/ n = run[r].out THEN tip ELSE pool[n]]
  BY <1>1, <1>2, <1>3
<1>5. \/ OutputAccepted(r) /\ pool' = written /\ EndRun(r, "ok", Reported(r))
      \/ ~OutputAccepted(r) /\ pool' = audited /\ EndRun(r, "err", NoCommit)
      \/ UNCHANGED pool /\ EndRun(r, "err", NoCommit)
  BY DEF FetchUpdate
<1>6. Fetched(r)
  <2> HIDE DEF written, audited
  <2>1. CASE OutputAccepted(r) /\ pool' = written /\ EndRun(r, "ok", Reported(r))
    BY <1>4, <2>1 DEF Fetched
  <2>2. CASE ~OutputAccepted(r) /\ pool' = audited /\ EndRun(r, "err", NoCommit)
    BY <1>3, <2>2 DEF Fetched
  <2>3. CASE UNCHANGED pool /\ EndRun(r, "err", NoCommit)
    BY <2>3 DEF Fetched
  <2> QED
    BY <1>5, <2>1, <2>2, <2>3
<1>7. pool' \in [Name -> Ref] /\ \A n \in Name : pool'[n] \in {pool[n], run[r].tip}
  <2>1. CASE UNCHANGED pool
    BY <2>1 DEF Types
  <2>2. CASE pool' = [n \in Name |-> IF n = Audit(r) \/ (n = run[r].out /\ OutputAccepted(r))
                                     THEN run[r].tip ELSE pool[n]]
    BY <1>1, <2>2 DEF Types
  <2> QED
    BY <1>6, <2>1, <2>2 DEF Fetched
<1> QED
  BY <1>6, <1>7 DEF FetchUpdate

\* The ends of a Run refer to what it referred to.
LEMMA SoundEnds ==
  ASSUME Types, Made, NEW r \in Runs, NEW o \in {"ok", "err"}, NEW s \in Ref, EndRun(r, o, s),
         s <= count, s # NoCommit => o = "ok"
  PROVE  Sound(run'[r], count)
<1>1. Sound(run[r], count) /\ count \in Nat
  BY BranchPoolAssumption DEF Types, Made, Commit
<1> DEFINE e == EndState(r, o, s)
<1>2. /\ e.pc = o /\ e.sha = s /\ e.made = run[r].made
      /\ e.head = 0 /\ e.base = 0 /\ e.told = 0 /\ e.tip = 0 /\ e.have = {}
  BY DEF EndState, IdleRun, NoCommit
<1>3. run'[r] = e
  BY Ends
<1> HIDE DEF e
<1> QED
  BY <1>1, <1>2, <1>3 DEF Sound, Working, NoCommit

\* A Run's step changes its own record, and the Pool only with the fetch.
LEMMA RunMoves ==
  ASSUME Types, Made, NEW r \in Runs, RunStep(r)
  PROVE  /\ run' \in [Runs -> RunRecord] /\ Sound(run'[r], count')
         /\ \A q \in Runs : q # r => run'[q] = run[q]
         /\ pool' \in [Name -> Ref]
         /\ \A n \in Name : pool'[n] = pool[n] \/ (FetchUpdate(r) /\ pool'[n] = run[r].tip)
         /\ UNCHANGED <<temp, stuck, host, mine, close>>
         /\ AgentStep(r) \/ UNCHANGED <<count, past>>
<1>1. run[r] \in RunRecord /\ Sound(run[r], count) /\ count \in Nat
  BY BranchPoolAssumption DEF Types, Made, Commit
<1>2. NoCommit \in Ref /\ NoCommit <= count
  BY <1>1 DEF Ref, NoCommit
<1>3. CASE \E n \in Bases, import \in Imports, out \in Outputs : Materialize(r, n, import, out)
  <2>1. PICK n \in Bases, import \in Imports, out \in Outputs : Materialize(r, n, import, out)
    BY <1>3
  <2>2. /\ run' \in [Runs -> RunRecord] /\ Sound(run'[r], count)
        /\ \A q \in Runs : q # r => run'[q] = run[q]
    BY <2>1, Starts, SMTT(60)
  <2> QED
    BY <2>1, <2>2 DEF Materialize, Types
<1>4. CASE AgentStep(r)
  <2>1. PICK P \in SUBSET (1 .. count) : NewCommit(P)
    BY <1>4, Commits, Zenon
  <2>2. count' = count + 1 /\ count' \in Commit
    <3>1. P \subseteq 1 .. count
      OBVIOUS
    <3> QED BY <2>1, <3>1, Grows, Zenon
  <2>3. PICK b \in {run[r].base, count'} :
          run'[r] = [run[r] EXCEPT !.head = count', !.base = b, !.made = @ \cup {count'},
                                   !.late = @ \cup Late(r)]
    BY <1>4, Commits, ZenonT(30)
  <2>4. run[r].pc \in Working
    BY <1>4, Commits, Zenon
  <2> DEFINE x == [run[r] EXCEPT !.head = count', !.base = b, !.made = @ \cup {count'},
                                 !.late = @ \cup Late(r)]
  <2>5. /\ x.pc = run[r].pc /\ x.told = run[r].told /\ x.tip = run[r].tip /\ x.head = count' /\ x.base = b /\ x.sha = run[r].sha
        /\ x.have = run[r].have /\ x.made = run[r].made \cup {count'}
    BY <1>1, <2>4 DEF RunRecord
  <2>6. run[r].base \in Nat /\ run[r].sha \in Nat /\ run[r].told \in Nat /\ run[r].tip \in Nat
    BY <1>1, BranchPoolAssumption DEF RunRecord, Ref, Commit, NoCommit
  <2>7. 1 .. count \subseteq 1 .. count' /\ count' \in 1 .. count' /\ count' # 0
    BY <1>1, <2>2
  <2>8. Sound(x, count')
    <3> HIDE DEF x
    <3> QED
      BY <1>1, <2>2, <2>4, <2>5, <2>6, <2>7 DEF Sound, Working, NoCommit
  <2> QED
    BY <1>4, <2>3, <2>8, Commits, ZenonT(30) DEF Types
<1>5. ASSUME Extract(r) \/ Compare(r)
      PROVE  /\ run' \in [Runs -> RunRecord] /\ Sound(run'[r], count)
             /\ \A q \in Runs : q # r => run'[q] = run[q]
  <2>1. CASE EndRun(r, "ok", NoCommit)
    BY <1>2, <2>1, Ends, SoundEnds
  <2>2. CASE StepRun(r, "validate")
    BY <1>5, <2>2, Goes DEF Extract, Compare, RunSteps, Working
  <2> DEFINE x == [run[r] EXCEPT !.pc = "compare", !.told = run[r].head]
  <2>3. CASE Extract(r) /\ ~StepRun(r, "validate")
    <3>1. run' = [run EXCEPT ![r] = x] /\ run[r].pc = "agent"
      BY <1>1, <2>3 DEF Extract, Types, RunRecord
    <3>2. x \in RunRecord /\ Sound(x, count)
      BY <1>1, <3>1 DEF RunRecord, RunSteps, Sound, Working
    <3> HIDE DEF x
    <3> QED
      BY <3>1, <3>2 DEF Types
  <2> QED
    BY <1>5, <2>1, <2>2, <2>3 DEF Extract, Compare
<1>6. CASE ValidateTargets(r)
  <2>1. CASE EndRun(r, "err", NoCommit)
    BY <1>2, <1>6, <2>1, Ends, SoundEnds DEF ValidateTargets, Types
  <2>2. CASE StepRun(r, "fetch")
    <3>1. run[r].pc \in Working /\ "fetch" \in Working /\ "fetch" \in RunSteps
      BY <1>6 DEF ValidateTargets, RunSteps, Working
    <3> QED
      BY <1>6, <2>2, <3>1, Goes DEF ValidateTargets, Types
  <2> QED
    BY <1>6, <2>1, <2>2 DEF ValidateTargets
<1>7. CASE FetchStart(r)
  <2> DEFINE old == IF run[r].out = NoOutput THEN NoCommit ELSE pool[run[r].out]
             x == [run[r] EXCEPT !.pc = "update", !.tip = run[r].head, !.old = old]
  <2>1. old \in Ref
    BY <1>1, <1>2 DEF Types, RunRecord
  <2>2. run' = [run EXCEPT ![r] = x]
    BY <1>1, <1>7 DEF FetchStart, Types, RunRecord
  <2> HIDE DEF old
  <2>3. x \in RunRecord /\ Sound(x, count)
    BY <1>1, <1>7, <2>1 DEF FetchStart, RunRecord, RunSteps, Sound, Working
  <2> HIDE DEF x
  <2> QED
    BY <1>7, <2>2, <2>3, ZenonT(60) DEF FetchStart, Types
<1>8. CASE FetchUpdate(r)
  <2>1. Reported(r) \in Ref /\ Reported(r) <= count
    BY <1>1 DEF RunRecord, Sound, Reported
  <2>2. \/ EndRun(r, "ok", Reported(r)) \/ EndRun(r, "err", NoCommit)
    BY <1>8 DEF FetchUpdate
  <2>3. /\ run' \in [Runs -> RunRecord] /\ Sound(run'[r], count)
        /\ \A q \in Runs : q # r => run'[q] = run[q]
    BY <1>2, <2>1, <2>2, Ends, SoundEnds
  <2> QED
    BY <1>8, <2>3, Fetches DEF FetchUpdate
<1> QED
  BY <1>3, <1>4, <1>5, <1>6, <1>7, <1>8 DEF RunStep, Extract, Compare, ValidateTargets,
         FetchStart, Types

\* A commit of the host's own user.
LEMMA HostCommits ==
  ASSUME Types, Made, NEW b \in HostRefs, HostCommit(b)
  PROVE  /\ NewCommit({host[b]}) /\ host[b] \in 1 .. count
         /\ host' = [host EXCEPT ![b] = count'] /\ mine' = [mine EXCEPT ![b] = @ \cup {count'}]
         /\ host' \in [HostRefs -> Ref] /\ mine' \in [HostRefs -> SUBSET Commit]
         /\ UNCHANGED <<pool, temp, stuck, run, close>>
<1>1. host[b] \in Ref /\ host[b] <= count /\ host[b] # NoCommit /\ count \in Nat
  BY BranchPoolAssumption DEF HostCommit, Types, Made, Commit
<1>2. host[b] \in 1 .. count
  BY <1>1, BranchPoolAssumption DEF Ref, Commit, NoCommit
<1>3. count' \in Commit
  <2>1. {host[b]} \subseteq 1 .. count /\ NewCommit({host[b]})
    BY <1>2 DEF HostCommit
  <2> QED
    BY <2>1, Grows
<1> QED
  BY <1>2, <1>3 DEF HostCommit, Types, Ref

\* Every step is a commit on the host, a Run's step, a close's step, or none.
LEMMA Steps ==
  ASSUME [Next]_vars
  PROVE  \/ \E b \in HostRefs : HostCommit(b)
         \/ \E r \in Runs : RunStep(r)
         \/ \E k \in Closers : CloseStep(k)
         \/ UNCHANGED vars
  BY DEF Next

LEMMA TypesStep == Types /\ Made /\ [Next]_vars => Types' /\ Made'
<1> SUFFICES ASSUME Types, Made, [Next]_vars PROVE Types' /\ Made'
  OBVIOUS
<1>0. count \in Nat
  BY BranchPoolAssumption DEF Types, Commit
<1>1. ASSUME NEW b \in HostRefs, HostCommit(b) PROVE Types' /\ Made'
  <2>1. NewCommit({host[b]}) /\ {host[b]} \subseteq 1 .. count
    BY <1>1, HostCommits
  <2>2. /\ count' = count + 1 /\ count' \in Commit /\ past' \in [Commit -> SUBSET Commit]
        /\ \A c \in 1 .. count' : past'[c] \subseteq 1 .. c /\ c \in past'[c]
    BY <2>1, Grows
  <2>3. Types'
    BY <1>1, <2>2, HostCommits DEF Types
  <2>4. 1 .. count \subseteq 1 .. count' /\ count' \in 1 .. count'
    BY <1>0, <2>2
  <2>5. \A n \in Name : pool'[n] <= count'
    <3>1. \A n \in Name : pool[n] \in Nat /\ pool[n] <= count
      BY BranchPoolAssumption DEF Types, Made, Ref, Commit, NoCommit
    <3>2. pool' = pool
      BY <1>1, HostCommits
    <3> QED
      BY <1>0, <2>2, <3>1, <3>2
  <2>6. \A a \in HostRefs : host'[a] <= count' /\ mine'[a] \subseteq 1 .. count'
    <3> SUFFICES ASSUME NEW a \in HostRefs PROVE host'[a] <= count' /\ mine'[a] \subseteq 1 .. count'
      OBVIOUS
    <3>1. host[a] \in Nat /\ host[a] <= count /\ mine[a] \subseteq 1 .. count
      BY BranchPoolAssumption DEF Types, Made, Ref, Commit, NoCommit
    <3>2. host'[a] \in {host[a], count'} /\ mine'[a] \subseteq mine[a] \cup {count'}
      BY <1>1, HostCommits DEF Types
    <3> QED
      BY <1>0, <2>2, <2>4, <3>1, <3>2
  <2>7. \A r \in Runs : Sound(run'[r], count')
    <3> SUFFICES ASSUME NEW r \in Runs PROVE Sound(run[r], count')
      BY <1>1, HostCommits
    <3>1. Sound(run[r], count) /\ run[r] \in RunRecord
      BY DEF Types, Made
    <3>2. /\ run[r].head \in Nat /\ run[r].base \in Nat /\ run[r].sha \in Nat
          /\ run[r].told \in Nat /\ run[r].tip \in Nat
      BY <3>1, BranchPoolAssumption, SMTT(60) DEF RunRecord, Ref, Commit, NoCommit
    <3> QED
      BY <1>0, <2>2, <2>4, <3>1, <3>2 DEF Sound
  <2> QED
    BY <2>2, <2>3, <2>5, <2>6, <2>7 DEF Made
<1>2. ASSUME NEW r \in Runs, RunStep(r) PROVE Types' /\ Made'
  <2>1. /\ count' \in Commit /\ count' >= count /\ past' \in [Commit -> SUBSET Commit]
        /\ \A c \in 1 .. count' : past'[c] \subseteq 1 .. c /\ c \in past'[c]
    <3>1. CASE AgentStep(r)
      <4>1. PICK P \in SUBSET (1 .. count) : NewCommit(P)
        BY <3>1, Commits, Zenon
      <4>2. /\ count' = count + 1 /\ count' \in Commit /\ past' \in [Commit -> SUBSET Commit]
            /\ \A c \in 1 .. count' : past'[c] \subseteq 1 .. c /\ c \in past'[c]
        BY <4>1, Grows
      <4> QED
        BY <1>0, <4>2
    <3>2. CASE UNCHANGED <<count, past>>
      BY <1>0, <3>2 DEF Types, Made
    <3> QED
      BY <1>2, <3>1, <3>2, RunMoves
  <2>2. Types'
    BY <1>2, <2>1, RunMoves DEF Types
  <2>3. 1 .. count \subseteq 1 .. count' /\ count' \in Nat
    BY <1>0, <2>1, BranchPoolAssumption DEF Commit
  <2>4. \A n \in Name : pool'[n] <= count'
    <3> SUFFICES ASSUME NEW n \in Name PROVE pool'[n] <= count'
      OBVIOUS
    <3>1. run[r].tip <= count /\ run[r] \in RunRecord /\ pool[n] <= count /\ pool[n] \in Nat
      BY BranchPoolAssumption DEF Types, Made, Sound, Ref, Commit, NoCommit
    <3>2. run[r].tip \in Nat
      BY <3>1, BranchPoolAssumption DEF RunRecord, Ref, Commit, NoCommit
    <3>3. pool'[n] = pool[n] \/ pool'[n] = run[r].tip
      BY <1>2, RunMoves
    <3> QED
      BY <1>0, <2>1, <2>3, <3>1, <3>2, <3>3
  <2>5. \A b \in HostRefs : host'[b] <= count' /\ mine'[b] \subseteq 1 .. count'
    <3> SUFFICES ASSUME NEW b \in HostRefs PROVE host[b] <= count' /\ mine[b] \subseteq 1 .. count'
      BY <1>2, RunMoves
    <3>1. host[b] \in Nat /\ host[b] <= count /\ mine[b] \subseteq 1 .. count
      BY BranchPoolAssumption DEF Types, Made, Ref, Commit, NoCommit
    <3> QED
      BY <1>0, <2>1, <2>3, <3>1
  <2>6. \A q \in Runs : Sound(run'[q], count')
    <3> SUFFICES ASSUME NEW q \in Runs, q # r PROVE Sound(run'[q], count')
      BY <1>2, RunMoves
    <3>1. Sound(run[q], count) /\ run[q] \in RunRecord /\ run'[q] = run[q]
      BY <1>2, RunMoves DEF Types, Made
    <3>2. /\ run[q].head \in Nat /\ run[q].base \in Nat /\ run[q].sha \in Nat
          /\ run[q].told \in Nat /\ run[q].tip \in Nat
      BY <3>1, BranchPoolAssumption DEF RunRecord, Ref, Commit, NoCommit
    <3> QED
      BY <1>0, <2>1, <2>3, <3>1, <3>2 DEF Sound
  <2> QED
    BY <2>1, <2>2, <2>4, <2>5, <2>6 DEF Made
<1>3. ASSUME NEW k \in Closers, CloseStep(k) PROVE Types' /\ Made'
  <2>1. Types'
    BY <1>3, CloseMoves DEF Types
  <2>2. \A b \in HostRefs : host'[b] <= count
    <3>1. CASE host' = host
      BY <3>1 DEF Made
    <3>2. CASE host' # host
      <4>1. Push(k) /\ host' = Pushed(k)
        BY <1>3, <3>2, CloseMoves DEF Push
      <4>2. \A e \in {close[k].manifest[i] : i \in DOMAIN close[k].manifest} : e.from \in Name
        <5>1. close[k].manifest \in Seq(KeptEntry)
          BY DEF Types, CloseRecord
        <5> QED
          BY <5>1 DEF KeptEntry, Entry
      <4> SUFFICES ASSUME NEW b \in HostRefs PROVE Pushed(k)[b] <= count
        BY <4>1
      <4> DEFINE S == {close[k].manifest[i] : i \in DOMAIN close[k].manifest}
                 x == CHOOSE e \in S : e.to = b
      <4>3. CASE \E i \in DOMAIN close[k].manifest : close[k].manifest[i].to = b
        <5>1. \E e \in S : e.to = b
          BY <4>3
        <5>2. x \in S
          BY <5>1
        <5>3. Pushed(k)[b] = pool[x.from]
          BY <4>3 DEF Pushed
        <5> HIDE DEF x
        <5> QED
          BY <4>2, <5>2, <5>3 DEF Made
      <4>4. CASE ~ \E i \in DOMAIN close[k].manifest : close[k].manifest[i].to = b
        BY <4>4 DEF Pushed, Made
      <4> QED
        BY <4>3, <4>4
    <3> QED
      BY <3>1, <3>2
  <2> QED
    BY <1>3, <2>1, <2>2, CloseMoves DEF Made
<1>4. CASE UNCHANGED vars
  BY <1>4 DEF vars, Types, Made
<1> QED
  BY <1>1, <1>2, <1>3, <1>4, Steps

\* The ways a Run goes on: it commits, takes a step towards the fetch, or ends.
Works(r) ==
  /\ AgentStep(r) /\ pool' = pool
  /\ run'[r].pc = run[r].pc /\ run[r].pc \in Working
  /\ run'[r].head = count' /\ run'[r].base \in {run[r].base, count'}
  /\ run'[r].made = run[r].made \cup {count'} /\ run'[r].late = run[r].late \cup Late(r)
  /\ run'[r].told = run[r].told /\ run'[r].tip = run[r].tip
  /\ run'[r].have = run[r].have /\ run'[r].out = run[r].out /\ run'[r].saw = run[r].saw

Proceeds(r) ==
  /\ pool' = pool
  /\ \/ /\ run[r].pc = "agent" /\ r \notin Sandboxed /\ run'[r].pc = "compare"
        /\ run'[r].told = run[r].head
     \/ /\ (run[r].pc = "agent" /\ r \in Sandboxed) \/ run[r].pc = "compare"
        /\ run'[r].pc = "validate" /\ run'[r].told = run[r].told
     \/ /\ run[r].pc = "validate" /\ run'[r].pc = "fetch" /\ ValidTargets(r)
        /\ run'[r].told = run[r].told
     \/ /\ run[r].pc = "fetch" /\ run'[r].pc = "update" /\ run'[r].tip = run[r].head
        /\ run'[r].told = run[r].told
  /\ run'[r].head = run[r].head /\ run'[r].base = run[r].base /\ run'[r].have = run[r].have
  /\ run'[r].made = run[r].made /\ run'[r].late = run[r].late
  /\ run'[r].out = run[r].out /\ run'[r].saw = run[r].saw

Ended(r) ==
  /\ run'[r].pc \in {"ok", "err"} /\ run'[r].out = run[r].out /\ run'[r].made = run[r].made
  /\ run'[r].late = run[r].late /\ run'[r].have = {} /\ run'[r].saw = {}
  /\ \/ run[r].pc \in {"compare", "validate"} /\ pool' = pool /\ run'[r].sha = NoCommit
     \/ /\ run[r].pc = "update" /\ Fetched(r)
        /\ \/ run'[r].sha = NoCommit
           \/ /\ OutputAccepted(r) /\ run'[r].sha = Reported(r)
              /\ pool'[Audit(r)] = run[r].tip

LEMMA RunCases ==
  ASSUME Types, Made, NEW r \in Runs, RunStep(r)
  PROVE  \/ Started(r) /\ run[r].pc = "idle" /\ pool' = pool
         \/ Works(r) \/ Proceeds(r) \/ Ended(r)
<1>1. run[r] \in RunRecord
  BY DEF Types
<1>2. NoCommit \in Ref
  BY DEF Ref
<1>a. ASSUME NEW o \in {"ok", "err"}, NEW s \in Ref, EndRun(r, o, s)
      PROVE  /\ run'[r].pc = o /\ run'[r].out = run[r].out /\ run'[r].made = run[r].made
             /\ run'[r].late = run[r].late
             /\ run'[r].have = {} /\ run'[r].saw = {} /\ run'[r].sha = s
  <2>1. run'[r] = EndState(r, o, s)
    BY <1>a, Ends
  <2> QED
    BY <2>1 DEF EndState, IdleRun
<1>b. ASSUME NEW s \in RunSteps, StepRun(r, s)
      PROVE  /\ run'[r].pc = s /\ run'[r].told = run[r].told /\ run'[r].late = run[r].late
             /\ run'[r].head = run[r].head /\ run'[r].base = run[r].base /\ run'[r].have = run[r].have
             /\ run'[r].made = run[r].made /\ run'[r].out = run[r].out /\ run'[r].saw = run[r].saw
  <2>1. run'[r] = [run[r] EXCEPT !.pc = s]
    BY <1>b, Goes
  <2> QED
    BY <1>1, <2>1 DEF RunRecord
<1>3. CASE \E n \in Bases, import \in Imports, out \in Outputs : Materialize(r, n, import, out)
  BY <1>3, Starts, ZenonT(30) DEF Materialize
<1>4. CASE AgentStep(r)
  <2>1. PICK b \in {run[r].base, count'} :
          run'[r] = [run[r] EXCEPT !.head = count', !.base = b, !.made = @ \cup {count'},
                                   !.late = @ \cup Late(r)]
    BY <1>4, Commits, ZenonT(30)
  <2>2. run[r].pc \in Working /\ pool' = pool
    BY <1>4, Commits, Zenon
  <2> QED
    BY <1>1, <1>4, <2>1, <2>2 DEF RunRecord, Works
<1>5. ASSUME Extract(r) \/ Compare(r) PROVE Proceeds(r) \/ Ended(r)
  <2>1. CASE Compare(r) /\ EndRun(r, "ok", NoCommit)
    BY <1>2, <1>a, <2>1 DEF Compare, Ended
  <2>2. CASE StepRun(r, "validate") /\ (Extract(r) => r \in Sandboxed)
    BY <1>5, <1>b, <2>2 DEF Extract, Compare, Proceeds, RunSteps
  <2> DEFINE x == [run[r] EXCEPT !.pc = "compare", !.told = run[r].head]
  <2>3. CASE Extract(r) /\ r \notin Sandboxed
    <3>1. run'[r] = x /\ run[r].pc = "agent" /\ pool' = pool
      BY <1>1, <2>3 DEF Extract, Types, RunRecord
    <3>2. /\ x.pc = "compare" /\ x.told = run[r].head /\ x.late = run[r].late
          /\ x.head = run[r].head /\ x.base = run[r].base /\ x.have = run[r].have
          /\ x.made = run[r].made /\ x.out = run[r].out /\ x.saw = run[r].saw
      BY <1>1 DEF RunRecord
    <3> HIDE DEF x
    <3> QED
      BY <2>3, <3>1, <3>2 DEF Proceeds
  <2> QED
    BY <1>5, <2>1, <2>2, <2>3 DEF Extract, Compare
<1>6. CASE ValidateTargets(r)
  <2>1. CASE EndRun(r, "err", NoCommit)
    BY <1>2, <1>6, <1>a, <2>1 DEF ValidateTargets, Ended
  <2>2. CASE ValidTargets(r) /\ StepRun(r, "fetch")
    BY <1>6, <1>b, <2>2 DEF ValidateTargets, Proceeds, RunSteps
  <2> QED
    BY <1>6, <2>1, <2>2 DEF ValidateTargets
<1>7. CASE FetchStart(r)
  <2> DEFINE old == IF run[r].out = NoOutput THEN NoCommit ELSE pool[run[r].out]
  <2>1. run'[r] = [run[r] EXCEPT !.pc = "update", !.tip = run[r].head, !.old = old]
    BY <1>1, <1>7 DEF FetchStart, Types, RunRecord
  <2> HIDE DEF old
  <2>2. run[r].pc = "fetch" /\ pool' = pool
    BY <1>7 DEF FetchStart
  <2>3. /\ run'[r].pc = "update" /\ run'[r].tip = run[r].head
        /\ run'[r].told = run[r].told /\ run'[r].late = run[r].late
        /\ run'[r].head = run[r].head /\ run'[r].base = run[r].base /\ run'[r].have = run[r].have
        /\ run'[r].made = run[r].made /\ run'[r].out = run[r].out /\ run'[r].saw = run[r].saw
    BY <1>1, <2>1 DEF RunRecord
  <2> QED
    BY <2>2, <2>3 DEF Proceeds
<1>8. CASE FetchUpdate(r)
  <2>1. run[r].pc = "update" /\ Fetched(r) /\ Reported(r) \in Ref
    BY <1>1, <1>8, Fetches DEF RunRecord, Reported
  <2>2. CASE EndRun(r, "err", NoCommit)
    BY <1>2, <1>a, <2>1, <2>2 DEF Ended
  <2>3. CASE ~EndRun(r, "err", NoCommit)
    <3>1. OutputAccepted(r) /\ EndRun(r, "ok", Reported(r))
      BY <2>1, <2>3 DEF Fetched
    <3>2. pool'[Audit(r)] = run[r].tip
      BY <2>1, <2>3, Names DEF Fetched
    <3> QED
      BY <1>a, <2>1, <3>1, <3>2 DEF Ended
  <2> QED
    BY <2>2, <2>3
<1> QED
  BY <1>3, <1>4, <1>5, <1>6, <1>7, <1>8 DEF RunStep

-----------------------------------------------------------------------------
(* Audit refs *)

\* A Run that is past validation may write its own audit ref and a name of its
\* own; so an audit ref, once reported, is never written again.  A host Run's HEAD
\* is what it was when it was read, or a commit made since.
AuditInv ==
  \A r \in Runs :
    /\ run[r].pc \in {"fetch", "update"} /\ run[r].out # NoOutput => ~Reserved(run[r].out)
    /\ r \notin Sandboxed =>
         /\ run[r].pc \in {"compare", "validate", "fetch"} => run[r].head \in {run[r].told} \cup run[r].late
         /\ run[r].pc = "update" => run[r].tip \in {run[r].told} \cup run[r].late
    /\ run[r].pc = "ok" /\ run[r].sha # NoCommit => pool[Audit(r)] \in {run[r].sha} \cup run[r].late

LEMMA AuditStep == Types /\ Made /\ AuditInv /\ [Next]_vars => AuditInv'
<1> SUFFICES ASSUME Types, Made, AuditInv, [Next]_vars PROVE AuditInv'
  OBVIOUS
<1>1. CASE UNCHANGED <<pool, run>>
  BY <1>1 DEF AuditInv
<1>2. ASSUME NEW r \in Runs, RunStep(r) PROVE AuditInv'
  <2>1. \A q \in Runs : q # r => run'[q] = run[q]
    BY <1>2, RunMoves
  <2>2. \A q \in Runs : q # r => pool'[Audit(q)] = pool[Audit(q)]
    <3> SUFFICES ASSUME NEW q \in Runs, q # r, pool'[Audit(q)] # pool[Audit(q)] PROVE FALSE
      OBVIOUS
    <3>1. Audit(q) \in Name /\ Reserved(Audit(q)) /\ Audit(q) # Audit(r)
      BY Names
    <3>2. FetchUpdate(r)
      BY <1>2, <3>1, RunMoves
    <3>3. run[r].pc = "update" /\ Fetched(r)
      BY <3>2, Fetches
    <3>4. Audit(q) = run[r].out
      BY <3>1, <3>3 DEF Fetched
    <3> QED
      BY <3>1, <3>3, <3>4, BranchPoolAssumption DEF AuditInv
  <2>3. /\ run'[r].pc \in {"fetch", "update"} /\ run'[r].out # NoOutput => ~Reserved(run'[r].out)
        /\ r \notin Sandboxed =>
             /\ run'[r].pc \in {"compare", "validate", "fetch"} => run'[r].head \in {run'[r].told} \cup run'[r].late
             /\ run'[r].pc = "update" => run'[r].tip \in {run'[r].told} \cup run'[r].late
        /\ run'[r].pc = "ok" /\ run'[r].sha # NoCommit => pool'[Audit(r)] \in {run'[r].sha} \cup run'[r].late
    <3>1. CASE Started(r)
      <4>1. run'[r].pc \in {"agent", "err"}
        BY <3>1, Zenon DEF Started, IdleRun
      <4>2. run'[r].sha = NoCommit
        BY <3>1, Zenon DEF Started, IdleRun
      <4> QED
        BY <4>1, <4>2
    <3>2. CASE Works(r)
      BY <3>2 DEF Works, Working, AuditInv, Late
    <3>3. CASE Proceeds(r)
      BY <3>3 DEF Proceeds, AuditInv, ValidTargets
    <3>4. CASE Ended(r)
      BY <3>4 DEF Ended, AuditInv, Reported
    <3> QED
      BY <1>2, <3>1, <3>2, <3>3, <3>4, RunCases
  <2> QED
    BY <2>1, <2>2, <2>3 DEF AuditInv
<1> QED
  BY <1>1, <1>2, Steps, HostCommits, CloseMoves DEF vars

\* A Run that reported a commit has its audit ref on that commit, for any number
\* of Runs on any names (validate_run_output_targets, accept_run_output).
THEOREM AuditRefsStand == Spec => []AuditRefIsRunHead
<1>1. Init => Types /\ Made /\ AuditInv
  BY TypesInit DEF Init, AuditInv, IdleRun
<1>2. Types /\ Made /\ AuditInv /\ [Next]_vars => (Types /\ Made /\ AuditInv)'
  BY TypesStep, AuditStep
<1>3. AuditInv => AuditRefIsRunHead
  BY DEF AuditInv, AuditRefIsRunHead
<1> QED
  BY <1>1, <1>2, <1>3, PTL DEF Spec

-----------------------------------------------------------------------------
(* What a close leaves *)

Busy == {"resolve", "cleanup_ok", "cleanup_err"}
Holds(c, i) == c.pc \in Busy /\ i \in c.temps

\* Every temporary ref is on the list of a close that will still try to delete it,
\* or a deletion of it has failed.
LitterOwned ==
  \A i \in Indices : temp[i] # NoCommit => i \in stuck \/ \E k \in Closers : Holds(close[k], i)

LEMMA LitterStep == Types /\ Made /\ LitterOwned /\ [Next]_vars => LitterOwned'
<1> SUFFICES ASSUME Types, Made, LitterOwned, [Next]_vars PROVE LitterOwned'
  OBVIOUS
<1>1. CASE UNCHANGED <<temp, stuck, close>>
  BY <1>1 DEF LitterOwned
<1>2. ASSUME NEW k \in Closers, CloseStep(k) PROVE LitterOwned'
  <2>1. \A j \in Closers : j # k => close'[j] = close[j]
    BY <1>2, CloseMoves
  <2>2. close[k] \in CloseRecord
    BY DEF Types
  <2>3. ASSUME NEW i \in Indices, temp'[i] # NoCommit
        PROVE  \/ Holds(close'[k], i) \/ i \in stuck'
               \/ temp[i] # NoCommit /\ ~Holds(close[k], i) /\ (i \in stuck => i \in stuck')
    <3>1. CASE \E m \in Manifests : CloseBegin(k, m)
      <4>1. temp' = temp /\ stuck' = stuck /\ ~Holds(close[k], i)
        BY <3>1 DEF CloseBegin, Holds, Busy
      <4> QED
        BY <2>3, <4>1
    <3>2. CASE StepClose(k, "cleanup_err") /\ temp' = temp /\ stuck' = stuck
      <4>1. close'[k].pc = "cleanup_err" /\ close'[k].temps = close[k].temps
        BY <2>2, <3>2 DEF StepClose, Types, CloseRecord
      <4> QED
        BY <2>3, <3>2, <4>1 DEF Holds, Busy
    <3>3. CASE Resolve(k) /\ ~(StepClose(k, "cleanup_err") /\ temp' = temp /\ stuck' = stuck)
      <4> DEFINE j == Len(close[k].seen) + 1
                 e == close[k].manifest[j]
                 tip == host[e.to]
                 v == [pool |-> pool[e.from], host |-> tip]
                 t == IF tip = NoCommit THEN close[k].temps ELSE close[k].temps \cup {j}
      <4>1. temp' = IF tip = NoCommit THEN temp ELSE [temp EXCEPT ![j] = tip]
        BY <3>3, Zenon DEF Resolve
      <4>2. close' = [close EXCEPT ![k].seen = Append(@, v),
                                   ![k].temps = IF tip = NoCommit THEN @ ELSE @ \cup {j}]
        BY <3>3, Zenon DEF Resolve
      <4>3. close'[k].pc = close[k].pc /\ close'[k].temps = t
        <5> HIDE DEF j, tip, v
        <5> QED
          BY <2>2, <4>2, SMTT(60) DEF Types, CloseRecord
      <4>4. close[k].pc = "resolve" /\ stuck' = stuck
        BY <3>3 DEF Resolve
      <4>5. i \in close[k].temps => i \in t
        OBVIOUS
      <4>6. temp'[i] # temp[i] => i \in t
        <5> HIDE DEF j, tip
        <5> QED
          BY <4>1 DEF Types
      <4> HIDE DEF t
      <4> QED
        BY <2>3, <4>3, <4>4, <4>5, <4>6, SMTT(60) DEF Holds, Busy
    <3>4. CASE Judge(k)
      <4>1. temp' = temp /\ stuck' = stuck /\ close'[k].pc \in Busy /\ close'[k].temps = close[k].temps
        BY <2>2, <3>4 DEF Judge, StepClose, Types, CloseRecord, Busy
      <4> QED
        BY <2>3, <4>1 DEF Holds
    <3>5. CASE Cleanup(k)
      BY <2>3, <3>5 DEF Cleanup, Holds
    <3>6. CASE Push(k)
      BY <2>3, <3>6 DEF Push, Holds, Busy
    <3> QED
      BY <1>2, <3>1, <3>2, <3>3, <3>4, <3>5, <3>6 DEF CloseStep
  <2>4. ASSUME NEW i \in Indices, temp'[i] # NoCommit, i \notin stuck' PROVE \E j \in Closers : Holds(close'[j], i)
    <3>1. CASE Holds(close'[k], i)
      BY <3>1
    <3>2. CASE temp[i] # NoCommit /\ ~Holds(close[k], i) /\ (i \in stuck => i \in stuck')
      BY <2>1, <2>4, <3>2 DEF LitterOwned
    <3> QED
      BY <2>3, <2>4, <3>1, <3>2
  <2> QED
    BY <2>4 DEF LitterOwned
<1> QED
  BY <1>1, <1>2, Steps, HostCommits, RunMoves DEF vars

\* Until a close succeeds the host repo has its own user's commits and no other.
NoneOk == \A k \in Closers : close[k].pc # "ok"
HostUntouched ==
  NoneOk => /\ \A b \in Mirrored : host[b] # NoCommit /\ past[host[b]] \cap MadeByRuns = {}
            /\ \A b \in Fresh : host[b] = NoCommit

LEMMA UntouchedStep == Types /\ Made /\ HostUntouched /\ [Next]_vars => HostUntouched'
<1> SUFFICES ASSUME Types, Made, HostUntouched, [Next]_vars, NoneOk'
             PROVE  /\ \A b \in Mirrored : host'[b] # NoCommit /\ past'[host'[b]] \cap MadeByRuns' = {}
                    /\ \A b \in Fresh : host'[b] = NoCommit
  BY DEF HostUntouched
<1>0. count \in Nat /\ \A b \in Mirrored \cup Fresh : b \in HostRefs
  BY BranchPoolAssumption DEF Types, Commit, HostRefs
<1>1. MadeByRuns \subseteq 1 .. count
  BY DEF Made, Sound, MadeByRuns
<1>2. \A b \in Mirrored : host[b] # NoCommit => host[b] \in 1 .. count /\ past[host[b]] \subseteq 1 .. count
  <2> SUFFICES ASSUME NEW b \in Mirrored, host[b] # NoCommit
               PROVE  host[b] \in 1 .. count /\ past[host[b]] \subseteq 1 .. count
    OBVIOUS
  <2>1. host[b] \in 1 .. count
    BY <1>0, BranchPoolAssumption DEF Types, Made, Ref, Commit, NoCommit
  <2>2. past[host[b]] \subseteq 1 .. host[b]
    BY <2>1 DEF Made
  <2> QED
    BY <1>0, <2>1, <2>2
<1>3. ASSUME NEW c \in HostRefs, HostCommit(c)
      PROVE  /\ \A b \in Mirrored : host'[b] # NoCommit /\ past'[host'[b]] \cap MadeByRuns' = {}
             /\ \A b \in Fresh : host'[b] = NoCommit
  <2>1. /\ NewCommit({host[c]}) /\ host[c] \in 1 .. count /\ host' = [host EXCEPT ![c] = count']
        /\ run' = run /\ close' = close
    BY <1>3, HostCommits
  <2>2. /\ count' \notin 1 .. count /\ count' = count + 1
        /\ \A q \in 1 .. count : past'[q] = past[q]
        /\ past'[count'] = {count'} \cup UNION {past[q] : q \in {host[c]}}
    <3>1. {host[c]} \subseteq 1 .. count
      BY <2>1
    <3> QED
      BY <2>1, <3>1, Grows
  <2>3. past'[count'] = {count'} \cup past[host[c]]
    BY <2>2
  <2>4. MadeByRuns' = MadeByRuns /\ NoneOk
    BY <2>1 DEF MadeByRuns, NoneOk
  <2>5. c \notin Fresh /\ c \in Mirrored
    BY <1>0, <2>1, <2>4 DEF HostUntouched, NoCommit, HostRefs
  <2>6. \A b \in Fresh : host'[b] = host[b]
    BY <1>0, <2>1, <2>5 DEF Types
  <2>7. ASSUME NEW b \in Mirrored PROVE host'[b] # NoCommit /\ past'[host'[b]] \cap MadeByRuns = {}
    <3>1. CASE b = c
      <4>1. host'[b] = count' /\ count' # 0
        BY <1>0, <2>1, <2>2, <3>1 DEF Types
      <4> QED
        BY <1>1, <2>2, <2>3, <2>4, <3>1, <4>1 DEF HostUntouched, NoCommit
    <3>2. CASE b # c
      <4>1. host'[b] = host[b]
        BY <1>0, <2>1, <3>2 DEF Types
      <4> QED
        BY <1>2, <2>2, <2>4, <4>1 DEF HostUntouched
    <3> QED
      BY <3>1, <3>2
  <2> QED
    BY <2>4, <2>6, <2>7 DEF HostUntouched
<1>4. ASSUME NEW r \in Runs, RunStep(r)
      PROVE  /\ \A b \in Mirrored : host'[b] # NoCommit /\ past'[host'[b]] \cap MadeByRuns' = {}
             /\ \A b \in Fresh : host'[b] = NoCommit
  <2>1. host' = host /\ NoneOk /\ \A q \in Runs : q # r => run'[q] = run[q]
    BY <1>4, RunMoves DEF NoneOk
  <2>2. ASSUME NEW b \in Mirrored, NEW c \in past'[host[b]], c \in MadeByRuns' PROVE FALSE
    <3>1. /\ host[b] \in 1 .. count /\ past[host[b]] \subseteq 1 .. count
          /\ c \notin MadeByRuns \/ c \notin past[host[b]]
      BY <1>2, <2>1 DEF HostUntouched
    <3>2. CASE AgentStep(r)
      <4>1. PICK P \in SUBSET (1 .. count) : NewCommit(P)
        BY <3>2, Commits, Zenon
      <4>2. P \subseteq 1 .. count
        OBVIOUS
      <4>3. past'[host[b]] = past[host[b]] /\ count' \notin 1 .. count
        BY <1>2, <2>1, <4>1, <4>2, Grows DEF HostUntouched
      <4>4. run'[r].made = run[r].made \cup {count'}
        <5>1. run[r] \in RunRecord
          BY DEF Types
        <5> QED
          BY <3>2, <5>1, Commits, ZenonT(30) DEF RunRecord
      <4>5. c \in 1 .. count
        BY <1>2, <2>1, <2>2, <4>3 DEF HostUntouched
      <4>6. c \in MadeByRuns
        BY <2>1, <2>2, <4>3, <4>4, <4>5 DEF MadeByRuns
      <4> QED
        BY <2>1, <2>2, <4>3, <4>6, SMTT(60) DEF HostUntouched
    <3>3. CASE ~AgentStep(r)
      <4>1. past' = past
        BY <1>4, <3>3, RunMoves
      <4>2. run'[r].made \subseteq run[r].made
        <5>1. CASE Started(r)
          BY <5>1, Zenon DEF Started, IdleRun
        <5> QED
          BY <1>4, <3>3, <5>1, RunCases DEF Works, Proceeds, Ended
      <4>3. c \in MadeByRuns
        BY <2>1, <2>2, <4>2 DEF MadeByRuns
      <4> QED
        BY <2>1, <2>2, <4>1, <4>3 DEF HostUntouched
    <3> QED
      BY <3>2, <3>3
  <2> QED
    BY <2>1, <2>2 DEF HostUntouched
<1>5. ASSUME NEW k \in Closers, CloseStep(k)
      PROVE  /\ \A b \in Mirrored : host'[b] # NoCommit /\ past'[host'[b]] \cap MadeByRuns' = {}
             /\ \A b \in Fresh : host'[b] = NoCommit
  <2>1. run' = run /\ past' = past /\ \A j \in Closers : j # k => close'[j] = close[j]
    BY <1>5, CloseMoves
  <2>2. close[k].pc # "ok"
    BY <1>5, Zenon DEF CloseStep, CloseBegin, Resolve, Judge, Cleanup, Push
  <2>3. NoneOk
    BY <2>1, <2>2 DEF NoneOk
  <2>4. host' = host
    <3>1. CASE host' # host
      <4>1. Push(k) /\ EndClose(k, "ok")
        BY <1>5, <3>1, CloseMoves DEF Push
      <4>2. close'[k].pc = "ok"
        BY <4>1 DEF EndClose, Types, CloseRecord
      <4> QED
        BY <4>2 DEF NoneOk
    <3> QED
      BY <3>1
  <2> QED
    BY <2>1, <2>3, <2>4 DEF HostUntouched, MadeByRuns
<1>6. CASE UNCHANGED vars
  BY <1>6 DEF vars, HostUntouched, NoneOk, MadeByRuns
<1> QED
  BY <1>3, <1>4, <1>5, <1>6, Steps

\* A close that fails leaves nothing, for any number of closes that overlap, on any
\* manifests (validate_manifest, push_manifest).
THEOREM FailedClosesLeaveNothing == Spec => []FailedCloseLeavesNothing
<1>1. Init => Types /\ Made /\ LitterOwned /\ HostUntouched
  <2> SUFFICES ASSUME Init PROVE Types /\ Made /\ LitterOwned /\ HostUntouched
    OBVIOUS
  <2>1. Types /\ Made
    BY TypesInit
  <2>2. LitterOwned
    BY DEF Init, LitterOwned
  <2>3. MadeByRuns = {}
    BY DEF Init, IdleRun, MadeByRuns
  <2> QED
    BY <2>1, <2>2, <2>3, BranchPoolAssumption DEF Init, HostUntouched, HostRefs, NoCommit
<1>2. Types /\ Made /\ LitterOwned /\ HostUntouched /\ [Next]_vars
        => (Types /\ Made /\ LitterOwned /\ HostUntouched)'
  BY TypesStep, LitterStep, UntouchedStep
<1>3. LitterOwned /\ HostUntouched => FailedCloseLeavesNothing
  BY DEF LitterOwned, Holds, HostUntouched, NoneOk, Busy, FailedCloseLeavesNothing, FailedCloseInvisible,
         NoTempLitter
<1> QED
  BY <1>1, <1>2, <1>3, PTL DEF Spec

-----------------------------------------------------------------------------
(* The Pool and the host's user *)

Theirs == UNION {mine[b] : b \in HostRefs}
Apart(c, p, theirs) == p[c] \cap theirs \subseteq {1}

\* Nothing a Run builds on, and nothing in the Pool, reaches what the user committed
\* after open.
IsolationInv ==
  /\ \A n \in Name : Exists(n) => Apart(pool[n], past, Theirs)
  /\ \A r \in Runs : run[r].pc \in Working =>
       /\ \A c \in {run[r].head, run[r].base} \cup run[r].have : Apart(c, past, Theirs)
       /\ run[r].pc = "update" => Apart(run[r].tip, past, Theirs)

LEMMA IsolationStep == Types /\ Made /\ IsolationInv /\ [Next]_vars => IsolationInv'
<1> SUFFICES ASSUME Types, Made, IsolationInv, [Next]_vars PROVE IsolationInv'
  OBVIOUS
<1>0. count \in Nat
  BY BranchPoolAssumption DEF Types, Commit
<1>1. Theirs \subseteq 1 .. count
  BY DEF Made, Theirs
<1>2. \A n \in Name : Exists(n) => pool[n] \in 1 .. count
  BY BranchPoolAssumption DEF Types, Made, Exists, Ref, Commit, NoCommit
<1>3. \A r \in Runs : run[r].pc \in Working =>
        /\ {run[r].head, run[r].base} \cup run[r].have \subseteq 1 .. count
        /\ run[r].pc = "update" => run[r].tip \in 1 .. count
  <2> SUFFICES ASSUME NEW r \in Runs, run[r].pc \in Working
               PROVE  /\ {run[r].head, run[r].base} \cup run[r].have \subseteq 1 .. count
                      /\ run[r].pc = "update" => run[r].tip \in 1 .. count
    OBVIOUS
  <2>1. run[r] \in RunRecord /\ Sound(run[r], count)
    BY DEF Types, Made
  <2>2. \A c \in Ref : c # NoCommit /\ c <= count => c \in 1 .. count
    BY BranchPoolAssumption DEF Ref, NoCommit, Commit, Types
  <2> QED
    BY <2>1, <2>2 DEF RunRecord, Sound
<1>4. ASSUME NEW b \in HostRefs, HostCommit(b) PROVE IsolationInv'
  <2>1. /\ NewCommit({host[b]}) /\ host[b] \in 1 .. count
        /\ mine' = [mine EXCEPT ![b] = @ \cup {count'}] /\ pool' = pool /\ run' = run
    BY <1>4, HostCommits
  <2>2. {host[b]} \subseteq 1 .. count
    BY <2>1
  <2>3. count' \notin 1 .. count /\ \A c \in 1 .. count : past'[c] = past[c]
    BY <2>1, <2>2, Grows
  <2>4. Theirs' \subseteq Theirs \cup {count'}
    BY <2>1 DEF Theirs, Types
  <2>5. \A c \in 1 .. count : Apart(c, past, Theirs) => Apart(c, past', Theirs')
    <3> SUFFICES ASSUME NEW c \in 1 .. count, Apart(c, past, Theirs) PROVE Apart(c, past', Theirs')
      OBVIOUS
    <3>1. past[c] \subseteq 1 .. count
      BY <1>0 DEF Made
    <3> QED
      BY <2>3, <2>4, <3>1 DEF Apart
  <2>6. \A n \in Name : Exists(n)' => Exists(n) /\ pool'[n] = pool[n]
    BY <2>1 DEF Exists
  <2> QED
    BY <1>2, <1>3, <2>1, <2>5, <2>6 DEF IsolationInv
<1>5. ASSUME NEW r \in Runs, RunStep(r) PROVE IsolationInv'
  <2>1. Theirs' = Theirs /\ \A q \in Runs : q # r => run'[q] = run[q]
    BY <1>5, RunMoves DEF Theirs
  <2>2. \A c \in 1 .. count : past'[c] = past[c]
    <3>1. CASE AgentStep(r)
      <4>1. PICK P \in SUBSET (1 .. count) : NewCommit(P)
        BY <3>1, Commits, Zenon
      <4>2. P \subseteq 1 .. count
        OBVIOUS
      <4> QED
        BY <4>1, <4>2, Grows
    <3> QED
      BY <1>5, <3>1, RunMoves
  <2>3. \A c \in 1 .. count : Apart(c, past, Theirs) => Apart(c, past', Theirs')
    BY <2>1, <2>2 DEF Apart
  <2>4. \A q \in Runs : q # r /\ run'[q].pc \in Working =>
          /\ \A c \in {run'[q].head, run'[q].base} \cup run'[q].have : Apart(c, past', Theirs')
          /\ run'[q].pc = "update" => Apart(run'[q].tip, past', Theirs')
    BY <1>3, <2>1, <2>3 DEF IsolationInv
  <2>5. \A n \in Name : pool'[n] # NoCommit => Apart(pool'[n], past', Theirs')
    <3> SUFFICES ASSUME NEW n \in Name, pool'[n] # NoCommit PROVE Apart(pool'[n], past', Theirs')
      OBVIOUS
    <3>1. CASE pool'[n] = pool[n]
      BY <1>2, <2>3, <3>1 DEF IsolationInv, Exists
    <3>2. CASE pool'[n] = run[r].tip /\ FetchUpdate(r)
      <4>1. run[r].pc \in Working /\ run[r].pc = "update"
        BY <3>2, Fetches DEF Working
      <4>2. run[r].tip \in 1 .. count /\ Apart(run[r].tip, past, Theirs)
        BY <1>3, <4>1 DEF IsolationInv
      <4> QED
        BY <2>3, <3>2, <4>2
    <3> QED
      BY <1>5, <3>1, <3>2, RunMoves
  <2>6. run'[r].pc \in Working =>
          /\ \A c \in {run'[r].head, run'[r].base} \cup run'[r].have : Apart(c, past', Theirs')
          /\ run'[r].pc = "update" => Apart(run'[r].tip, past', Theirs')
    <3>1. CASE Started(r)
      <4>1. CASE \E out \in Outputs : run'[r] = [IdleRun EXCEPT !.pc = "err", !.out = out]
        BY <4>1 DEF IdleRun, Working
      <4>2. CASE ~ \E out \in Outputs : run'[r] = [IdleRun EXCEPT !.pc = "err", !.out = out]
        <5>1. PICK n \in Bases, import \in Imports, out \in Outputs :
                /\ \A m \in {n} \cup import : Exists(m)
                /\ run'[r] = [IdleRun EXCEPT !.pc = "agent", !.out = out, !.base = pool[n],
                      !.head = pool[n], !.have = {pool[m] : m \in import}, !.saw = {m \in Name : Exists(m)}]
          BY <3>1, <4>2, Zenon DEF Started
        <5>2. /\ run'[r].head = pool[n] /\ run'[r].base = pool[n] /\ run'[r].have = {pool[m] : m \in import}
              /\ run'[r].pc = "agent"
          BY <5>1 DEF IdleRun
        <5>3. n \in Name /\ import \subseteq Name
          BY BranchPoolAssumption
        <5>4. \A m \in {n} \cup import : pool[m] \in 1 .. count /\ Apart(pool[m], past, Theirs)
          BY <1>2, <5>1, <5>3 DEF IsolationInv
        <5>5. \A m \in {n} \cup import : Apart(pool[m], past', Theirs')
          BY <2>3, <5>4
        <5> QED
          BY <5>2, <5>5
      <4> QED
        BY <4>1, <4>2, Zenon
    <3>2. CASE Works(r)
      <4>1. PICK P \in SUBSET ({run[r].head, run[r].base} \cup run[r].have) :
              P \subseteq 1 .. count /\ NewCommit(P)
        BY <3>2, Commits, ZenonT(30) DEF Works
      <4>2. run[r].pc \in Working
        BY <3>2, Commits, Zenon DEF Works, Working
      <4>3. \A c \in P : Apart(c, past, Theirs)
        BY <4>2 DEF IsolationInv
      <4>4. past'[count'] = {count'} \cup UNION {past[q] : q \in P} /\ count' \notin 1 .. count
        BY <4>1, Grows
      <4>5. past'[count'] \cap Theirs \subseteq {1}
        BY <1>1, <4>3, <4>4, ZenonT(60) DEF Apart
      <4>6. Apart(count', past', Theirs')
        BY <2>1, <4>5 DEF Apart
      <4>7. /\ \A c \in {run[r].base} \cup run[r].have : Apart(c, past', Theirs')
            /\ run[r].pc = "update" => Apart(run[r].tip, past', Theirs')
        BY <1>3, <2>3, <4>2 DEF IsolationInv
      <4> QED
        BY <3>2, <4>6, <4>7, SMTT(60) DEF Works
    <3>3. CASE Proceeds(r)
      <4>1. run[r].pc \in Working
        BY <3>3 DEF Proceeds, Working
      <4> QED
        BY <1>3, <2>3, <3>3, <4>1 DEF Proceeds, IsolationInv
    <3>4. CASE Ended(r)
      BY <3>4 DEF Ended, Working
    <3> QED
      BY <1>5, <3>1, <3>2, <3>3, <3>4, RunCases
  <2> QED
    BY <2>4, <2>5, <2>6 DEF IsolationInv, Exists, Apart
<1>6. ASSUME NEW k \in Closers, CloseStep(k) PROVE IsolationInv'
  BY <1>6, CloseMoves DEF IsolationInv, Apart, Theirs, Exists
<1>7. CASE UNCHANGED vars
  BY <1>7 DEF vars, IsolationInv, Apart, Theirs, Exists
<1> QED
  BY <1>4, <1>5, <1>6, <1>7, Steps

\* Whatever Runs and closes do, no branch of the Pool reaches a commit that the host's
\* user made after open (mirror_from_host, pool_clone, validate_manifest).
THEOREM PoolStaysIsolated == Spec => []PoolIsolated
<1>1. Init => Types /\ Made /\ IsolationInv
  <2> SUFFICES ASSUME Init PROVE IsolationInv
    BY TypesInit
  <2>1. \A n \in Name : Exists(n) => pool[n] = 1
    BY DEF Init, Exists
  <2>2. past[1] = {1}
    BY BranchPoolAssumption DEF Init, Commit
  <2> QED
    BY <2>1, <2>2 DEF Init, IsolationInv, Apart, IdleRun, Working
<1>2. Types /\ Made /\ IsolationInv /\ [Next]_vars => (Types /\ Made /\ IsolationInv)'
  BY TypesStep, IsolationStep
<1>3. IsolationInv => PoolIsolated
  BY DEF IsolationInv, PoolIsolated, Apart, Theirs
<1> QED
  BY <1>1, <1>2, <1>3, PTL DEF Spec

-----------------------------------------------------------------------------
(* Branches a Run found *)

\* What a Run saw is still there, and what it may write was not.
EarlierInv ==
  \A r \in Runs :
    /\ \A n \in run[r].saw : n \in Name /\ Exists(n)
    /\ run[r].pc \in {"fetch", "update"} => Audit(r) \notin run[r].saw /\ run[r].out \notin run[r].saw

LEMMA EarlierStep == Types /\ Made /\ EarlierInv /\ [Next]_vars => EarlierInv'
<1> SUFFICES ASSUME Types, Made, EarlierInv, [Next]_vars PROVE EarlierInv'
  OBVIOUS
<1>1. CASE UNCHANGED <<pool, run>>
  BY <1>1 DEF EarlierInv, Exists
<1>2. ASSUME NEW r \in Runs, RunStep(r) PROVE EarlierInv'
  <2>1. \A q \in Runs : q # r => run'[q] = run[q]
    BY <1>2, RunMoves
  <2>2. \A n \in Name : Exists(n) => pool'[n] # NoCommit
    <3> SUFFICES ASSUME NEW n \in Name, Exists(n), pool'[n] # pool[n] PROVE pool'[n] # NoCommit
      BY DEF Exists
    <3>1. FetchUpdate(r) /\ pool'[n] = run[r].tip
      BY <1>2, RunMoves
    <3> QED
      BY <3>1, Fetches DEF Made, Sound, Working
  <2>3. /\ \A n \in run'[r].saw : n \in Name /\ pool'[n] # NoCommit
        /\ run'[r].pc \in {"fetch", "update"} => Audit(r) \notin run'[r].saw /\ run'[r].out \notin run'[r].saw
    <3>1. CASE Started(r)
      <4>1. run'[r].pc \in {"agent", "err"} /\ run'[r].saw \subseteq {n \in Name : Exists(n)}
        BY <3>1, Zenon DEF Started, IdleRun
      <4> QED
        BY <2>2, <4>1
    <3>2. CASE Works(r)
      BY <2>2, <3>2 DEF Works, EarlierInv
    <3>3. CASE Proceeds(r)
      <4>1. \A n \in run'[r].saw : n \in Name /\ pool'[n] # NoCommit
        BY <2>2, <3>3 DEF Proceeds, EarlierInv
      <4>2. CASE run'[r].pc = "fetch"
        <5>1. ~Exists(Audit(r)) /\ (run[r].out # NoOutput => ~Exists(run[r].out))
          BY <3>3, <4>2 DEF Proceeds, ValidTargets
        <5>2. NoOutput \notin run[r].saw
          BY BranchPoolAssumption DEF EarlierInv
        <5> QED
          BY <3>3, <4>1, <5>1, <5>2 DEF Proceeds, EarlierInv
      <4>3. CASE run'[r].pc # "fetch"
        BY <3>3, <4>1, <4>3 DEF Proceeds, EarlierInv
      <4> QED
        BY <4>2, <4>3
    <3>4. CASE Ended(r)
      BY <3>4 DEF Ended
    <3> QED
      BY <1>2, <3>1, <3>2, <3>3, <3>4, RunCases
  <2> QED
    BY <2>1, <2>2, <2>3 DEF EarlierInv, Exists
<1> QED
  BY <1>1, <1>2, Steps, HostCommits, CloseMoves DEF vars

\* No Run moves a branch that was in the Pool when it began, whatever names the others
\* ask for meanwhile (validate_run_output_targets, accept_run_output).
THEOREM EarlierRefsStand == Spec => EarlierRefsKept
<1>1. Init => Types /\ Made /\ EarlierInv
  BY TypesInit DEF Init, EarlierInv, IdleRun
<1>2. Types /\ Made /\ EarlierInv /\ [Next]_vars => (Types /\ Made /\ EarlierInv)'
  BY TypesStep, EarlierStep
<1>3. Types /\ Made /\ EarlierInv /\ [Next]_vars =>
        [\A r \in Runs : run'[r] # run[r] => \A n \in run[r].saw : pool'[n] = pool[n]]_vars
  <2> SUFFICES ASSUME Types, Made, EarlierInv, [Next]_vars, NEW r \in Runs, run'[r] # run[r],
                      NEW n \in run[r].saw, pool'[n] # pool[n]
               PROVE  FALSE
    OBVIOUS
  <2>1. PICK q \in Runs : RunStep(q)
    BY Steps, HostCommits, CloseMoves DEF vars
  <2>2. q = r
    BY <2>1, RunMoves
  <2>3. n \in Name
    BY DEF EarlierInv
  <2>4. FetchUpdate(r)
    BY <2>1, <2>2, <2>3, RunMoves
  <2>5. run[r].pc = "update" /\ Fetched(r)
    BY <2>4, Fetches
  <2>6. n = Audit(r) \/ n = run[r].out
    BY <2>3, <2>5 DEF Fetched
  <2> QED
    BY <2>5, <2>6 DEF EarlierInv
<1> QED
  BY <1>1, <1>2, <1>3, PTL DEF Spec, EarlierRefsKept

-----------------------------------------------------------------------------
(* The host's own commits *)

\* A push that succeeds puts each source on its destination, and nothing else.
LEMMA Pushes ==
  ASSUME Types, NEW k \in Closers, Push(k), close'[k].pc = "ok"
  PROVE  /\ Pushable(k) /\ close'[k].manifest = close[k].manifest
         /\ \A i \in DOMAIN close[k].manifest :
              /\ close[k].manifest[i] \in KeptEntry
              /\ host'[close[k].manifest[i].to] = pool[close[k].manifest[i].from]
         /\ \A b \in HostRefs : (\A i \in DOMAIN close[k].manifest : close[k].manifest[i].to # b)
                                  => host'[b] = host[b]
<1> DEFINE m == close[k].manifest
           S == {m[i] : i \in DOMAIN m}
<1>1. close[k] \in CloseRecord
  BY DEF Types
<1>2. \A i \in DOMAIN m : m[i] \in KeptEntry /\ m[i].to \in HostRefs
  BY <1>1 DEF CloseRecord, KeptEntry, Entry
<1>3. \A s \in CloseSteps : EndClose(k, s) => close'[k].pc = s /\ close'[k].manifest = m
  BY <1>1 DEF EndClose, Types, CloseRecord
<1>4. Pushable(k) /\ host' = Pushed(k) /\ close'[k].manifest = m
  BY <1>3 DEF Push, CloseSteps
<1>5. \A i, j \in DOMAIN m : m[i].to = m[j].to => i = j
  BY <1>4, SMTT(60) DEF Pushable
<1>6. ASSUME NEW i \in DOMAIN m PROVE host'[m[i].to] = pool[m[i].from]
  <2>1. \A e \in S : e.to = m[i].to => e = m[i]
    BY <1>5
  <2>2. (CHOOSE e \in S : e.to = m[i].to) = m[i]
    <3>1. m[i] \in S
      OBVIOUS
    <3> QED
      BY <2>1, <3>1
  <2>3. m[i].to \in HostRefs
    BY <1>2
  <2>4. host'[m[i].to] = pool[(CHOOSE e \in S : e.to = m[i].to).from]
    BY <1>4, <2>3, SMTT(60) DEF Pushed
  <2> QED
    BY <2>2, <2>4
<1>7. \A b \in HostRefs : (\A i \in DOMAIN m : m[i].to # b) => host'[b] = host[b]
  BY <1>4 DEF Pushed
<1> QED
  BY <1>2, <1>4, <1>6, <1>7

\* Commits that exist keep what they reach while a Run works.
LEMMA RunPast ==
  ASSUME Types, Made, NEW r \in Runs, RunStep(r)
  PROVE  \/ UNCHANGED <<count, past>>
         \/ \E P \in SUBSET (1 .. count) : NewCommit(P)
  BY RunMoves, Commits, Zenon

\* Reachability is transitive; a branch the user committed to is still there.
HistoryInv ==
  /\ \A c \in 1 .. count : \A a \in past[c] : past[a] \subseteq past[c]
  /\ \A b \in HostRefs : mine[b] # {} => host[b] # NoCommit
  /\ HostHistoryKept

\* A new commit keeps reachability transitive.
LEMMA ReachGrows ==
  ASSUME Types, Made, NEW P \in SUBSET (1 .. count), NewCommit(P),
         \A c \in 1 .. count : \A a \in past[c] : past[a] \subseteq past[c]
  PROVE  \A c \in 1 .. count' : \A a \in past'[c] : past'[a] \subseteq past'[c]
<1>0. count \in Nat /\ P \subseteq 1 .. count
  BY BranchPoolAssumption DEF Types, Commit
<1>1. /\ count' = count + 1 /\ past'[count'] = {count'} \cup UNION {past[q] : q \in P}
      /\ \A c \in 1 .. count : past'[c] = past[c]
  BY <1>0, Grows
<1>2. \A c \in 1 .. count : \A a \in past[c] : a \in 1 .. count
  BY <1>0 DEF Made
<1>3. ASSUME NEW c \in 1 .. count, NEW a \in past'[c] PROVE past'[a] \subseteq past'[c]
  BY <1>1, <1>2, <1>3
<1>4. ASSUME NEW a \in past'[count'] PROVE past'[a] \subseteq past'[count']
  <2>1. CASE \E q \in P : a \in past[q]
    <3>1. PICK q \in P : a \in past[q]
      BY <2>1
    <3>2. past[a] \subseteq past[q] /\ a \in 1 .. count
      BY <1>0, <1>2, <3>1
    <3> QED
      BY <1>1, <3>1, <3>2
  <2> QED
    BY <1>1, <1>4, <2>1
<1>5. \A c \in 1 .. count' : c = count' \/ c \in 1 .. count
  BY <1>0, <1>1
<1> QED
  BY <1>3, <1>4, <1>5

LEMMA HistoryStep == Types /\ Made /\ HistoryInv /\ [Next]_vars => HistoryInv'
<1> SUFFICES ASSUME Types, Made, HistoryInv, [Next]_vars PROVE HistoryInv'
  OBVIOUS
<1>0. count \in Nat /\ \A b \in HostRefs : host[b] # NoCommit => host[b] \in 1 .. count
  BY BranchPoolAssumption DEF Types, Made, Ref, Commit, NoCommit
<1>1. ASSUME NEW b \in HostRefs, HostCommit(b) PROVE HistoryInv'
  <2>1. /\ NewCommit({host[b]}) /\ host[b] \in 1 .. count
        /\ host' = [host EXCEPT ![b] = count'] /\ mine' = [mine EXCEPT ![b] = @ \cup {count'}]
        /\ close' = close
    BY <1>1, HostCommits
  <2>2. /\ count' = count + 1 /\ past'[count'] = {count'} \cup past[host[b]]
        /\ \A c \in 1 .. count : past'[c] = past[c]
    BY <2>1, Grows
  <2>3. \A c \in 1 .. count' : \A a \in past'[c] : past'[a] \subseteq past'[c]
    BY <2>1, ReachGrows DEF HistoryInv
  <2>4. \A c \in HostRefs : Forced(c)' <=> Forced(c)
    BY <2>1 DEF Forced
  <2>5. ASSUME NEW c \in HostRefs, c # b
        PROVE  host'[c] = host[c] /\ mine'[c] = mine[c] /\ (host[c] # NoCommit => past'[host[c]] = past[host[c]])
    BY <1>0, <2>1, <2>2, <2>5 DEF Types
  <2>6. host'[b] = count' /\ mine'[b] = mine[b] \cup {count'}
    BY <2>1 DEF Types
  <2>7. \A c \in HostRefs : mine'[c] # {} => host'[c] # NoCommit
    BY <1>0, <2>2, <2>5, <2>6 DEF HistoryInv, NoCommit
  <2>8. ASSUME NEW c \in HostRefs, mine'[c] # {}, ~Forced(c)' PROVE mine'[c] \subseteq past'[host'[c]]
    BY <2>2, <2>4, <2>5, <2>6, <2>8 DEF HistoryInv, HostHistoryKept
  <2> QED
    BY <2>3, <2>7, <2>8 DEF HistoryInv, HostHistoryKept
<1>2. ASSUME NEW r \in Runs, RunStep(r) PROVE HistoryInv'
  <2>1. UNCHANGED <<host, mine, close>>
    BY <1>2, RunMoves
  <2>2. \A c \in 1 .. count : past'[c] = past[c]
    <3>1. ASSUME NEW P \in SUBSET (1 .. count), NewCommit(P) PROVE \A c \in 1 .. count : past'[c] = past[c]
      BY <3>1, Grows, Zenon
    <3> QED
      BY <1>2, <3>1, RunPast
  <2>3. \A c \in 1 .. count' : \A a \in past'[c] : past'[a] \subseteq past'[c]
    BY <1>2, RunPast, ReachGrows DEF HistoryInv
  <2>4. \A b \in HostRefs : host[b] # NoCommit => past'[host[b]] = past[host[b]]
    BY <1>0, <2>2
  <2> QED
    BY <2>1, <2>3, <2>4 DEF HistoryInv, HostHistoryKept, Forced
<1>3. ASSUME NEW k \in Closers, CloseStep(k) PROVE HistoryInv'
  <2>1. UNCHANGED <<count, past, pool, mine>> /\ \A j \in Closers : j # k => close'[j] = close[j]
    BY <1>3, CloseMoves
  <2>2. close[k].pc # "ok"
    BY <1>3, Zenon DEF CloseStep, CloseBegin, Resolve, Judge, Cleanup, Push
  <2>3. \A b \in HostRefs : Forced(b) => Forced(b)'
    BY <2>1, <2>2 DEF Forced
  <2>4. CASE host' = host
    BY <2>1, <2>3, <2>4 DEF HistoryInv, HostHistoryKept
  <2>5. CASE host' # host
    <3>1. Push(k) /\ close'[k].pc = "ok"
      <4>1. Push(k) /\ EndClose(k, "ok")
        BY <1>3, <2>5, CloseMoves DEF Push
      <4> QED
        BY <4>1 DEF EndClose, Types, CloseRecord
    <3>2. /\ Pushable(k) /\ close'[k].manifest = close[k].manifest
          /\ \A i \in DOMAIN close[k].manifest :
               /\ close[k].manifest[i] \in KeptEntry
               /\ host'[close[k].manifest[i].to] = pool[close[k].manifest[i].from]
          /\ \A b \in HostRefs : (\A i \in DOMAIN close[k].manifest : close[k].manifest[i].to # b)
                                   => host'[b] = host[b]
      BY <3>1, Pushes
    <3>3. ASSUME NEW b \in HostRefs, mine[b] # {}
          PROVE  host'[b] # NoCommit /\ (~Forced(b)' => mine[b] \subseteq past[host'[b]])
      <4>1. CASE \A i \in DOMAIN close[k].manifest : close[k].manifest[i].to # b
        BY <2>3, <3>2, <3>3, <4>1 DEF HistoryInv, HostHistoryKept
      <4>2. CASE \E i \in DOMAIN close[k].manifest : close[k].manifest[i].to = b
        <5>1. PICK i \in DOMAIN close[k].manifest : close[k].manifest[i].to = b
          BY <4>2
        <5> DEFINE e == close[k].manifest[i]
        <5>2. e.from \in Name /\ ~Refused(e) /\ host'[b] = pool[e.from]
          BY <3>2, <5>1 DEF Pushable, KeptEntry, Entry
        <5>3. pool[e.from] \in 1 .. count
          BY <5>2, BranchPoolAssumption DEF Refused, Exists, Types, Made, Ref, Commit, NoCommit
        <5>4. e.force => Forced(b)'
          BY <3>1, <3>2, <5>1 DEF Forced
        <5>5. ~e.force => host[b] \in past[pool[e.from]]
          BY <3>3, <5>1, <5>2 DEF HistoryInv, Refused, IsAncestor
        <5>6. ~e.force => past[host[b]] \subseteq past[pool[e.from]]
          BY <5>3, <5>5 DEF HistoryInv
        <5>7. ~Forced(b)' => mine[b] \subseteq past[host[b]]
          BY <2>3, <3>3 DEF HistoryInv, HostHistoryKept
        <5> QED
          BY <5>2, <5>3, <5>4, <5>6, <5>7 DEF NoCommit
      <4> QED
        BY <4>1, <4>2
    <3> QED
      BY <2>1, <3>3 DEF HistoryInv, HostHistoryKept
  <2> QED
    BY <2>4, <2>5
<1>4. CASE UNCHANGED vars
  BY <1>4 DEF vars, HistoryInv, HostHistoryKept, Forced
<1> QED
  BY <1>1, <1>2, <1>3, <1>4, Steps

\* What the host's user committed to a branch no close was told to force stays
\* reachable from it, also what was committed between a close's check and its push
\* (push_manifest).
THEOREM HostHistoryStands == Spec => []HostHistoryKept
<1>1. Init => Types /\ Made /\ HistoryInv
  <2> SUFFICES ASSUME Init PROVE HistoryInv
    BY TypesInit
  <2>1. past[1] = {1} /\ count = 1 /\ \A c \in 1 .. 1 : c = 1
    BY BranchPoolAssumption DEF Init, Commit
  <2>2. \A c \in 1 .. count : \A a \in past[c] : past[a] \subseteq past[c]
    BY <2>1
  <2>3. \A b \in HostRefs : mine[b] # {} => b \in Mirrored /\ host[b] = 1 /\ mine[b] = {1}
    BY DEF Init
  <2>4. HostHistoryKept
    BY <2>1, <2>3 DEF HostHistoryKept
  <2> QED
    BY <2>2, <2>3, <2>4 DEF HistoryInv, NoCommit
<1>2. Types /\ Made /\ HistoryInv /\ [Next]_vars => (Types /\ Made /\ HistoryInv)'
  BY TypesStep, HistoryStep
<1>3. HistoryInv => HostHistoryKept
  BY DEF HistoryInv
<1> QED
  BY <1>1, <1>2, <1>3, PTL DEF Spec

-----------------------------------------------------------------------------
(* What is pushed is what was judged *)

\* A name outside the reserved ones is only there after the Run that asked for it has
\* ended; a Run with a reserved name does not get as far as the fetch.
OutputsInv ==
  \A r \in Runs : /\ run[r].pc = "idle" => run[r].out = NoOutput
                  /\ run[r].pc \in {"fetch", "update"} /\ run[r].out # NoOutput => ~Reserved(run[r].out)
WrittenInv ==
  \A n \in Name : ~Reserved(n) /\ Exists(n) =>
    \E q \in Runs : run[q].out = n /\ run[q].pc \in {"ok", "err"}

\* What a close has resolved still holds, unless two Runs share the name.
Holding(c, p) ==
  \A i \in DOMAIN c.seen :
    /\ i \in DOMAIN c.manifest
    /\ p[c.manifest[i].from] # NoCommit
    /\ Contended(c.manifest[i].from) \/ p[c.manifest[i].from] = c.seen[i].pool
Resolved(c) ==
  /\ c.pc = "idle" => c.seen = << >>
  /\ c.pc \in {"cleanup_ok", "push"} => DOMAIN c.seen = DOMAIN c.manifest

JudgedInv == /\ OutputsInv /\ WrittenInv
             /\ \A k \in Closers : Resolved(close[k]) /\ Holding(close[k], pool)

\* A Run that is not idle keeps the name it asked for; one that has ended stays so.
LEMMA OutKept ==
  ASSUME Types, Made, NEW r \in Runs, RunStep(r)
  PROVE  /\ run[r].pc \notin {"ok", "err"}
         /\ run[r].pc # "idle" => run'[r].out = run[r].out
         /\ run'[r].pc # "idle"
         /\ pool' # pool => Ended(r) /\ FetchUpdate(r)
<1>1. run[r].pc \notin {"ok", "err"}
  BY Zenon DEF RunStep, Materialize, AgentStep, AgentCommit, AgentCommitOnBase, MayCommit, Extract,
         Compare, ValidateTargets, FetchStart, FetchUpdate
<1>2. run'[r].pc # "idle"
  <2>1. CASE Started(r)
    BY <2>1, Zenon DEF Started, IdleRun
  <2> QED
    BY <2>1, RunCases DEF Works, Working, Proceeds, Ended
<1>3. run[r].pc # "idle" => run'[r].out = run[r].out
  BY RunCases DEF Works, Proceeds, Ended
<1>4. ASSUME pool' # pool PROVE Ended(r) /\ FetchUpdate(r)
  <2>1. \E n \in Name : pool'[n] # pool[n]
    BY <1>4, RunMoves DEF Types
  <2> QED
    BY <1>4, <2>1, RunCases, RunMoves DEF Works, Proceeds
<1> QED
  BY <1>1, <1>2, <1>3, <1>4

LEMMA ContendedStays ==
  ASSUME Types, Made, OutputsInv, NEW r \in Runs, RunStep(r), NEW n \in Name, Contended(n)
  PROVE  Contended(n)'
<1>1. PICK q \in Runs, p \in Runs : q # p /\ run[q].out = n /\ run[p].out = n
  BY DEF Contended
<1>2. run[q].pc # "idle" /\ run[p].pc # "idle"
  BY <1>1, BranchPoolAssumption DEF OutputsInv
<1>3. run'[q].out = n /\ run'[p].out = n
  BY <1>1, <1>2, OutKept, RunMoves
<1> QED
  BY <1>1, <1>3 DEF Contended

LEMMA JudgedStep == Types /\ Made /\ JudgedInv /\ [Next]_vars => JudgedInv'
<1> SUFFICES ASSUME Types, Made, JudgedInv, [Next]_vars PROVE JudgedInv'
  OBVIOUS
<1>0. \A k \in Closers : \A i \in DOMAIN close[k].manifest :
        close[k].manifest[i].from \in Name /\ close[k].manifest[i].from[1] # "runs"
  <2>1. \A e \in KeptEntry : e.from \in Name /\ e.from[1] # "runs"
    BY DEF KeptEntry, Entry, IsKept
  <2>2. \A k \in Closers : close[k].manifest \in Seq(KeptEntry)
    BY DEF Types, CloseRecord
  <2> HIDE DEF KeptEntry
  <2> QED
    BY <2>1, <2>2
<1>1. CASE UNCHANGED <<pool, run, close>>
  BY <1>1 DEF JudgedInv, OutputsInv, WrittenInv, Holding, Resolved, Contended, Exists
<1>2. ASSUME NEW r \in Runs, RunStep(r) PROVE JudgedInv'
  <2>1. close' = close /\ \A q \in Runs : q # r => run'[q] = run[q]
    BY <1>2, RunMoves
  <2>2. ASSUME NEW n \in Name, n[1] # "runs", pool'[n] # pool[n]
        PROVE  ~Reserved(n) /\ n = run[r].out /\ Ended(r) /\ (Exists(n) => Contended(n))
    <3>1. FetchUpdate(r) /\ Ended(r)
      BY <1>2, <2>2, OutKept
    <3>2. run[r].pc = "update" /\ Fetched(r)
      BY <3>1, Fetches
    <3>3. n = run[r].out
      BY <2>2, <3>2 DEF Fetched, Audit
    <3>4. ~Reserved(n)
      BY <3>2, <3>3, BranchPoolAssumption DEF JudgedInv, OutputsInv
    <3>5. Exists(n) => Contended(n)
      BY <3>2, <3>3, <3>4 DEF JudgedInv, WrittenInv, Contended
    <3> QED
      BY <3>1, <3>3, <3>4, <3>5
  <2>3. OutputsInv'
    <3>1. run'[r].pc \in {"fetch", "update"} /\ run'[r].out # NoOutput => ~Reserved(run'[r].out)
      <4>1. CASE Started(r)
        BY <4>1, ZenonT(30) DEF Started, IdleRun
      <4> QED
        BY <1>2, <4>1, RunCases DEF Works, Proceeds, Ended, ValidTargets, JudgedInv, OutputsInv
    <3> QED
      BY <1>2, <2>1, <3>1, OutKept DEF JudgedInv, OutputsInv
  <2>4. WrittenInv'
    <3> SUFFICES ASSUME NEW n \in Name, ~Reserved(n), pool'[n] # NoCommit
                 PROVE  \E q \in Runs : run'[q].out = n /\ run'[q].pc \in {"ok", "err"}
      BY DEF WrittenInv, Exists, Reserved
    <3>1. CASE pool'[n] = pool[n]
      <4>1. PICK q \in Runs : run[q].out = n /\ run[q].pc \in {"ok", "err"}
        BY <3>1 DEF JudgedInv, WrittenInv, Exists
      <4> QED
        BY <1>2, <2>1, <4>1, OutKept
    <3>2. CASE pool'[n] # pool[n]
      BY <2>2, <3>2 DEF Reserved, Ended
    <3> QED
      BY <3>1, <3>2
  <2>5. ASSUME NEW k \in Closers, NEW i \in DOMAIN close[k].seen
        PROVE  /\ i \in DOMAIN close[k].manifest
               /\ pool'[close[k].manifest[i].from] # NoCommit
               /\ Contended(close[k].manifest[i].from)'
                    \/ pool'[close[k].manifest[i].from] = close[k].seen[i].pool
    <3> DEFINE n == close[k].manifest[i].from
    <3>1. /\ i \in DOMAIN close[k].manifest /\ pool[n] # NoCommit
          /\ Contended(n) \/ pool[n] = close[k].seen[i].pool
      BY DEF JudgedInv, Holding
    <3>2. n \in Name /\ n[1] # "runs"
      BY <1>0, <3>1
    <3>3. Contended(n) => Contended(n)'
      <4>1. \A m \in Name : Contended(m) => Contended(m)'
        BY <1>2, ContendedStays DEF JudgedInv
      <4> QED
        BY <2>1, <3>2, <4>1 DEF Contended
    <3>4. pool'[n] # NoCommit
      <4>1. CASE pool'[n] = pool[n]
        BY <3>1, <4>1
      <4>2. CASE pool'[n] # pool[n]
        <5>1. FetchUpdate(r) /\ pool'[n] = run[r].tip
          BY <1>2, <3>2, <4>2, RunMoves
        <5> QED
          BY <5>1, Fetches DEF Made, Sound, Working
      <4> QED
        BY <4>1, <4>2
    <3>5. Contended(n) \/ pool'[n] = pool[n]
      BY <2>2, <3>1, <3>2 DEF Exists
    <3> QED
      BY <3>1, <3>3, <3>4, <3>5
  <2>6. \A k \in Closers : Resolved(close'[k])
    BY <2>1 DEF JudgedInv, Resolved
  <2>7. \A k \in Closers : Holding(close[k], pool)'
    BY <2>1, <2>5 DEF Holding
  <2> QED
    BY <2>3, <2>4, <2>6, <2>7 DEF JudgedInv, Resolved
<1>3. ASSUME NEW k \in Closers, CloseStep(k) PROVE JudgedInv'
  <2>1. pool' = pool /\ run' = run /\ \A j \in Closers : j # k => close'[j] = close[j]
    BY <1>3, CloseMoves
  <2>2. close[k] \in CloseRecord /\ close[k].manifest \in Seq(KeptEntry)
        /\ close[k].seen \in Seq([pool : Ref, host : Ref])
    BY Zenon DEF Types, CloseRecord
  <2>3. Resolved(close[k]) /\ Holding(close[k], pool)
    BY DEF JudgedInv
  <2> DEFINE c == close'[k]
  <2>4. Resolved(c) /\ Holding(c, pool)
    <3>1. CASE \E m \in Manifests : CloseBegin(k, m)
      <4>1. close[k].pc = "idle" /\ c.pc = "resolve" /\ c.seen = close[k].seen
        BY <2>2, <3>1 DEF CloseBegin, Types, CloseRecord
      <4> HIDE DEF c
      <4>2. c.seen = << >>
        BY <2>3, <4>1 DEF Resolved
      <4> QED
        BY <4>1, <4>2 DEF Resolved, Holding
    <3>2. ASSUME NEW s \in CloseSteps \ {"idle"}, StepClose(k, s),
                 s \in {"cleanup_ok", "push"} => DOMAIN close[k].seen = DOMAIN close[k].manifest
          PROVE  Resolved(c) /\ Holding(c, pool)
      <4>1. c.pc = s /\ c.seen = close[k].seen /\ c.manifest = close[k].manifest
        BY <2>2, <3>2 DEF StepClose, Types, CloseRecord
      <4> HIDE DEF c
      <4> QED
        BY <2>3, <3>2, <4>1 DEF Resolved, Holding
    <3>3. ASSUME NEW s \in {"ok", "err"}, EndClose(k, s) PROVE Resolved(c) /\ Holding(c, pool)
      <4>1. c.pc = s /\ c.seen = << >>
        BY <2>2, <3>3 DEF EndClose, Types, CloseRecord
      <4> HIDE DEF c
      <4> QED
        BY <4>1 DEF Resolved, Holding
    <3>4. CASE Resolve(k) /\ ~StepClose(k, "cleanup_err")
      <4> DEFINE i == Len(close[k].seen) + 1
                 e == close[k].manifest[i]
                 v == [pool |-> pool[e.from], host |-> host[e.to]]
      <4>1. /\ close[k].pc = "resolve" /\ i <= Len(close[k].manifest) /\ Exists(e.from)
            /\ close' = [close EXCEPT ![k].seen = Append(@, v),
                         ![k].temps = IF host[e.to] = NoCommit THEN @ ELSE @ \cup {i}]
        BY <3>4, Zenon DEF Resolve
      <4>2. c.pc = "resolve" /\ c.manifest = close[k].manifest /\ c.seen = Append(close[k].seen, v)
        <5> HIDE DEF i, v
        <5> QED
          BY <2>2, <4>1, SMTT(60) DEF Types, CloseRecord
      <4>3. i \in DOMAIN close[k].manifest /\ i \in Nat
        BY <2>2, <4>1
      <4> HIDE DEF c
      <4>4. DOMAIN c.seen = DOMAIN close[k].seen \cup {i}
        BY <2>2, <4>2
      <4>5. c.seen[i] = v /\ \A j \in DOMAIN close[k].seen : c.seen[j] = close[k].seen[j]
        <5> HIDE DEF v
        <5> QED
          BY <2>2, <4>2, SMTT(60)
      <4>6. c.seen[i].pool = pool[e.from] /\ pool[e.from] # NoCommit
        BY <4>1, <4>5 DEF Exists
      <4> HIDE DEF i, v
      <4> QED
        BY <2>3, <4>2, <4>3, <4>4, <4>5, <4>6, SMTT(60) DEF Resolved, Holding
    <3>5. CASE Judge(k)
      BY <2>2, <3>2, <3>5 DEF Judge, CloseSteps
    <3>6. CASE Cleanup(k)
      BY <2>3, <3>2, <3>3, <3>6 DEF Cleanup, CloseSteps, Resolved
    <3> HIDE DEF c
    <3> QED
      BY <1>3, <3>1, <3>2, <3>3, <3>4, <3>5, <3>6, Zenon DEF CloseStep, Push, CloseSteps, Resolve
  <2> HIDE DEF c
  <2>5. \A n : Contended(n)' <=> Contended(n)
    BY <2>1 DEF Contended
  <2>6. \A j \in Closers : Resolved(close'[j]) /\ Holding(close'[j], pool)
    BY <2>1, <2>4 DEF c, JudgedInv
  <2>7. \A j \in Closers : Holding(close[j], pool)'
    BY <2>1, <2>5, <2>6 DEF Holding
  <2>8. OutputsInv' /\ WrittenInv'
    BY <2>1 DEF JudgedInv, OutputsInv, WrittenInv, Exists
  <2> QED
    BY <2>6, <2>7, <2>8 DEF JudgedInv, Resolved
<1> QED
  BY <1>1, <1>2, <1>3, Steps, HostCommits DEF vars

\* A push publishes the very commits validate_manifest judged, although git push names
\* refs, unless two Runs asked for one output branch (push_manifest).
THEOREM PushesWhatWasJudged == Spec => PushedAsJudged
<1>1. Init => Types /\ Made /\ JudgedInv
  <2> SUFFICES ASSUME Init PROVE JudgedInv
    BY TypesInit
  <2>1. OutputsInv
    BY DEF Init, OutputsInv, IdleRun
  <2>2. WrittenInv
    BY DEF Init, WrittenInv, Exists, Reserved
  <2>3. \A k \in Closers : Resolved(close[k]) /\ Holding(close[k], pool)
    BY DEF Init, IdleClose, Resolved, Holding
  <2> QED
    BY <2>1, <2>2, <2>3 DEF JudgedInv
<1>2. Types /\ Made /\ JudgedInv /\ [Next]_vars => (Types /\ Made /\ JudgedInv)'
  BY TypesStep, JudgedStep
<1>3. Types /\ Made /\ JudgedInv /\ [Next]_vars =>
        [\A k \in Closers : close[k].pc = "push" /\ close'[k].pc = "ok" =>
           \A i \in DOMAIN close[k].manifest :
             LET e == close[k].manifest[i]
             IN Contended(e.from) \/ host'[e.to] = close[k].seen[i].pool]_vars
  <2> SUFFICES ASSUME Types, Made, JudgedInv, [Next]_vars, NEW k \in Closers,
                      close[k].pc = "push", close'[k].pc = "ok", NEW i \in DOMAIN close[k].manifest
               PROVE  \/ Contended(close[k].manifest[i].from)
                      \/ host'[close[k].manifest[i].to] = close[k].seen[i].pool
    OBVIOUS
  <2>1. PICK j \in Closers : CloseStep(j)
    BY Steps, HostCommits, RunMoves, Zenon DEF vars
  <2>2. j = k
    BY <2>1, CloseMoves
  <2>3. Push(k)
    BY <2>1, <2>2, Zenon DEF CloseStep, CloseBegin, Resolve, Judge, Cleanup
  <2>4. host'[close[k].manifest[i].to] = pool[close[k].manifest[i].from]
    BY <2>3, Pushes
  <2>5. i \in DOMAIN close[k].seen
    BY DEF JudgedInv, Resolved
  <2> QED
    BY <2>4, <2>5 DEF JudgedInv, Holding
<1> QED
  BY <1>1, <1>2, <1>3, PTL DEF Spec, PushedAsJudged
=============================================================================
