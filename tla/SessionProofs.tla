---------------------------- MODULE SessionProofs ----------------------------
(***************************************************************************)
(* Theorems about Session.tla, for any set of processes, any number of     *)
(* kills, and (unless a theorem says otherwise) writers that may overlap.  *)
(***************************************************************************)
EXTENDS Session, TLAPS

\* Blank metadata is well typed.
LEMMA BlankType ==
  ASSUME NEW s \in States \cup {"absent", "empty", "torn"}
  PROVE  Blank(s) \in Meta
BY DEF Blank, Meta

\* Type correctness of every process, file and record of the Session.
LEMMA TypeInit == Init => TypeOK
<1> SUFFICES ASSUME Init PROVE TypeOK
  OBVIOUS
<1>1. Blank("absent") \in Meta
  BY BlankType
<1>2. pc \in [Actors -> Steps] /\ crashes \in 0 .. MaxCrashes
  BY SessionAssumption DEF Init, Steps
<1>3. verb \in [Actors -> Verbs \cup {"open", "none"}]
  BY DEF Init
<1> QED
  BY <1>1, <1>2, <1>3 DEF Init, TypeOK

LEMMA TypeStep == TypeOK /\ [Next]_vars => TypeOK'
<1> SUFFICES ASSUME TypeOK, [Next]_vars PROVE TypeOK'
  OBVIOUS
<1> USE DEF TypeOK
<1>a. /\ Blank("absent") \in Meta /\ Blank("empty") \in Meta
      /\ Blank("torn") \in Meta /\ Blank("open") \in Meta
  BY BlankType DEF States
<1>b. Opener \in Actors /\ Procs \subseteq Actors /\ Procs = Actors \ {Opener}
  BY SessionAssumption DEF Actors
<1>c. ASSUME NEW p \in Actors, NEW s \in Steps, Goto(p, s)
      PROVE  pc' \in [Actors -> Steps]
  BY <1>c DEF Goto
<1>d. ASSUME NEW p \in Actors, NEW s \in Ended, Return(p, s)
      PROVE  pc' \in [Actors -> Steps] /\ mem' \in [Actors -> Meta]
  BY <1>d, <1>a DEF Return, Steps
<1>1. CASE OpenDir
  BY <1>1, <1>b, <1>c DEF OpenDir, ghost, Steps
<1>2. CASE OpenPool
  <2>1. pool' \in BOOLEAN /\ mem' \in [Actors -> Meta]
    <3>1. CASE pool' = TRUE /\ mem' = [mem EXCEPT ![Opener] = Blank("open")]
      BY <3>1, <1>a, <1>b
    <3>2. CASE pool' \in BOOLEAN /\ Return(Opener, "err")
      BY <3>2, <1>b, <1>d DEF Ended
    <3> QED BY <1>2, <3>1, <3>2 DEF OpenPool
  <2>2. pc' \in [Actors -> Steps]
    BY <1>2, <1>b, <1>c, <1>d DEF OpenPool, Steps, Ended
  <2> QED
    BY <1>2, <2>1, <2>2 DEF OpenPool, ghost
<1>3. ASSUME NEW p \in Procs, NEW v \in Verbs, Attach(p, v) PROVE TypeOK'
  <2>1. mem' \in [Actors -> Meta]
    BY <1>3, <1>a, <1>b, <1>d DEF Attach, disk, Ended
  <2>2. pc' \in [Actors -> Steps]
    BY <1>3, <1>b, <1>c, <1>d DEF Attach, Steps, Ended
  <2> QED
    BY <1>3, <1>b, <2>1, <2>2 DEF Attach, disk, ghost
<1>4. ASSUME NEW p \in Actors, Crash(p) PROVE TypeOK'
  <2>1. pc' \in [Actors -> Steps] /\ mem' \in [Actors -> Meta]
    BY <1>4, <1>d DEF Crash, Ended
  <2>2. crashes' \in 0 .. MaxCrashes
    BY <1>4, SessionAssumption DEF Crash
  <2> QED
    BY <1>4, <2>1, <2>2 DEF Crash, disk, ghost
<1>5. ASSUME NEW p \in Actors, TruncateTmp(p) PROVE TypeOK'
  <2>1. pc' \in [Actors -> Steps] /\ mem' \in [Actors -> Meta]
    BY <1>5, <1>c, <1>d DEF TruncateTmp, Steps, Ended
  <2> QED
    BY <1>5, <1>a, <2>1 DEF TruncateTmp, ghost
<1>6. ASSUME NEW p \in Actors, FillTmp(p) PROVE TypeOK'
  <2>1. pc' \in [Actors -> Steps]
    BY <1>6, <1>c DEF FillTmp, Steps
  <2>2. tmp' \in Meta /\ meta' \in Meta
    BY <1>6, <1>a DEF FillTmp, Filled
  <2> QED
    BY <1>6, <2>1, <2>2 DEF FillTmp, ghost
<1>7. ASSUME NEW p \in Actors, RenameTmp(p) PROVE TypeOK'
  <2>1. pc' \in [Actors -> Steps] /\ mem' \in [Actors -> Meta]
    BY <1>7, <1>c, <1>d DEF RenameTmp, AfterWrite, Steps, Ended
  <2>2. tmp' \in Meta /\ meta' \in Meta /\ fd' \in [Actors -> {"none", "tmp", "meta"}]
    BY <1>7, <1>a DEF RenameTmp, FdAfterRename
  <2> QED
    BY <1>7, <2>1, <2>2 DEF RenameTmp, ghost
<1>8. ASSUME NEW p \in Actors, LabelAdd(p) PROVE TypeOK'
  <2>1. pc' \in [Actors -> Steps]
    BY <1>8, <1>c DEF LabelAdd, Steps
  <2>2. mem' \in [Actors -> Meta]
    BY <1>8 DEF LabelAdd, Meta
  <2> QED
    BY <1>8, <2>1, <2>2 DEF LabelAdd, disk, ghost
<1>9. ASSUME NEW p \in Actors, CloseStart(p) PROVE TypeOK'
  <2>1. pc' \in [Actors -> Steps]
    BY <1>9, <1>c, <1>d DEF CloseStart, Steps, Ended
  <2>2. mem' \in [Actors -> Meta]
    <3>1. CASE mem[p].state \in {"open", "failed_to_close"}
      BY <1>9, <3>1 DEF CloseStart, Meta, States
    <3>2. CASE mem[p].state \notin {"open", "failed_to_close"}
      BY <1>9, <1>d, <3>2 DEF CloseStart, Ended
    <3> QED
      BY <3>1, <3>2
  <2> QED
    BY <1>9, <2>1, <2>2 DEF CloseStart, disk, ghost
<1>10. ASSUME NEW p \in Procs, Push(p) PROVE TypeOK'
  <2>1. pc' \in [Actors -> Steps]
    BY <1>10, <1>b, <1>c DEF Push, Steps
  <2>2. mem' \in [Actors -> Meta]
    <3> DEFINE closed == [mem[p] EXCEPT !.state = "closed"]
               failed == [mem[p] EXCEPT !.state = "failed_to_close", !.failure = TRUE]
    <3>1. closed \in Meta /\ failed \in Meta
      BY <1>b DEF Meta, States
    <3>2. mem' = [mem EXCEPT ![p] = closed] \/ mem' = [mem EXCEPT ![p] = failed]
      BY <1>10, <1>b DEF Push
    <3> QED
      BY <3>1, <3>2, <1>b
  <2>3. touched' \subseteq Procs /\ settled' \subseteq Procs
    BY <1>10 DEF Push, ghost
  <2> QED
    BY <1>10, <2>1, <2>2, <2>3 DEF Push, disk
<1>11. ASSUME NEW p \in Actors, DiscardPool(p) PROVE TypeOK'
  <2>1. pc' \in [Actors -> Steps] /\ mem' \in [Actors -> Meta]
    BY <1>11, <1>c, <1>d DEF DiscardPool, Steps, Ended
  <2> QED
    BY <1>11, <2>1 DEF DiscardPool, PartOfPool, ghost
<1>12. ASSUME NEW p \in Actors, DiscardRuns(p) PROVE TypeOK'
  <2>1. pc' \in [Actors -> Steps]
    BY <1>12, <1>c, <1>d DEF DiscardRuns, Steps, Ended
  <2>2. mem' \in [Actors -> Meta]
    <3>1. CASE mem' = [mem EXCEPT ![p].state = "discarded"]
      BY <3>1 DEF Meta, States
    <3>2. CASE Return(p, "half")
      BY <3>2, <1>d DEF Ended
    <3> QED BY <1>12, <3>1, <3>2 DEF DiscardRuns
  <2> QED
    BY <1>12, <2>1, <2>2 DEF DiscardRuns, ghost
<1>13. ASSUME NEW p \in Actors, PurgeStart(p) PROVE TypeOK'
  <2>1. pc' \in [Actors -> Steps] /\ mem' \in [Actors -> Meta]
    BY <1>13, <1>c, <1>d DEF PurgeStart, Steps, Ended
  <2>2. todo' \in [Actors -> SUBSET Entries]
    BY <1>13 DEF PurgeStart, Present
  <2> QED
    BY <1>13, <2>1, <2>2 DEF PurgeStart, disk, ghost
<1>14. ASSUME NEW p \in Actors, NEW e \in Entries, PurgeUnlink(p, e) PROVE TypeOK'
  <2>1. tmp' \in Meta /\ meta' \in Meta
    BY <1>14, <1>a DEF PurgeUnlink
  <2>2. fd' \in [Actors -> {"none", "tmp", "meta"}] /\ todo' \in [Actors -> SUBSET Entries]
    BY <1>14 DEF PurgeUnlink, FdAfterUnlink
  <2> QED
    BY <1>14, <2>1, <2>2 DEF PurgeUnlink, ghost
<1>15. ASSUME NEW p \in Actors, PurgeDir(p) PROVE TypeOK'
  <2>1. pc' \in [Actors -> Steps] /\ mem' \in [Actors -> Meta]
    BY <1>15, <1>d DEF PurgeDir, Ended
  <2> QED
    BY <1>15, <2>1 DEF PurgeDir, ghost
<1>20. ASSUME NEW p \in Actors, NEW e \in Entries, PurgeStops(p, e) PROVE TypeOK'
  <2>1. pc' \in [Actors -> Steps] /\ mem' \in [Actors -> Meta]
    BY <1>20, <1>d DEF PurgeStops, Ended
  <2>2. todo' \in [Actors -> SUBSET Entries]
    BY <1>20 DEF PurgeStops
  <2> QED
    BY <1>20, <2>1, <2>2 DEF PurgeStops, PartOfPool, ghost
<1>16. ASSUME NEW p \in Procs, RunStep(p) PROVE TypeOK'
  <2>1. pc' \in [Actors -> Steps] /\ mem' \in [Actors -> Meta]
    <3>1. CASE RunAccept(p)
      BY <3>1, <1>b, <1>c, <1>d DEF RunAccept, Steps, Ended
    <3>2. CASE RunMaterialize(p)
      BY <3>2, <1>b, <1>c, <1>d DEF RunMaterialize, Steps, Ended
    <3>3. CASE RunStart(p)
      BY <3>3, <1>b, <1>c, <1>d DEF RunStart, Steps, Ended
    <3>4. CASE RunExtract(p)
      BY <3>4, <1>b, <1>c DEF RunExtract, Steps
    <3>5. CASE RunTeardown(p)
      BY <3>5, <1>b, <1>d DEF RunTeardown, Ended
    <3> QED
      BY <1>16, <3>1, <3>2, <3>3, <3>4, <3>5 DEF RunStep
  <2> QED
    BY <1>16, <2>1 DEF RunStep, RunAccept, RunMaterialize, RunStart, RunExtract,
                       RunTeardown, disk, ghost
<1>17. CASE UNCHANGED vars
  BY <1>17 DEF vars, disk, ghost, proc
<1>18. ASSUME NEW p \in Actors, WriteStep(p) PROVE TypeOK'
  BY <1>18, <1>5, <1>6, <1>7 DEF WriteStep
<1>19. ASSUME NEW p \in Procs, VerbStep(p) PROVE TypeOK'
  BY <1>19, <1>b, <1>8, <1>9, <1>10, <1>11, <1>12, <1>13, <1>14, <1>15, <1>16, <1>18,
     <1>20 DEF VerbStep, PurgeStep
<1> HIDE DEF TypeOK
<1> QED
  BY <1>1, <1>2, <1>3, <1>4, <1>17, <1>18, <1>19, <1>b DEF Next

THEOREM Typing == Spec => []TypeOK
BY TypeInit, TypeStep, PTL DEF Spec

-----------------------------------------------------------------------------
(* What overlapping writers cannot break: each writes back a copy that was   *)
(* sound when it was read, and adds only what it has itself made true.       *)

\* A copy of the metadata is sound: its failure message fits its state, and it
\* says "closed" only after some push_manifest returned Ok.
Sound(m, done) == /\ m.state \in States \ {"discarded"} =>
                       (m.failure <=> m.state = "failed_to_close")
                  /\ m.state = "closed" => done # {}

OutcomeInv ==
  /\ Sound(meta, settled) /\ Sound(tmp, settled)
  /\ \A p \in Actors : /\ Sound(mem[p], settled)
                       /\ pc[p] = "push" => mem[p].state = "closing"

LEMMA SoundBlank ==
  ASSUME NEW s \in (States \ {"closed", "failed_to_close"}) \cup {"absent", "empty", "torn"},
         NEW done
  PROVE  Sound(Blank(s), done)
BY DEF Sound, Blank, States

LEMMA OutcomeInit == Init => OutcomeInv
BY SoundBlank DEF Init, OutcomeInv

LEMMA OutcomeStep == TypeOK /\ OutcomeInv /\ [Next]_vars => OutcomeInv'
<1> SUFFICES ASSUME TypeOK, OutcomeInv, [Next]_vars PROVE OutcomeInv'
  OBVIOUS
<1>a. /\ \A done : Sound(Blank("absent"), done) /\ Sound(Blank("empty"), done)
      /\ \A done : Sound(Blank("torn"), done) /\ Sound(Blank("open"), done)
  BY SoundBlank DEF States
<1>b. Opener \in Actors /\ Procs \subseteq Actors
  BY DEF Actors
<1>c. \* A process that returns has no copy any more.
      ASSUME NEW p \in Actors, NEW s \in Ended, Return(p, s), settled' = settled
      PROVE  \A q \in Actors : /\ Sound(mem'[q], settled')
                               /\ pc'[q] = "push" => mem'[q].state = "closing"
  BY <1>c, <1>a DEF Return, OutcomeInv, TypeOK, Ended
<1>d. \* A process that goes on, elsewhere than to the push, with a sound copy.
      ASSUME NEW p \in Actors, NEW s \in Steps \ {"push"}, Goto(p, s),
             NEW m, Sound(m, settled'), settled \subseteq settled',
             mem' = [mem EXCEPT ![p] = m]
      PROVE  \A q \in Actors : /\ Sound(mem'[q], settled')
                               /\ pc'[q] = "push" => mem'[q].state = "closing"
  BY <1>d DEF Goto, OutcomeInv, TypeOK, Sound
<1>e. \* A process that goes on with the copy it has.
      ASSUME NEW p \in Actors, NEW s \in Steps \ {"push"}, Goto(p, s),
             mem' = mem, settled' = settled
      PROVE  \A q \in Actors : /\ Sound(mem'[q], settled')
                               /\ pc'[q] = "push" => mem'[q].state = "closing"
  BY <1>e DEF Goto, OutcomeInv, TypeOK
<1>1. CASE OpenDir
  BY <1>1, <1>b, <1>e DEF OpenDir, OutcomeInv, ghost, Steps
<1>2. CASE OpenPool
  <2>1. settled' = settled /\ meta' = meta /\ tmp' = tmp
    BY <1>2 DEF OpenPool, ghost
  <2>2. CASE mem' = [mem EXCEPT ![Opener] = Blank("open")] /\ Goto(Opener, "truncate")
    BY <2>1, <2>2, <1>a, <1>b, <1>d DEF OutcomeInv, Steps
  <2>3. CASE Return(Opener, "err")
    BY <2>1, <2>3, <1>b, <1>c DEF OutcomeInv, Ended
  <2> QED
    BY <1>2, <2>2, <2>3 DEF OpenPool
<1>3. ASSUME NEW p \in Procs, NEW v \in Verbs, Attach(p, v) PROVE OutcomeInv'
  <2>1. settled' = settled /\ meta' = meta /\ tmp' = tmp
    BY <1>3 DEF Attach, disk, ghost
  <2>2. CASE Goto(p, "attached") /\ mem' = [mem EXCEPT ![p] = meta]
    BY <2>1, <2>2, <1>b, <1>d DEF OutcomeInv, Steps
  <2>3. CASE Return(p, "err")
    BY <2>1, <2>3, <1>b, <1>c DEF OutcomeInv, Ended
  <2> QED
    BY <1>3, <2>2, <2>3 DEF Attach
<1>4. ASSUME NEW p \in Actors, Crash(p) PROVE OutcomeInv'
  BY <1>4, <1>c DEF Crash, OutcomeInv, disk, ghost, Ended
<1>5. ASSUME NEW p \in Actors, TruncateTmp(p) PROVE OutcomeInv'
  BY <1>5, <1>a, <1>c, <1>e DEF TruncateTmp, OutcomeInv, ghost, Ended, Steps
<1>6. ASSUME NEW p \in Actors, FillTmp(p) PROVE OutcomeInv'
  <2>1. settled' = settled /\ mem' = mem /\ Goto(p, "rename")
    BY <1>6 DEF FillTmp, ghost
  <2>2. Sound(tmp', settled') /\ Sound(meta', settled')
    BY <1>6, <2>1, <1>a DEF FillTmp, Filled, OutcomeInv
  <2> QED
    BY <2>1, <2>2, <1>e DEF OutcomeInv, Steps
<1>7. ASSUME NEW p \in Actors, RenameTmp(p) PROVE OutcomeInv'
  <2>1. settled' = settled
    BY <1>7 DEF RenameTmp, ghost
  <2>2. Sound(tmp', settled') /\ Sound(meta', settled')
    BY <1>7, <2>1, <1>a DEF RenameTmp, OutcomeInv
  <2>3. CASE Goto(p, "push") /\ mem[p].state = "closing" /\ mem' = mem
    BY <2>1, <2>2, <2>3 DEF Goto, OutcomeInv, TypeOK
  <2>4. CASE Return(p, "ok") \/ Return(p, "err")
    BY <2>1, <2>2, <2>4, <1>c DEF OutcomeInv, Ended
  <2> QED
    BY <1>7, <2>3, <2>4 DEF RenameTmp, AfterWrite
<1>8. ASSUME NEW p \in Procs, LabelAdd(p) PROVE OutcomeInv'
  <2> DEFINE m == [mem[p] EXCEPT !.labels = @ \cup {p}]
  <2>1. m.state = mem[p].state /\ m.failure = mem[p].failure
    BY <1>b DEF TypeOK, Meta
  <2>2. Sound(m, settled)
    BY <2>1, <1>b DEF OutcomeInv, Sound
  <2>3. mem' = [mem EXCEPT ![p] = m] /\ Goto(p, "truncate")
    BY <1>8 DEF LabelAdd
  <2>4. settled' = settled /\ meta' = meta /\ tmp' = tmp
    BY <1>8 DEF LabelAdd, disk, ghost
  <2> QED
    BY <2>2, <2>3, <2>4, <1>b, <1>d DEF OutcomeInv, Steps
<1>9. ASSUME NEW p \in Procs, CloseStart(p) PROVE OutcomeInv'
  <2>1. settled' = settled /\ meta' = meta /\ tmp' = tmp
    BY <1>9 DEF CloseStart, disk, ghost
  <2> DEFINE m == [mem[p] EXCEPT !.state = "closing", !.failure = FALSE]
  <2>2. m.state = "closing" /\ m.failure = FALSE
    BY <1>b DEF TypeOK, Meta
  <2>3. Sound(m, settled)
    BY <2>2 DEF Sound
  <2>4. CASE mem' = [mem EXCEPT ![p] = m] /\ Goto(p, "truncate")
    BY <2>1, <2>3, <2>4, <1>b, <1>d DEF OutcomeInv, Steps
  <2>5. CASE Return(p, "err")
    BY <2>1, <2>5, <1>b, <1>c DEF OutcomeInv, Ended
  <2> QED
    BY <1>9, <2>4, <2>5 DEF CloseStart
<1>10. ASSUME NEW p \in Procs, Push(p) PROVE OutcomeInv'
  <2>1. meta' = meta /\ tmp' = tmp /\ Goto(p, "truncate") /\ settled \subseteq settled'
    BY <1>10 DEF Push, disk, ghost
  <2>2. Sound(meta', settled') /\ Sound(tmp', settled')
    BY <2>1 DEF OutcomeInv, Sound
  <2>3. mem[p].state = "closing" /\ mem[p].failure = FALSE
    BY <1>10, <1>b DEF Push, OutcomeInv, Sound, States, TypeOK, Meta
  <2> DEFINE c == [mem[p] EXCEPT !.state = "closed"]
             f == [mem[p] EXCEPT !.state = "failed_to_close", !.failure = TRUE]
  <2>4. c.state = "closed" /\ c.failure = FALSE /\ f.state = "failed_to_close" /\ f.failure = TRUE
    BY <2>3, <1>b DEF TypeOK, Meta
  <2>5. CASE settled' = settled \cup {p} /\ mem' = [mem EXCEPT ![p] = c]
    <3>1. Sound(c, settled')
      BY <2>4, <2>5 DEF Sound
    <3> QED
      BY <2>1, <2>2, <2>5, <3>1, <1>b, <1>d DEF OutcomeInv, Steps
  <2>6. CASE mem' = [mem EXCEPT ![p] = f]
    <3>1. Sound(f, settled')
      BY <2>4 DEF Sound
    <3> QED
      BY <2>1, <2>2, <2>6, <3>1, <1>b, <1>d DEF OutcomeInv, Steps
  <2> QED
    BY <1>10, <2>5, <2>6, <1>b DEF Push, TypeOK
<1>11. ASSUME NEW p \in Procs, DiscardPool(p) PROVE OutcomeInv'
  BY <1>11, <1>b, <1>c, <1>e DEF DiscardPool, OutcomeInv, ghost, Ended, Steps
<1>12. ASSUME NEW p \in Procs, DiscardRuns(p) PROVE OutcomeInv'
  <2> DEFINE m == [mem[p] EXCEPT !.state = "discarded"]
  <2>1. m.state = "discarded"
    BY <1>b DEF TypeOK, Meta
  <2>2. Sound(m, settled)
    BY <2>1 DEF Sound
  <2>3. CASE Return(p, "half")
    BY <1>12, <2>3, <1>b, <1>c DEF DiscardRuns, OutcomeInv, ghost, Ended
  <2>4. CASE mem' = [mem EXCEPT ![p].state = "discarded"] /\ Goto(p, "truncate")
    BY <1>12, <2>2, <2>4, <1>b, <1>d DEF DiscardRuns, OutcomeInv, ghost, Steps
  <2> QED
    BY <1>12, <2>3, <2>4 DEF DiscardRuns
<1>13. ASSUME NEW p \in Procs, PurgeStep(p) PROVE OutcomeInv'
  <2>1. CASE PurgeStart(p)
    BY <2>1, <1>b, <1>c, <1>e DEF PurgeStart, OutcomeInv, disk, ghost, Ended, Steps
  <2>2. ASSUME NEW e \in Entries, PurgeUnlink(p, e) PROVE OutcomeInv'
    BY <2>2, <1>a DEF PurgeUnlink, OutcomeInv, ghost
  <2>3. CASE PurgeDir(p)
    BY <2>3, <1>b, <1>c DEF PurgeDir, OutcomeInv, ghost, Ended
  <2>4. ASSUME NEW e \in Entries, PurgeStops(p, e) PROVE OutcomeInv'
    BY <2>4, <1>b, <1>c DEF PurgeStops, OutcomeInv, ghost, Ended
  <2> QED
    BY <1>13, <2>1, <2>2, <2>3, <2>4 DEF PurgeStep
<1>14. ASSUME NEW p \in Procs, RunStep(p) PROVE OutcomeInv'
  <2>1. settled' = settled /\ meta' = meta /\ tmp' = tmp
    BY <1>14 DEF RunStep, RunAccept, RunMaterialize, RunStart, RunExtract,
                 RunTeardown, disk, ghost
  <2>2. \/ \E s \in Steps \ {"push"} : Goto(p, s) /\ mem' = mem
        \/ \E s \in Ended : Return(p, s)
    BY <1>14 DEF RunStep, RunAccept, RunMaterialize, RunStart, RunExtract,
                 RunTeardown, Steps, Ended
  <2> QED
    BY <2>1, <2>2, <1>b, <1>c, <1>e DEF OutcomeInv
<1>15. CASE UNCHANGED vars
  BY <1>15 DEF vars, disk, ghost, proc, OutcomeInv
<1>16. ASSUME NEW p \in Procs, VerbStep(p) PROVE OutcomeInv'
  BY <1>16, <1>b, <1>5, <1>6, <1>7, <1>8, <1>9, <1>10, <1>11, <1>12, <1>13, <1>14
     DEF VerbStep, WriteStep
<1> QED
  BY <1>1, <1>2, <1>3, <1>4, <1>5, <1>6, <1>7, <1>15, <1>16, <1>b DEF Next, WriteStep

\* No order of verbs, stale copies and kills leaves a failure message that does
\* not fit the state, or a "closed" that no successful push stands behind.
THEOREM OutcomesAreTrue == Spec => [](ClosedWasPushed /\ FailureRecorded)
<1>1. OutcomeInv => ClosedWasPushed /\ FailureRecorded
  BY DEF OutcomeInv, Sound, ClosedWasPushed, FailureRecorded
<1> QED
  BY <1>1, Typing, OutcomeInit, OutcomeStep, PTL DEF Spec

-----------------------------------------------------------------------------
\* A Workspace exists from materialisation to teardown, or is what a Run left
\* behind that did not succeed, or whose agent left a process behind.
WorkInv ==
  \A p \in work : \/ pc[p] \in {"start", "agent", "teardown_ok", "teardown_err",
                                "err", "crashed"}
                  \/ Stragglers /\ pc[p] = "ok"

LEMMA WorkStep == TypeOK /\ WorkInv /\ [Next]_vars => WorkInv'
<1> SUFFICES ASSUME TypeOK, WorkInv, [Next]_vars PROVE WorkInv'
  OBVIOUS
<1>a. Opener \in Actors /\ Procs \subseteq Actors /\ work \subseteq Actors
  BY DEF Actors, TypeOK
<1>b. \* A process without a Workspace moves.
      ASSUME NEW p \in Actors, p \notin work, work' = work,
             \E s \in Steps : pc' = [pc EXCEPT ![p] = s]
      PROVE  WorkInv'
  BY <1>a, <1>b DEF WorkInv, TypeOK
<1>c. \* A process moves to a step in which it may have a Workspace.
      ASSUME NEW p \in Actors, work' \subseteq work \cup {p},
             \E s \in {"start", "agent", "teardown_ok", "teardown_err", "err", "crashed"} :
               pc' = [pc EXCEPT ![p] = s]
      PROVE  WorkInv'
  BY <1>a, <1>c DEF WorkInv, TypeOK
<1>1. CASE OpenDir
  BY <1>1, <1>a, <1>b DEF OpenDir, Goto, WorkInv, Steps
<1>2. CASE OpenPool
  BY <1>2, <1>a, <1>b DEF OpenPool, Goto, Return, WorkInv, Steps, Ended
<1>3. ASSUME NEW p \in Procs, NEW v \in Verbs, Attach(p, v) PROVE WorkInv'
  BY <1>3, <1>a, <1>b DEF Attach, Goto, Return, WorkInv, Steps, Ended
<1>4. ASSUME NEW p \in Actors, Crash(p) PROVE WorkInv'
  BY <1>4, <1>c DEF Crash, Return
<1>5. ASSUME NEW p \in Actors, WriteStep(p) PROVE WorkInv'
  <2>1. p \notin work /\ work' = work
    BY <1>5 DEF WriteStep, TruncateTmp, FillTmp, RenameTmp, WorkInv
  <2>2. \E s \in Steps : pc' = [pc EXCEPT ![p] = s]
    BY <1>5 DEF WriteStep, TruncateTmp, FillTmp, RenameTmp, AfterWrite, Goto, Return, Steps, Ended
  <2> QED
    BY <2>1, <2>2, <1>b
<1>6. ASSUME NEW p \in Procs, LabelAdd(p) \/ CloseStart(p) \/ Push(p) \/ DiscardPool(p)
                              \/ DiscardRuns(p) \/ PurgeStart(p) \/ PurgeDir(p) \/ RunAccept(p)
      PROVE  WorkInv'
  <2>1. p \notin work /\ work' = work
    BY <1>6 DEF LabelAdd, CloseStart, Push, DiscardPool, DiscardRuns, PurgeStart, PurgeDir,
                RunAccept, WorkInv
  <2>2. \E s \in Steps : pc' = [pc EXCEPT ![p] = s]
    BY <1>6 DEF LabelAdd, CloseStart, Push, DiscardPool, DiscardRuns, PurgeStart, PurgeDir,
                RunAccept, Goto, Return, Steps, Ended
  <2> QED
    BY <2>1, <2>2, <1>a, <1>b
<1>7. ASSUME NEW p \in Procs, NEW e \in Entries, PurgeUnlink(p, e) \/ PurgeStops(p, e) PROVE WorkInv'
  <2>1. CASE PurgeUnlink(p, e)
    BY <2>1 DEF PurgeUnlink, WorkInv
  <2>2. CASE PurgeStops(p, e)
    <3>1. p \notin work /\ work' = work /\ pc' = [pc EXCEPT ![p] = "half"]
      BY <2>2 DEF PurgeStops, WorkInv, Return
    <3> QED BY <3>1, <1>a, <1>b DEF Steps, Ended
  <2> QED BY <1>7, <2>1, <2>2
<1>8. ASSUME NEW p \in Procs, RunMaterialize(p) \/ RunStart(p) \/ RunExtract(p) PROVE WorkInv'
  BY <1>8, <1>a, <1>c DEF RunMaterialize, RunStart, RunExtract, Goto, Return
<1>9. ASSUME NEW p \in Procs, RunTeardown(p) PROVE WorkInv'
  BY <1>9, <1>a DEF RunTeardown, Return, WorkInv, TypeOK
<1>10. CASE UNCHANGED vars
  BY <1>10 DEF vars, proc, WorkInv
<1>11. ASSUME NEW p \in Procs, VerbStep(p) PROVE WorkInv'
  BY <1>11, <1>a, <1>5, <1>6, <1>7, <1>8, <1>9 DEF VerbStep, PurgeStep, RunStep
<1> QED
  BY <1>1, <1>2, <1>3, <1>4, <1>5, <1>10, <1>11, <1>a DEF Next

\* No Run that reports success has left its transient Workspace behind.
THEOREM SuccessfulRunsCleanUp == Spec => []SuccessLeavesNoWorkspace
<1>1. Init => WorkInv
  BY DEF Init, WorkInv
<1>2. WorkInv => SuccessLeavesNoWorkspace
  BY DEF WorkInv, SuccessLeavesNoWorkspace
<1> QED
  BY <1>1, <1>2, Typing, WorkStep, PTL DEF Spec

\* What commands say, and what they write of their outcome, is so.
THEOREM CommandsTellTheTruth == Spec => []OutcomesTrue
  BY OutcomesAreTrue, SuccessfulRunsCleanUp, PTL DEF OutcomesTrue

-----------------------------------------------------------------------------
(* What a caller gets that never lets two writers of one Session overlap,  *)
(* while Runs overlap everything and any process may be killed: the files  *)
(* and processes of Session.tla implement SessionLifecycle.tla.            *)

Usable     == {"open", "failed_to_close"}
Working(p) == Writer(p) /\ Live(p)
Writing(p) == pc[p] \in {"truncate", "fill", "rename"}

-----------------------------------------------------------------------------
(* The inductive invariant *)

\* The caller's part: at most one writer is at work.
OneWriter == \A p, q \in Actors : Working(p) /\ Working(q) => p = q

\* Nothing else happens before open has returned.
OpenFirst ==
  /\ verb[Opener] = "open"
  /\ pc[Opener] \in {"idle", "init_pool", "truncate", "fill", "rename"} \cup Ended
  /\ Writing(Opener) => mem[Opener].state = "open"
  /\ pc[Opener] # "ok" => /\ meta.state = "absent" /\ touched = {}
                          /\ \A p \in Procs : pc[p] = "idle"

\* A process is only where its verb takes it.
VerbOfStep ==
  \A p \in Procs :
    /\ pc[p] # "init_pool"
    /\ pc[p] = "idle"      => verb[p] = "none"
    /\ pc[p] = "attached"  => verb[p] \in Verbs
    /\ pc[p] = "push"      => verb[p] = "close"
    /\ pc[p] = "wipe_runs" => verb[p] = "discard"
    /\ pc[p] = "unlink"    => verb[p] = "purge"
    /\ Writing(p) => verb[p] \in {"label", "close", "discard"}
    /\ pc[p] \in {"materialize", "start", "agent", "teardown_ok", "teardown_err"}
         => verb[p] = "run"

\* The temporary file belongs to the writer that is writing it.
TmpOwned ==
  \A p \in Actors : /\ fd[p] = IF pc[p] = "fill" THEN "tmp" ELSE "none"
                    /\ pc[p] = "fill"   => tmp.state = "empty"
                    /\ pc[p] = "rename" => tmp = mem[p]

\* A writer's copy is as fresh as its last read or write of meta.json, so the
\* state it is about to write is one step of SessionState away from the file's.
CopyFresh ==
  \A p \in Procs :
    /\ pc[p] = "attached" /\ verb[p] # "run" => mem[p].state = meta.state
    /\ pc[p] = "attached" => mem[p].state \in States \ {"discarded"}
    /\ pc[p] = "push" => meta.state = "closing" /\ touched = {}
    /\ pc[p] = "wipe_runs" => meta.state \in Usable
    /\ pc[p] = "unlink" => meta.state \in {"closed", "absent"}
    /\ Writing(p) /\ verb[p] = "label" =>
         mem[p].state = meta.state /\ meta.state \in States
    /\ Writing(p) /\ verb[p] = "discard" =>
         mem[p].state = "discarded" /\ meta.state \in Usable
    /\ Writing(p) /\ verb[p] = "close" =>
         \/ mem[p].state = "closing" /\ meta.state \in Usable
         \/ mem[p].state = "closed" /\ meta.state = "closing"
         \/ mem[p].state = "failed_to_close" /\ meta.state = "closing" /\ touched = {}

\* The host repo is written in closing alone.
Published == touched # {} => meta.state \in {"closing", "closed", "absent"}

MetaWhole == meta.state \in States \cup {"absent"}

ExclusiveInv == /\ OneWriter /\ OpenFirst /\ VerbOfStep /\ TmpOwned
                /\ CopyFresh /\ Published /\ MetaWhole

LEMMA ExclusiveInit == Init => ExclusiveInv
BY SessionAssumption DEF Init, ExclusiveInv, OneWriter, OpenFirst, VerbOfStep,
   TmpOwned, CopyFresh, Published, MetaWhole, Working, Writing, Live, Blank, Actors

LEMMA ExclusiveStep ==
  ExclusiveWriters /\ TypeOK /\ ExclusiveInv /\ [Next]_vars => ExclusiveInv'
<1> SUFFICES ASSUME ExclusiveWriters, TypeOK, ExclusiveInv, [Next]_vars PROVE ExclusiveInv'
  OBVIOUS
<1>a. Opener \in Actors /\ Opener \notin Procs /\ Procs = Actors \ {Opener}
  BY SessionAssumption DEF Actors
<1> USE DEF ExclusiveInv, OneWriter, OpenFirst, VerbOfStep, TmpOwned, CopyFresh,
            Published, MetaWhole, Working, Writing, Writer, Live, Usable, States, Verbs,
            Ended, Steps, Goto, Return, disk, ghost, TypeOK
<1>1. CASE OpenDir
  BY <1>1, <1>a, SMTT(30) DEF OpenDir, MayStart
<1>2. CASE OpenPool
  BY <1>2, <1>a, SMTT(30) DEF OpenPool, Blank
<1>3. ASSUME NEW p \in Actors, TruncateTmp(p) PROVE ExclusiveInv'
  BY <1>3, <1>a, SMTT(30) DEF TruncateTmp, Blank
<1>4. ASSUME NEW p \in Actors, FillTmp(p) PROVE ExclusiveInv'
  BY <1>4, <1>a, SMTT(30) DEF FillTmp, Filled
<1>5. ASSUME NEW p \in Actors, RenameTmp(p) PROVE ExclusiveInv'
  BY <1>5, <1>a, SMTT(30) DEF RenameTmp, AfterWrite, FdAfterRename, Blank
<1>6. ASSUME NEW p \in Procs, LabelAdd(p) PROVE ExclusiveInv'
  BY <1>6, <1>a, SMTT(30) DEF LabelAdd, Meta
<1>7. ASSUME NEW p \in Procs, CloseStart(p) PROVE ExclusiveInv'
  <2>1. CASE mem[p].state \in Usable
    <3>1. /\ pc' = [pc EXCEPT ![p] = "truncate"]
          /\ mem' = [mem EXCEPT ![p].state = "closing", ![p].failure = FALSE]
      BY <1>7, <2>1 DEF CloseStart
    <3>2. mem'[p].state = "closing" /\ \A q \in Actors \ {p} : mem'[q] = mem[q]
      BY <3>1, <1>a DEF Meta
    <3>3. meta.state \in Usable
      BY <1>7, <2>1 DEF CloseStart
    <3> QED
      BY <1>7, <1>a, <3>1, <3>2, <3>3 DEF CloseStart
  <2>2. CASE mem[p].state \notin Usable
    BY <1>7, <1>a, <2>2 DEF CloseStart
  <2> QED
    BY <2>1, <2>2
<1>8. ASSUME NEW p \in Procs, Push(p) PROVE ExclusiveInv'
  <2>1. /\ pc[p] = "push" /\ pc' = [pc EXCEPT ![p] = "truncate"]
        /\ UNCHANGED <<disk, work, audit, verb, fd, todo, crashes>>
        /\ \A q \in Actors \ {p} : mem'[q] = mem[q]
    BY <1>8, <1>a DEF Push
  <2>2. CASE mem' = [mem EXCEPT ![p].state = "closed"]
    <3>1. mem'[p].state = "closed"
      BY <2>2, <1>a DEF Meta
    <3> QED BY <1>8, <1>a, <2>1, <3>1, SMTT(30) DEF Push
  <2>3. CASE mem' = [mem EXCEPT ![p].state = "failed_to_close", ![p].failure = TRUE] /\ UNCHANGED ghost
    <3>1. mem'[p].state = "failed_to_close"
      BY <2>3, <1>a DEF Meta
    <3> QED BY <1>a, <2>1, <2>3, <3>1, SMTT(30)
  <2> QED BY <1>8, <2>2, <2>3 DEF Push
<1>9. ASSUME NEW p \in Procs, DiscardPool(p) PROVE ExclusiveInv'
  <2>1. CASE Return(p, "half") /\ PartOfPool
    BY <1>9, <2>1, <1>a, SMTT(30) DEF DiscardPool
  <2>2. CASE ~(Return(p, "half") /\ PartOfPool)
    BY <1>9, <2>2, <1>a, SMTT(30) DEF DiscardPool
  <2> QED BY <2>1, <2>2
<1>10. ASSUME NEW p \in Procs, DiscardRuns(p) PROVE ExclusiveInv'
  BY <1>10, <1>a, SMTT(30) DEF DiscardRuns, Meta
<1>19. ASSUME NEW p \in Procs, NEW e \in Entries, PurgeStops(p, e) PROVE ExclusiveInv'
  BY <1>19, <1>a, SMTT(30) DEF PurgeStops, PartOfPool
<1>11. ASSUME NEW p \in Procs, PurgeStart(p) PROVE ExclusiveInv'
  BY <1>11, <1>a, SMTT(30) DEF PurgeStart
<1>12. ASSUME NEW p \in Procs, NEW e \in Entries, PurgeUnlink(p, e) PROVE ExclusiveInv'
  BY <1>12, <1>a, SMTT(30) DEF PurgeUnlink, FdAfterUnlink, Blank
<1>13. ASSUME NEW p \in Procs, PurgeDir(p) PROVE ExclusiveInv'
  BY <1>13, <1>a, SMTT(30) DEF PurgeDir
<1>14. ASSUME NEW p \in Procs, RunStep(p) PROVE ExclusiveInv'
  BY <1>14, <1>a, SMTT(30) DEF RunStep, RunAccept, RunMaterialize, RunStart, RunExtract, RunTeardown
<1>15. ASSUME NEW p \in Actors, Crash(p) PROVE ExclusiveInv'
  BY <1>15, <1>a, SMTT(30) DEF Crash, Blank
<1>16. ASSUME NEW p \in Procs, NEW v \in Verbs, Attach(p, v) PROVE ExclusiveInv'
  BY <1>16, <1>a, SMTT(30) DEF Attach, MayStart, Attachable
<1>17. CASE UNCHANGED vars
  BY <1>17 DEF vars, proc
<1> HIDE DEF ExclusiveInv, TypeOK
<1>18. ASSUME NEW p \in Procs, VerbStep(p) PROVE ExclusiveInv'
  BY <1>18, <1>a, <1>3, <1>4, <1>5, <1>6, <1>7, <1>8, <1>9, <1>10, <1>11, <1>12, <1>13, <1>14, <1>19
     DEF VerbStep, WriteStep, PurgeStep
<1> QED
  BY <1>1, <1>2, <1>3, <1>4, <1>5, <1>15, <1>16, <1>17, <1>18, <1>a DEF Next, WriteStep

-----------------------------------------------------------------------------
(* Its consequences *)

\* No kill leaves a half-written meta.json behind.
THEOREM MetaStaysIntact == ExclusiveWriters => (Spec => []MetaIntact)
<1> SUFFICES ASSUME ExclusiveWriters PROVE Spec => []MetaIntact
  OBVIOUS
<1>1. ExclusiveInv => MetaIntact
  BY DEF ExclusiveInv, MetaWhole, MetaIntact, States
<1> QED
  BY <1>1, Typing, ExclusiveInit, ExclusiveStep, PTL DEF Spec

\* The host repo is as the Session found it in every phase but closing, closed
\* and gone (ADR-0010: not touched between open and close).
THEOREM HostUntouchedBeforeClose == ExclusiveWriters => (Spec => []Lifecycle!HostUntouched)
<1> SUFFICES ASSUME ExclusiveWriters PROVE Spec => []Lifecycle!HostUntouched
  OBVIOUS
<1>1. ExclusiveInv => Lifecycle!HostUntouched
  BY DEF ExclusiveInv, Published, OpenFirst, Phase, Lifecycle!HostUntouched
<1> QED
  BY <1>1, Typing, ExclusiveInit, ExclusiveStep, PTL DEF Spec

LEMMA InitMaps == Init => Lifecycle!LInit
<1> SUFFICES ASSUME Init PROVE Lifecycle!LInit
  OBVIOUS
<1>1. pc[Opener] = "idle" /\ meta.state = "absent" /\ touched = {}
  BY DEF Init, Blank, Actors
<1>2. Phase = "unborn" /\ (touched # {}) = FALSE
  BY <1>1 DEF Phase
<1> QED
  BY <1>2 DEF Lifecycle!LInit

LEMMA StepMaps ==
  ASSUME TypeOK, ExclusiveInv, [Next]_vars
  PROVE  [Lifecycle!LNext]_(Lifecycle!lvars)
<1> DEFINE Maps == Lifecycle!LNext \/ UNCHANGED Lifecycle!lvars
<1>a. Opener \in Actors /\ Opener \notin Procs /\ Procs = Actors \ {Opener}
  BY SessionAssumption DEF Actors
<1>b. \* Steps that a user of the Session does not see.
      ASSUME meta'.state = meta.state, touched' = touched,
             (pc'[Opener] = "ok") <=> (pc[Opener] = "ok")
      PROVE  Maps
  BY <1>b DEF Lifecycle!lvars, Phase
<1>c. \* After open has returned, a state in the file is the phase.
      ASSUME pc[Opener] = "ok", pc'[Opener] = "ok",
             meta.state \in States, meta'.state \in States
      PROVE  Phase = meta.state /\ Phase' = meta'.state
  BY <1>c DEF Phase, States
<1>d. ASSUME NEW p \in Procs, pc[p] # "idle" PROVE pc[Opener] = "ok"
  BY <1>d DEF ExclusiveInv, OpenFirst
<1>1. CASE OpenDir
  BY <1>1, <1>a, <1>b DEF OpenDir, Goto, TypeOK, ghost
<1>2. CASE OpenPool
  BY <1>2, <1>a, <1>b DEF OpenPool, Goto, Return, TypeOK, ghost
<1>3. ASSUME NEW p \in Procs, NEW v \in Verbs, Attach(p, v) PROVE Maps
  BY <1>3, <1>a, <1>b DEF Attach, Goto, Return, TypeOK, disk, ghost
<1>4. ASSUME NEW p \in Actors, Crash(p) PROVE Maps
  BY <1>4, <1>a, <1>b DEF Crash, Live, Ended, Return, TypeOK, disk, ghost
<1>5. ASSUME NEW p \in Actors, TruncateTmp(p) \/ FillTmp(p) PROVE Maps
  <2>1. meta' = meta /\ touched' = touched
    BY <1>5 DEF TruncateTmp, FillTmp, ghost, ExclusiveInv, TmpOwned
  <2>2. (pc'[Opener] = "ok") <=> (pc[Opener] = "ok")
    BY <1>5, <1>a DEF TruncateTmp, FillTmp, Goto, Return, TypeOK
  <2> QED
    BY <2>1, <2>2, <1>b
<1>6. CASE RenameTmp(Opener)
  <2>1. tmp = mem[Opener] /\ mem[Opener].state = "open" /\ pc[Opener] = "rename"
        /\ verb[Opener] = "open" /\ touched = {} /\ meta.state = "absent"
    BY <1>6, <1>a DEF RenameTmp, ExclusiveInv, TmpOwned, OpenFirst, Writing
  <2>2. meta' = tmp /\ touched' = touched /\ pc'[Opener] = "ok"
    BY <1>6, <1>a, <2>1 DEF RenameTmp, AfterWrite, Return, TypeOK, ghost
  <2>3. Phase = "unborn" /\ Phase' = "open"
    BY <2>1, <2>2 DEF Phase
  <2>4. Lifecycle!Open
    BY <2>2, <2>3 DEF Lifecycle!Open, Lifecycle!Move
  <2> QED
    BY <2>4 DEF Lifecycle!LNext
<1>7. ASSUME NEW p \in Procs, RenameTmp(p) PROVE Maps
  <2>1. pc[p] = "rename" /\ tmp = mem[p] /\ pc[Opener] = "ok" /\ Writing(p)
    BY <1>7, <1>a, <1>d DEF RenameTmp, ExclusiveInv, TmpOwned, Writing
  <2>2. CASE verb[p] = "label"
    <3>1. mem[p].state = meta.state /\ meta.state \in States
      BY <2>1, <2>2 DEF ExclusiveInv, CopyFresh
    <3>2. meta' = tmp /\ touched' = touched /\ pc'[Opener] = pc[Opener]
      BY <1>7, <1>a, <2>1, <2>2, <3>1 DEF RenameTmp, AfterWrite, Return, TypeOK, ghost, States
    <3> QED
      BY <2>1, <3>1, <3>2, <1>b
  <2>3. CASE verb[p] = "discard"
    <3>1. mem[p].state = "discarded" /\ meta.state \in Usable
      BY <2>1, <2>3 DEF ExclusiveInv, CopyFresh
    <3>2. meta' = tmp /\ touched' = touched /\ pc'[Opener] = "ok"
      BY <1>7, <1>a, <2>1, <2>3, <3>1 DEF RenameTmp, AfterWrite, Return, TypeOK, ghost
    <3>3. Lifecycle!Discard
      BY <2>1, <3>1, <3>2, <1>c
         DEF Lifecycle!Discard, Lifecycle!Move, Lifecycle!Live, Usable, States
    <3> QED
      BY <3>3 DEF Lifecycle!LNext
  <2>4. CASE verb[p] = "close"
    <3>1. \/ mem[p].state = "closing" /\ meta.state \in Usable
          \/ mem[p].state = "closed" /\ meta.state = "closing"
          \/ mem[p].state = "failed_to_close" /\ meta.state = "closing" /\ touched = {}
      BY <2>1, <2>4 DEF ExclusiveInv, CopyFresh
    <3>2. meta' = tmp /\ touched' = touched /\ pc'[Opener] = "ok"
      BY <1>7, <1>a, <2>1, <2>4, <3>1 DEF RenameTmp, AfterWrite, Return, Goto, TypeOK, ghost
    <3>3. CASE mem[p].state = "closing" /\ meta.state \in Usable
      <4>1. Lifecycle!CloseStart
        BY <2>1, <3>2, <3>3, <1>c
           DEF Lifecycle!CloseStart, Lifecycle!Move, Lifecycle!Live, Usable, States
      <4> QED
        BY <4>1 DEF Lifecycle!LNext
    <3>4. CASE mem[p].state = "closed" /\ meta.state = "closing"
      <4>1. Lifecycle!CloseComplete
        BY <2>1, <3>2, <3>4, <1>c DEF Lifecycle!CloseComplete, Lifecycle!Move, States
      <4> QED
        BY <4>1 DEF Lifecycle!LNext
    <3>5. CASE mem[p].state = "failed_to_close" /\ meta.state = "closing" /\ touched = {}
      <4>1. Lifecycle!CloseFailed
        BY <2>1, <3>2, <3>5, <1>c DEF Lifecycle!CloseFailed, Lifecycle!Move, States
      <4> QED
        BY <4>1 DEF Lifecycle!LNext
    <3> QED
      BY <3>1, <3>3, <3>4, <3>5
  <2> QED
    BY <2>1, <2>2, <2>3, <2>4 DEF ExclusiveInv, VerbOfStep
<1>8. ASSUME NEW p \in Procs,
             LabelAdd(p) \/ CloseStart(p) \/ DiscardPool(p) \/ DiscardRuns(p)
             \/ PurgeStart(p) \/ PurgeDir(p) \/ RunStep(p) \/ \E e \in Entries : PurgeStops(p, e)
      PROVE  Maps
  <2>1. meta' = meta /\ touched' = touched
    BY <1>8 DEF LabelAdd, CloseStart, DiscardPool, DiscardRuns, PurgeStart, PurgeDir, PurgeStops, RunStep,
                RunAccept, RunMaterialize, RunStart, RunExtract, RunTeardown, disk, ghost
  <2>2. pc'[Opener] = pc[Opener]
    BY <1>8, <1>a DEF LabelAdd, CloseStart, DiscardPool, DiscardRuns, PurgeStart, PurgeDir,
                PurgeStops, RunStep, RunAccept, RunMaterialize, RunStart, RunExtract, RunTeardown,
                Goto, Return, TypeOK
  <2> QED
    BY <2>1, <2>2, <1>b
<1>9. ASSUME NEW p \in Procs, Push(p) PROVE Maps
  <2>1. pc[p] = "push" /\ meta.state = "closing" /\ touched = {} /\ pc[Opener] = "ok"
    BY <1>9, <1>d DEF Push, ExclusiveInv, CopyFresh
  <2>2. meta' = meta /\ pc'[Opener] = "ok"
    BY <1>9, <1>a, <2>1 DEF Push, Goto, TypeOK, disk
  <2>3. CASE touched' = touched
    BY <2>1, <2>2, <2>3, <1>b
  <2>4. CASE touched' = touched \cup {p}
    <3>1. Phase = "closing" /\ Phase' = "closing"
      BY <2>1, <2>2, <1>c DEF States
    <3>2. (touched # {}) = FALSE /\ (touched' # {}) = TRUE
      BY <2>1, <2>4
    <3>3. Lifecycle!Publish
      BY <3>1, <3>2 DEF Lifecycle!Publish
    <3> QED
      BY <3>3 DEF Lifecycle!LNext
  <2> QED
    BY <1>9, <2>3, <2>4 DEF Push, ghost
<1>10. ASSUME NEW p \in Procs, NEW e \in Entries, PurgeUnlink(p, e) PROVE Maps
  <2>1. pc[p] = "unlink" /\ meta.state \in {"closed", "absent"} /\ pc[Opener] = "ok"
    BY <1>10, <1>d DEF PurgeUnlink, ExclusiveInv, CopyFresh
  <2>2. touched' = touched /\ pc' = pc
    BY <1>10 DEF PurgeUnlink, ghost
  <2>3. CASE meta'.state = meta.state
    BY <2>2, <2>3, <1>b
  <2>4. CASE meta'.state # meta.state
    <3>1. meta.state = "closed" /\ meta'.state = "absent"
      BY <1>10, <2>1, <2>4 DEF PurgeUnlink, Blank
    <3>2. Phase = "closed" /\ Phase' = "gone"
      BY <2>1, <2>2, <3>1 DEF Phase
    <3>3. Lifecycle!Purge
      BY <2>2, <3>2 DEF Lifecycle!Purge, Lifecycle!Move
    <3> QED
      BY <3>3 DEF Lifecycle!LNext
  <2> QED
    BY <2>3, <2>4
<1>11. CASE UNCHANGED vars
  BY <1>11, <1>b DEF vars, disk, ghost, proc
<1>12. Maps
  BY <1>1, <1>2, <1>3, <1>4, <1>5, <1>6, <1>7, <1>8, <1>9, <1>10, <1>11, <1>a
     DEF Next, VerbStep, WriteStep, PurgeStep
<1> QED
  BY <1>12

\* The Session's processes and files implement the state machine a user sees:
\* Runs and kills add no transition to it, and the host repo is written in
\* "closing" alone.
THEOREM LifecycleImplemented == ExclusiveWriters => (Spec => ImplementsLifecycle)
<1> SUFFICES ASSUME ExclusiveWriters PROVE Spec => ImplementsLifecycle
  OBVIOUS
<1>1. TypeOK /\ ExclusiveInv /\ [Next]_vars => [Lifecycle!LNext]_(Lifecycle!lvars)
  BY StepMaps
<1> QED
  BY <1>1, Typing, InitMaps, ExclusiveInit, ExclusiveStep, PTL
     DEF Spec, ImplementsLifecycle, Lifecycle!LSpec

-----------------------------------------------------------------------------
(* A tombstone has no Pool *)

Discarding(p) == pc[p] = "wipe_runs" \/ (Writing(p) /\ verb[p] = "discard")

\* From the moment discard has wiped the Pool it is gone for good.
TombInv ==
  /\ meta.state = "discarded" => ~pool /\ audit = {}
  /\ \A p \in Procs : Discarding(p) => ~pool /\ audit = {}

LEMMA TombStep == TypeOK /\ ExclusiveInv /\ TombInv /\ [Next]_vars => TombInv'
<1> SUFFICES ASSUME TypeOK, ExclusiveInv, TombInv, [Next]_vars PROVE TombInv'
  OBVIOUS
<1> USE DEF TombInv, Discarding, Writing, TypeOK, Goto, Return, disk, ghost, Ended
<1>a. Opener \in Actors /\ Opener \notin Procs /\ Procs = Actors \ {Opener}
  BY SessionAssumption DEF Actors
<1>1. CASE OpenDir \/ OpenPool
  <2>1. meta'.state = "absent" /\ \A p \in Procs : pc'[p] = "idle"
    BY <1>1, <1>a DEF OpenDir, OpenPool, ExclusiveInv, OpenFirst
  <2> QED
    BY <2>1
<1>2. ASSUME NEW p \in Procs, NEW v \in Verbs, Attach(p, v) PROVE TombInv'
  BY <1>2, <1>a DEF Attach
<1>3. ASSUME NEW p \in Actors, Crash(p) PROVE TombInv'
  BY <1>3, <1>a DEF Crash
<1>4. ASSUME NEW p \in Actors, TruncateTmp(p) \/ FillTmp(p) PROVE TombInv'
  <2>1. meta' = meta /\ pool' = pool /\ audit' = audit /\ verb' = verb
    BY <1>4 DEF TruncateTmp, FillTmp, ExclusiveInv, TmpOwned
  <2>2. \A q \in Procs : Discarding(q)' => Discarding(q)
    BY <1>4, <1>a, <2>1 DEF TruncateTmp, FillTmp
  <2> QED
    BY <2>1, <2>2
<1>5. ASSUME NEW p \in Actors, RenameTmp(p) PROVE TombInv'
  <2>1. pool' = pool /\ audit' = audit /\ verb' = verb /\ tmp = mem[p]
    BY <1>5 DEF RenameTmp, ExclusiveInv, TmpOwned
  <2>2. \A q \in Procs : Discarding(q)' => Discarding(q)
    BY <1>5, <1>a, <2>1 DEF RenameTmp, AfterWrite
  <2>3. meta'.state = "discarded" => meta.state = "discarded" \/ mem[p].state = "discarded"
    BY <1>5, <2>1 DEF RenameTmp
  <2>4. mem[p].state = "discarded" => meta.state = "discarded" \/ (p \in Procs /\ Discarding(p))
    BY <1>5, <1>a DEF RenameTmp, ExclusiveInv, OpenFirst, CopyFresh, VerbOfStep
  <2> QED
    BY <2>1, <2>2, <2>3, <2>4
<1>6. ASSUME NEW p \in Procs,
             LabelAdd(p) \/ CloseStart(p) \/ Push(p) \/ PurgeStart(p) \/ PurgeDir(p)
      PROVE  TombInv'
  BY <1>6, <1>a DEF LabelAdd, CloseStart, Push, PurgeStart, PurgeDir, ExclusiveInv, VerbOfStep
<1>7. ASSUME NEW p \in Procs, DiscardPool(p) PROVE TombInv'
  <2>1. CASE Return(p, "half") /\ PartOfPool
    <3>1. \A q \in Procs : Discarding(q)' => Discarding(q)
      BY <1>7, <1>a, <2>1 DEF DiscardPool
    <3>2. meta' = meta
      BY <1>7 DEF DiscardPool
    <3>3. ~pool => ~pool'
      BY <2>1, Zenon DEF PartOfPool
    <3>4. audit = {} => audit' = {}
      BY <2>1, SMT DEF PartOfPool
    <3> QED
      BY <3>1, <3>2, <3>3, <3>4
  <2>2. CASE ~(Return(p, "half") /\ PartOfPool)
    BY <1>7, <1>a, <2>2 DEF DiscardPool
  <2> QED BY <2>1, <2>2
<1>13. ASSUME NEW p \in Procs, NEW e \in Entries, PurgeStops(p, e) PROVE TombInv'
  BY <1>13, <1>a DEF PurgeStops, PartOfPool
<1>8. ASSUME NEW p \in Procs, DiscardRuns(p) PROVE TombInv'
  BY <1>8, <1>a DEF DiscardRuns
<1>9. ASSUME NEW p \in Procs, NEW e \in Entries, PurgeUnlink(p, e) PROVE TombInv'
  BY <1>9 DEF PurgeUnlink, Blank
<1>10. ASSUME NEW p \in Procs, RunStep(p) PROVE TombInv'
  <2>1. meta' = meta /\ pool' = pool /\ verb' = verb /\ (~pool => audit' = audit)
    BY <1>10 DEF RunStep, RunAccept, RunMaterialize, RunStart, RunExtract, RunTeardown
  <2>2. \A q \in Procs : Discarding(q)' => Discarding(q)
    BY <1>10, <1>a, <2>1 DEF RunStep, RunAccept, RunMaterialize, RunStart, RunExtract, RunTeardown
  <2> QED
    BY <2>1, <2>2
<1>11. CASE UNCHANGED vars
  BY <1>11 DEF vars, proc
<1>12. ASSUME NEW p \in Procs, VerbStep(p) PROVE TombInv'
  BY <1>12, <1>a, <1>4, <1>5, <1>6, <1>7, <1>8, <1>9, <1>10, <1>13
     DEF VerbStep, WriteStep, PurgeStep
<1> QED
  BY <1>1, <1>2, <1>3, <1>4, <1>5, <1>11, <1>12, <1>a DEF Next, WriteStep

\* Once the tombstone can be read there is no Pool and no audit ref, and no Run
\* that was still at work brings them back.
THEOREM TombstonesAreEmpty == ExclusiveWriters => (Spec => []TombstoneHasNoPool)
<1> SUFFICES ASSUME ExclusiveWriters PROVE Spec => []TombstoneHasNoPool
  OBVIOUS
<1>1. Init => TombInv
  BY DEF Init, TombInv, Discarding, Writing, Blank, Actors
<1>2. TombInv => TombstoneHasNoPool
  BY DEF TombInv, TombstoneHasNoPool
<1> QED
  BY <1>1, <1>2, Typing, ExclusiveInit, ExclusiveStep, TombStep, PTL DEF Spec

-----------------------------------------------------------------------------
(* Labels are not lost *)

Labelled(p) == verb[p] = "label" /\ pc[p] = "ok"
HasCopy(q)  == /\ pc[q] \in {"attached", "push", "wipe_runs"} \/ Writing(q)
               /\ q # Opener /\ verb[q] # "run"

\* A label that was added is in the file and in every copy that may replace it.
LabelInv ==
  \A p \in Procs :
    /\ Labelled(p) =>
         /\ meta.state \in States => p \in meta.labels
         /\ \A q \in Actors : HasCopy(q) => p \in mem[q].labels
    /\ Writing(p) /\ verb[p] = "label" => p \in mem[p].labels

LEMMA LabelStep == TypeOK /\ ExclusiveInv /\ LabelInv /\ [Next]_vars => LabelInv'
<1> SUFFICES ASSUME TypeOK, ExclusiveInv, LabelInv, [Next]_vars PROVE LabelInv'
  OBVIOUS
<1> USE DEF LabelInv, Labelled, HasCopy, Writing, TypeOK, Goto, Return, disk, ghost, Ended
<1>a. Opener \in Actors /\ Opener \notin Procs /\ Procs = Actors \ {Opener}
  BY SessionAssumption DEF Actors
<1>b. \* Steps that end no label command and drop no label from a copy.
      ASSUME verb' = verb, meta' = meta \/ meta'.state \notin States,
             \A q \in Procs :
               /\ pc'[q] = "ok" /\ verb[q] = "label" => pc[q] = "ok"
               /\ HasCopy(q)' => HasCopy(q) /\ mem'[q].labels = mem[q].labels
               /\ Writing(q)' /\ verb[q] = "label" => Writing(q)
      PROVE  LabelInv'
  <2> TAKE p \in Procs
  <2>1. Labelled(p)' => Labelled(p)
    BY <1>b
  <2>2. ASSUME Labelled(p)', NEW q \in Actors, HasCopy(q)' PROVE p \in mem'[q].labels
    <3>1. q \in Procs
      BY <2>2, <1>a
    <3> QED
      BY <2>1, <2>2, <3>1, <1>b
  <2>3. Labelled(p)' /\ meta'.state \in States => p \in meta'.labels
    BY <2>1, <1>b
  <2>4. Writing(p)' /\ verb'[p] = "label" => p \in mem'[p].labels
    <3>1. Writing(p)' /\ verb[p] = "label" => HasCopy(p)'
      BY <1>a, <1>b
    <3> QED
      BY <3>1, <1>b
  <2> QED
    BY <2>2, <2>3, <2>4
<1>1. CASE OpenDir \/ OpenPool
  <2>1. meta'.state = "absent" /\ \A p \in Procs : pc'[p] = "idle"
    BY <1>1, <1>a DEF OpenDir, OpenPool, ExclusiveInv, OpenFirst
  <2> QED
    BY <2>1
<1>2. ASSUME NEW p \in Procs, NEW v \in Verbs, Attach(p, v) PROVE LabelInv'
  BY <1>2, <1>a DEF Attach, Attachable
<1>3. ASSUME NEW p \in Actors, Crash(p) PROVE LabelInv'
  BY <1>3, <1>a DEF Crash
<1>4. ASSUME NEW p \in Actors, TruncateTmp(p) \/ FillTmp(p) PROVE LabelInv'
  <2>1. meta' = meta /\ verb' = verb
    BY <1>4 DEF TruncateTmp, FillTmp, ExclusiveInv, TmpOwned
  <2> QED
    BY <1>4, <1>a, <2>1 DEF TruncateTmp, FillTmp
<1>5. ASSUME NEW p \in Actors, RenameTmp(p) PROVE LabelInv'
  <2>1. verb' = verb /\ Writing(p) /\ tmp = mem[p] /\ (meta' = meta \/ meta' = mem[p])
    BY <1>5 DEF RenameTmp, ExclusiveInv, TmpOwned
  <2>2. CASE p = Opener
    <3>1. meta.state = "absent" /\ \A q \in Procs : pc'[q] = "idle"
      BY <1>5, <1>a, <2>1, <2>2 DEF RenameTmp, AfterWrite, ExclusiveInv, OpenFirst
    <3> QED
      BY <3>1
  <2>3. CASE p \in Procs
    <3>1. HasCopy(p) /\ Working(p)
      BY <2>1, <2>3, <1>a DEF ExclusiveInv, VerbOfStep, Working, Writer, Live
    <3>2. \A q \in Actors \ {p} : ~HasCopy(q)
      BY <3>1, <1>a DEF ExclusiveInv, OneWriter, Working, Writer, Live
    <3>3. meta' = mem[p]
      BY <1>5, <2>1, <2>3, <3>1, <1>a DEF RenameTmp, ExclusiveInv, CopyFresh, VerbOfStep, States
    <3>4. \A q \in Procs : Labelled(q)' => p = q \/ Labelled(q)
      BY <1>5, <1>a, <2>1 DEF RenameTmp, AfterWrite
    <3>5. \A q \in Procs : Labelled(q)' => q \in mem[p].labels
      BY <2>1, <2>3, <3>1, <3>4, <1>a
    <3>6. \A q \in Actors : HasCopy(q)' => q = p /\ mem'[p] = mem[p]
      BY <1>5, <1>a, <2>1, <2>3, <3>2 DEF RenameTmp, AfterWrite
    <3>7. \A q \in Procs : Writing(q)' => FALSE
      BY <1>5, <1>a, <2>1, <2>3, <3>2 DEF RenameTmp, AfterWrite, ExclusiveInv, VerbOfStep
    <3> QED
      BY <3>3, <3>5, <3>6, <3>7
  <2> QED
    BY <2>2, <2>3, <1>a
<1>6. ASSUME NEW p \in Procs, LabelAdd(p) PROVE LabelInv'
  BY <1>6, <1>a DEF LabelAdd, Meta
<1>7. ASSUME NEW p \in Procs, CloseStart(p) \/ Push(p) \/ DiscardPool(p) \/ DiscardRuns(p)
      PROVE LabelInv'
  <2>1. verb' = verb /\ meta' = meta /\ verb[p] \in {"close", "discard"} /\ HasCopy(p)
    BY <1>7, <1>a DEF CloseStart, Push, DiscardPool, DiscardRuns, ExclusiveInv, VerbOfStep
  <2>2. \A q \in Actors \ {p} : pc'[q] = pc[q] /\ mem'[q] = mem[q]
    BY <1>7, <1>a DEF CloseStart, Push, DiscardPool, DiscardRuns
  <2>3. HasCopy(p)' => mem'[p].labels = mem[p].labels
    BY <1>7, <1>a DEF CloseStart, Push, DiscardPool, DiscardRuns, Meta
  <2> QED
    BY <2>1, <2>2, <2>3, <1>a, <1>b
<1>8. ASSUME NEW p \in Procs, PurgeStep(p) PROVE LabelInv'
  <2>1. verb' = verb /\ verb[p] = "purge"
    BY <1>8 DEF PurgeStep, PurgeStart, PurgeUnlink, PurgeStops, PurgeDir, ExclusiveInv, VerbOfStep
  <2>2. meta' = meta \/ meta'.state \notin States
    <3>1. Blank("absent").state \notin States
      BY DEF Blank, States
    <3> QED
      BY <1>8, <3>1 DEF PurgeStep, PurgeStart, PurgeUnlink, PurgeStops, PurgeDir
  <2>3. \A q \in Actors \ {p} : pc'[q] = pc[q] /\ mem'[q] = mem[q]
    BY <1>8, <1>a DEF PurgeStep, PurgeStart, PurgeUnlink, PurgeStops, PurgeDir
  <2>4. ~HasCopy(p)'
    BY <1>8, <1>a, ZenonT(60) DEF PurgeStep, PurgeStart, PurgeUnlink, PurgeStops, PurgeDir
  <2> QED
    BY <2>1, <2>2, <2>3, <2>4, <1>a, <1>b
<1>9. ASSUME NEW p \in Procs, RunStep(p) PROVE LabelInv'
  <2>1. verb' = verb /\ meta' = meta /\ verb[p] = "run"
    BY <1>9 DEF RunStep, RunAccept, RunMaterialize, RunStart, RunExtract, RunTeardown,
                ExclusiveInv, VerbOfStep
  <2>2. \A q \in Actors \ {p} : pc'[q] = pc[q] /\ mem'[q] = mem[q]
    BY <1>9, <1>a DEF RunStep, RunAccept, RunMaterialize, RunStart, RunExtract, RunTeardown
  <2> QED
    BY <2>1, <2>2, <1>a, <1>b
<1>10. CASE UNCHANGED vars
  BY <1>10 DEF vars, proc
<1>11. ASSUME NEW p \in Procs, VerbStep(p) PROVE LabelInv'
  BY <1>11, <1>a, <1>4, <1>5, <1>6, <1>7, <1>8, <1>9 DEF VerbStep, WriteStep
<1> QED
  BY <1>1, <1>2, <1>3, <1>4, <1>5, <1>10, <1>11, <1>a DEF Next, WriteStep

\* A label whose command succeeded is in every later meta.json.
THEOREM LabelsAreDurable == ExclusiveWriters => (Spec => []LabelDurable)
<1> SUFFICES ASSUME ExclusiveWriters PROVE Spec => []LabelDurable
  OBVIOUS
<1>1. Init => LabelInv
  BY DEF Init, LabelInv, Labelled, Writing, Actors
<1>2. LabelInv => LabelDurable
  BY DEF LabelInv, Labelled, LabelDurable
<1> QED
  BY <1>1, <1>2, Typing, ExclusiveInit, ExclusiveStep, LabelStep, PTL DEF Spec

-----------------------------------------------------------------------------
(* At rest the Session can be used *)

Spoiled == \E p \in Actors : Writer(p) /\ pc[p] = "crashed"

\* A close between its two writes, and who is taking the Pool away.
Finishing(p) ==
  /\ verb[p] = "close"
  /\ pc[p] = "push" \/ (Writing(p) /\ mem[p].state \in {"closed", "failed_to_close"})
Wiping(p) == pc[p] \in {"wipe_runs", "unlink"} \/ (verb[p] = "discard" /\ Writing(p))

\* If two writers never overlap, what disturbs a removal is a Run.
LEMMA DisturbedByRun ==
  ASSUME ExclusiveInv, NEW p \in Procs, Writer(p), Live(p), pc[p] # "push", NEW e, Disturbed(e)
  PROVE  \E q \in Procs : verb[q] = "run"
<1>1. PICK q \in Procs : \/ pc[q] \in {"agent", "push"}
                        \/ verb[q] = "run"
  BY DEF Disturbed
<1>2. CASE pc[q] = "agent"
  BY <1>2 DEF ExclusiveInv, VerbOfStep
<1>3. CASE pc[q] = "push"
  <2>1. verb[q] = "close" /\ q \in Actors /\ p \in Actors
    BY <1>3 DEF ExclusiveInv, VerbOfStep, Actors
  <2>2. Working(q) /\ Working(p)
    BY <1>3, <2>1 DEF Working, Writer, Live, Ended
  <2> QED
    BY <1>3, <2>1, <2>2 DEF ExclusiveInv, OneWriter
<1> QED BY <1>1, <1>2, <1>3

\* Whoever puts the Session into a state that cannot be used is still at work, was
\* killed, or lost to a Run; a purge unlinks meta.json before it ends; the directory outlives meta.json.
RestInv ==
  /\ meta.state # "absent" \/ pc[Opener] = "init_pool" \/ Writing(Opener) => dir
  /\ Writing(Opener) => pool
  /\ \A p \in Procs : pc[p] = "unlink" => meta.state = "absent" \/ "meta" \in todo[p]
  /\ meta.state = "closing" => Spoiled \/ \E p \in Procs : Finishing(p)
  /\ meta.state \in States \ {"discarded"} /\ ~pool =>
       Spoiled \/ LostToARun \/ \E p \in Procs : Wiping(p)

LEMMA RestStep == ExclusiveWriters /\ TypeOK /\ ExclusiveInv /\ RestInv /\ [Next]_vars => RestInv'
<1> SUFFICES ASSUME ExclusiveWriters, TypeOK, ExclusiveInv, RestInv, [Next]_vars PROVE RestInv'
  OBVIOUS
<1> USE DEF RestInv, Spoiled, LostToARun, Finishing, Wiping, Writing, Writer, TypeOK, Goto, Return, disk, ghost,
            Ended
<1>a. Opener \in Actors /\ Opener \notin Procs /\ Procs = Actors \ {Opener}
  BY SessionAssumption DEF Actors
<1>1. CASE OpenDir \/ OpenPool
  <2>1. meta' = meta /\ meta.state = "absent" /\ \A p \in Procs : pc'[p] = "idle"
    BY <1>1, <1>a DEF OpenDir, OpenPool, ExclusiveInv, OpenFirst
  <2>2. pc'[Opener] = "init_pool" \/ Writing(Opener)' => dir'
    BY <1>1, <1>a DEF OpenDir, OpenPool
  <2>3. Writing(Opener)' => pool'
    BY <1>1, <1>a DEF OpenDir, OpenPool
  <2> QED
    BY <2>1, <2>2, <2>3 DEF States
<1>2. ASSUME NEW p \in Procs, NEW v \in Verbs, Attach(p, v) PROVE RestInv'
  <2>1. /\ UNCHANGED <<dir, pool, meta, todo>> /\ pc[p] = "idle" /\ p # Opener
        /\ verb' = [verb EXCEPT ![p] = v]
        /\ \A q \in Actors \ {p} : pc'[q] = pc[q] /\ mem'[q] = mem[q]
        /\ pc'[p] \in {"attached", "err"} /\ verb[Opener] = "open"
    BY <1>2, <1>a DEF Attach, ExclusiveInv, OpenFirst
  <2>2. \A q \in Procs : Finishing(q) => Finishing(q)'
    BY <1>a, <2>1
  <2>3. \A q \in Procs : Wiping(q) => Wiping(q)'
    BY <1>a, <2>1
  <2>4. Spoiled => Spoiled'
    BY <1>a, <2>1
  <2>5. LostToARun => LostToARun'
    <3>1. verb[p] = "none"
      BY <2>1 DEF ExclusiveInv, VerbOfStep
    <3> QED BY <1>a, <2>1, <3>1
  <2>6. pc[Opener] = pc'[Opener] /\ \A q \in Procs : pc'[q] = "unlink" => pc[q] = "unlink"
    BY <1>a, <2>1
  <2> HIDE DEF Spoiled, LostToARun, Finishing, Wiping
  <2> QED
    BY <1>a, <2>1, <2>2, <2>3, <2>4, <2>5, <2>6
<1>3. ASSUME NEW p \in Actors, Crash(p) PROVE RestInv'
  BY <1>3, <1>a, SMTT(30) DEF Crash, Live, ExclusiveInv, VerbOfStep, OpenFirst
<1>4. ASSUME NEW p \in Actors, TruncateTmp(p) PROVE RestInv'
  <2>1. UNCHANGED <<dir, pool, meta, verb, todo>>
    BY <1>4 DEF TruncateTmp
  <2>2. CASE dir
    <3>1. pc' = [pc EXCEPT ![p] = "fill"] /\ mem' = mem /\ pc[p] = "truncate"
      BY <1>4, <2>2 DEF TruncateTmp
    <3>2. \A q \in Actors : pc'[q] = pc[q] \/ (q = p /\ pc'[q] = "fill" /\ pc[q] = "truncate")
      BY <3>1
    <3>3. \A q \in Procs : (Finishing(q) => Finishing(q)') /\ (Wiping(q) => Wiping(q)')
      BY <1>a, <2>1, <3>1, <3>2
    <3>4. (Spoiled => Spoiled') /\ (LostToARun => LostToARun') /\ (Writing(Opener)' => Writing(Opener))
      BY <1>a, <2>1, <3>2
    <3>5. \A q \in Procs : pc'[q] = "unlink" => pc[q] = "unlink"
      BY <1>a, <3>2
    <3> HIDE DEF Finishing, Wiping, Spoiled, LostToARun
    <3> QED
      BY <2>1, <2>2, <3>3, <3>4, <3>5
  <2>3. CASE ~dir
    <3>1. meta.state = "absent" /\ ~Writing(Opener)
      BY <2>3
    <3>2. \A q \in Actors : pc'[q] = pc[q] \/ pc'[q] = "err"
      BY <1>4, <2>3 DEF TruncateTmp
    <3>3. pc'[Opener] # "init_pool" /\ ~Writing(Opener)'
      BY <1>a, <2>3, <3>1, <3>2
    <3> QED
      BY <2>1, <3>1, <3>3 DEF States
  <2> QED
    BY <2>2, <2>3
<1>5. ASSUME NEW p \in Actors, FillTmp(p) PROVE RestInv'
  BY <1>5, <1>a, SMTT(30) DEF FillTmp, ExclusiveInv, TmpOwned
<1>6. ASSUME NEW p \in Actors, RenameTmp(p) PROVE RestInv'
  <2>1. /\ UNCHANGED <<dir, pool, verb, todo>> /\ pc[p] = "rename" /\ tmp = mem[p]
    BY <1>6 DEF RenameTmp, ExclusiveInv, TmpOwned
  <2>2. dir /\ (p = Opener => pool /\ mem[p].state = "open") /\ mem[p].state \in States
    BY <1>a, <2>1 DEF ExclusiveInv, OpenFirst, CopyFresh, VerbOfStep, Usable, States
  <2>3. meta' = mem[p] /\ AfterWrite(p)
    BY <1>6, <2>1, <2>2 DEF RenameTmp, States
  <2>4. \A q \in Actors : q # p => pc'[q] = pc[q] /\ mem'[q] = mem[q]
    BY <2>3 DEF AfterWrite
  <2>5. (Spoiled => Spoiled') /\ (LostToARun => LostToARun')
    <3>1. verb' = verb /\ pc[p] = "rename" /\ \A q \in Actors \ {p} : pc'[q] = pc[q]
      BY <2>1, <2>4
    <3>2. \A q \in Procs : pc[q] = "half" => pc'[q] = "half"
      BY <1>a, <3>1
    <3>3. \A q \in Actors : pc[q] = "crashed" => pc'[q] = "crashed"
      BY <3>1
    <3> QED BY <3>1, <3>2, <3>3
  <2>6. pc'[p] \in {"push", "ok", "err"}
    BY <2>3, <1>a DEF AfterWrite
  <2>7. ~Writing(Opener)' /\ pc'[Opener] # "init_pool"
    <3>1. CASE p = Opener
      BY <2>6, <3>1
    <3>2. CASE p # Opener
      BY <1>a, <2>1, <2>4, <3>2 DEF ExclusiveInv, OpenFirst
    <3> QED BY <3>1, <3>2
  <2>8. \A q \in Procs : pc[q] # "unlink"
    <3> SUFFICES ASSUME NEW q \in Procs, pc[q] = "unlink" PROVE FALSE
      OBVIOUS
    <3>1. verb[q] = "purge" /\ Working(q)
      BY <1>a DEF ExclusiveInv, VerbOfStep, Working, Live
    <3>2. Working(p) /\ p # q
      BY <1>a, <2>1 DEF ExclusiveInv, VerbOfStep, OpenFirst, Working, Live
    <3> QED BY <1>a, <3>1, <3>2 DEF ExclusiveInv, OneWriter
  <2>9. \A q \in Procs : pc'[q] # "unlink"
    BY <1>a, <2>4, <2>6, <2>8
  <2>10. ASSUME mem[p].state = "closing" PROVE Spoiled' \/ \E q \in Procs : Finishing(q)'
    <3>1. p \in Procs
      BY <1>a, <2>2, <2>10
    <3>2. CASE verb[p] = "close"
      <4>1. pc'[p] = "push"
        BY <2>3, <2>10, <3>2 DEF AfterWrite
      <4> QED BY <2>1, <3>1, <3>2, <4>1
    <3>3. CASE verb[p] # "close"
      <4>1. meta.state = "closing" /\ verb[p] = "label"
        BY <2>1, <2>10, <3>1, <3>3 DEF ExclusiveInv, VerbOfStep, CopyFresh
      <4>2. ASSUME NEW q \in Procs, Finishing(q) PROVE Finishing(q)'
        BY <1>a, <2>1, <2>4, <3>3, <4>2
      <4> QED BY <2>5, <4>1, <4>2
    <3> QED BY <3>2, <3>3
  <2>11. ASSUME mem[p].state \in States \ {"discarded"}, ~pool
         PROVE  Spoiled' \/ LostToARun' \/ \E q \in Procs : Wiping(q)'
    <3>1. p \in Procs /\ verb[p] \in {"label", "close"}
      BY <1>a, <2>1, <2>2, <2>11 DEF ExclusiveInv, VerbOfStep, CopyFresh
    <3>2. meta.state \in States \ {"discarded"}
      BY <2>1, <2>11, <3>1 DEF ExclusiveInv, CopyFresh, Usable, States
    <3>3. ASSUME NEW q \in Procs, Wiping(q) PROVE Wiping(q)'
      BY <1>a, <2>1, <2>4, <3>1, <3>3
    <3> QED BY <2>5, <2>11, <3>2, <3>3
  <2> HIDE DEF Spoiled, LostToARun, Finishing, Wiping
  <2> QED
    BY <2>1, <2>2, <2>3, <2>7, <2>9, <2>10, <2>11
<1>7. ASSUME NEW p \in Procs, LabelAdd(p) PROVE RestInv'
  BY <1>7, <1>a, SMTT(30) DEF LabelAdd
<1>8. ASSUME NEW p \in Procs, CloseStart(p) PROVE RestInv'
  BY <1>8, <1>a, SMTT(30) DEF CloseStart
<1>9. ASSUME NEW p \in Procs, Push(p) PROVE RestInv'
  BY <1>9, <1>a, SMTT(30) DEF Push, Meta, ExclusiveInv, VerbOfStep
<1>b. \* A writer that gives up half-way: it was wiping, and lost to a Run.
      ASSUME NEW p \in Procs, pc[p] \in {"attached", "wipe_runs", "unlink"}, verb[p] # "run",
             \E e \in Entries : Disturbed(e), Return(p, "half"), verb' = verb, meta' = meta, dir' = dir,
             \A q \in Procs \ {p} : todo'[q] = todo[q]
      PROVE  RestInv'
  <2>1. \E q \in Procs : verb[q] = "run"
    BY <1>b, DisturbedByRun DEF Live, ExclusiveInv, OneWriter
  <2>2. LostToARun'
    BY <1>b, <1>a, <2>1
  <2>3. pc[Opener] = "ok" /\ pc'[Opener] = "ok"
    BY <1>b, <1>a DEF ExclusiveInv, OpenFirst
  <2>4. \A q \in Procs \ {p} : pc'[q] = pc[q] /\ mem'[q] = mem[q] /\ Finishing(q)' = Finishing(q)
    BY <1>b, <1>a
  <2>5. ~Finishing(p) /\ (Spoiled => Spoiled') /\ pc'[p] = "half"
    BY <1>b, <1>a
  <2>6. meta'.state = "closing" => Spoiled' \/ \E q \in Procs : Finishing(q)'
    BY <1>b, <2>4, <2>5
  <2> QED
    BY <1>b, <2>2, <2>3, <2>4, <2>5, <2>6
<1>10. ASSUME NEW p \in Procs, DiscardPool(p) PROVE RestInv'
  <2>1. CASE Disturbed("pool") /\ Return(p, "half")
    BY <1>10, <2>1, <1>b DEF DiscardPool, Entries
  <2>2. CASE ~(Disturbed("pool") /\ Return(p, "half"))
    BY <1>10, <2>2, <1>a, SMTT(30) DEF DiscardPool, ExclusiveInv, OpenFirst
  <2> QED BY <2>1, <2>2
<1>11. ASSUME NEW p \in Procs, DiscardRuns(p) PROVE RestInv'
  <2>1. CASE Disturbed("runs") /\ Return(p, "half")
    <3>1. verb[p] = "discard"
      BY <1>11 DEF DiscardRuns, ExclusiveInv, VerbOfStep
    <3> QED
      BY <1>11, <2>1, <3>1, <1>b DEF DiscardRuns, Entries
  <2>2. CASE ~(Disturbed("runs") /\ Return(p, "half"))
    BY <1>11, <2>2, <1>a, SMTT(30) DEF DiscardRuns, ExclusiveInv, VerbOfStep
  <2> QED BY <2>1, <2>2
<1>18. ASSUME NEW p \in Procs, NEW e \in Entries, PurgeStops(p, e) PROVE RestInv'
  <2>1. verb[p] = "purge" /\ Return(p, "half") /\ Disturbed(e)
    BY <1>18 DEF PurgeStops, ExclusiveInv, VerbOfStep
  <2>2. pc[p] = "unlink" /\ verb' = verb /\ meta' = meta /\ dir' = dir
    BY <1>18 DEF PurgeStops
  <2>3. \A q \in Procs \ {p} : todo'[q] = todo[q]
    BY <1>18, <1>a DEF PurgeStops
  <2>4. \E d \in Entries : Disturbed(d)
    BY <2>1
  <2> QED
    BY <2>1, <2>2, <2>3, <2>4, <1>b
<1>12. ASSUME NEW p \in Procs, PurgeStart(p) PROVE RestInv'
  BY <1>12, <1>a, SMTT(30) DEF PurgeStart, Present, Entries
<1>13. ASSUME NEW p \in Procs, NEW e \in Entries, PurgeUnlink(p, e) PROVE RestInv'
  BY <1>13, <1>a, SMTT(30) DEF PurgeUnlink, Blank, ExclusiveInv, OpenFirst
<1>14. ASSUME NEW p \in Procs, PurgeDir(p) PROVE RestInv'
  <2>1. meta' = meta /\ meta.state = "absent" /\ verb' = verb /\ pool' = pool
    BY <1>14 DEF PurgeDir
  <2>2. pc[Opener] = "ok" /\ pc'[Opener] = "ok"
    BY <1>14, <1>a DEF PurgeDir, ExclusiveInv, OpenFirst
  <2> QED
    BY <2>1, <2>2 DEF States
<1>15. ASSUME NEW p \in Procs, RunStep(p) PROVE RestInv'
  BY <1>15, <1>a, SMTT(30) DEF RunStep, RunAccept, RunMaterialize, RunStart, RunExtract, RunTeardown,
     ExclusiveInv, VerbOfStep
<1>16. CASE UNCHANGED vars
  BY <1>16 DEF vars, proc
<1>17. ASSUME NEW p \in Procs, VerbStep(p) PROVE RestInv'
  BY <1>17, <1>a, <1>4, <1>5, <1>6, <1>7, <1>8, <1>9, <1>10, <1>11, <1>12, <1>13, <1>14, <1>15, <1>18
     DEF VerbStep, WriteStep, PurgeStep
<1> QED
  BY <1>1, <1>2, <1>3, <1>4, <1>5, <1>6, <1>16, <1>17, <1>a DEF Next, WriteStep

\* With no writer at work and none killed, a Session is not closing, and has its Pool
\* unless it is a tombstone or a removal gave up half-way against a Run of this
\* Session: for any number of Runs that overlap, and any kills.
THEOREM RestingSessionsAreUsable == ExclusiveWriters => (Spec => []RestingSessionUsable)
<1> SUFFICES ASSUME ExclusiveWriters PROVE Spec => []RestingSessionUsable
  OBVIOUS
<1>1. Init => RestInv
  BY SessionAssumption DEF Init, RestInv, Writing, Blank, Actors, States
<1>2. ExclusiveInv /\ RestInv => RestingSessionUsable
  BY DEF RestInv, RestingSessionUsable, AtRest, Spoiled, Finishing, Wiping, Writer, Live, Writing,
     ExclusiveInv, VerbOfStep, Ended, Actors, States
<1> QED
  BY <1>1, <1>2, Typing, ExclusiveInit, ExclusiveStep, RestStep, PTL DEF Spec
=============================================================================
