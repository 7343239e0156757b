-------------------------- MODULE SessionLifecycle --------------------------
(***************************************************************************)
(* What a Session promises its user: the state machine of SessionState     *)
(* (bunsen-core/src/session.rs), together with the one fact about the host *)
(* repo that ADR-0010 ties to it: the host repo is written only while the  *)
(* Session is closing, and a close that failed has not written it.         *)
(*                                                                         *)
(* Session.tla describes the processes and the files that implement this.  *)
(***************************************************************************)

VARIABLES phase,     \* the state a reader of meta.json sees
          published  \* has a close of this Session written the host repo?

lvars == <<phase, published>>

\* "unborn": no meta.json was written yet.  "gone": the Session was purged.
Phases == {"unborn", "open", "closing", "closed", "failed_to_close",
           "discarded", "gone"}

LTypeOK == phase \in Phases /\ published \in BOOLEAN

\* The states from which SessionState lets a Session be used and ended.
Live == {"open", "failed_to_close"}

LInit == phase = "unborn" /\ published = FALSE

Move(from, to) == phase \in from /\ phase' = to

Open          == Move({"unborn"}, "open") /\ UNCHANGED published
CloseStart    == Move(Live, "closing") /\ UNCHANGED published
Publish       == phase = "closing" /\ ~published /\ published' = TRUE
                 /\ UNCHANGED phase
CloseComplete == Move({"closing"}, "closed") /\ UNCHANGED published
CloseFailed   == Move({"closing"}, "failed_to_close") /\ ~published
                 /\ UNCHANGED published
Discard       == Move(Live, "discarded") /\ UNCHANGED published
Purge         == Move({"closed"}, "gone") /\ UNCHANGED published

LNext == \/ Open \/ CloseStart \/ Publish \/ CloseComplete \/ CloseFailed
         \/ Discard \/ Purge

LSpec == LInit /\ [][LNext]_lvars

-----------------------------------------------------------------------------
\* The host repo is untouched in every state but closing, closed and gone:
\* ADR-0010's "host repo not touched in this window".
HostUntouched == published => phase \in {"closing", "closed", "gone"}
=============================================================================
