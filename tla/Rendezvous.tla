------------------------------ MODULE Rendezvous ----------------------------
(***************************************************************************)
(* The LWPs of one process that stop each other (rendez.c): forkall() and  *)
(* core() bring all others to a rendezvous, exit(), exec() and a fatal     *)
(* signal destroy all others.  With it go the places where an LWP gives in *)
(* to such a request: the way out of a trap (issig, psig and stop in       *)
(* sig.c), lwp_exit() and newlwp() (lwpscalls.c), and what may disturb a   *)
(* rendezvous: job control stops, SIGCONT, _lwp_suspend, _lwp_continue.    *)
(*                                                                         *)
(* Everything below is done under p_mutex, from LOCK to UNLOCK or to the   *)
(* SV_WAIT that releases it: a section is one step.  None of the sleeps    *)
(* is interruptible.                                                       *)
(***************************************************************************)
EXTENDS Integers, FiniteSets

CONSTANTS Lwps,      \* LWPs the process may have, one slot each
          Start      \* the LWPs it starts with

ASSUME RendezvousAssumption == IsFiniteSet(Lwps) /\ Start \subseteq Lwps

VARIABLES
  list,          \* the LWPs on the list of the process; p_nlwp is their number
  nrendezvoused,
  pDestroy,      \* P_DESTROY in p_flag
  sigjobstop,    \* p_sigjobstop is set
  rendezv, destroy, jobstop, suspend,  \* the LWPs with EVF_PL_xxx in l_trapevf
  lSuspended,    \* the LWPs with L_SUSPENDED in l_flag
  cursig,        \* l_cursig: a fatal signal, with a core image or without
  call,          \* the call an LWP is in
  seen,          \* what destroy_proc() has read as p_nrendezvoused
  pc,
  mishaps        \* a history variable, which no action reads: which of the three
                 \* things have happened that the code is not prepared for:
                 \* "own", an LWP with a request to rendezvous aborted the
                 \*   rendezvous and keeps its request;
                 \* "core", core() gave up with all others asked to rendezvous;
                 \* "test", destroy_proc(), which reads the two counts without
                 \*   p_mutex, took a rendezvous for complete that was not

procVars == <<list, pDestroy, sigjobstop>>
evfVars == <<rendezv, destroy, jobstop, suspend>>
flagVars == <<evfVars, lSuspended>>
ownVars == <<cursig, call, seen>>
vars == <<procVars, nrendezvoused, flagVars, ownVars, pc, mishaps>>

Sleeping == {"rvwait", "rendezvoused", "exrendezvoused", "dwait"}
Stopped == {"jobstopped", "suspended"}
Panics == {"partial release", "early wakeup", "no core", "improper release",
           "destroy in rendezvous"}
Pcs == Sleeping \union Stopped \union Panics \union
  {"none", "user", "trap", "rvwoken", "stasis", "released", "destroy", "test", "dlock",
   "dwoken", "lwpexit", "exreleased"}

TypeOK ==
  /\ list \subseteq Lwps /\ nrendezvoused \in 0 .. Cardinality(Lwps)
  /\ pDestroy \in BOOLEAN /\ sigjobstop \in BOOLEAN
  /\ rendezv \subseteq list /\ destroy \subseteq list /\ jobstop \subseteq list
  /\ suspend \subseteq list /\ lSuspended \subseteq list
  /\ cursig \in [Lwps -> {"none", "kill", "core"}]
  /\ call \in [Lwps -> {"none", "forkall", "exec", "exit"}]
  /\ seen \in [Lwps -> 0 .. Cardinality(Lwps)]
  /\ pc \in [Lwps -> Pcs] /\ \A l \in Lwps : pc[l] = "none" <=> l \notin list
  /\ mishaps \subseteq {"own", "core", "test"}

Init ==
  /\ list = Start /\ nrendezvoused = 0 /\ pDestroy = FALSE /\ sigjobstop = FALSE
  /\ rendezv = {} /\ destroy = {} /\ jobstop = {} /\ suspend = {} /\ lSuspended = {}
  /\ cursig = [l \in Lwps |-> "none"] /\ call = [l \in Lwps |-> "none"]
  /\ seen = [l \in Lwps |-> 0] /\ mishaps = {}
  /\ pc = [l \in Lwps |-> IF l \in Start THEN "user" ELSE "none"]

At(l, p) == pc[l] = p
Nlwp == Cardinality(list)
Others(l) == list \ {l}
AllAt(p) == {l \in list : At(l, p)}
Note(w, happens) == mishaps' = IF happens THEN mishaps \union {w} ELSE mishaps

(* The LWPs in W are made runnable; l goes on at p.                        *)
After(p) == CASE p = "rvwait" -> "rvwoken"
              [] p = "rendezvoused" -> "released"
              [] p = "exrendezvoused" -> "exreleased"
              [] p = "dwait" -> "dwoken"
              [] OTHER -> "trap"
GoWaking(l, p, W) ==
  pc' = [m \in Lwps |-> IF m = l THEN p ELSE IF m \in W THEN After(pc[m]) ELSE pc[m]]
OneOf(S) == IF S = {} THEN {{}} ELSE {{m} : m \in S}  \* SV_SIGNAL
Goto(l, p) == pc' = [pc EXCEPT ![l] = p]
BeginCall(l, c) == call' = [call EXCEPT ![l] = c]

Rendezvoused == AllAt("rendezvoused") \union AllAt("exrendezvoused")
Initiators == AllAt("rvwait")

(***************************************************************************)
(* Trap events for other LWPs.                                             *)
(***************************************************************************)

(* trapevnudge: a suspended LWP is made to run for a rendezvous.           *)
StaySuspended(W) == {}      \* variant: it is left alone
RunForRendezvous(W) == {m \in W : pc[m] \in Stopped /\ m \in lSuspended}

(* trapevproc with EVF_PL_DESTROY: no LWP stays stopped.                   *)
Doomed(l) == {m \in Others(l) : pc[m] \in Stopped}
PostDestroyEvent(l) == /\ destroy' = destroy \union Others(l)
                       /\ jobstop' = jobstop \ Doomed(l)

(* abort_rendezvous(), by l: a request of l itself stays, unless l is alone. *)
Neighbours(l) == IF Nlwp = 1 THEN {l} ELSE Others(l)     \* the ring from l_prev on
AbortUncounted(l) ==         \* variant: the count stays
  rendezv' = rendezv \ Neighbours(l) /\ UNCHANGED nrendezvoused
Abort(l) == rendezv' = rendezv \ Neighbours(l) /\ nrendezvoused' = 0
AbortsOwn(l) == Nlwp > 1 /\ l \in rendezv
AbortedWaiter == Initiators  \* variant: only who waits for the others is woken
Aborted == Rendezvoused \union Initiators

RendezvousComplete(n) == n > 0 /\ n + 1 >= Nlwp

(* post_destroy(all, 0), by l, which then goes to p.                       *)
PostDestroy(l, all, p) ==
  /\ PostDestroyEvent(l) /\ pDestroy' = (pDestroy \/ all)
  /\ IF Nlwp > 1 THEN Abort(l) /\ GoWaking(l, p, Aborted \union Doomed(l))
                 ELSE Goto(l, p) /\ UNCHANGED <<rendezv, nrendezvoused>>

(***************************************************************************)
(* rendezvous() and release_rendezvous(), from forkall() and core().       *)
(***************************************************************************)
Refused(l) == l \in destroy \/ (~pDestroy /\ l \in jobstop)
RefusedAtOnce(l) == Nlwp > 1 /\ (Refused(l) \/ (~pDestroy /\ l \in rendezv))
Failed(l) == Goto(l, IF call[l] = "forkall" THEN "trap" ELSE "no core")

WaitOrHaveNow(l) == IF nrendezvoused < Nlwp - 2 THEN "rvwait" ELSE "stasis"  \* variant
WaitOrHave(l) == IF nrendezvoused + 1 < Nlwp THEN "rvwait" ELSE "stasis"

(* The request is posted to all others, unless a neighbour has it.         *)
Begin(l) ==
  \E prev \in Neighbours(l) :
    IF prev \in rendezv
      THEN Goto(l, WaitOrHave(l)) /\ UNCHANGED rendezv
      ELSE /\ rendezv' = rendezv \union Others(l)
           /\ GoWaking(l, WaitOrHave(l), RunForRendezvous(Others(l)))

Forkall(l) ==
  /\ At(l, "user")
  /\ BeginCall(l, "forkall")
  /\ IF RefusedAtOnce(l)
       THEN Goto(l, "trap") /\ UNCHANGED rendezv
       ELSE Begin(l)
  /\ UNCHANGED <<procVars, nrendezvoused, destroy, jobstop, suspend, lSuspended, cursig, seen,
                 mishaps>>

(* core(), of an LWP that has posted its request with the fatal signal.  A *)
(* signal that cannot be delivered posts it here (destroyed is B_FALSE):   *)
(* that is IssigCore followed by Core.                                     *)
Core(l) ==
  /\ At(l, "trap") /\ cursig[l] = "core" /\ l \notin rendezv \union destroy
  /\ \/ BeginCall(l, "none") /\ UNCHANGED mishaps
        /\ IF RefusedAtOnce(l) THEN Goto(l, "no core") /\ UNCHANGED rendezv ELSE Begin(l)
     \/ BeginCall(l, "exit") /\ Note("core", Nlwp > 1)    \* not the user's own image
        /\ Goto(l, "destroy") /\ UNCHANGED rendezv
  /\ UNCHANGED <<procVars, nrendezvoused, destroy, jobstop, suspend, lSuspended, cursig, seen>>

(* Awake again: it was granted, aborted or taken over.                     *)
RendezvousWoken(l) ==
  /\ At(l, "rvwoken")
  /\ IF Refused(l) THEN Failed(l) ELSE Goto(l, WaitOrHave(l))
  /\ UNCHANGED <<procVars, nrendezvoused, flagVars, ownVars, mishaps>>

(* release_rendezvous(), at the end of forkall() or core().                *)
Release(l) ==
  /\ At(l, "stasis")
  /\ IF Nlwp > 1 /\ nrendezvoused + 1 # Nlwp
       THEN Goto(l, "partial release") /\ UNCHANGED <<rendezv, nrendezvoused, call>>
       ELSE /\ IF Nlwp > 1 THEN rendezv' = rendezv \ Others(l) /\ nrendezvoused' = 0
                           ELSE UNCHANGED <<rendezv, nrendezvoused>>
            /\ IF call[l] = "forkall"
                 THEN BeginCall(l, "none") /\ GoWaking(l, "trap", Rendezvoused)
                 ELSE BeginCall(l, "exit") /\ GoWaking(l, "destroy", Rendezvoused)
  /\ UNCHANGED <<procVars, destroy, jobstop, suspend, lSuspended, cursig, seen, mishaps>>

(***************************************************************************)
(* The way out of a trap: issig(), psig() and stop().  It is passed until  *)
(* nothing is pending.                                                     *)
(***************************************************************************)
Pending(l) == l \in rendezv \union destroy \union jobstop \union suspend \/ cursig[l] # "none"

Trap(l) ==
  /\ At(l, "user") /\ Goto(l, "trap")
  /\ UNCHANGED <<procVars, nrendezvoused, flagVars, ownVars, mishaps>>

ReturnToUser(l) ==
  /\ At(l, "trap") /\ ~Pending(l)
  /\ Goto(l, "user")
  /\ UNCHANGED <<procVars, nrendezvoused, flagVars, ownVars, mishaps>>

(* One more has come to the rendezvous; the last one tells who waits.      *)
Rendezvous(l, p) ==
  /\ nrendezvoused' = nrendezvoused + 1
  /\ \E W \in IF nrendezvoused' = Nlwp - 1 THEN OneOf(Initiators) ELSE {{}} :
       GoWaking(l, p, W)

PsigRendezvous(l) ==
  /\ At(l, "trap") /\ l \in rendezv
  /\ Rendezvous(l, "rendezvoused")
  /\ UNCHANGED <<procVars, flagVars, ownVars, mishaps>>

(* stop(PR_SUSPENDED): not for an LWP that has to go or to rendezvous.     *)
MayStop(l) == l \notin destroy \union rendezv
StopSuspended(l) == /\ suspend' = suspend \ {l} /\ lSuspended' = lSuspended \union {l}
                    /\ Goto(l, "suspended")

ForgetSuspended(l) ==        \* variant: the LWP goes back to its user
  /\ At(l, "released") /\ Goto(l, "trap")
  /\ UNCHANGED <<procVars, nrendezvoused, flagVars, ownVars, mishaps>>
(* Released: a suspended LWP was made to run just for the rendezvous.      *)
PsigReleased(l) ==
  /\ At(l, "released")
  /\ IF l \notin lSuspended \union suspend
       THEN Goto(l, "trap") /\ UNCHANGED <<suspend, lSuspended>>
       ELSE IF MayStop(l)
              THEN StopSuspended(l)
              ELSE /\ suspend' = suspend \union {l} /\ UNCHANGED lSuspended
                   /\ Goto(l, "trap")
  /\ UNCHANGED <<procVars, nrendezvoused, rendezv, destroy, jobstop, ownVars, mishaps>>

IssigSuspend(l) ==
  /\ At(l, "trap") /\ cursig[l] = "none" /\ l \in suspend /\ MayStop(l)
  /\ StopSuspended(l)
  /\ UNCHANGED <<procVars, nrendezvoused, rendezv, destroy, jobstop, ownVars, mishaps>>

(* issig() with a job control signal, or one that another LWP has taken.   *)
IssigJobstop(l) ==
  /\ At(l, "trap") /\ cursig[l] = "none" /\ l \notin destroy \union suspend
  /\ IF sigjobstop
       THEN /\ jobstop' = jobstop \ {l} /\ Goto(l, "jobstopped")
            /\ UNCHANGED <<rendezv, nrendezvoused, mishaps>>
       ELSE /\ Note("own", AbortsOwn(l))
            /\ jobstop' = Others(l) \union (jobstop \ {l})
            /\ Abort(l) /\ GoWaking(l, "jobstopped", Aborted)
  /\ sigjobstop' = TRUE
  /\ UNCHANGED <<list, pDestroy, destroy, suspend, lSuspended, ownVars>>

(* SIGCONT is posted: no LWP is or gets stopped any more.                  *)
Sigcont ==
  /\ sigjobstop \/ jobstop # {}
  /\ sigjobstop' = FALSE /\ jobstop' = {}
  /\ pc' = [l \in Lwps |-> IF At(l, "jobstopped") THEN "trap" ELSE pc[l]]
  /\ UNCHANGED <<list, pDestroy, nrendezvoused, rendezv, destroy, suspend, lSuspended, ownVars,
                 mishaps>>

(* issig() with a fatal signal that calls for no core image.               *)
IssigKill(l) ==
  /\ At(l, "trap") /\ cursig[l] = "none" /\ l \notin destroy
  /\ IF RendezvousComplete(nrendezvoused)
       THEN /\ Goto(l, "destroy in rendezvous")
            /\ UNCHANGED <<pDestroy, nrendezvoused, rendezv, destroy, jobstop, cursig,
                           mishaps>>
       ELSE /\ cursig' = [cursig EXCEPT ![l] = "kill"] /\ PostDestroy(l, TRUE, "trap")
            /\ Note("own", AbortsOwn(l))
  /\ UNCHANGED <<list, sigjobstop, suspend, lSuspended, call, seen>>

KeepOwnRequest(l) == UNCHANGED rendezv  \* variant, without the others' too
(* One that does: all others are to rendezvous first, and a rendezvous     *)
(* that l itself was asked for is taken over.                              *)
TakeOver(l) == rendezv' = IF Nlwp > 1 THEN Others(l) ELSE rendezv
IssigCore(l) ==
  /\ At(l, "trap") /\ cursig[l] = "none" /\ l \notin destroy \union suspend /\ ~sigjobstop
  /\ IF RendezvousComplete(nrendezvoused)
       THEN /\ Goto(l, "destroy in rendezvous")
            /\ UNCHANGED <<pDestroy, rendezv, destroy, jobstop, cursig>>
       ELSE /\ cursig' = [cursig EXCEPT ![l] = "core"] /\ pDestroy' = TRUE
            /\ PostDestroyEvent(l) /\ TakeOver(l)
            /\ GoWaking(l, "trap", Doomed(l) \union IF l \in rendezv THEN Initiators ELSE {})
  /\ UNCHANGED <<list, sigjobstop, nrendezvoused, suspend, lSuspended, call, seen, mishaps>>

PsigKill(l) ==
  /\ At(l, "trap") /\ cursig[l] = "kill" /\ l \notin rendezv \union destroy
  /\ BeginCall(l, "exit") /\ Goto(l, "destroy")
  /\ UNCHANGED <<procVars, nrendezvoused, flagVars, cursig, seen, mishaps>>

(***************************************************************************)
(* destroy_proc(), from exit() and exec().                                 *)
(***************************************************************************)
Exit(l) ==
  /\ At(l, "user")
  /\ BeginCall(l, "exit") /\ Goto(l, "destroy")
  /\ UNCHANGED <<procVars, nrendezvoused, flagVars, cursig, seen, mishaps>>

Exec(l) ==
  /\ At(l, "user")
  /\ BeginCall(l, "exec") /\ Goto(l, "destroy")
  /\ UNCHANGED <<procVars, nrendezvoused, flagVars, cursig, seen, mishaps>>

(* A test without p_mutex, which reads p_nrendezvoused and then p_nlwp.    *)
DestroyRead(l) ==
  /\ At(l, "destroy")
  /\ seen' = [seen EXCEPT ![l] = nrendezvoused]
  /\ Goto(l, IF nrendezvoused = 0 THEN "dlock" ELSE "test")
  /\ UNCHANGED <<procVars, nrendezvoused, flagVars, cursig, call, mishaps>>

DestroyTest(l) ==
  /\ At(l, "test")
  /\ Goto(l, IF RendezvousComplete(seen[l]) THEN "destroy in rendezvous" ELSE "dlock")
  /\ Note("test", RendezvousComplete(seen[l]) /\ ~RendezvousComplete(nrendezvoused))
  /\ seen' = [seen EXCEPT ![l] = 0]
  /\ UNCHANGED <<procVars, nrendezvoused, flagVars, cursig, call>>

AnyDestroyer(l) == FALSE          \* variant: a second destroyer may succeed
BeingDestroyed(l) == l \in destroy /\ Nlwp > 1

DestroyLock(l) ==
  /\ At(l, "dlock")
  /\ IF BeingDestroyed(l)
       THEN /\ Goto(l, IF call[l] = "exit" THEN "lwpexit" ELSE "trap")
            /\ UNCHANGED <<pDestroy, nrendezvoused, rendezv, destroy, jobstop, mishaps>>
       ELSE IF pDestroy
       THEN /\ Goto(l, IF Nlwp = 1 THEN "dwoken" ELSE "dwait")
            /\ UNCHANGED <<pDestroy, nrendezvoused, rendezv, destroy, jobstop, mishaps>>
       ELSE IF RendezvousComplete(nrendezvoused)
       THEN /\ Goto(l, "destroy in rendezvous")
            /\ UNCHANGED <<pDestroy, nrendezvoused, rendezv, destroy, jobstop, mishaps>>
       ELSE /\ PostDestroy(l, call[l] = "exit", IF Nlwp = 1 THEN "dwoken" ELSE "dwait")
            /\ Note("own", call[l] = "exec" /\ AbortsOwn(l))  \* who exits takes its own
  /\ UNCHANGED <<list, sigjobstop, suspend, lSuspended, ownVars>>

(* l is gone, with all that was pending for it.                            *)
Leave(l) ==
  /\ list' = Others(l)
  /\ rendezv' = rendezv \ {l} /\ destroy' = destroy \ {l} /\ jobstop' = jobstop \ {l}
  /\ suspend' = suspend \ {l} /\ lSuspended' = lSuspended \ {l}
  /\ cursig' = [cursig EXCEPT ![l] = "none"] /\ BeginCall(l, "none")

(* Alone: the process ends, or goes on with a new image.                   *)
DestroyDone(l) ==
  /\ At(l, "dwoken")
  /\ IF Nlwp = 1 /\ call[l] = "exit"
       THEN Leave(l) /\ Goto(l, "none")
       ELSE /\ Goto(l, IF Nlwp = 1 THEN "trap" ELSE "early wakeup") /\ BeginCall(l, "none")
            /\ UNCHANGED <<list, flagVars, cursig>>
  /\ UNCHANGED <<pDestroy, sigjobstop, nrendezvoused, seen, mishaps>>

(***************************************************************************)
(* lwp_exit(), newlwp(), _lwp_suspend() and _lwp_continue().               *)
(***************************************************************************)

(* Off the list; for a forkall() that is as good as a rendezvous, and the  *)
(* last but one to leave tells who destroys the process.                   *)
LeaveList(l) ==
  IF Nlwp = 1
    THEN /\ destroy' = destroy \union {l} /\ BeginCall(l, "exit") /\ Goto(l, "destroy")
         /\ UNCHANGED <<list, rendezv, jobstop, suspend, lSuspended, cursig>>
    ELSE /\ Leave(l)
         /\ \E W1 \in IF l \in rendezv /\ nrendezvoused = Nlwp - 2
                          THEN OneOf(Initiators) ELSE {{}},
               W2 \in IF Nlwp = 2 THEN OneOf(AllAt("dwait")) ELSE {{}} :
              GoWaking(l, "none", W1 \union W2)

LwpExit(l) ==
  /\ \/ pc[l] \in {"user", "lwpexit"}
     \/ At(l, "trap") /\ l \in destroy \ rendezv
  /\ IF l \in rendezv /\ pDestroy     \* for a core image, of which l is to be part
       THEN /\ Rendezvous(l, "exrendezvoused") /\ destroy' = destroy \union {l}
            /\ UNCHANGED <<list, rendezv, jobstop, suspend, lSuspended, cursig, call>>
       ELSE LeaveList(l) /\ UNCHANGED nrendezvoused
  /\ UNCHANGED <<pDestroy, sigjobstop, seen, mishaps>>

LwpExitReleased(l) ==
  /\ At(l, "exreleased")
  /\ IF l \in rendezv
       THEN Goto(l, "improper release") /\ UNCHANGED <<list, flagVars, cursig, call>>
       ELSE LeaveList(l)
  /\ UNCHANGED <<pDestroy, sigjobstop, nrendezvoused, seen, mishaps>>

Inherit(S, l, n) == IF l \in S THEN S \union {n} ELSE S
InheritNoRequest(l, n) == UNCHANGED rendezv   \* variant: not RENDEZV
InheritRequest(l, n) == rendezv' = Inherit(rendezv, l, n)
NewLwp(l) ==
  /\ At(l, "user")
  /\ \E n \in Lwps \ list :
       /\ list' = list \union {n} /\ Goto(n, "trap")
       /\ InheritRequest(l, n) /\ destroy' = Inherit(destroy, l, n)
       /\ jobstop' = Inherit(jobstop, l, n) /\ lSuspended' = Inherit(lSuspended, l, n)
       /\ suspend' \in {suspend, suspend \union {n}}
  /\ UNCHANGED <<pDestroy, sigjobstop, nrendezvoused, ownVars, mishaps>>

LwpSuspend(l) ==
  /\ At(l, "user") /\ Nlwp > 1
  /\ \E m \in list \ (suspend \union lSuspended) : suspend' = suspend \union {m}
  /\ UNCHANGED <<procVars, nrendezvoused, rendezv, destroy, jobstop, lSuspended, ownVars, pc,
                 mishaps>>

LwpContinue(l) ==
  /\ At(l, "user")
  /\ \E m \in (suspend \union lSuspended) \ {l} :
       /\ IF m \in lSuspended /\ pc[m] \in Stopped THEN Goto(m, "trap") ELSE UNCHANGED pc
       /\ suspend' = suspend \ {m} /\ lSuspended' = lSuspended \ {m}
  /\ UNCHANGED <<procVars, nrendezvoused, rendezv, destroy, jobstop, ownVars, mishaps>>

(***************************************************************************)
Calls(l) == \/ Forkall(l) \/ Exit(l) \/ Exec(l) \/ NewLwp(l) \/ LwpSuspend(l) \/ LwpContinue(l)
            \/ (At(l, "user") /\ LwpExit(l))
Signals(l) == IssigKill(l) \/ IssigCore(l) \/ (~sigjobstop /\ IssigJobstop(l))
InKernel(l) == \/ ReturnToUser(l) \/ PsigRendezvous(l) \/ PsigReleased(l) \/ PsigKill(l)
               \/ IssigSuspend(l) \/ (sigjobstop /\ IssigJobstop(l))
               \/ Core(l) \/ RendezvousWoken(l) \/ Release(l)
               \/ DestroyRead(l) \/ DestroyTest(l) \/ DestroyLock(l) \/ DestroyDone(l)
               \/ (~At(l, "user") /\ LwpExit(l)) \/ LwpExitReleased(l)

Next == Sigcont \/ \E l \in Lwps : Trap(l) \/ Calls(l) \/ Signals(l) \/ InKernel(l)

Spec == Init /\ [][Next]_vars

(* An LWP that is in the kernel and not blocked goes on; one that is not   *)
(* is nudged when it gets a trap event.  What forkall() and core() do with *)
(* the process at rest ends.  Nothing is assumed of signals, of SIGCONT    *)
(* and of what the program calls.                                          *)
FairSpec == /\ Spec
            /\ \A l \in Lwps : WF_vars(InKernel(l) \/ (Pending(l) /\ Trap(l)))

(***************************************************************************)
(* Properties.                                                             *)
(***************************************************************************)

(* While an LWP has the process at rest, from a successful rendezvous() to *)
(* release_rendezvous(), all other LWPs are blocked in the rendezvous: the *)
(* ones that were created, exited, stopped or were suspended meanwhile     *)
(* too, and one that gives up for another that takes it over.              *)
StasisMeansStopped ==
  \A l \in list : At(l, "stasis") => Rendezvoused = Others(l)

(* p_nrendezvoused is the number of LWPs that are blocked in psig() and    *)
(* lwp_exit(), through aborts, releases and takeovers.                     *)
RendezvousedCount == nrendezvoused = Cardinality(Rendezvoused)

(* Of the conditions that the code panics on four never hold, whatever     *)
(* happens: a release of a partial rendezvous, an early wakeup of the LWP  *)
(* that destroys the process, core() that is refused its rendezvous, an    *)
(* LWP released in lwp_exit() but still requested.                         *)
OnlyDestroyMayPanic == \A l \in Lwps : pc[l] \notin Panics \ {"destroy in rendezvous"}

(* The fifth, destroy_proc() or a fatal signal in a complete rendezvous,   *)
(* has one of three causes and no other: core() gave up before its         *)
(* rendezvous, an LWP aborted a rendezvous that it was asked for itself,   *)
(* or destroy_proc() read two counts that never were together.             *)
PanicsHaveACause == (\E l \in Lwps : pc[l] \in Panics) => mishaps # {}

(* What the comment at the panic says: it is rendezvous() that holds the   *)
(* process, so core(), which has the process to itself, never meets it.    *)
CoreNeverPanics ==
  \A l \in Lwps : At(l, "destroy in rendezvous") => cursig[l] # "core"

(* An LWP that blocks in a rendezvous does so for one that waits for it,   *)
(* has the process at rest or is about to, or to write a core image.  What *)
(* keeps it is that nobody outlives with a request of its own the abort of *)
(* the rendezvous that it was made for.                                    *)
RendezvousIsForSomebody ==
  "own" \notin mishaps /\ Rendezvoused # {} =>
    \E l \in list : pc[l] \in {"rvwait", "rvwoken", "stasis"} \/ cursig[l] = "core"

(* Nobody waits in vain.  Who waits for a rendezvous waits for some that   *)
(* were asked and have not come, who waits to be alone for some that were  *)
(* told to go; and none of those is stopped or asleep, whatever stops,     *)
(* exits, new LWPs and other requests came in between; until an LWP aborts *)
(* what it is asked for, or core() gives up.                               *)
Halted(m) == pc[m] \in Sleeping \union Stopped
NobodyWaitsInVain == mishaps \subseteq {"test"} => \A l \in list :
  /\ At(l, "rvwait") => /\ Others(l) \ Rendezvoused # {}
                        /\ \A m \in Others(l) \ Rendezvoused : m \in rendezv /\ ~Halted(m)
  /\ At(l, "dwait") => Others(l) # {} /\ \A m \in Others(l) : m \in destroy /\ ~Halted(m)

(* One LWP at most waits for all others to be destroyed.                   *)
OneDestroyer == Cardinality({l \in list : pc[l] \in {"dwait", "dwoken"}}) <= 1

(* A suspended LWP is out of its user's code until it is continued, also   *)
(* when it was made to run for a rendezvous: unless one was aborted by an  *)
(* LWP that keeps its request, which then may rendezvous with nobody.      *)
SuspendedStaysOut == "own" \notin mishaps => \A l \in lSuspended : ~At(l, "user")

(* Whoever calls rendezvous() gets the process at rest or an answer, and a *)
(* process that is to end, by exit() or by a fatal signal, does; or one of *)
(* the three mishaps has happened, after which it may wait for ever.       *)
A == INSTANCE AbstractRendezvous WITH
       lwps <- list,
       running <- {l \in list : pc[l] \notin Sleeping \union Stopped},
       holders <- AllAt("stasis"),
       asking <- {l \in list : pc[l] \in {"rvwait", "rvwoken"}},
       doomed <- pDestroy,
       upset <- mishaps # {}
ImplementsRendezvous == A!FairSpec

(* Every exit() and exec() ends, with the caller the only LWP left or gone,*)
(* unless a mishap leaves an LWP blocked that it waits for.  There is one  *)
(* that waits at most, and nobody to follow it at once when it returns.    *)
DestroyReturns ==
  (\E l \in list : pc[l] \in {"dwait", "dwoken"})
    ~> ((\A l \in list : pc[l] \notin {"dwait", "dwoken"}) \/ mishaps # {})
=============================================================================
