------------------------------ MODULE ProcState -----------------------------
(***************************************************************************)
(* What the interruptible primitives (sleep_lock_sig, sv_wait_sig,         *)
(* EVENT_WAIT_SIG) share beyond the state of an LWP: the number of LWPs of *)
(* a process that block interruptibly, p_niblked, and SIGWAITING, which    *)
(* the last one to block sends so that the threads library can supply      *)
(* another LWP.                                                            *)
(***************************************************************************)
EXTENDS LwpState

CONSTANTS Proc,      \* Proc[l]: the process of LWP l
          WaitProcs  \* processes with p_sigwait that catch SIGWAITING

Procs == {Proc[l] : l \in Lwps}

VARIABLES niblked,  \* niblked[p]: p_niblked, LWPs of p that block interruptibly
          waitsig   \* waitsig[l]: SIGWAITING is pending, with l to take it

procVars == <<niblked, waitsig>>

CountBlocked(l, n) == niblked' = [niblked EXCEPT ![Proc[l]] = @ + n]

CountAwakeUnlessSignalled(l) ==      \* variant: forgotten on the signal path
  IF "L_SIGWOKE" \in lFlag[l] THEN UNCHANGED niblked ELSE CountBlocked(l, -1)
CountAwake(l) == CountBlocked(l, -1)

(* SIGWAITING in p_sigs.                                                   *)
WaitingPending(p) == \E m \in Lwps : Proc[m] = p /\ waitsig[m]

(* l is the last of the nlwp LWPs of its process to block, and the process *)
(* wants to know.                                                          *)
LastToBlock(l, nlwp) ==
  niblked[Proc[l]] + 1 >= nlwp /\ Proc[l] \in WaitProcs

PostWaiting(t, c) ==
  PostSignal(t, c) /\ waitsig' = [waitsig EXCEPT ![t] = TRUE]

(* issig() of an LWP that may have a SIGWAITING to take, which is caught.  *)
TakeIssig(l, r) ==
  /\ waitsig[l] => r = "ISSIG_SIGNALLED"
  /\ Issig(l, r)
  /\ waitsig' = [waitsig EXCEPT ![l] = FALSE]
=============================================================================
