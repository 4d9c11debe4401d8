------------------------------ MODULE LwpState ------------------------------
(***************************************************************************)
(* The part of an LWP that the kernel synchronization primitives share:    *)
(* its state lock l_mutex, its dispatcher state l_stat, the flags L_NWAKE  *)
(* and L_SIGWOKE, and the pending trap event (QUEUEDSIG).  The primitives  *)
(* change it in four ways only: an LWP blocks itself and switches out, a   *)
(* waker makes it runnable, a signal poster nudges it, and the dispatcher  *)
(* resumes it.  Modules for the primitives EXTEND this one and use these   *)
(* operators inside their own actions.                                     *)
(***************************************************************************)
EXTENDS Integers, SequencesExt

CONSTANTS Lwps,     \* the LWPs that call the primitives
          Intrs,    \* other contexts: interrupt handlers, signal posters
          Nobody    \* the value of a free spin lock

Ctxs == Lwps \union Intrs

ASSUME LwpAssumption ==
  Lwps \intersect Intrs = {} /\ Nobody \notin Ctxs /\ IsFiniteSet(Lwps)

VARIABLES lMutex,   \* lMutex[l]: the context that holds l's l_mutex
          lStat,    \* lStat[l]: l_stat
          lFlag,    \* lFlag[l]: the subset of {L_NWAKE, L_SIGWOKE} in l_flag
          trapevf   \* trapevf[l]: QUEUEDSIG(l), a signal is pending for l

lwpVars == <<lMutex, lStat, lFlag, trapevf>>

LwpTypeOK ==
  /\ lMutex \in [Lwps -> Ctxs \union {Nobody}]
  /\ lStat \in [Lwps -> {"SONPROC", "SSLEEP", "SRUN"}]
  /\ lFlag \in [Lwps -> SUBSET {"L_NWAKE", "L_SIGWOKE"}]
  /\ trapevf \in [Lwps -> BOOLEAN]

LwpInit ==
  /\ lMutex = [l \in Lwps |-> Nobody]
  /\ lStat = [l \in Lwps |-> "SONPROC"]
  /\ lFlag = [l \in Lwps |-> {}]
  /\ trapevf = [l \in Lwps |-> FALSE]

MutexFree(l) == lMutex[l] = Nobody

LockMutex(l, c) == MutexFree(l) /\ lMutex' = [lMutex EXCEPT ![l] = c]

(* UNLOCK stores "free" whether or not the caller is the holder.           *)
UnlockMutex(l) == lMutex' = [lMutex EXCEPT ![l] = Nobody]

(* The caller, which has queued itself and holds its l_mutex, goes to      *)
(* SSLEEP and calls swtch(), which releases l_mutex once the context is    *)
(* saved.  L_NWAKE bars signals from waking it; an interruptible sleep     *)
(* clears that flag and the ones in `clear`.                               *)
Block(l, nwake, clear) ==
  /\ lStat' = [lStat EXCEPT ![l] = "SSLEEP"]
  /\ lFlag' = [lFlag EXCEPT ![l] = IF nwake THEN @ \union {"L_NWAKE"}
                                            ELSE (@ \ {"L_NWAKE"}) \ clear]
  /\ UnlockMutex(l)
  /\ UNCHANGED trapevf

(* LWP_WAKEUP under l_mutex: LOCK(l_mutex), the macro, UNLOCK.             *)
WakeupKeepingSigwoke(l) ==     \* variant: L_SIGWOKE is left set
  /\ MutexFree(l)
  /\ lStat' = [lStat EXCEPT ![l] = "SRUN"]
  /\ UNCHANGED <<lFlag, lMutex, trapevf>>
Wakeup(l) ==
  /\ MutexFree(l)
  /\ lStat' = [lStat EXCEPT ![l] = "SRUN"]
  /\ lFlag' = [lFlag EXCEPT ![l] = @ \ {"L_SIGWOKE"}]
  /\ UNCHANGED <<lMutex, trapevf>>

(* The dispatcher switches onto l; it needs l's l_mutex to do so, and      *)
(* swtch() returns in l without it.                                        *)
Resume(l) ==
  /\ lStat[l] = "SRUN" /\ MutexFree(l)
  /\ lStat' = [lStat EXCEPT ![l] = "SONPROC"]
  /\ UNCHANGED <<lMutex, lFlag, trapevf>>

Interruptible(l) == lStat[l] = "SSLEEP" /\ "L_NWAKE" \notin lFlag[l]

(* SIGNUDGE, first half: c takes t's l_mutex, posts EVF_PL_SIG and looks   *)
(* at l_stat.  Only an interruptible sleeper needs more: it is marked      *)
(* L_SIGWOKE and c keeps l_mutex while it takes it off its sleep queue.    *)
PostSignal(t, c) ==
  /\ MutexFree(t)
  /\ trapevf' = [trapevf EXCEPT ![t] = TRUE]
  /\ IF Interruptible(t)
       THEN /\ LockMutex(t, c)
            /\ lFlag' = [lFlag EXCEPT ![t] = @ \union {"L_SIGWOKE"}]
       ELSE UNCHANGED <<lMutex, lFlag>>
  /\ UNCHANGED lStat

(* What a count kept for each LWP counts, one by one.  An empty interval   *)
(* stands for a negative count.                                            *)
Units(n) == UNION {{l} \X (1 .. n[l]) : l \in DOMAIN n}

(* Takes l off a sleep queue, if it is on it.                              *)
slpdeque(q, l) ==
  IF Contains(q, l) THEN RemoveAt(q, CHOOSE i \in 1 .. Len(q) : q[i] = l) ELSE q

(* SIGNUDGE, second half: setrun() after the primitive's unsleep routine.  *)
(* If the LWP was no longer queued the poster lost the race to a normal    *)
(* wakeup and leaves it to the waker.                                      *)
FinishNudgeAlways(t, dequeued) ==     \* variant: runs it whoever dequeued it
  /\ lStat' = [lStat EXCEPT ![t] = "SRUN"]
  /\ UnlockMutex(t)
  /\ UNCHANGED <<lFlag, trapevf>>
FinishNudge(t, dequeued) ==
  /\ lStat' = [lStat EXCEPT ![t] = IF dequeued THEN "SRUN" ELSE @]
  /\ UnlockMutex(t)
  /\ UNCHANGED <<lFlag, trapevf>>

(* issig(NULL) called by l, with the return value r.  ISSIG_NONE comes     *)
(* back with l_mutex held; the other two hold nothing.  A signal that was  *)
(* cancelled, or that stopped the LWP until it was continued, is no longer *)
(* pending; one that is to be handled is consumed on the way to user mode, *)
(* which every caller that gets ISSIG_SIGNALLED takes.                     *)
IssigReturns == {"ISSIG_NONE", "ISSIG_SIGNALLED", "ISSIG_STOPPED"}
Issig(l, r) ==
  /\ MutexFree(l)
  /\ trapevf' = [trapevf EXCEPT ![l] = FALSE]
  /\ lMutex' = [lMutex EXCEPT ![l] = IF r = "ISSIG_NONE" THEN l ELSE @]
=============================================================================
