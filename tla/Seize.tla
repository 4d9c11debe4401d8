------------------------------- MODULE Seize --------------------------------
(***************************************************************************)
(* Seizing a process (seize.c): an agent of the virtual memory system, an  *)
(* LWP outside of the process, takes all LWPs of the process off the       *)
(* processors with vm_seize() and lets them go with vm_unseize().  With it *)
(* go the parts of the dispatcher that see the seize flag (disp.c, ts.c),  *)
(* and the creation and the exit of LWPs, which change the number that the *)
(* barrier is waiting for.                                                 *)
(*                                                                         *)
(* A section under l_mutex is one step, except in vm_seize(), which finds  *)
(* an LWP runnable and then takes it off the run queue, while a processor  *)
(* may pick it.  Sections under p_mutex are several steps, because LWPs    *)
(* report to the seize, and post its event, without p_mutex.               *)
(***************************************************************************)
EXTENDS Integers, FiniteSets

CONSTANTS Lwps,      \* LWPs the process may have, one slot each
          FirstLwp,  \* the LWP the process starts with
          Agents,    \* the LWPs of the system that age and swap the process
          Nobody,
          Cpus       \* the processors that run the LWPs of the process

ASSUME SeizeAssumption ==
  /\ IsFiniteSet(Lwps) /\ FirstLwp \in Lwps
  /\ Lwps \cap Agents = {} /\ Nobody \notin Lwps \union Agents
  /\ Cpus \in Nat \ {0}

VARIABLES
  pMutex,       \* who holds p_mutex
  pLwpp,        \* the LWPs on the list of the process
  pNlwp, pNseized,
  pSeize, pNoSeize,  \* P_SEIZE and P_NOSEIZE in p_flag
  pSeized,      \* the event p_seized is posted
  lStat,        \* l_stat; "NONE": there is no such LWP
  trapSeize,    \* the LWPs with EVF_PL_SEIZE in l_trapevf
  runq,         \* the LWPs on a run queue
  posting,      \* how many processors are in swtch_seized, with the event still
                \* to post, since the last vm_seize began
  late,         \* and how many have been since before
  pc,
  todo,         \* in the loops of vm_seize and vm_unseize: the LWPs still to do
  cur,          \* the LWP whose l_mutex vm_seize holds while it dequeues it
  child,        \* child[l]: the LWP that l is creating
  misled        \* a history variable, which no action reads: the vm_seize that
                \* is under way or returned last is told that all is done when
                \* it need not be, by a post that is late or by a report that
                \* came between the two counts of a new LWP

countVars == <<pLwpp, pNlwp>>
flagVars == <<pSeize, pNoSeize>>
lwpVars == <<lStat, trapSeize, runq>>
postVars == <<posting, late, misled>>
loopVars == <<todo, cur>>
vars == <<pMutex, countVars, pNseized, flagVars, pSeized, lwpVars, postVars, pc,
          loopVars, child>>

Ctxs == Lwps \union Agents

TypeOK ==
  /\ pMutex \in Ctxs \union {Nobody} /\ pLwpp \subseteq Lwps
  /\ pNlwp \in 1 .. Cardinality(Lwps) /\ pNseized \in 0 .. Cardinality(Lwps)
  /\ pSeize \in BOOLEAN /\ pNoSeize \in BOOLEAN /\ pSeized \in BOOLEAN
  /\ lStat \in [Lwps -> {"NONE", "SIDL", "SRUN", "SONPROC", "SSLEEP"}]
  /\ trapSeize \subseteq Lwps /\ runq \subseteq Lwps
  /\ posting \in Nat /\ late \in Nat /\ misled \in BOOLEAN
  /\ pc \in [Ctxs -> {"run", "link", "fork", "leave", "honor", "relvm",
                      "idle", "flag", "dequeue", "wait", "blocked", "has", "unflag"}]
  /\ todo \subseteq Lwps /\ cur \in Lwps \union {Nobody}
  /\ child \in [Lwps -> Lwps \union {Nobody}]

Init ==
  /\ pMutex = Nobody /\ pLwpp = {FirstLwp} /\ pNlwp = 1 /\ pNseized = 0
  /\ pSeize = FALSE /\ pNoSeize = FALSE /\ pSeized = FALSE
  /\ lStat = [l \in Lwps |-> IF l = FirstLwp THEN "SONPROC" ELSE "NONE"]
  /\ trapSeize = {} /\ runq = {} /\ posting = 0 /\ late = 0 /\ misled = FALSE
  /\ pc = [c \in Ctxs |-> IF c \in Lwps THEN "run" ELSE "idle"]
  /\ todo = {} /\ cur = Nobody /\ child = [l \in Lwps |-> Nobody]

At(c, p) == pc[c] = p
Goto(c, p) == pc' = [pc EXCEPT ![c] = p]
SetStat(l, st) == lStat' = [lStat EXCEPT ![l] = st]
MutexFree(l) == cur # l
Running(l) == lStat[l] = "SONPROC"
Asking(s) == pc[s] \in {"flag", "dequeue", "wait", "blocked"}
Misled(how) == misled' = (misled \/ (how /\ \E s \in Agents : Asking(s)))

(***************************************************************************)
(* LWPs on and off the processors.                                         *)
(***************************************************************************)

(* EVENT_SIGNAL(p_seized): the agent that is blocked returns from          *)
(* vm_seize(), else the event stays posted.  All others go where pcs says. *)
SignalSeized(pcs) ==
  /\ pc' = [c \in Ctxs |-> IF At(c, "blocked") THEN "has" ELSE pcs[c]]
  /\ pSeized' = IF \E s \in Agents : At(s, "blocked") THEN pSeized ELSE TRUE

(* become_seized(): the caller holds its l_mutex, and not p_mutex.  When   *)
(* it is the last to report, its processor leaves it for swtch_seized().   *)
BecomeSeized ==
  /\ pNseized' = pNseized + 1
  /\ IF pNseized' = pNlwp
       THEN posting' = posting + 1 /\ Misled(\E m \in Lwps : At(m, "link"))
       ELSE UNCHANGED <<posting, misled>>
  /\ UNCHANGED <<runq, late>>

(* What is left in the LWP's place goes to the run queue, or nowhere, with *)
(* the flag set.                                                           *)
MakeRunnable(l) == runq' = IF l \in trapSeize THEN runq ELSE runq \union {l}

SwitchOut(l, st) ==
  /\ SetStat(l, st)
  /\ IF l \in trapSeize
       THEN BecomeSeized
       ELSE /\ IF st = "SRUN" THEN MakeRunnable(l) ELSE UNCHANGED runq
            /\ UNCHANGED <<pNseized, postVars>>

(* Preemption, which kpnudge() causes in vm_seize() and exit() by itself.  *)
Preempt(l) ==
  /\ Running(l) /\ MutexFree(l) /\ pMutex # l
  /\ SwitchOut(l, "SRUN")
  /\ pc' = IF At(l, "honor") THEN [pc EXCEPT ![l] = "relvm"] ELSE pc
  /\ UNCHANGED <<pMutex, countVars, flagVars, pSeized, trapSeize, loopVars, child>>

Block(l) ==
  /\ Running(l) /\ MutexFree(l) /\ pc[l] \in {"run", "relvm"}
  /\ SwitchOut(l, "SSLEEP")
  /\ UNCHANGED <<pMutex, countVars, flagVars, pSeized, trapSeize, pc, loopVars, child>>

Wakeup(l) ==
  /\ lStat[l] = "SSLEEP" /\ MutexFree(l)
  /\ SetStat(l, "SRUN") /\ MakeRunnable(l)
  /\ UNCHANGED <<pMutex, countVars, pNseized, flagVars, pSeized, trapSeize, postVars, pc,
                 loopVars, child>>

(* A free processor takes the LWP off its queue with the queue's lock      *)
(* alone; the LWP goes on when its l_mutex is free.                        *)
FreeCpu == Cardinality({l \in Lwps : Running(l)}) + posting + late < Cpus
Dispatch(l) ==
  /\ l \in runq /\ FreeCpu
  /\ runq' = runq \ {l} /\ SetStat(l, "SONPROC")
  /\ UNCHANGED <<pMutex, countVars, pNseized, flagVars, pSeized, trapSeize, postVars, pc,
                 loopVars, child>>

(* swtch_seized(): the post is made from the processor's private stack,    *)
(* after the l_mutex of the LWP was released, and with no lock at all.     *)
SwtchSeized ==
  /\ posting > 0
  /\ posting' = posting - 1 /\ SignalSeized(pc)
  /\ UNCHANGED <<pMutex, countVars, pNseized, flagVars, lwpVars, late, misled, loopVars,
                 child>>
SwtchSeizedLate ==
  /\ late > 0
  /\ late' = late - 1 /\ SignalSeized(pc) /\ Misled(TRUE)
  /\ UNCHANGED <<pMutex, countVars, pNseized, flagVars, lwpVars, posting, loopVars, child>>

(***************************************************************************)
(* LWPs that exit (lwp_exit, exit) and that are created (newlwp).          *)
(***************************************************************************)
Free(l) == Running(l) /\ MutexFree(l) /\ At(l, "run") /\ pMutex = Nobody

AnyLwp == TRUE         \* variant: the last LWP is not told apart
OtherLwps == pNlwp > 1

(* lwp_exit: off the list, one LWP less to wait for.                       *)
LeaveProcess(l) ==
  /\ Free(l) /\ OtherLwps
  /\ pMutex' = l /\ pLwpp' = pLwpp \ {l} /\ pNlwp' = pNlwp - 1
  /\ Goto(l, "leave")
  /\ UNCHANGED <<pNseized, flagVars, pSeized, lwpVars, postVars, loopVars, child>>

(* A seize that was waiting for this LWP only is complete.                 *)
ExitUnreported(l) == Goto(l, "run") /\ UNCHANGED pSeized   \* variant: nobody is told
ReportExit(l) ==
  IF l \in trapSeize /\ pNseized = pNlwp THEN SignalSeized([pc EXCEPT ![l] = "run"])
                                         ELSE Goto(l, "run") /\ UNCHANGED pSeized

Exit(l) ==
  /\ At(l, "leave")
  /\ ReportExit(l)
  /\ trapSeize' = trapSeize \ {l} /\ SetStat(l, "NONE") /\ pMutex' = Nobody
  /\ UNCHANGED <<countVars, pNseized, flagVars, runq, postVars, loopVars, child>>

(* The last LWP: no seize from here on, but one that is under way is       *)
(* honored before the address space is freed.                              *)
ExitProcess(l) ==
  /\ Free(l) /\ ~OtherLwps
  /\ pNoSeize' = TRUE
  /\ Goto(l, IF pSeize THEN "honor" ELSE "relvm")
  /\ UNCHANGED <<pMutex, countVars, pNseized, pSeize, pSeized, lwpVars, postVars, loopVars,
                 child>>

(* newlwp: the new LWP has the seize flag of its creator and counts as     *)
(* seized, then it is on the list; ts_fork makes it runnable.              *)
NewLwp(l) ==
  /\ Free(l)
  /\ \E n \in Lwps :
       /\ lStat[n] = "NONE" /\ ~At(n, "leave")
       /\ SetStat(n, "SIDL")
       /\ trapSeize' = IF l \in trapSeize THEN trapSeize \union {n} ELSE trapSeize
       /\ pNseized' = IF l \in trapSeize THEN pNseized + 1 ELSE pNseized
       /\ child' = [child EXCEPT ![l] = n]
  /\ pMutex' = l /\ Goto(l, "link")
  /\ UNCHANGED <<countVars, flagVars, pSeized, runq, postVars, loopVars>>

LinkLwp(l) ==
  /\ At(l, "link")
  /\ pLwpp' = pLwpp \union {child[l]} /\ pNlwp' = pNlwp + 1
  /\ pMutex' = Nobody /\ Goto(l, "fork")
  /\ UNCHANGED <<pNseized, flagVars, pSeized, lwpVars, postVars, loopVars, child>>

Fork(l) ==
  /\ At(l, "fork") /\ Running(l) /\ MutexFree(l) /\ MutexFree(child[l])
  /\ SetStat(child[l], "SRUN") /\ MakeRunnable(child[l])
  /\ child' = [child EXCEPT ![l] = Nobody] /\ Goto(l, "run")
  /\ UNCHANGED <<pMutex, countVars, pNseized, flagVars, pSeized, trapSeize, postVars,
                 loopVars>>

(***************************************************************************)
(* vm_seize.  Every caller has seen under p_mutex that the process is not  *)
(* seized and may be seized; a post that is left over is cleared.          *)
(***************************************************************************)
StaleSeized == UNCHANGED pSeized       \* variant: without EVENT_CLEAR
ClearSeized == pSeized' = FALSE

VmSeize(s) ==
  /\ At(s, "idle") /\ pMutex = Nobody /\ ~pSeize /\ ~pNoSeize
  /\ pMutex' = s /\ pSeize' = TRUE /\ ClearSeized
  /\ todo' = pLwpp /\ Goto(s, "flag")
  /\ late' = late + posting /\ posting' = 0 /\ misled' = FALSE
  /\ UNCHANGED <<countVars, pNseized, pNoSeize, lwpVars, cur, child>>

CountSeized == pNseized' = pNseized + 1

(* One LWP: a running one gets a nudge, one that is not is seized already, *)
(* and one that seemed runnable needs another look.                        *)
SeizeLwp(s) ==
  /\ At(s, "flag")
  /\ \E l \in todo :
       /\ trapSeize' = trapSeize \union {l}
       /\ IF lStat[l] = "SRUN"
            THEN cur' = l /\ Goto(s, "dequeue") /\ UNCHANGED <<todo, pNseized>>
            ELSE /\ todo' = todo \ {l}
                 /\ IF Running(l) THEN UNCHANGED pNseized ELSE CountSeized
                 /\ UNCHANGED <<cur, pc>>
  /\ UNCHANGED <<pMutex, countVars, flagVars, pSeized, lStat, runq, postVars, child>>

(* With the queue locked: a processor may have won the race for it.        *)
DequeueUnchecked(s) ==      \* variant: the state is not looked at again
  /\ At(s, "dequeue")
  /\ runq' = runq \ {cur} /\ CountSeized
  /\ todo' = todo \ {cur} /\ cur' = Nobody /\ Goto(s, "flag")
  /\ UNCHANGED <<pMutex, countVars, flagVars, pSeized, lStat, trapSeize, postVars, child>>
Dequeue(s) ==
  /\ At(s, "dequeue")
  /\ IF Running(cur) THEN UNCHANGED <<runq, pNseized>>
                     ELSE runq' = runq \ {cur} /\ CountSeized
  /\ todo' = todo \ {cur} /\ cur' = Nobody /\ Goto(s, "flag")
  /\ UNCHANGED <<pMutex, countVars, flagVars, pSeized, lStat, trapSeize, postVars, child>>

(* The optimistic test, with p_mutex but without p_seize_mutex.            *)
OptimisticTest(s) ==
  /\ At(s, "flag") /\ todo = {}
  /\ Goto(s, IF pNseized = pNlwp THEN "has" ELSE "wait")
  /\ misled' = (misled /\ pNseized # pNlwp)          \* it has seen for itself
  /\ pMutex' = Nobody
  /\ UNCHANGED <<countVars, pNseized, flagVars, pSeized, lwpVars, posting, late, loopVars,
                 child>>

EventWait(s) ==
  /\ At(s, "wait")
  /\ Goto(s, IF pSeized THEN "has" ELSE "blocked") /\ pSeized' = FALSE
  /\ UNCHANGED <<pMutex, countVars, pNseized, flagVars, lwpVars, postVars, loopVars, child>>

(***************************************************************************)
(* vm_unseize, by an agent: nobody else waits for the process.             *)
(***************************************************************************)
VmUnseize(s) ==
  /\ At(s, "has") /\ pMutex = Nobody
  /\ pMutex' = s /\ todo' = pLwpp /\ Goto(s, "unflag")
  /\ UNCHANGED <<countVars, pNseized, flagVars, pSeized, lwpVars, postVars, cur, child>>

ReleaseUnqueued(l) == UNCHANGED runq     \* variant: setrun is forgotten
ReleaseLwp(l) == IF lStat[l] = "SRUN" THEN runq' = runq \union {l} ELSE UNCHANGED runq

UnseizeLwp(s) ==
  /\ At(s, "unflag")
  /\ \E l \in todo :
       /\ trapSeize' = trapSeize \ {l} /\ ReleaseLwp(l)
       /\ todo' = todo \ {l}
  /\ UNCHANGED <<pMutex, countVars, pNseized, flagVars, pSeized, lStat, postVars, pc, cur,
                 child>>

KeepSeized == UNCHANGED pNseized       \* variant: p_nseized is left as it is
ZeroSeized == pNseized' = 0

EndUnseize(s) ==
  /\ At(s, "unflag") /\ todo = {}
  /\ pSeize' = FALSE /\ ZeroSeized /\ pMutex' = Nobody /\ Goto(s, "idle")
  /\ UNCHANGED <<countVars, pNoSeize, pSeized, lwpVars, postVars, loopVars, child>>

(***************************************************************************)
LwpCode(l) == LeaveProcess(l) \/ Exit(l) \/ ExitProcess(l) \/ NewLwp(l) \/ LinkLwp(l) \/ Fork(l)
Scheduling(l) == Preempt(l) \/ Block(l) \/ Wakeup(l) \/ Dispatch(l)
Posting == SwtchSeized \/ SwtchSeizedLate
Seizing(s) == VmSeize(s) \/ SeizeLwp(s) \/ Dequeue(s) \/ OptimisticTest(s) \/ EventWait(s)
Unseizing(s) == VmUnseize(s) \/ UnseizeLwp(s) \/ EndUnseize(s)

Next == \/ \E l \in Lwps : LwpCode(l) \/ Scheduling(l)
        \/ Posting
        \/ \E s \in Agents : Seizing(s) \/ Unseizing(s)

Spec == Init /\ [][Next]_vars

(* What has begun under a spin lock ends, a processor that has to post or  *)
(* to reschedule does, and an agent in vm_seize() goes on: whenever there  *)
(* is any of that to do, some of it is done.  Nothing is assumed of what   *)
(* else an LWP does, nor of an agent that has the process: it may swap it  *)
(* out and keep it so.                                                     *)
Urgent ==
  \/ Posting
  \/ \E l \in Lwps : Exit(l) \/ LinkLwp(l) \/ (l \in trapSeize /\ Preempt(l))
  \/ \E s \in Agents : \/ SeizeLwp(s) \/ Dequeue(s) \/ OptimisticTest(s) \/ EventWait(s)
                       \/ UnseizeLwp(s) \/ EndUnseize(s)

FairSpec == Spec /\ WF_vars(Urgent)

(***************************************************************************)
(* Properties.                                                             *)
(***************************************************************************)

(* An agent that has returned from vm_seize() has all LWPs of the process  *)
(* off the processors and off the run queues, the ones that were created,  *)
(* exited, were dispatched or woken up meanwhile too, until it calls       *)
(* vm_unseize(); so no LWP frees or uses the address space it works on.    *)
(* What the code does not prevent, an agent that is woken by a late post   *)
(* or by a report between the two counts of newlwp(), is the only way out  *)
(* of it: and not for an agent that has seen the counts for itself.        *)
SeizedMeansStopped ==
  \A s \in Agents : At(s, "has") /\ ~misled => \A l \in pLwpp : ~Running(l) /\ l \notin runq

(* p_nseized is the number of LWPs that have the flag and are off the      *)
(* processors, each counted once, whether vm_seize(), the LWP itself or    *)
(* its creator did it, and through reports that race with exits.           *)
SeizedCount ==
  (\A s \in Agents : ~At(s, "unflag"))
    => pNseized = Cardinality({l \in trapSeize : ~Running(l) /\ l # cur})

(* No LWP is left behind when the process is released: a runnable one      *)
(* without the flag is on a run queue, one with it is on none, and nobody  *)
(* has the flag of a seize that is over.                                   *)
NobodyLeftBehind ==
  /\ \A l \in Lwps : l \in runq <=> lStat[l] = "SRUN" /\ (l \notin trapSeize \/ l = cur)
  /\ trapSeize # {} => pSeize

(* No report is lost: when an agent waits for a barrier that is complete,  *)
(* its event is posted, or a processor or an LWP that exits is about to    *)
(* post it, however the reports race with exits and with new LWPs; a post  *)
(* that is late is not needed for that.                                    *)
ReportComes(s) == \/ posting > 0 \/ (At(s, "wait") /\ pSeized)
                  \/ \E l \in trapSeize : At(l, "leave")
NoReportLost ==
  pNseized = pNlwp /\ (\A l \in Lwps : ~At(l, "link"))
    => \A s \in Agents : At(s, "wait") \/ At(s, "blocked") => ReportComes(s)

(* Every vm_seize() returns, and unless it is misled it does with the      *)
(* process stopped, which stays so until vm_unseize().                     *)
A == INSTANCE AbstractSeize WITH
       running <- {l \in pLwpp : Running(l)},
       seizer <- IF \E s \in Agents : At(s, "has")
                   THEN CHOOSE s \in Agents : At(s, "has") ELSE Nobody,
       asking <- {s \in Agents : Asking(s)}
ImplementsSeize == A!FairSpec
=============================================================================
