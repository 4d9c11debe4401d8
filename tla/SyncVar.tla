------------------------------ MODULE SyncVar -------------------------------
(***************************************************************************)
(* The synchronization variable of the kernel (sv.c): sv_wait and          *)
(* sv_wait_sig, called with an entry lock that they release, sv_signal,    *)
(* sv_broadcast and sv_unsleep, with the LWPs that wait, the contexts that *)
(* signal, and the posters of Unix signals.                                *)
(*                                                                         *)
(* sv_list is only looked at under sv_lock and sv_lock is held for one     *)
(* short section at a time, so each section is one step.                   *)
(***************************************************************************)
EXTENDS ProcState, FiniteSets

CONSTANTS Ops,       \* the entry points in use
          MaxSigs    \* bound: signals posted from outside

ASSUME SvAssumption == Ops \subseteq {"wait", "wait_sig"} /\ MaxSigs \in Nat

VARIABLES
  svList,    \* the sleep queue of the sv_t
  lkp,       \* the entry lock
  pc, op, ret,
  tgt,       \* tgt[c]: the LWP c posts a signal to
  chain,     \* chain[c]: the LWPs c has dequeued and has to wake
  sigs

callVars == <<op, ret>>
vars == <<lwpVars, procVars, callVars, svList, lkp, pc, tgt, chain, sigs>>

TypeOK ==
  /\ LwpTypeOK
  /\ svList \in Seq(Lwps) /\ lkp \in Lwps \union {Nobody}
  /\ niblked \in [Procs -> Nat] /\ waitsig \in [Lwps -> BOOLEAN]
  /\ pc \in [Ctxs -> {"idle", "mutex", "count", "sigtoproc", "recheck", "issig",
                      "unlock", "enq", "sleep", "asleep", "issig2", "unsleep", "wake"}]
  /\ op \in [Lwps -> {"wait", "wait_sig"}] /\ ret \in [Lwps -> BOOLEAN]
  /\ tgt \in [Ctxs -> Lwps \union {Nobody}] /\ chain \in [Ctxs -> Seq(Lwps)]
  /\ sigs \in Nat

Init ==
  /\ LwpInit
  /\ svList = <<>> /\ lkp = Nobody
  /\ niblked = [p \in Procs |-> 0] /\ waitsig = [l \in Lwps |-> FALSE]
  /\ pc = [c \in Ctxs |-> "idle"] /\ op = [l \in Lwps |-> "wait"]
  /\ ret = [l \in Lwps |-> TRUE] /\ tgt = [c \in Ctxs |-> Nobody]
  /\ chain = [c \in Ctxs |-> <<>>] /\ sigs = 0

At(c, p) == pc[c] = p
Goto(c, p) == pc' = [pc EXCEPT ![c] = p]
Return(l, r) == Goto(l, "idle") /\ ret' = [ret EXCEPT ![l] = r] /\ UNCHANGED op
LwpsOf(p) == {l \in Lwps : Proc[l] = p}

(***************************************************************************)
(* sv_wait and sv_wait_sig.  The caller holds its entry lock.              *)
(***************************************************************************)
Call(l) ==
  /\ At(l, "idle") /\ lkp = Nobody
  /\ \E o \in Ops : op' = [op EXCEPT ![l] = o]
  /\ lkp' = l
  /\ Goto(l, "mutex")
  /\ UNCHANGED <<lwpVars, procVars, svList, ret, tgt, chain, sigs>>

(* With a signal pending, sv_wait_sig gives up both locks and sees to it.  *)
SignalUnseen(l) == FALSE      \* variant: the test is left out
SignalSeen(l) == op[l] = "wait_sig" /\ trapevf[l]

Mutex(l) ==
  /\ At(l, "mutex") /\ MutexFree(l)
  /\ IF SignalSeen(l)
       THEN Goto(l, "issig") /\ lkp' = Nobody /\ UNCHANGED lMutex
       ELSE /\ Goto(l, IF op[l] = "wait_sig" THEN "count" ELSE "enq")
            /\ LockMutex(l, l) /\ UNCHANGED lkp
  /\ UNCHANGED <<lStat, lFlag, trapevf, procVars, callVars, svList, tgt, chain, sigs>>

(* The last LWP of its process to block sends SIGWAITING instead, without  *)
(* the locks, and returns for its caller to look at the condition again.   *)
Count(l) ==
  /\ At(l, "count")
  /\ IF LastToBlock(l, Cardinality(LwpsOf(Proc[l]))) /\ ~WaitingPending(Proc[l])
       THEN /\ UnlockMutex(l) /\ lkp' = Nobody /\ Goto(l, "sigtoproc")
            /\ UNCHANGED niblked
       ELSE CountBlocked(l, 1) /\ Goto(l, "enq") /\ UNCHANGED <<lMutex, lkp>>
  /\ UNCHANGED <<lStat, lFlag, trapevf, waitsig, callVars, svList, tgt, chain, sigs>>

(* Whom c is taking off the queue.                                         *)
Target(c, t) == tgt' = [tgt EXCEPT ![c] = IF Interruptible(t) THEN t ELSE Nobody]

SendWaiting(l) ==
  /\ At(l, "sigtoproc")
  /\ IF WaitingPending(Proc[l])
       THEN Goto(l, "recheck") /\ UNCHANGED <<lwpVars, waitsig, tgt>>
       ELSE \E t \in LwpsOf(Proc[l]) :
              /\ PostWaiting(t, l)
              /\ Target(l, t)
              /\ Goto(l, IF Interruptible(t) THEN "unsleep" ELSE "recheck")
  /\ UNCHANGED <<niblked, callVars, svList, lkp, chain, sigs>>

RecheckSignal(l) ==
  /\ At(l, "recheck")
  /\ IF trapevf[l] THEN Goto(l, "issig") /\ UNCHANGED callVars ELSE Return(l, TRUE)
  /\ UNCHANGED <<lwpVars, procVars, svList, lkp, tgt, chain, sigs>>

(* Both calls of issig(), sv_wait_issig and the one after a sleep that a   *)
(* signal ended.  Whatever is not a signal to handle is B_TRUE: "clients   *)
(* are expected to handle premature wakeups".                              *)
IssigReturn(l) ==
  /\ pc[l] \in {"issig", "issig2"}
  /\ \E r \in IssigReturns :
       /\ TakeIssig(l, r)
       /\ IF r = "ISSIG_NONE" THEN Goto(l, "unlock") /\ UNCHANGED callVars
                             ELSE Return(l, r = "ISSIG_STOPPED")
  /\ lFlag' = [lFlag EXCEPT ![l] = IF At(l, "issig2") THEN @ \ {"L_SIGWOKE"} ELSE @]
  /\ UNCHANGED <<lStat, niblked, svList, lkp, tgt, chain, sigs>>

IssigNone(l) ==
  /\ At(l, "unlock") /\ UnlockMutex(l) /\ Return(l, TRUE)
  /\ UNCHANGED <<lStat, lFlag, trapevf, procVars, svList, lkp, tgt, chain, sigs>>

(* First onto the queue, in FIFO order, then the entry lock is released:   *)
(* who signals with the entry lock held finds the caller queued.           *)
Enqueue(l) ==
  /\ At(l, "enq")
  /\ svList' = Append(svList, l)
  /\ Goto(l, "sleep")
  /\ UNCHANGED <<lwpVars, procVars, callVars, lkp, tgt, chain, sigs>>

Sleep(l) ==
  /\ At(l, "sleep") /\ Block(l, op[l] = "wait", {"L_SIGWOKE"})
  /\ lkp' = Nobody /\ Goto(l, "asleep")
  /\ UNCHANGED <<procVars, callVars, svList, tgt, chain, sigs>>

(* swtch() returns.                                                        *)
UncountAny(l) == CountAwake(l)      \* variant: counted in or not
Uncount(l) == IF op[l] = "wait_sig" THEN CountAwake(l) ELSE UNCHANGED niblked

WakeUp(l) ==
  /\ At(l, "asleep") /\ Resume(l) /\ Uncount(l)
  /\ IF op[l] = "wait_sig" /\ "L_SIGWOKE" \in lFlag[l]
       THEN Goto(l, "issig2") /\ UNCHANGED callVars
       ELSE Return(l, TRUE)
  /\ UNCHANGED <<waitsig, svList, lkp, tgt, chain, sigs>>

(***************************************************************************)
(* sv_signal and sv_broadcast, with or without the entry lock: the first   *)
(* LWP, or all of them, leave the queue; an empty one stays as it is.      *)
(***************************************************************************)
sv_signal(c) ==
  /\ At(c, "idle") /\ svList # <<>>
  /\ chain' = [chain EXCEPT ![c] = <<Head(svList)>>] /\ svList' = Tail(svList)
  /\ Goto(c, "wake")
  /\ UNCHANGED <<lwpVars, procVars, callVars, lkp, tgt, sigs>>

sv_broadcast(c) ==
  /\ At(c, "idle") /\ svList # <<>>
  /\ chain' = [chain EXCEPT ![c] = svList] /\ svList' = <<>>
  /\ Goto(c, "wake")
  /\ UNCHANGED <<lwpVars, procVars, callVars, lkp, tgt, sigs>>

(* l_flink is read before the LWP is made runnable.                        *)
RestOfChain(c) == Tail(chain[c])

WakeChain(c) ==
  /\ At(c, "wake") /\ Wakeup(Head(chain[c]))
  /\ chain' = [chain EXCEPT ![c] = RestOfChain(c)]
  /\ Goto(c, IF RestOfChain(c) = <<>> THEN "idle" ELSE "wake")
  /\ UNCHANGED <<procVars, callVars, svList, lkp, tgt, sigs>>

(***************************************************************************)
(* Signals from outside: setrun() and sv_unsleep.                          *)
(***************************************************************************)
Post(c, t) ==
  /\ c \in Intrs /\ At(c, "idle") /\ sigs < MaxSigs
  /\ PostSignal(t, c)
  /\ sigs' = sigs + 1 /\ Target(c, t)
  /\ Goto(c, IF Interruptible(t) THEN "unsleep" ELSE "idle")
  /\ UNCHANGED <<procVars, callVars, svList, lkp, chain>>

Unsleep(c) ==
  /\ At(c, "unsleep")
  /\ FinishNudge(tgt[c], Contains(svList, tgt[c]))
  /\ svList' = slpdeque(svList, tgt[c])
  /\ Goto(c, IF c \in Lwps THEN "recheck" ELSE "idle")
  /\ tgt' = [tgt EXCEPT ![c] = Nobody]
  /\ UNCHANGED <<procVars, callVars, lkp, chain, sigs>>

(***************************************************************************)
(* The system.  To call, to signal and to post are choices; whatever has   *)
(* begun goes on.                                                          *)
(***************************************************************************)
Waiting(l) ==
  \/ Mutex(l) \/ Count(l) \/ SendWaiting(l) \/ RecheckSignal(l) \/ IssigReturn(l)
  \/ IssigNone(l) \/ Enqueue(l) \/ Sleep(l) \/ WakeUp(l)

Step(c) == WakeChain(c) \/ Unsleep(c) \/ (c \in Lwps /\ Waiting(c))

Choice ==
  \/ \E l \in Lwps : Call(l)
  \/ \E c \in Ctxs : sv_signal(c) \/ sv_broadcast(c)
                     \/ \E t \in Lwps : Post(c, t)

Next == (\E c \in Ctxs : Step(c)) \/ Choice

Spec == Init /\ [][Next]_vars
FairSpec == Spec /\ \A c \in Ctxs : WF_vars(Step(c))

(***************************************************************************)
(* Properties.                                                             *)
(***************************************************************************)
InChain(l) == \E c \in Ctxs : Contains(chain[c], l)
Gone(l) == pc[l] \in {"sleep", "asleep"} /\ ~Contains(svList, l)
(* A poster took l off the queue, no signaller did.                        *)
Interrupted(l) == Gone(l) /\ ~InChain(l) /\ "L_SIGWOKE" \in lFlag[l]

(* p_niblked is the number of LWPs that are blocked interruptibly, or      *)
(* about to be: nothing stays in it whatever way a wait ends.              *)
NiblkedBalanced ==
  \A p \in Procs : niblked[p] =
    Cardinality({l \in LwpsOf(p) : /\ op[l] = "wait_sig"
                                   /\ pc[l] \in {"enq", "sleep", "asleep"}})

(* An interruptible sleeper has no signal pending that nobody is telling   *)
(* it: sv_wait_sig tests for signals under the lock that posters take.     *)
SleeperHearsSignals ==
  \A l \in Lwps : (Interruptible(l) /\ Contains(svList, l) /\ trapevf[l])
                  => \E c \in Ctxs : At(c, "unsleep") /\ tgt[c] = l

(* It implements the abstract synchronization variable.                    *)
A == INSTANCE AbstractCondVar WITH
       entry <- lkp,
       active <- {l \in Lwps : pc[l] \notin {"idle", "wake"}},
       waiting <- {l \in Lwps : Contains(svList, l)},
       woken <- {l \in Lwps : Gone(l) /\ ~Interrupted(l)}
ImplementsCondVar == A!FairSpec
=============================================================================
