------------------------------ MODULE SleepLock ------------------------------
(***************************************************************************)
(* The sleep lock of the kernel (sleep.c): sleep_lock, sleep_lock_rellock, *)
(* sleep_lock_sig, sleep_trylock, sleep_lock_private, SLEEP_DISOWN and     *)
(* sleep_unlock, with the LWPs that call them, the interrupt contexts that *)
(* unlock a disowned lock, and the posters of signals.                     *)
(*                                                                         *)
(* A step is what one context does between two points where another one    *)
(* can see or change what it works on.  sl_avail && sleep_take() is an     *)
(* exchange, hence one step.  An ASSERT is part of the step it stands in.  *)
(* A false one is noted and the step goes on, as the kernel does that is   *)
(* built without DEBUG; the DEBUG kernel panics there.                     *)
(***************************************************************************)
EXTENDS ProcState

CONSTANTS Ops,       \* the entry points the LWPs use
          MaxCalls,  \* bound: calls the LWPs make
          MaxSigs,   \* bound: signals posted from outside
          NOPID, SL_BUSY

ASSUME SleepAssumption ==
  /\ NOPID \notin Ctxs /\ SL_BUSY \notin Ctxs /\ NOPID # SL_BUSY
  /\ Ops \subseteq {"lock", "rellock", "lock_sig", "trylock", "private", "disown",
                  "exit"}
  /\ MaxCalls \in Nat /\ MaxSigs \in Nat

VARIABLES
  slAvail, slFspin, slList, slPend, slFixpend, slPid,   \* the sleep_t
  lkp,       \* the basic lock that callers of sleep_lock_rellock hold
  disowned,  \* held, but by no context (SLEEP_DISOWN, sleep_lock_private)
  pc, op, nsleeps, tgt,
  chain,     \* chain[c]: the wakeup_chain c is walking
  calls, sigs, \* calls and signals so far
  failed,    \* the ASSERTs that were false
  recounted, \* recounted[p]: retries in p that went to acquire without l_mutex
  wild       \* an LWP was made runnable while it ran: anything may follow

lockVars == <<slAvail, slFspin, slList, slPend, slFixpend, slPid>>
callVars == <<op, nsleeps, calls>>
noteVars == <<failed, recounted, wild>>
vars == <<lwpVars, lockVars, procVars, callVars, lkp, disowned, pc, tgt, chain,
          sigs, noteVars>>

Acquiring == {"f_start", "f_take", "w_take", "w_mutex", "w_relk", "t_take",
              "s_again", "s_lock", "s_issig", "s_issig2", "s_relock",
              "s_acquire", "s_take", "s_fixlk", "s_fixadd", "s_sigtoproc",
              "n_unsleep", "q_fspin", "q_retry", "q_enq", "q_sleep", "q_asleep"}
Acquired == {"f_pid", "g_fold", "g_pid", "hold"}
Releasing == {"u_list", "u_avail", "d_fspin", "d_deq"}
Released == {"u_fspin2", "u_list2", "u_retake", "u_nopid", "d_nopid", "d_wake"}
Pcs == {"idle", "exited"} \union Acquiring \union Acquired
         \union Releasing \union Released

FlagTypeOK ==
  slAvail \in BOOLEAN /\ disowned \in BOOLEAN /\ waitsig \in [Lwps -> BOOLEAN]
LockTypeOK ==
  /\ slFspin \in Ctxs \union {Nobody} /\ slPid \in Lwps \union {NOPID, SL_BUSY}
  /\ slList \in Seq(Lwps) /\ slPend \in Int /\ slFixpend \in 0 .. 255
CallTypeOK ==
  /\ lkp \in Lwps \union {Nobody} /\ niblked \in [Procs -> Int]
  /\ op \in [Lwps -> {"lock", "rellock", "lock_sig", "trylock"}]
  /\ nsleeps \in [Lwps -> Nat] /\ calls \in Nat /\ sigs \in Nat
CtxTypeOK ==
  /\ pc \in [Ctxs -> Pcs]
  /\ tgt \in [Ctxs -> Lwps \union {Nobody}] /\ chain \in [Ctxs -> Seq(Lwps)]
NoteTypeOK ==
  /\ failed \subseteq {"l_mutex", "sl_pend", "sl_pid", "sl_avail", "private"}
  /\ recounted \in [Procs -> Nat] /\ wild \in BOOLEAN
TypeOK == LwpTypeOK /\ FlagTypeOK /\ LockTypeOK /\ CallTypeOK /\ CtxTypeOK

Init ==
  /\ LwpInit
  /\ slAvail = TRUE /\ slFspin = Nobody /\ slList = <<>>
  /\ slPend = 0 /\ slFixpend = 0 /\ slPid = NOPID
  /\ lkp = Nobody /\ disowned = FALSE
  /\ niblked = [p \in Procs |-> 0] /\ waitsig = [l \in Lwps |-> FALSE]
  /\ pc = [c \in Ctxs |-> "idle"] /\ op = [l \in Lwps |-> "lock"]
  /\ nsleeps = [l \in Lwps |-> 0] /\ tgt = [c \in Ctxs |-> Nobody]
  /\ chain = [c \in Ctxs |-> <<>>] /\ calls = 0 /\ sigs = 0
  /\ failed = {} /\ recounted = [p \in Procs |-> 0] /\ wild = FALSE

At(c, p) == pc[c] = p
LwpsOf(p) == {l \in Lwps : Proc[l] = p /\ ~At(l, "exited")}  \* p_nlwp of them
Goto(c, p) == pc' = [pc EXCEPT ![c] = p]

ASSERT(why, holds) ==
  /\ failed' = IF holds THEN failed ELSE failed \union {why}
  /\ UNCHANGED <<recounted, wild>>

FspinFree == slFspin = Nobody

(* A context that returns from its call is idle again.                     *)
Return(l) == /\ Goto(l, "idle")
             /\ nsleeps' = [nsleeps EXCEPT ![l] = 0]
             /\ UNCHANGED <<op, calls>>

(***************************************************************************)
(* Entry.  A caller of sleep_lock_rellock comes with lkp held.             *)
(***************************************************************************)
EntryPc == [lock |-> "f_start", rellock |-> "f_start", lock_sig |-> "s_again",
            trylock |-> "t_take"]

Call(l) ==
  /\ At(l, "idle") /\ calls < MaxCalls
  /\ \E o \in Ops \intersect DOMAIN EntryPc :
       /\ op' = [op EXCEPT ![l] = o]
       /\ Goto(l, EntryPc[o])
       /\ IF o = "rellock" THEN lkp = Nobody /\ lkp' = l ELSE UNCHANGED lkp
  /\ calls' = calls + 1
  /\ UNCHANGED <<lwpVars, lockVars, procVars, nsleeps, disowned, tgt, chain,
                 sigs, noteVars>>

ReleaseEntryLock(l) == lkp' = IF op[l] = "rellock" THEN Nobody ELSE lkp

(* Fast path: sl_fixpend is looked at before the lock is tried.            *)
FastStart(l) ==
  /\ At(l, "f_start")
  /\ Goto(l, IF slFixpend = 0 THEN "f_take" ELSE "w_take")
  /\ UNCHANGED <<lwpVars, lockVars, procVars, callVars, lkp, disowned, tgt,
                 chain, sigs, noteVars>>

FastTake(l) ==
  /\ At(l, "f_take")
  /\ IF slAvail
       THEN /\ slAvail' = FALSE /\ ReleaseEntryLock(l) /\ Goto(l, "f_pid")
       ELSE /\ Goto(l, "w_take") /\ UNCHANGED <<slAvail, lkp>>
  /\ UNCHANGED <<lwpVars, slFspin, slList, slPend, slFixpend, slPid, procVars,
                 callVars, disowned, tgt, chain, sigs, noteVars>>

TryLock(l) ==
  /\ At(l, "t_take")
  /\ slAvail' = FALSE
  /\ IF slAvail THEN Goto(l, "g_pid") ELSE Goto(l, "idle")
  /\ UNCHANGED <<lwpVars, slFspin, slList, slPend, slFixpend, slPid, procVars,
                 callVars, lkp, disowned, tgt, chain, sigs, noteVars>>

(***************************************************************************)
(* Slow path.  The lock is taken and the wakeups it took to get it are     *)
(* settled in one step: only the holder changes sl_pend.                   *)
(***************************************************************************)
TakeUnchecked(l) ==      \* variant: the test of sl_avail is not repeated
  slAvail' = FALSE /\ slPend' = slPend - nsleeps[l]
TakeUnsettled(l) ==      \* variant: the wakeups stay in sl_pend
  slAvail /\ slAvail' = FALSE /\ slPend' = slPend

TakeAndSettle(l) ==
  /\ slAvail /\ slAvail' = FALSE
  /\ slPend' = slPend - nsleeps[l]

PendCovers(l) == slPend >= nsleeps[l]

SlowTake(l) ==
  /\ At(l, "w_take")
  /\ \/ TakeAndSettle(l) /\ Goto(l, "g_fold") /\ UNCHANGED noteVars
     \/ /\ ~slAvail /\ ASSERT("sl_pend", PendCovers(l))
        /\ Goto(l, "w_mutex") /\ UNCHANGED <<slAvail, slPend>>
  /\ UNCHANGED <<lwpVars, slFspin, slList, slFixpend, slPid, procVars, callVars,
                 lkp, disowned, tgt, chain, sigs>>

SlowMutex(l) ==
  /\ At(l, "w_mutex") /\ LockMutex(l, l)
  /\ Goto(l, "q_fspin")
  /\ UNCHANGED <<lStat, lFlag, trapevf, lockVars, procVars, callVars, lkp,
                 disowned, tgt, chain, sigs, noteVars>>

QueueFspin(l) ==
  /\ At(l, "q_fspin") /\ FspinFree
  /\ slFspin' = l
  /\ Goto(l, "q_retry")
  /\ UNCHANGED <<lwpVars, slAvail, slList, slPend, slFixpend, slPid, procVars,
                 callVars, lkp, disowned, tgt, chain, sigs, noteVars>>

(* "Check to see whether we raced with an unlock, before we do go to       *)
(* sleep."  sleep_lock then takes the lock here, sleep_lock_sig drops      *)
(* l_mutex as well and goes back to acquire, where it is counted again in  *)
(* p_niblked: what it was counted before stays there.                      *)
QueueRetry(l) ==
  /\ At(l, "q_retry")
  /\ IF slAvail
       THEN /\ slFspin' = Nobody /\ UnlockMutex(l)
            /\ failed' = failed \union (IF PendCovers(l) THEN {} ELSE {"sl_pend"})
            /\ IF op[l] = "lock_sig"
                 THEN /\ Goto(l, "s_acquire") /\ UNCHANGED <<slAvail, slPend>>
                      /\ recounted' = [recounted EXCEPT ![Proc[l]] = @ + 1]
                 ELSE Goto(l, "g_fold") /\ TakeAndSettle(l) /\ UNCHANGED recounted
       ELSE /\ Goto(l, "q_enq")
            /\ UNCHANGED <<lMutex, slAvail, slPend, slFspin, failed, recounted>>
  /\ UNCHANGED <<lStat, lFlag, trapevf, slList, slFixpend, slPid, procVars,
                 callVars, lkp, disowned, tgt, chain, sigs, wild>>

(* First come first served, but an LWP that was woken and lost the lock to *)
(* someone else goes to the head.                                          *)
InsertSleeper(q, l) == IF nsleeps[l] = 0 THEN Append(q, l) ELSE <<l>> \o q

Enqueue(l) ==
  /\ At(l, "q_enq")
  /\ ASSERT("sl_pend", op[l] = "lock_sig" /\ nsleeps[l] > 0 => PendCovers(l))
  /\ slList' = InsertSleeper(slList, l)
  /\ slFspin' = Nobody
  /\ Goto(l, "q_sleep")
  /\ UNCHANGED <<lwpVars, slAvail, slPend, slFixpend, slPid, procVars, callVars,
                 lkp, disowned, tgt, chain, sigs>>

Sleep(l) ==
  /\ At(l, "q_sleep")
  /\ Block(l, op[l] # "lock_sig", {})
  /\ nsleeps' = [nsleeps EXCEPT ![l] = @ + 1]
  /\ ReleaseEntryLock(l)
  /\ Goto(l, "q_asleep")
  /\ UNCHANGED <<lockVars, procVars, op, calls, disowned, tgt, chain, sigs, noteVars>>

(* swtch() returns: the LWP runs again.                                    *)
WakeUp(l) ==
  /\ At(l, "q_asleep") /\ Resume(l)
  /\ \/ op[l] = "lock" /\ Goto(l, "w_take") /\ UNCHANGED niblked
     \/ op[l] = "rellock" /\ Goto(l, "w_relk") /\ UNCHANGED niblked
     \/ /\ op[l] = "lock_sig" /\ CountAwake(l)
        /\ Goto(l, IF "L_SIGWOKE" \in lFlag[l] THEN "s_issig2" ELSE "s_relock")
  /\ UNCHANGED <<lockVars, waitsig, callVars, lkp, disowned, tgt, chain, sigs,
                 noteVars>>

RelockEntryLock(l) ==
  /\ At(l, "w_relk") /\ lkp = Nobody
  /\ lkp' = l
  /\ Goto(l, "w_take")
  /\ UNCHANGED <<lwpVars, lockVars, procVars, callVars, disowned, tgt, chain,
                 sigs, noteVars>>

(* The new holder takes the corrections that interrupted callers left in   *)
(* sl_fixpend off sl_pend; sleep_lock_rellock then drops its entry lock.   *)
FoldFixpend(l) ==
  /\ At(l, "g_fold") /\ (slFixpend = 0 \/ FspinFree)
  /\ slPend' = slPend - slFixpend /\ slFixpend' = 0
  /\ ReleaseEntryLock(l)
  /\ Goto(l, "g_pid")
  /\ UNCHANGED <<lwpVars, slAvail, slFspin, slList, slPid, procVars, callVars,
                 disowned, tgt, chain, sigs, noteVars>>

(* Spin while the previous holder is not quite done, then record the new   *)
(* owner.  The fast path asserts nothing.                                  *)
OwnerAsserts(l) ==
  [sl_pid |-> At(l, "g_pid") => slPid = NOPID,
   sl_pend |-> At(l, "g_pid") /\ op[l] \in {"lock", "rellock"} => slPend >= 0]

RecordOwner(l) ==
  /\ pc[l] \in {"f_pid", "g_pid"} /\ slPid # SL_BUSY
  /\ failed' = failed \union {a \in {"sl_pid", "sl_pend"} : ~OwnerAsserts(l)[a]}
  /\ slPid' = l
  /\ Goto(l, "hold")
  /\ nsleeps' = [nsleeps EXCEPT ![l] = 0]
  /\ IF op[l] = "lock_sig" THEN CountBlocked(l, -1) ELSE UNCHANGED niblked
  /\ UNCHANGED <<lwpVars, slAvail, slFspin, slList, slPend, slFixpend, waitsig, op,
                 calls, lkp, disowned, tgt, chain, sigs, recounted, wild>>

(***************************************************************************)
(* sleep_lock_sig.                                                         *)
(***************************************************************************)
SigAgain(l) ==
  /\ At(l, "s_again")
  /\ Goto(l, IF trapevf[l] THEN "s_issig" ELSE "s_lock")
  /\ UNCHANGED <<lwpVars, lockVars, procVars, callVars, lkp, disowned, tgt,
                 chain, sigs, noteVars>>

SigLock(l) ==
  /\ At(l, "s_lock") /\ MutexFree(l)
  /\ lFlag' = [lFlag EXCEPT ![l] = @ \ {"L_SIGWOKE"}]
  /\ IF trapevf[l] THEN Goto(l, "s_issig") /\ UNCHANGED lMutex
                   ELSE Goto(l, "s_acquire") /\ LockMutex(l, l)
  /\ UNCHANGED <<lStat, trapevf, lockVars, procVars, callVars, lkp, disowned,
                 tgt, chain, sigs, noteVars>>

(* Both calls of issig(): on entry, and after a sleep that a signal ended. *)
(* The second one clears L_SIGWOKE unless the LWP was stopped.  A caught   *)
(* SIGWAITING is to be handled.                                            *)
SigIssig(l) ==
  /\ pc[l] \in {"s_issig", "s_issig2"}
  /\ \E r \in IssigReturns :
       /\ TakeIssig(l, r)
       /\ lFlag' = IF At(l, "s_issig2") /\ r # "ISSIG_STOPPED"
                     THEN [lFlag EXCEPT ![l] = @ \ {"L_SIGWOKE"}] ELSE lFlag
       /\ \/ r = "ISSIG_NONE" /\ Goto(l, "s_acquire") /\ UNCHANGED callVars
          \/ r = "ISSIG_STOPPED" /\ Goto(l, "s_again") /\ UNCHANGED callVars
          \/ r = "ISSIG_SIGNALLED" /\ nsleeps[l] > 1
             /\ Goto(l, "s_fixlk") /\ UNCHANGED callVars
          \/ r = "ISSIG_SIGNALLED" /\ nsleeps[l] <= 1 /\ Return(l)
  /\ UNCHANGED <<lStat, lockVars, niblked, lkp, disowned, tgt, chain, sigs,
                 noteVars>>

(* return (B_FALSE): the wakeups this caller was given are left in         *)
(* sl_fixpend, an unsigned char, for the next holder to settle.            *)
FixFspin(l) ==
  /\ At(l, "s_fixlk") /\ FspinFree
  /\ slFspin' = l
  /\ Goto(l, "s_fixadd")
  /\ UNCHANGED <<lwpVars, slAvail, slList, slPend, slFixpend, slPid, procVars,
                 callVars, lkp, disowned, tgt, chain, sigs, noteVars>>

FixAdd(l) ==
  /\ At(l, "s_fixadd")
  /\ slFixpend' = (slFixpend + nsleeps[l] - 1) % 256
  /\ slFspin' = Nobody
  /\ Return(l)
  /\ UNCHANGED <<lwpVars, slAvail, slList, slPend, slPid, procVars, lkp,
                 disowned, tgt, chain, sigs, noteVars>>

SigRelock(l) ==
  /\ At(l, "s_relock") /\ LockMutex(l, l)
  /\ Goto(l, "s_acquire")
  /\ UNCHANGED <<lStat, lFlag, trapevf, lockVars, procVars, callVars, lkp,
                 disowned, tgt, chain, sigs, noteVars>>

(* acquire: count the caller as blocked; the last LWP of its process to    *)
(* block interruptibly sends SIGWAITING instead and starts again.          *)
SigAcquire(l) ==
  /\ At(l, "s_acquire")
  /\ ASSERT("l_mutex", lMutex[l] = l)
  /\ IF LastToBlock(l, Cardinality(LwpsOf(Proc[l]))) /\ ~WaitingPending(Proc[l])
       THEN UnlockMutex(l) /\ Goto(l, "s_sigtoproc") /\ UNCHANGED niblked
       ELSE CountBlocked(l, 1) /\ Goto(l, "s_take") /\ UNCHANGED lMutex
  /\ UNCHANGED <<lStat, lFlag, trapevf, lockVars, waitsig, callVars, lkp,
                 disowned, tgt, chain, sigs>>

(* sigtoproc(SIGWAITING), under p_mutex: nothing if it is pending already, *)
(* else it is posted to an LWP of the process that accepts it.             *)
SendWaiting(l) ==
  /\ At(l, "s_sigtoproc")
  /\ IF WaitingPending(Proc[l])
       THEN Goto(l, "s_again") /\ UNCHANGED <<lwpVars, waitsig, tgt>>
       ELSE \E t \in LwpsOf(Proc[l]) :
              /\ PostWaiting(t, l)
              /\ tgt' = [tgt EXCEPT ![l] = t]
              /\ Goto(l, IF Interruptible(t) THEN "n_unsleep" ELSE "s_again")
  /\ UNCHANGED <<lockVars, niblked, callVars, lkp, disowned, chain, sigs, noteVars>>

SigTake(l) ==
  /\ At(l, "s_take")
  /\ ASSERT("sl_pend", PendCovers(l))
  /\ \/ TakeAndSettle(l) /\ UnlockMutex(l) /\ Goto(l, "g_fold")
     \/ ~slAvail /\ Goto(l, "q_fspin") /\ UNCHANGED <<lMutex, slAvail, slPend>>
  /\ UNCHANGED <<lStat, lFlag, trapevf, slFspin, slList, slFixpend, slPid,
                 procVars, callVars, lkp, disowned, tgt, chain, sigs>>

(***************************************************************************)
(* sleep_unlock, by the holder or, of a disowned lock, by any context.     *)
(***************************************************************************)
DisownedUser(c) == disowned /\ At(c, "idle")

UnlockStart(c) ==
  /\ At(c, "hold") \/ DisownedUser(c)
  /\ disowned' = (disowned /\ ~DisownedUser(c))
  /\ ASSERT("sl_avail", ~slAvail)
  /\ Goto(c, IF FspinFree THEN "u_list" ELSE "d_fspin")
  /\ UNCHANGED <<lwpVars, lockVars, procVars, callVars, lkp, tgt, chain, sigs>>

UnlockList(c) ==
  /\ At(c, "u_list")
  /\ Goto(c, IF slList = <<>> /\ slFixpend = 0 THEN "u_avail" ELSE "d_fspin")
  /\ UNCHANGED <<lwpVars, lockVars, procVars, callVars, lkp, disowned, tgt,
                 chain, sigs, noteVars>>

(* The lock becomes available, marked "not quite free".                    *)
MarkFree == slPid' = NOPID /\ slAvail' = TRUE     \* variant: at once free
MarkReleased == slPid' = SL_BUSY /\ slAvail' = TRUE

UnlockAvail(c) ==
  /\ At(c, "u_avail")
  /\ MarkReleased
  /\ Goto(c, "u_fspin2")
  /\ UNCHANGED <<lwpVars, slFspin, slList, slPend, slFixpend, procVars, callVars,
                 lkp, disowned, tgt, chain, sigs, noteVars>>

(* After the store of sl_avail the unlocker looks again for a sleeper that *)
(* missed it: first sl_fspin, then the queue.                              *)
UnlockRecheckList(c) ==      \* variant: the queue alone
  /\ \/ At(c, "u_fspin2") /\ Goto(c, "u_list2")
     \/ At(c, "u_list2") /\ Goto(c, IF slList = <<>> THEN "u_nopid" ELSE "u_retake")
  /\ UNCHANGED <<lwpVars, lockVars, procVars, callVars, lkp, disowned, tgt,
                 chain, sigs, noteVars>>
UnlockRecheck(c) ==
  /\ \/ At(c, "u_fspin2") /\ Goto(c, IF FspinFree THEN "u_list2" ELSE "u_retake")
     \/ At(c, "u_list2") /\ Goto(c, IF slList = <<>> THEN "u_nopid" ELSE "u_retake")
  /\ UNCHANGED <<lwpVars, lockVars, procVars, callVars, lkp, disowned, tgt,
                 chain, sigs, noteVars>>

UnlockRetake(c) ==
  /\ At(c, "u_retake")
  /\ slAvail' = FALSE
  /\ Goto(c, IF slAvail THEN "d_fspin" ELSE "u_nopid")
  /\ UNCHANGED <<lwpVars, slFspin, slList, slPend, slFixpend, slPid, procVars,
                 callVars, lkp, disowned, tgt, chain, sigs, noteVars>>

UnlockDone(c) ==
  /\ At(c, "u_nopid")
  /\ slPid' = NOPID
  /\ Goto(c, "idle")
  /\ UNCHANGED <<lwpVars, slAvail, slFspin, slList, slPend, slFixpend, procVars,
                 callVars, lkp, disowned, tgt, chain, sigs, noteVars>>

DequeueFspin(c) ==
  /\ At(c, "d_fspin") /\ FspinFree
  /\ slFspin' = c
  /\ Goto(c, "d_deq")
  /\ UNCHANGED <<lwpVars, slAvail, slList, slPend, slFixpend, slPid, procVars,
                 callVars, lkp, disowned, tgt, chain, sigs, noteVars>>

(* sleep_dequeue under sl_fspin: the head of the queue, and as long as the *)
(* LWP taken is swapped out the next one, are moved to the front of the    *)
(* wakeup chain; corrections are folded in and the lock is released.       *)
CountWoken(n) == slPend' = slPend + n - slFixpend /\ slFixpend' = 0

ChainOf(n) == Reverse(SubSeq(slList, 1, n))

Dequeue(c) ==
  /\ At(c, "d_deq")
  /\ \E n \in (IF slList = <<>> THEN {0} ELSE 1 .. Len(slList)) :
       /\ chain' = [chain EXCEPT ![c] = ChainOf(n)]
       /\ slList' = SubSeq(slList, n + 1, Len(slList))
       /\ CountWoken(n)
  /\ MarkReleased
  /\ slFspin' = Nobody
  /\ Goto(c, "d_nopid")
  /\ UNCHANGED <<lwpVars, procVars, callVars, lkp, disowned, tgt, sigs, noteVars>>

DequeueDone(c) ==
  /\ At(c, "d_nopid")
  /\ slPid' = NOPID
  /\ Goto(c, IF chain[c] = <<>> THEN "idle" ELSE "d_wake")
  /\ UNCHANGED <<lwpVars, slAvail, slFspin, slList, slPend, slFixpend, procVars,
                 callVars, lkp, disowned, tgt, chain, sigs, noteVars>>

(* LWP_WAKEUP takes l_mutex first: an LWP that has it is not woken before  *)
(* it has switched out, one that retried without it can be.                *)
Unprotected(t) == At(t, "q_sleep") /\ MutexFree(t)

WakeChain(c) ==
  /\ At(c, "d_wake") /\ ~Unprotected(Head(chain[c]))
  /\ Wakeup(Head(chain[c]))
  /\ chain' = [chain EXCEPT ![c] = Tail(@)]
  /\ Goto(c, IF Len(chain[c]) = 1 THEN "idle" ELSE "d_wake")
  /\ UNCHANGED <<lockVars, procVars, callVars, lkp, disowned, tgt, sigs, noteVars>>

(***************************************************************************)
(* Disowning, private acquisition, signals from outside.                   *)
(***************************************************************************)
Disown(l) ==
  /\ "disown" \in Ops /\ At(l, "hold")
  /\ slPid' = NOPID /\ disowned' = TRUE
  /\ Goto(l, "idle")
  /\ UNCHANGED <<lwpVars, slAvail, slFspin, slList, slPend, slFixpend, procVars,
                 callVars, lkp, tgt, chain, sigs, noteVars>>

(* lwp_exit: one less LWP in the process.  The last one would exit() the   *)
(* process instead.                                                        *)
LwpExit(l) ==
  /\ "exit" \in Ops /\ At(l, "idle") /\ ~trapevf[l]
  /\ Cardinality(LwpsOf(Proc[l])) > 1
  /\ Goto(l, "exited")
  /\ UNCHANGED <<lwpVars, lockVars, procVars, callVars, lkp, disowned, tgt,
                 chain, sigs, noteVars>>

(* The peeks of ksynch.h.                                                  *)
SLEEP_LOCKAVAIL == slAvail /\ slPid # SL_BUSY
SLEEP_LOCKBLKD == ~FspinFree \/ slList # <<>> \/ slPend > 0
SLEEP_LOCKOWNED(l) == slPid = l

(* The caller has the unlocked lock to itself.                             *)
LockPrivate(l) ==
  /\ "private" \in Ops /\ At(l, "idle") /\ calls < MaxCalls
  /\ ~disowned /\ \A c \in Ctxs : pc[c] \in {"idle", "exited"}
  /\ ASSERT("private", SLEEP_LOCKAVAIL /\ ~SLEEP_LOCKBLKD)
  /\ slAvail' = FALSE /\ slPid' = NOPID /\ disowned' = TRUE
  /\ calls' = calls + 1
  /\ UNCHANGED <<lwpVars, slFspin, slList, slPend, slFixpend, procVars, op,
                 nsleeps, lkp, pc, tgt, chain, sigs>>

Post(c, t) ==
  /\ At(c, "idle") /\ sigs < MaxSigs
  /\ PostSignal(t, c)
  /\ sigs' = sigs + 1
  /\ tgt' = [tgt EXCEPT ![c] = t]
  /\ Goto(c, IF Interruptible(t) THEN "n_unsleep" ELSE "idle")
  /\ UNCHANGED <<lockVars, procVars, callVars, lkp, disowned, chain, noteVars>>

(* setrun() and sleep_unsleep.                                             *)
Unsleep(c) ==
  /\ At(c, "n_unsleep") /\ FspinFree
  /\ FinishNudge(tgt[c], Contains(slList, tgt[c]))
  /\ slList' = slpdeque(slList, tgt[c])
  /\ Goto(c, IF c \in Lwps THEN "s_again" ELSE "idle")
  /\ UNCHANGED <<slAvail, slFspin, slPend, slFixpend, slPid, procVars, callVars,
                 lkp, disowned, tgt, chain, sigs, noteVars>>

(* A waker or a poster that meets an LWP which is about to switch out, but *)
(* has not got its l_mutex: it is put on a run queue while it still runs.  *)
WakeTooEarly(c) ==
  /\ \E t \in Lwps :
       /\ Unprotected(t)
       /\ \/ At(c, "d_wake") /\ t = Head(chain[c])
          \/ c \in Intrs /\ At(c, "idle") /\ sigs < MaxSigs
          \/ c \in LwpsOf(Proc[t]) /\ At(c, "s_sigtoproc") /\ ~WaitingPending(Proc[c])
  /\ wild' = TRUE
  /\ UNCHANGED <<lwpVars, lockVars, procVars, callVars, lkp, disowned, pc, tgt,
                 chain, sigs, failed, recounted>>

(***************************************************************************)
(* The system.  Each context takes steps of its own; making a call,        *)
(* disowning the lock and posting a signal are choices, and every other    *)
(* step is taken eventually: a spin lock is held for a finite time, the    *)
(* dispatcher runs a runnable LWP, a holder unlocks.                       *)
(***************************************************************************)
Unlocking(c) ==
  \/ UnlockStart(c) \/ UnlockList(c) \/ UnlockAvail(c) \/ UnlockRecheck(c)
  \/ UnlockRetake(c) \/ UnlockDone(c)
  \/ DequeueFspin(c) \/ Dequeue(c) \/ DequeueDone(c) \/ WakeChain(c)

Locking(l) ==
  \/ FastStart(l) \/ FastTake(l) \/ TryLock(l)
  \/ SlowTake(l) \/ SlowMutex(l) \/ RelockEntryLock(l)
  \/ QueueFspin(l) \/ QueueRetry(l) \/ Enqueue(l) \/ Sleep(l) \/ WakeUp(l)
  \/ FoldFixpend(l) \/ RecordOwner(l)

LockingSig(l) ==
  \/ SigAgain(l) \/ SigLock(l) \/ SigIssig(l) \/ SigRelock(l) \/ SigAcquire(l)
  \/ SendWaiting(l) \/ SigTake(l) \/ FixFspin(l) \/ FixAdd(l)

Step(c) == ~wild /\ \/ Unlocking(c) \/ Unsleep(c)
                    \/ c \in Lwps /\ (Locking(c) \/ LockingSig(c))

Choice == ~wild /\ \/ \E l \in Lwps : Call(l) \/ Disown(l) \/ LockPrivate(l)
                                    \/ LwpExit(l)
                   \/ \E c \in Intrs, t \in Lwps : Post(c, t)
                   \/ \E c \in Ctxs : WakeTooEarly(c)

(* Nothing is left to do, or nothing is known of what follows.             *)
Quiet == /\ wild \/ (~disowned /\ \A c \in Ctxs : pc[c] \in {"idle", "exited"})
         /\ UNCHANGED vars

Next == (\E c \in Ctxs : Step(c)) \/ Choice \/ Quiet

Spec == Init /\ [][Next]_vars
FairSpec == Spec /\ \A c \in Ctxs : WF_vars(Step(c))

(***************************************************************************)
(* Properties.                                                             *)
(***************************************************************************)
Holders == {c \in Ctxs : pc[c] \in Acquired \union Releasing}

(* At most one context has the lock, none while it is disowned, and        *)
(* sl_avail says so: no interleaving of the exchange on the fast path, the *)
(* retries under sl_fspin and the unlocker's own retake admits two.        *)
MutualExclusion ==
  /\ \A c, d \in Holders : c = d
  /\ disowned => Holders = {}
  /\ slAvail <=> Holders = {} /\ ~disowned

(* SLEEP_LOCKOWNED is true for the holder and only for it: the late stores *)
(* of NOPID by the last unlocker never erase the new owner's, and a stale  *)
(* owner is never visible once the lock is free again.                     *)
TrueOwner ==
  \A l \in Lwps : /\ At(l, "hold") => SLEEP_LOCKOWNED(l)
                  /\ SLEEP_LOCKOWNED(l) => pc[l] \in {"hold"} \union Releasing

(* What SL_BUSY is for ("used to prevent races in sleep_unlock"): a lock   *)
(* that SLEEP_LOCKAVAIL reports free has no unlocker that still touches    *)
(* it, so that its holder may sleep_dealloc it.                            *)
NoLateUnlocker ==
  SLEEP_LOCKAVAIL => \A c \in Ctxs : pc[c] \notin Released \ {"d_wake"}

(* sl_pend counts exactly the wakeups that were given and not yet settled  *)
(* by an acquisition, the corrections of sl_fixpend included, so that      *)
(* SLEEP_LOCKBLKD sees an LWP that is awake but still without the lock.    *)
Credit(l) == nsleeps[l] + (IF At(l, "q_sleep") THEN 1 ELSE 0)
                        - (IF Contains(slList, l) THEN 1 ELSE 0)
Unsettled == [l \in Lwps |-> IF pc[l] \in Acquiring THEN Credit(l) ELSE 0]
PendAccounting ==
  /\ \A l \in Lwps : Unsettled[l] >= 0
  /\ slPend - slFixpend = Cardinality(Units(Unsettled))

(* Whatever way the calls of a process end, p_niblked is back at zero but  *)
(* for one for each retry of sleep.c:659-663, which is counted twice.      *)
NiblkedBalanced ==
  \A p \in Procs : (\A l \in LwpsOf(p) : pc[l] \in {"idle", "hold"})
                     => niblked[p] = recounted[p]

(* No wakeup is lost, for somebody is on the way: as long as it is free     *)
(* with LWPs queued on it, an unlocker will look at the queue again, a     *)
(* waker has an LWP to wake, or an LWP that runs, or was woken by a waker  *)
(* and not by a signal, will try the lock before it sleeps or returns.     *)
LookPcs == {"f_start", "f_take", "t_take", "w_take", "w_mutex", "w_relk", "q_fspin",
            "q_retry", "s_relock", "s_acquire", "s_take",
            "u_fspin2", "u_list2", "u_retake"}
Woken(l) ==
  At(l, "q_asleep") /\ lStat[l] = "SRUN" /\ "L_SIGWOKE" \notin lFlag[l]
SomebodyLooks == \/ \E c \in Ctxs : pc[c] \in LookPcs \/ chain[c] # <<>>
                 \/ \E l \in Lwps : Woken(l)
NobodyStranded == slAvail /\ slList # <<>> => SomebodyLooks

(* Every call returns, as long as no LWP is made runnable while it runs:   *)
(* an LWP that asks for the lock gets it, or B_FALSE.                      *)
EveryCallReturns ==
  \A l \in Lwps : pc[l] \in Acquiring ~> (pc[l] \in {"hold", "idle"} \/ wild)

(* A sleeper is known to exactly one party that will wake it: it is on the *)
(* queue or on the chain of one waker, once, and nobody else is.  A poster *)
(* of a signal that raced with an unlocker leaves the sleeper to it.       *)
Knows(l) == {c \in Ctxs : Contains(chain[c], l)}
              \union (IF Contains(slList, l) THEN {Nobody} ELSE {})
OneWaker ==
  /\ IsInjective(slList) /\ \A c \in Ctxs : IsInjective(chain[c])
  /\ \A l \in Lwps : IF At(l, "q_sleep") \/ lStat[l] = "SSLEEP"
                       THEN \E k \in Ctxs \union {Nobody} : Knows(l) = {k}
                       ELSE Knows(l) = {}

(* The DEBUG kernel never fails an ASSERT in a call that signals do not    *)
(* reach; those about the owner and sl_avail hold even if they do.         *)
AssertsHold == failed = {}
OwnerAssertsHold == failed \intersect {"sl_pid", "sl_avail"} = {}

(* The ASSERT at label acquire: LOCK_OWNED(&lwpp->l_mutex).                *)
AcquireOwnsMutex == "l_mutex" \notin failed

(* The sleep lock implements the abstract lock: its holders are the ones   *)
(* that took sl_avail and have not given it back, its waiters the callers  *)
(* that may sleep.  ImplementsFairLock adds that no wakeup is lost.        *)
Waiters == {l \in Lwps : pc[l] \in Acquiring /\ op[l] # "trylock"}

A == INSTANCE AbstractLock WITH holders <- Holders, loose <- disowned,
                                waiting <- Waiters
ImplementsLock == A!Spec
ImplementsFairLock == A!FairSpec
=============================================================================
