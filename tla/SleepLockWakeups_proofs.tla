---------------------- MODULE SleepLockWakeups_proofs -----------------------
(***************************************************************************)
(* The wakeups of SleepLock, for any set of LWPs and of other contexts:    *)
(* who wakes a sleeper, how many LWPs of a process are counted as blocked, *)
(* and, for calls that signals do not reach, what sl_pend counts and that  *)
(* no ASSERT fails.                                                        *)
(***************************************************************************)
EXTENDS SleepLock_proofs

(* Those that are on their way to sleep, or asleep.                        *)
Sleepers == {l \in Lwps : At(l, "q_sleep") \/ lStat[l] = "SSLEEP"}

(* A poster keeps the l_mutex of the sleeper that it is taking off the     *)
(* queue; only a waker has a chain.  That is what makes the two ways of    *)
(* being woken exclude each other.                                         *)
WakerPcs == {"d_nopid", "d_wake"}
KeptPcs == {"q_sleep", "q_asleep", "n_unsleep"}

WakeInv ==
  /\ Keeps(slList, chain, Ctxs, Sleepers)
  /\ \A c \in Ctxs : chain[c] # <<>> => pc[c] \in WakerPcs
  /\ \A l \in Lwps : lStat[l] = "SONPROC" <=> ~At(l, "q_asleep")
  /\ \A c \in Ctxs : At(c, "n_unsleep") =>
       tgt[c] \in Lwps /\ lMutex[tgt[c]] = c /\ lStat[tgt[c]] = "SSLEEP"

(* Nobody sleeps at first.                                                 *)
LEMMA WakeInit == Init => WakeInv
<1> SUFFICES ASSUME Init PROVE WakeInv
  OBVIOUS
<1>1. Sleepers = {}
  BY DEF Sleepers, Init, LwpInit, At, Ctxs
<1>2. Keeps(slList, chain, Ctxs, Sleepers)
  BY <1>1, KeepsNobody DEF Init
<1>3. \A c \in Ctxs : chain[c] = <<>> /\ pc[c] = "idle"
  BY DEF Init
<1>4. \A l \in Lwps : lStat[l] = "SONPROC"
  BY DEF Init, LwpInit
<1> QED BY <1>2, <1>3, <1>4 DEF WakeInv, At, Ctxs

(* A step of one context outside the sleep protocol.                       *)
LEMMA WakeMove ==
  ASSUME TypeOK, WakeInv, NEW c \in Ctxs, NEW p,
         UNCHANGED pc \/ /\ Goto(c, p) /\ p \notin KeptPcs /\ pc[c] \notin KeptPcs
                         /\ chain[c] = <<>> \/ p \in WakerPcs,
         UNCHANGED <<lStat, lMutex, slList, chain, tgt>>
  PROVE  WakeInv'
<1>1. \A d \in Ctxs : /\ pc'[d] = "q_sleep" <=> pc[d] = "q_sleep"
                      /\ pc'[d] = "q_asleep" <=> pc[d] = "q_asleep"
                      /\ pc'[d] = "n_unsleep" <=> pc[d] = "n_unsleep"
                      /\ chain[d] # <<>> => pc'[d] \in WakerPcs
  <2>1. CASE UNCHANGED pc
    BY <2>1 DEF WakeInv
  <2>2. CASE ~UNCHANGED pc
    <3>1. \A d \in Ctxs : pc'[d] = IF d = c THEN p ELSE pc[d]
      BY <2>2 DEF TypeOK, CtxTypeOK, Goto
    <3> QED BY <2>2, <3>1 DEF WakeInv, KeptPcs
  <2> QED BY <2>1, <2>2
<1>2. Sleepers' = Sleepers
  BY <1>1 DEF Sleepers, At, Ctxs
<1> QED BY <1>1, <1>2 DEF WakeInv, At, Ctxs

(* A step of an LWP that takes or releases its own l_mutex.                *)
LEMMA WakeMutex ==
  ASSUME TypeOK, WakeInv, NEW l \in Lwps, NEW p, NEW m,
         UNCHANGED pc \/ (Goto(l, p) /\ p \notin KeptPcs),
         pc[l] \notin KeptPcs, chain[l] = <<>>,
         lMutex' = [lMutex EXCEPT ![l] = m],
         UNCHANGED <<lStat, slList, chain, tgt>>
  PROVE  WakeInv'
<1>1. \A d \in Ctxs : /\ d # l => pc'[d] = pc[d]
                      /\ pc'[d] = "q_sleep" <=> pc[d] = "q_sleep"
                      /\ pc'[d] = "q_asleep" <=> pc[d] = "q_asleep"
                      /\ pc'[d] = "n_unsleep" <=> pc[d] = "n_unsleep"
  BY DEF TypeOK, CtxTypeOK, Goto, KeptPcs, Ctxs
<1>2. \A k \in Lwps : lMutex'[k] = IF k = l THEN m ELSE lMutex[k]
  BY DEF TypeOK, LwpTypeOK
<1>3. Sleepers' = Sleepers
  BY <1>1 DEF Sleepers, At, Ctxs
<1>4. lStat[l] = "SONPROC"
  BY DEF WakeInv, KeptPcs, At
<1>5. \A c \in Ctxs : At(c, "n_unsleep") => tgt[c] # l
  BY <1>4 DEF WakeInv
<1> QED BY <1>1, <1>2, <1>3, <1>5 DEF WakeInv, At, Ctxs

(* A signal is posted.                                                     *)
LEMMA WakePost ==
  ASSUME TypeOK, WakeInv, NEW c \in Ctxs, NEW t \in Lwps, NEW p,
         PostSignal(t, c), tgt' = [tgt EXCEPT ![c] = t],
         Goto(c, IF Interruptible(t) THEN "n_unsleep" ELSE p),
         p \notin KeptPcs, pc[c] \notin KeptPcs, chain[c] = <<>>,
         UNCHANGED <<slList, chain>>
  PROVE  WakeInv'
<1>1. \A d \in Ctxs :
        pc'[d] = IF d = c THEN (IF Interruptible(t) THEN "n_unsleep" ELSE p) ELSE pc[d]
  BY DEF TypeOK, CtxTypeOK, Goto
<1>2. \A d \in Ctxs : tgt'[d] = IF d = c THEN t ELSE tgt[d]
  BY DEF TypeOK, CtxTypeOK
<1>3. /\ UNCHANGED lStat /\ lMutex[t] = Nobody
      /\ \A k \in Lwps : lMutex'[k] = IF k = t /\ Interruptible(t) THEN c ELSE lMutex[k]
  BY DEF PostSignal, LockMutex, MutexFree, TypeOK, LwpTypeOK
<1>4. Sleepers' = Sleepers
  BY <1>1, <1>3 DEF Sleepers, At, Ctxs, KeptPcs
<1>5. \A d \in Ctxs : At(d, "n_unsleep") => tgt[d] # t
  BY <1>3, LwpAssumption DEF WakeInv
<1>7. Interruptible(t) => lStat[t] = "SSLEEP"
  BY DEF Interruptible
<1> USE DEF WakeInv, At, Ctxs, KeptPcs
<1>8. \A d \in Ctxs : chain[d] # <<>> => pc'[d] \in WakerPcs
  BY <1>1
<1>9. \A k \in Lwps : lStat[k] = "SONPROC" <=> pc'[k] # "q_asleep"
  BY <1>1
<1>11. \A d \in Ctxs : pc'[d] = "n_unsleep" =>
         tgt'[d] \in Lwps /\ lMutex'[tgt'[d]] = d /\ lStat[tgt'[d]] = "SSLEEP"
  BY <1>1, <1>2, <1>3, <1>5, <1>7
<1> QED BY <1>3, <1>4, <1>8, <1>9, <1>11

(* The steps of sleep_unlock.                                              *)
LEMMA WakeUnlocking ==
  ASSUME TypeOK, ChainInv, WakeInv, NEW c \in Ctxs, Unlocking(c)
  PROVE  WakeInv'
<1>1. CASE \/ UnlockStart(c) \/ UnlockList(c) \/ UnlockAvail(c) \/ UnlockRecheck(c)
           \/ UnlockRetake(c) \/ UnlockDone(c) \/ DequeueFspin(c)
  <2>1. UNCHANGED <<lStat, lMutex, slList, chain, tgt>>
    BY <1>1 DEF UnlockStart, UnlockList, UnlockAvail, UnlockRecheck, UnlockRetake,
      UnlockDone, DequeueFspin, lwpVars, lockVars
  <2>2. pc[c] \notin KeptPcs \union WakerPcs
    BY <1>1 DEF UnlockStart, UnlockList, UnlockAvail, UnlockRecheck, UnlockRetake,
      UnlockDone, DequeueFspin, At, DisownedUser, KeptPcs, WakerPcs
  <2>3. PICK p : UNCHANGED pc \/ (Goto(c, p) /\ p \notin KeptPcs)
    BY <1>1 DEF UnlockStart, UnlockList, UnlockAvail, UnlockRecheck, UnlockRetake,
      UnlockDone, DequeueFspin, KeptPcs
  <2>4. chain[c] = <<>>
    BY <2>2 DEF WakeInv
  <2> QED BY <2>1, <2>2, <2>3, <2>4, WakeMove
<1>2. CASE Dequeue(c)
  <2> DEFINE h == [chain EXCEPT ![c] = chain'[c]]
  <2>1. PICK n \in (IF slList = <<>> THEN {0} ELSE 1 .. Len(slList)) :
          /\ chain' = [chain EXCEPT ![c] = ChainOf(n)]
          /\ slList' = SubSeq(slList, n + 1, Len(slList))
    BY <1>2 DEF Dequeue
  <2>2. At(c, "d_deq") /\ Goto(c, "d_nopid") /\ UNCHANGED <<lStat, lMutex, tgt>>
    BY <1>2 DEF Dequeue, lwpVars
  <2>3. chain[c] = <<>>
    BY <2>2 DEF WakeInv, At, WakerPcs
  <2>4. slList \in Seq(Lwps) /\ IsInjective(slList) /\ n \in 0 .. Len(slList)
    BY LenProperties DEF WakeInv, Keeps
  <2> DEFINE a == SubSeq(slList, 1, n)
             b == SubSeq(slList, n + 1, Len(slList))
  <2>5. /\ a \in Seq(Lwps) /\ b \in Seq(Lwps) /\ IsInjective(a) /\ IsInjective(b)
        /\ \A m : Contains(slList, m) <=> (Contains(a, m) \/ Contains(b, m))
        /\ \A m : ~(Contains(a, m) /\ Contains(b, m))
    BY <2>4, SplitQueue
  <2>6. ChainOf(n) = Reverse(a) /\ slList' = b
    BY <2>1 DEF ChainOf
  <2> HIDE DEF a, b
  <2>7. /\ Reverse(a) \in Seq(Lwps) /\ IsInjective(Reverse(a))
        /\ \A m : Contains(Reverse(a), m) <=> Contains(a, m)
    BY <2>5, ReverseQueue
  <2>8. Keeps(slList', chain', Ctxs, Sleepers)
    <3>1. \A m : Contains(slList, m) <=> (Contains(Reverse(a), m) \/ Contains(b, m))
      BY <2>5, <2>7
    <3>2. \A m : ~(Contains(Reverse(a), m) /\ Contains(b, m))
      BY <2>5, <2>7
    <3>3. Keeps(b, [chain EXCEPT ![c] = Reverse(a)], Ctxs, Sleepers)
      BY <2>3, <2>5, <2>7, <3>1, <3>2, KeepsDequeued DEF WakeInv
    <3> QED BY <2>1, <2>6, <3>3
  <2>9. \A d \in Ctxs : /\ pc'[d] = IF d = c THEN "d_nopid" ELSE pc[d]
                        /\ d # c => chain'[d] = chain[d]
    BY <2>1, <2>2 DEF TypeOK, CtxTypeOK, Goto
  <2>10. Sleepers' = Sleepers
    BY <2>2, <2>9 DEF Sleepers, At, Ctxs
  <2> QED BY <2>2, <2>8, <2>9, <2>10 DEF WakeInv, At, Ctxs, WakerPcs
<1>3. CASE DequeueDone(c)
  <2>1. /\ At(c, "d_nopid") /\ UNCHANGED <<lStat, lMutex, slList, chain, tgt>>
        /\ Goto(c, IF chain[c] = <<>> THEN "idle" ELSE "d_wake")
    BY <1>3 DEF DequeueDone, lwpVars
  <2>2. pc[c] \notin KeptPcs
    BY <2>1 DEF At, KeptPcs
  <2>3. PICK p \in {"idle", "d_wake"} : Goto(c, p) /\ (chain[c] = <<>> \/ p \in WakerPcs)
    BY <2>1 DEF WakerPcs
  <2>4. p \notin KeptPcs
    BY DEF KeptPcs
  <2> HIDE DEF KeptPcs, WakerPcs
  <2> QED BY <2>1, <2>2, <2>3, <2>4, WakeMove
<1>4. CASE WakeChain(c)
  <2> DEFINE w == Head(chain[c])
  <2>1. /\ At(c, "d_wake") /\ UNCHANGED <<lMutex, slList, tgt>>
        /\ lMutex[w] = Nobody /\ ~At(w, "q_sleep") /\ lStat' = [lStat EXCEPT ![w] = "SRUN"]
        /\ chain' = [chain EXCEPT ![c] = Tail(chain[c])]
        /\ Goto(c, IF Len(chain[c]) = 1 THEN "idle" ELSE "d_wake")
    BY <1>4 DEF WakeChain, Unprotected, Wakeup, MutexFree, lockVars
  <2>2. chain[c] # <<>> /\ chain[c] \in Seq(Lwps)
    BY <2>1 DEF ChainInv, TypeOK, CtxTypeOK
  <2>3. w \in Sleepers /\ w \in Lwps /\ Keeps(slList', chain', Ctxs, Sleepers \ {w})
    BY <2>1, <2>2, KeepsWoken DEF WakeInv
  <2> HIDE DEF w
  <2>4. \A d \in Ctxs : At(d, "n_unsleep") => tgt[d] # w
    BY <2>1, <2>3, LwpAssumption DEF WakeInv, Ctxs
  <2>5. lStat[w] = "SSLEEP"
    BY <2>1, <2>3 DEF Sleepers
  <2>6. pc[w] = "q_asleep" /\ w # c
    BY <2>1, <2>3, <2>5 DEF WakeInv, At
  <2>7. Tail(chain[c]) # <<>> => Len(chain[c]) # 1
    <3>1. Len(Tail(chain[c])) = Len(chain[c]) - 1 /\ Tail(chain[c]) \in Seq(Lwps)
      BY <2>2, TailQueue
    <3>2. Len(chain[c]) = 1 => Len(Tail(chain[c])) = 0
      BY <3>1
    <3> QED BY <3>1, <3>2, EmptySeq
  <2>8. \A d \in Ctxs :
          /\ pc'[d] = IF d = c THEN (IF Len(chain[c]) = 1 THEN "idle" ELSE "d_wake")
                               ELSE pc[d]
          /\ chain'[d] = IF d = c THEN Tail(chain[c]) ELSE chain[d]
    BY <2>1 DEF TypeOK, CtxTypeOK, Goto
  <2>9. \A k \in Lwps : lStat'[k] = IF k = w THEN "SRUN" ELSE lStat[k]
    BY <2>1 DEF TypeOK, LwpTypeOK
  <2>10. Sleepers' = Sleepers \ {w}
    BY <2>1, <2>4, <2>8, <2>9 DEF Sleepers, At, Ctxs
  <2>11. \A d \in Ctxs : chain'[d] # <<>> => pc'[d] \in WakerPcs
    BY <2>7, <2>8 DEF WakeInv, WakerPcs
  <2>12. \A k \in Lwps : lStat'[k] = "SONPROC" <=> pc'[k] # "q_asleep"
    BY <2>1, <2>6, <2>8, <2>9 DEF WakeInv, At, Ctxs
  <2>14. \A d \in Ctxs : pc'[d] = "n_unsleep" =>
           tgt'[d] \in Lwps /\ lMutex'[tgt'[d]] = d /\ lStat'[tgt'[d]] = "SSLEEP"
    BY <2>1, <2>4, <2>8, <2>9 DEF WakeInv, At
  <2> QED BY <2>3, <2>10, <2>11, <2>12, <2>14 DEF WakeInv, At
<1> QED BY <1>1, <1>2, <1>3, <1>4 DEF Unlocking

(* The steps of sleep_lock and sleep_lock_rellock.                         *)
LEMMA WakeLocking ==
  ASSUME TypeOK, WakeInv, NEW l \in Lwps, Locking(l)
  PROVE  WakeInv'
<1>0. l \in Ctxs
  BY DEF Ctxs
<1>1. CASE \/ FastStart(l) \/ FastTake(l) \/ TryLock(l) \/ SlowTake(l) \/ RelockEntryLock(l)
           \/ FoldFixpend(l) \/ RecordOwner(l)
  <2>1. UNCHANGED <<lStat, lMutex, slList, chain, tgt>>
    BY <1>1 DEF FastStart, FastTake, TryLock, SlowTake, RelockEntryLock, FoldFixpend,
      RecordOwner, lwpVars, lockVars
  <2>2. pc[l] \notin KeptPcs \union WakerPcs
    BY <1>1 DEF FastStart, FastTake, TryLock, SlowTake, RelockEntryLock, FoldFixpend,
      RecordOwner, At, KeptPcs, WakerPcs
  <2>3. PICK p : UNCHANGED pc \/ (Goto(l, p) /\ p \notin KeptPcs)
    BY <1>1 DEF FastStart, FastTake, TryLock, SlowTake, RelockEntryLock, FoldFixpend,
      RecordOwner, KeptPcs
  <2>4. chain[l] = <<>>
    BY <1>0, <2>2 DEF WakeInv
  <2> QED BY <1>0, <2>1, <2>2, <2>3, <2>4, WakeMove
<1>2. CASE SlowMutex(l)
  <2>1. /\ At(l, "w_mutex") /\ lMutex' = [lMutex EXCEPT ![l] = l]
        /\ Goto(l, "q_fspin") /\ UNCHANGED <<lStat, slList, chain, tgt>>
    BY <1>2 DEF SlowMutex, LockMutex, lockVars
  <2>2. pc[l] \notin KeptPcs /\ chain[l] = <<>> /\ "q_fspin" \notin KeptPcs
    BY <1>0, <2>1 DEF At, KeptPcs, WakeInv, WakerPcs
  <2> QED BY <2>1, <2>2, WakeMutex
<1>3. CASE QueueFspin(l)
  <2>1. /\ At(l, "q_fspin") /\ Goto(l, "q_retry")
        /\ UNCHANGED <<lStat, lMutex, slList, chain, tgt>>
    BY <1>3 DEF QueueFspin, lwpVars
  <2>2. pc[l] \notin KeptPcs /\ chain[l] = <<>> /\ "q_retry" \notin KeptPcs
    BY <1>0, <2>1 DEF At, KeptPcs, WakeInv, WakerPcs
  <2> QED BY <1>0, <2>1, <2>2, WakeMove
<1>4. CASE QueueRetry(l)
  <2>1. At(l, "q_retry") /\ UNCHANGED <<lStat, slList, chain, tgt>>
    BY <1>4 DEF QueueRetry
  <2>2. /\ pc[l] \notin KeptPcs /\ chain[l] = <<>>
        /\ "s_acquire" \notin KeptPcs /\ "g_fold" \notin KeptPcs
        /\ "q_enq" \notin KeptPcs
    BY <1>0, <2>1 DEF At, KeptPcs, WakeInv, WakerPcs
  <2>3. CASE /\ lMutex' = [lMutex EXCEPT ![l] = Nobody]
             /\ Goto(l, "s_acquire") \/ Goto(l, "g_fold")
    BY <2>1, <2>2, <2>3, WakeMutex
  <2>4. CASE UNCHANGED lMutex /\ Goto(l, "q_enq")
    BY <1>0, <2>1, <2>2, <2>4, WakeMove
  <2> QED BY <1>4, <2>3, <2>4 DEF QueueRetry, UnlockMutex
<1>5. CASE Enqueue(l)
  <2>1. /\ At(l, "q_enq") /\ UNCHANGED <<lStat, lMutex, chain, tgt>>
    BY <1>5 DEF Enqueue, lwpVars
  <2>2. slList' = InsertSleeper(slList, l) /\ Goto(l, "q_sleep")
    BY <1>5 DEF Enqueue
  <2>3. lStat[l] = "SONPROC" /\ l \notin Sleepers /\ chain[l] = <<>>
    BY <1>0, <2>1 DEF WakeInv, Sleepers, At, WakerPcs
  <2>4. slList' \in {Append(slList, l), <<l>> \o slList}
    BY <2>2 DEF InsertSleeper
  <2>5. Keeps(slList', chain, Ctxs, Sleepers \union {l})
    <3>1. Keeps(slList, chain, Ctxs, Sleepers)
      BY DEF WakeInv
    <3>2. CASE slList' = Append(slList, l)
      BY <2>3, <3>1, <3>2, KeepsQueued
    <3>3. CASE slList' = <<l>> \o slList
      BY <2>3, <3>1, <3>3, KeepsQueued
    <3> QED BY <2>4, <3>2, <3>3
  <2>6. \A d \in Ctxs : pc'[d] = IF d = l THEN "q_sleep" ELSE pc[d]
    BY <2>2 DEF TypeOK, CtxTypeOK, Goto
  <2>7. Sleepers' = Sleepers \union {l}
    BY <2>1, <2>6 DEF Sleepers, At, Ctxs
  <2> QED BY <2>1, <2>3, <2>5, <2>6, <2>7 DEF WakeInv, At, Ctxs
<1>6. CASE Sleep(l)
  <2>1. /\ At(l, "q_sleep") /\ UNCHANGED <<slList, chain, tgt>> /\ Goto(l, "q_asleep")
        /\ lStat' = [lStat EXCEPT ![l] = "SSLEEP"] /\ lMutex' = [lMutex EXCEPT ![l] = Nobody]
    BY <1>6 DEF Sleep, Block, UnlockMutex, lockVars
  <2>2. \A d \in Ctxs : pc'[d] = IF d = l THEN "q_asleep" ELSE pc[d]
    BY <2>1 DEF TypeOK, CtxTypeOK, Goto
  <2>3. \A k \in Lwps : /\ lStat'[k] = IF k = l THEN "SSLEEP" ELSE lStat[k]
                        /\ lMutex'[k] = IF k = l THEN Nobody ELSE lMutex[k]
    BY <2>1 DEF TypeOK, LwpTypeOK
  <2>4. Sleepers' = Sleepers
    BY <2>1, <2>2, <2>3 DEF Sleepers, At, Ctxs
  <2>5. chain[l] = <<>> /\ lStat[l] = "SONPROC"
    BY <1>0, <2>1 DEF WakeInv, At, WakerPcs
  <2>6. \A d \in Ctxs : At(d, "n_unsleep") => tgt[d] # l
    BY <2>5 DEF WakeInv
  <2>8. \A d \in Ctxs : pc'[d] = "n_unsleep" =>
          tgt'[d] \in Lwps /\ lMutex'[tgt'[d]] = d /\ lStat'[tgt'[d]] = "SSLEEP"
    BY <2>1, <2>2, <2>3, <2>6 DEF WakeInv, At
  <2>9. \A d \in Ctxs : chain'[d] # <<>> => pc'[d] \in WakerPcs
    BY <2>1, <2>2, <2>5 DEF WakeInv
  <2>10. \A k \in Lwps : lStat'[k] = "SONPROC" <=> pc'[k] # "q_asleep"
    BY <2>2, <2>3 DEF WakeInv, Ctxs, At
  <2> QED BY <2>1, <2>4, <2>8, <2>9, <2>10 DEF WakeInv, At
<1>7. CASE WakeUp(l)
  <2>1. /\ At(l, "q_asleep") /\ UNCHANGED <<slList, chain, tgt, lMutex>>
        /\ lStat[l] = "SRUN" /\ lMutex[l] = Nobody /\ lStat' = [lStat EXCEPT ![l] = "SONPROC"]
    BY <1>7 DEF WakeUp, Resume, MutexFree, lockVars
  <2>2. PICK p : Goto(l, p) /\ p \notin KeptPcs
    BY <1>7 DEF WakeUp, KeptPcs
  <2>3. \A d \in Ctxs : pc'[d] = IF d = l THEN p ELSE pc[d]
    BY <2>2 DEF TypeOK, CtxTypeOK, Goto
  <2>4. \A k \in Lwps : lStat'[k] = IF k = l THEN "SONPROC" ELSE lStat[k]
    BY <2>1 DEF TypeOK, LwpTypeOK
  <2>5. Sleepers' = Sleepers
    BY <2>1, <2>2, <2>3, <2>4 DEF Sleepers, At, Ctxs, KeptPcs
  <2>6. chain[l] = <<>> /\ \A d \in Ctxs : At(d, "n_unsleep") => tgt[d] # l
    BY <1>0, <2>1 DEF WakeInv, At, WakerPcs
  <2>8. \A d \in Ctxs : pc'[d] = "n_unsleep" =>
          tgt'[d] \in Lwps /\ lMutex'[tgt'[d]] = d /\ lStat'[tgt'[d]] = "SSLEEP"
    BY <2>1, <2>2, <2>3, <2>4, <2>6 DEF WakeInv, At, KeptPcs
  <2>9. \A d \in Ctxs : chain'[d] # <<>> => pc'[d] \in WakerPcs
    BY <2>1, <2>3, <2>6 DEF WakeInv
  <2>10. \A k \in Lwps : lStat'[k] = "SONPROC" <=> pc'[k] # "q_asleep"
    BY <2>2, <2>3, <2>4 DEF WakeInv, Ctxs, At, KeptPcs
  <2> QED BY <2>1, <2>5, <2>8, <2>9, <2>10 DEF WakeInv, At
<1> QED BY <1>1, <1>2, <1>3, <1>4, <1>5, <1>6, <1>7 DEF Locking

(* The steps of sleep_lock_sig.                                            *)
LEMMA WakeLockingSig ==
  ASSUME TypeOK, WakeInv, NEW l \in Lwps, LockingSig(l)
  PROVE  WakeInv'
<1>0. l \in Ctxs
  BY DEF Ctxs
<1>1. /\ pc[l] \notin KeptPcs \union WakerPcs /\ UNCHANGED <<slList, chain>>
  BY DEF LockingSig, SigAgain, SigLock, SigIssig, SigRelock, SigAcquire, SendWaiting,
    SigTake, FixFspin, FixAdd, Return, At, KeptPcs, WakerPcs, lockVars
<1>2. chain[l] = <<>>
  BY <1>0, <1>1 DEF WakeInv
<1>3. \A p : Goto(l, p) => pc'[l] = p
  BY DEF Goto, TypeOK, CtxTypeOK, Ctxs
<1>4. CASE SigAgain(l) \/ FixFspin(l) \/ FixAdd(l)
  <2>1. UNCHANGED <<lStat, lMutex, tgt>>
    BY <1>4 DEF SigAgain, FixFspin, FixAdd, lwpVars
  <2>2. PICK p : Goto(l, p) /\ p \notin KeptPcs
    BY <1>4 DEF SigAgain, FixFspin, FixAdd, Return, KeptPcs
  <2> QED BY <1>0, <1>1, <1>2, <2>1, <2>2, WakeMove
<1>5. CASE SigLock(l)
  <2>1. UNCHANGED <<lStat, tgt>> /\ lMutex[l] = Nobody
    BY <1>5 DEF SigLock, MutexFree
  <2>2. PICK p : Goto(l, p) /\ p \notin KeptPcs
    BY <1>5 DEF SigLock, KeptPcs
  <2>3. PICK m : lMutex' = [lMutex EXCEPT ![l] = m]
    BY <1>5, <2>1 DEF SigLock, LockMutex, TypeOK, LwpTypeOK
  <2> QED BY <1>1, <1>2, <1>3, <2>1, <2>2, <2>3, WakeMutex
<1>6. CASE SigIssig(l)
  <2>1. UNCHANGED <<lStat, tgt>>
    BY <1>6 DEF SigIssig
  <2>2. PICK p : Goto(l, p) /\ p \notin KeptPcs
    BY <1>6 DEF SigIssig, Return, KeptPcs
  <2>3. PICK m : lMutex' = [lMutex EXCEPT ![l] = m]
    BY <1>6 DEF SigIssig, TakeIssig, Issig
  <2> QED BY <1>1, <1>2, <1>3, <2>1, <2>2, <2>3, WakeMutex
<1>7. CASE SigRelock(l)
  <2>1. /\ UNCHANGED <<lStat, tgt>> /\ lMutex' = [lMutex EXCEPT ![l] = l]
        /\ Goto(l, "s_acquire")
    BY <1>7 DEF SigRelock, LockMutex
  <2>2. "s_acquire" \notin KeptPcs
    BY DEF KeptPcs
  <2> QED BY <1>1, <1>2, <2>1, <2>2, WakeMutex
<1>8. CASE SigAcquire(l)
  <2>1. UNCHANGED <<lStat, tgt>>
    BY <1>8 DEF SigAcquire
  <2>2. "s_sigtoproc" \notin KeptPcs /\ "s_take" \notin KeptPcs
    BY DEF KeptPcs
  <2>3. CASE UnlockMutex(l) /\ Goto(l, "s_sigtoproc")
    <3>1. lMutex' = [lMutex EXCEPT ![l] = Nobody]
      BY <2>3 DEF UnlockMutex
    <3> QED BY <1>1, <1>2, <2>1, <2>2, <2>3, <3>1, WakeMutex
  <2>4. CASE UNCHANGED lMutex /\ Goto(l, "s_take")
    BY <1>0, <1>1, <1>2, <2>1, <2>2, <2>4, WakeMove
  <2> QED BY <1>8, <2>3, <2>4 DEF SigAcquire
<1>9. CASE SendWaiting(l)
  <2>1. At(l, "s_sigtoproc")
    BY <1>9 DEF SendWaiting
  <2>2. "s_again" \notin KeptPcs
    BY DEF KeptPcs
  <2>3. CASE WaitingPending(Proc[l])
    <3>1. Goto(l, "s_again") /\ UNCHANGED <<lStat, lMutex, tgt>>
      BY <1>9, <2>3 DEF SendWaiting, lwpVars
    <3> QED BY <1>0, <1>1, <1>2, <2>2, <3>1, WakeMove
  <2>4. CASE ~WaitingPending(Proc[l])
    <3>1. PICK t \in LwpsOf(Proc[l]) :
            /\ PostWaiting(t, l)
            /\ tgt' = [tgt EXCEPT ![l] = t]
            /\ Goto(l, IF Interruptible(t) THEN "n_unsleep" ELSE "s_again")
      BY <1>9, <2>4 DEF SendWaiting
    <3>2. t \in Lwps /\ PostSignal(t, l)
      BY <3>1 DEF LwpsOf, PostWaiting
    <3> QED BY <1>0, <1>1, <1>2, <2>2, <3>1, <3>2, WakePost
  <2> QED BY <2>3, <2>4
<1>10. CASE SigTake(l)
  <2>1. At(l, "s_take") /\ UNCHANGED <<lStat, tgt>>
    BY <1>10 DEF SigTake
  <2>2. "q_fspin" \notin KeptPcs /\ "g_fold" \notin KeptPcs
    BY DEF KeptPcs
  <2>3. CASE UnlockMutex(l) /\ Goto(l, "g_fold")
    <3>1. lMutex' = [lMutex EXCEPT ![l] = Nobody]
      BY <2>3 DEF UnlockMutex
    <3> QED BY <1>1, <1>2, <2>1, <2>2, <2>3, <3>1, WakeMutex
  <2>4. CASE UNCHANGED lMutex /\ Goto(l, "q_fspin")
    BY <1>0, <1>1, <1>2, <2>1, <2>2, <2>4, WakeMove
  <2> QED BY <1>10, <2>3, <2>4 DEF SigTake
<1> QED BY <1>4, <1>5, <1>6, <1>7, <1>8, <1>9, <1>10 DEF LockingSig

(* Signal posters, who take a sleeper off the queue if it is still there,  *)
(* and the choices.                                                        *)
LEMMA WakeOther ==
  ASSUME TypeOK, WakeInv, (\E c \in Ctxs : Unsleep(c)) \/ Choice
  PROVE  WakeInv'
<1>1. ASSUME NEW c \in Ctxs, Unsleep(c) PROVE WakeInv'
  <2> DEFINE t == tgt[c]
  <2>1. /\ At(c, "n_unsleep") /\ UNCHANGED <<chain, tgt>>
        /\ slList' = slpdeque(slList, t) /\ lMutex' = [lMutex EXCEPT ![t] = Nobody]
        /\ lStat' = [lStat EXCEPT ![t] = IF Contains(slList, t) THEN "SRUN" ELSE @]
    BY <1>1 DEF Unsleep, FinishNudge, UnlockMutex
  <2>2. t \in Lwps /\ lMutex[t] = c /\ lStat[t] = "SSLEEP" /\ chain[c] = <<>>
    BY <2>1 DEF WakeInv, At, WakerPcs
  <2> HIDE DEF t
  <2>3. PICK p : Goto(c, p) /\ p \notin KeptPcs
    BY <1>1 DEF Unsleep, KeptPcs
  <2>4. \A d \in Ctxs : pc'[d] = IF d = c THEN p ELSE pc[d]
    BY <2>3 DEF TypeOK, CtxTypeOK, Goto
  <2>5. \A k \in Lwps : /\ lMutex'[k] = IF k = t THEN Nobody ELSE lMutex[k]
                        /\ lStat'[k] = IF k = t /\ Contains(slList, t) THEN "SRUN"
                                                                        ELSE lStat[k]
    BY <2>1 DEF TypeOK, LwpTypeOK
  <2>6. pc[t] = "q_asleep" /\ t # c
    BY <2>1, <2>2 DEF WakeInv, At
  <2>7. Keeps(slList', chain', Ctxs, IF Contains(slList, t) THEN Sleepers \ {t} ELSE Sleepers)
    BY <2>1, <2>2, KeepsInterrupted DEF WakeInv
  <2>8. Sleepers' = IF Contains(slList, t) THEN Sleepers \ {t} ELSE Sleepers
    BY <2>1, <2>2, <2>3, <2>4, <2>5, <2>6 DEF Sleepers, At, Ctxs, KeptPcs
  <2>9. \A d \in Ctxs : At(d, "n_unsleep") /\ d # c => tgt[d] # t
    BY <2>2 DEF WakeInv
  <2>11. \A d \in Ctxs : pc'[d] = "n_unsleep" =>
           tgt'[d] \in Lwps /\ lMutex'[tgt'[d]] = d /\ lStat'[tgt'[d]] = "SSLEEP"
    BY <2>1, <2>3, <2>4, <2>5, <2>9 DEF WakeInv, At, KeptPcs
  <2>12. \A d \in Ctxs : chain'[d] # <<>> => pc'[d] \in WakerPcs
    BY <2>1, <2>2, <2>4 DEF WakeInv
  <2>13. \A k \in Lwps : lStat'[k] = "SONPROC" <=> pc'[k] # "q_asleep"
    BY <2>1, <2>2, <2>3, <2>4, <2>5, <2>6 DEF WakeInv, Ctxs, At, KeptPcs
  <2> QED BY <2>7, <2>8, <2>11, <2>12, <2>13 DEF WakeInv, At
<1>2. ASSUME NEW c \in Intrs, NEW t \in Lwps, Post(c, t) PROVE WakeInv'
  <2>1. /\ At(c, "idle") /\ PostSignal(t, c) /\ tgt' = [tgt EXCEPT ![c] = t]
        /\ Goto(c, IF Interruptible(t) THEN "n_unsleep" ELSE "idle")
        /\ UNCHANGED <<slList, chain>> /\ c \in Ctxs
    BY <1>2 DEF Post, lockVars, Ctxs
  <2>2. "idle" \notin KeptPcs /\ pc[c] \notin KeptPcs /\ chain[c] = <<>>
    BY <2>1 DEF KeptPcs, WakeInv, WakerPcs, At
  <2> QED BY <2>1, <2>2, WakePost
<1>3. ASSUME NEW l \in Lwps, Call(l) \/ LwpExit(l) \/ Disown(l) \/ LockPrivate(l)
      PROVE  WakeInv'
  <2>1. l \in Ctxs /\ UNCHANGED <<lStat, lMutex, slList, chain, tgt>>
    BY <1>3 DEF Call, LwpExit, Disown, LockPrivate, lwpVars, lockVars, Ctxs
  <2>2. pc[l] \in {"idle", "hold"}
    BY <1>3 DEF Call, LwpExit, Disown, LockPrivate, At
  <2>3. PICK p : UNCHANGED pc \/ (Goto(l, p) /\ p \notin KeptPcs)
    <3>1. CASE Call(l)
      <4>1. PICK o \in DOMAIN EntryPc : Goto(l, EntryPc[o])
        BY <3>1 DEF Call
      <4>2. EntryPc[o] \in {"f_start", "s_again", "t_take"}
        BY DEF EntryPc
      <4> QED BY <4>1, <4>2 DEF KeptPcs
    <3>2. CASE ~Call(l)
      BY <1>3, <3>2 DEF LwpExit, Disown, LockPrivate, KeptPcs
    <3> QED BY <3>1, <3>2
  <2>4. pc[l] \notin KeptPcs /\ chain[l] = <<>>
    BY <2>1, <2>2 DEF KeptPcs, WakeInv, WakerPcs
  <2> QED BY <2>1, <2>3, <2>4, WakeMove
<1>4. ASSUME NEW c \in Ctxs, WakeTooEarly(c) PROVE WakeInv'
  <2>1. UNCHANGED <<pc, lStat, lMutex, slList, chain, tgt>>
    BY <1>4 DEF WakeTooEarly, lwpVars, lockVars
  <2> QED BY <2>1 DEF WakeInv, Sleepers, At
<1> QED BY <1>1, <1>2, <1>3, <1>4 DEF Choice

(* Every step keeps the invariant.                                         *)
LEMMA WakeStep ==
  ASSUME TypeOK, ChainInv, WakeInv, [Next]_vars
  PROVE  WakeInv'
<1>1. CASE UNCHANGED vars
  <2>1. UNCHANGED <<pc, lStat, lMutex, slList, chain, tgt>>
    BY <1>1 DEF vars, lwpVars, lockVars
  <2> QED BY <2>1 DEF WakeInv, Sleepers, At
<1>2. CASE Next
  BY <1>1, <1>2, WakeUnlocking, WakeLocking, WakeLockingSig, WakeOther
  DEF Next, Step, Quiet
<1> QED BY <1>1, <1>2

(* The invariant, at every moment.                                         *)
THEOREM WakeupInvariant == Spec => []WakeInv
<1>1. TypeInv /\ WakeInv /\ [Next]_vars => WakeInv'
  BY WakeStep DEF TypeInv
<1> QED BY WakeInit, <1>1, TypesAndChains, PTL DEF Spec

(* A sleeper is on the queue or on one waker's chain, once, and nobody     *)
(* else is: a signal that takes it off and the wakeup of an unlocker never *)
(* both reach it, and neither leaves it behind with nobody to wake it.     *)
THEOREM SleeperHasOneWaker == Spec => []OneWaker
<1>1. WakeInv => OneWaker
  <2> SUFFICES ASSUME WakeInv PROVE OneWaker
    OBVIOUS
  <2>1. Nobody \notin Ctxs
    BY LwpAssumption
  <2>2. IsInjective(slList) /\ \A c \in Ctxs : IsInjective(chain[c])
    BY DEF WakeInv, Keeps
  <2>3. ASSUME NEW l \in Lwps, l \in Sleepers
        PROVE  \E k \in Ctxs \union {Nobody} : Knows(l) = {k}
    <3>1. CASE Contains(slList, l)
      <4>1. Knows(l) = {Nobody}
        BY <3>1 DEF WakeInv, Keeps, Knows
      <4> QED BY <4>1
    <3>2. CASE ~Contains(slList, l)
      <4>1. PICK c \in Ctxs : Contains(chain[c], l)
        BY <2>3, <3>2 DEF WakeInv, Keeps
      <4>2. Knows(l) = {c}
        BY <3>2, <4>1 DEF WakeInv, Keeps, Knows
      <4> QED BY <4>2
    <3> QED BY <3>1, <3>2
  <2>4. ASSUME NEW l \in Lwps, l \notin Sleepers PROVE Knows(l) = {}
    BY <2>4 DEF WakeInv, Keeps, Knows
  <2> QED BY <2>2, <2>3, <2>4 DEF OneWaker, Sleepers
<1> QED BY <1>1, WakeupInvariant, PTL
-----------------------------------------------------------------------------
(***************************************************************************)
(* p_niblked.  An LWP is counted from label acquire to its return with the *)
(* lock, but not while it acts on the end of a sleep.  The retry that goes *)
(* back to acquire leaves one count that nobody takes back.                *)
(***************************************************************************)
PlainPcs == {"f_start", "f_take", "f_pid", "w_take", "w_mutex", "w_relk"}
SigPcs == {"s_again", "s_lock", "s_issig", "s_issig2", "s_relock", "s_acquire", "s_take",
           "s_fixlk", "s_fixadd", "s_sigtoproc", "n_unsleep"}
Fits(p, o) == /\ p \in PlainPcs => o \in {"lock", "rellock"}
              /\ p \in SigPcs => o = "lock_sig"
              /\ p = "t_take" => o = "trylock"

CountedPcs == {"s_take", "q_fspin", "q_retry", "q_enq", "q_sleep", "q_asleep",
               "g_fold", "g_pid"}
Counted == {l \in Lwps : op[l] = "lock_sig" /\ pc[l] \in CountedPcs}
Owed == [p \in Procs |-> niblked[p] - recounted[p]]
NibInv == /\ \A l \in Lwps : Fits(pc[l], op[l])
          /\ CountsOf(Owed, Proc, Procs, Counted)

(* Nobody is counted at first.                                             *)
LEMMA NibInit == Init => NibInv
<1> SUFFICES ASSUME Init PROVE NibInv
  OBVIOUS
<1>1. \A l \in Lwps : pc[l] = "idle" /\ op[l] = "lock"
  BY DEF Init, Ctxs
<1>2. Counted = {} /\ \A l \in Lwps : Fits(pc[l], op[l])
  BY <1>1 DEF Counted, Fits, CountedPcs, PlainPcs, SigPcs
<1>3. Owed = [p \in Procs |-> 0]
  BY DEF Init, Owed
<1> QED BY <1>2, <1>3, CountsNobody DEF NibInv

(* A step of a context that leaves every count as it is.                   *)
LEMMA NibMove ==
  ASSUME TypeOK, NibInv, NEW c \in Ctxs, NEW p,
         UNCHANGED pc \/ Goto(c, p), UNCHANGED <<op, niblked, recounted>>,
         c \in Lwps => Fits(pc'[c], op[c]) /\ (c \in Counted' <=> c \in Counted)
  PROVE  NibInv'
<1>1. \A k \in Lwps : k # c => pc'[k] = pc[k]
  BY DEF TypeOK, CtxTypeOK, Goto, Ctxs
<1>2. \A k \in Lwps : k # c => (k \in Counted' <=> k \in Counted)
  BY <1>1 DEF Counted
<1>3. Counted' = Counted /\ Owed' = Owed
  BY <1>2 DEF Counted, Owed
<1>4. \A k \in Lwps : Fits(pc'[k], op'[k])
  BY <1>1 DEF NibInv
<1> QED BY <1>3, <1>4 DEF NibInv

(* A step outside the calls that are counted.                              *)
LEMMA NibAway ==
  ASSUME TypeOK, NibInv, NEW c \in Ctxs, NEW p,
         UNCHANGED pc \/ /\ Goto(c, p) /\ pc[c] \notin CountedPcs
                         /\ p \notin CountedPcs
                         /\ c \in Lwps => Fits(p, op[c]),
         UNCHANGED <<op, niblked, recounted>>
  PROVE  NibInv'
<1>1. c \in Lwps => Fits(pc'[c], op[c]) /\ (c \in Counted' <=> c \in Counted)
  BY DEF TypeOK, CtxTypeOK, Goto, NibInv, Counted
<1> QED BY <1>1, NibMove

(* A step from one pc to another at which a caller is counted.             *)
LEMMA NibStays ==
  ASSUME TypeOK, NibInv, NEW l \in Lwps, NEW p, pc[l] \in CountedPcs,
         Goto(l, p), p \in CountedPcs, Fits(p, op[l]),
         UNCHANGED <<op, niblked, recounted>>
  PROVE  NibInv'
<1>1. l \in Ctxs /\ pc'[l] = p
  BY DEF Ctxs, TypeOK, CtxTypeOK, Goto
<1>2. l \in Counted' <=> l \in Counted
  BY <1>1 DEF Counted
<1> QED BY <1>1, <1>2, NibMove

(* A caller is counted.                                                    *)
LEMMA NibMore ==
  ASSUME TypeOK, NoteTypeOK, NibInv, NEW l \in Lwps, l \notin Counted, NEW p,
         Goto(l, p), p \in CountedPcs, Fits(p, op[l]), op[l] = "lock_sig",
         niblked' = [niblked EXCEPT ![Proc[l]] = @ + 1], UNCHANGED <<op, recounted>>
  PROVE  NibInv'
<1>1. \A k \in Lwps : pc'[k] = IF k = l THEN p ELSE pc[k]
  BY DEF TypeOK, CtxTypeOK, Goto, Ctxs
<1>2. Counted' = Counted \union {l} /\ Proc[l] \in Procs /\ Counted \in SUBSET Lwps
  BY <1>1 DEF Counted, Procs
<1>3. Owed' = [Owed EXCEPT ![Proc[l]] = @ + 1]
  BY <1>2 DEF Owed, TypeOK, CallTypeOK, NoteTypeOK
<1>4. \A k \in Lwps : Fits(pc'[k], op'[k])
  BY <1>1 DEF NibInv
<1> QED BY <1>2, <1>3, <1>4, CountsMore DEF NibInv

(* A caller is no longer counted: it takes its count back, or it leaves it *)
(* to those that nobody takes back.                                        *)
LEMMA NibLess ==
  ASSUME TypeOK, NoteTypeOK, NibInv, NEW l \in Counted, NEW p,
         Goto(l, p), p \notin CountedPcs, Fits(p, op[l]), UNCHANGED op,
         \/ /\ niblked' = [niblked EXCEPT ![Proc[l]] = @ + -1]
            /\ UNCHANGED recounted
         \/ /\ recounted' = [recounted EXCEPT ![Proc[l]] = @ + 1]
            /\ UNCHANGED niblked
  PROVE  NibInv'
<1>0. l \in Lwps
  BY DEF Counted
<1>1. \A k \in Lwps : pc'[k] = IF k = l THEN p ELSE pc[k]
  BY <1>0 DEF TypeOK, CtxTypeOK, Goto, Ctxs
<1>2. Counted' = Counted \ {l} /\ Proc[l] \in Procs /\ Counted \in SUBSET Lwps
  BY <1>0, <1>1 DEF Counted, Procs
<1>3. Owed' = [Owed EXCEPT ![Proc[l]] = @ + -1]
  BY <1>2 DEF Owed, TypeOK, CallTypeOK, NoteTypeOK
<1>4. \A k \in Lwps : Fits(pc'[k], op'[k])
  BY <1>1 DEF NibInv
<1> QED BY <1>2, <1>3, <1>4, CountsLess DEF NibInv

(* The steps of sleep_unlock.                                              *)
LEMMA NibUnlocking ==
  ASSUME TypeOK, NibInv, NEW c \in Ctxs, Unlocking(c)
  PROVE  NibInv'
<1>1. UNCHANGED <<op, niblked, recounted>>
  BY DEF Unlocking, UnlockStart, UnlockList, UnlockAvail, UnlockRecheck, UnlockRetake,
    UnlockDone, DequeueFspin, Dequeue, DequeueDone, WakeChain, callVars, procVars,
    noteVars, ASSERT
<1>2. pc[c] \notin CountedPcs
  BY DEF Unlocking, UnlockStart, UnlockList, UnlockAvail, UnlockRecheck, UnlockRetake,
    UnlockDone, DequeueFspin, Dequeue, DequeueDone, WakeChain, DisownedUser, At, CountedPcs
<1>3. PICK p \in {"idle"} \union Releasing \union Released : UNCHANGED pc \/ Goto(c, p)
  BY DEF Unlocking, UnlockStart, UnlockList, UnlockAvail, UnlockRecheck, UnlockRetake,
    UnlockDone, DequeueFspin, Dequeue, DequeueDone, WakeChain, Releasing, Released
<1>4. p \notin CountedPcs /\ \A o : Fits(p, o)
  BY DEF Releasing, Released, CountedPcs, Fits, PlainPcs, SigPcs
<1> QED BY <1>1, <1>2, <1>3, <1>4, NibAway

(* The steps of sleep_lock and sleep_lock_rellock, which leave a caller of *)
(* sleep_lock_sig counted until it has the lock, wakes or retries.         *)
LEMMA NibLocking ==
  ASSUME TypeOK, NoteTypeOK, NibInv, NEW l \in Lwps, Locking(l)
  PROVE  NibInv'
<1>0. l \in Ctxs /\ Fits(pc[l], op[l])
  BY DEF Ctxs, NibInv
<1>1. \A p : Goto(l, p) => pc'[l] = p
  BY <1>0 DEF Goto, TypeOK, CtxTypeOK
<1>2. CASE \/ FastStart(l) \/ FastTake(l) \/ SlowTake(l) \/ RelockEntryLock(l)
           \/ SlowMutex(l)
  <2>1. UNCHANGED <<op, niblked, recounted>>
    BY <1>2 DEF FastStart, FastTake, SlowTake, RelockEntryLock, SlowMutex, callVars,
      procVars, noteVars, ASSERT
  <2>2. op[l] \in {"lock", "rellock"}
    BY <1>0, <1>2 DEF FastStart, FastTake, SlowTake, RelockEntryLock, SlowMutex, At, Fits,
      PlainPcs
  <2>3. PICK p \in PlainPcs \union {"g_fold", "q_fspin"} : UNCHANGED pc \/ Goto(l, p)
    BY <1>2 DEF FastStart, FastTake, SlowTake, RelockEntryLock, SlowMutex, PlainPcs
  <2>4. Fits(p, op[l])
    BY <2>2 DEF Fits, PlainPcs, SigPcs
  <2>5. l \notin Counted /\ l \notin Counted'
    BY <2>1, <2>2 DEF Counted
  <2> QED BY <1>0, <1>1, <2>1, <2>3, <2>4, <2>5, NibMove
<1>3. CASE TryLock(l)
  <2>1. UNCHANGED <<op, niblked, recounted>> /\ op[l] = "trylock"
    BY <1>0, <1>3 DEF TryLock, callVars, procVars, noteVars, At, Fits
  <2>2. PICK p \in {"g_pid", "idle"} : Goto(l, p)
    BY <1>3 DEF TryLock
  <2>3. Fits(p, op[l])
    BY DEF Fits, PlainPcs, SigPcs
  <2>4. l \notin Counted /\ l \notin Counted'
    BY <2>1 DEF Counted
  <2> QED BY <1>0, <1>1, <2>1, <2>2, <2>3, <2>4, NibMove
<1>4. CASE QueueFspin(l) \/ Enqueue(l) \/ Sleep(l) \/ FoldFixpend(l)
  <2>1. UNCHANGED <<op, niblked, recounted>>
    BY <1>4 DEF QueueFspin, Enqueue, Sleep, FoldFixpend, callVars, procVars, noteVars, ASSERT
  <2>2. pc[l] \in CountedPcs
    BY <1>4 DEF QueueFspin, Enqueue, Sleep, FoldFixpend, At, CountedPcs
  <2>3. PICK p \in {"q_retry", "q_sleep", "q_asleep", "g_pid"} : Goto(l, p)
    BY <1>4 DEF QueueFspin, Enqueue, Sleep, FoldFixpend
  <2>4. p \in CountedPcs /\ Fits(p, op[l])
    BY DEF Fits, CountedPcs, PlainPcs, SigPcs
  <2> QED BY <2>1, <2>2, <2>3, <2>4, NibStays
<1>5. CASE QueueRetry(l)
  <2>1. At(l, "q_retry") /\ UNCHANGED <<op, niblked>> /\ pc[l] \in CountedPcs
    BY <1>5 DEF QueueRetry, callVars, procVars, At, CountedPcs
  <2>2. CASE /\ op[l] = "lock_sig" /\ Goto(l, "s_acquire")
             /\ recounted' = [recounted EXCEPT ![Proc[l]] = @ + 1]
    <3>1. l \in Counted
      BY <2>1, <2>2 DEF Counted
    <3>2. "s_acquire" \notin CountedPcs /\ Fits("s_acquire", op[l])
      BY <2>2 DEF Fits, CountedPcs, PlainPcs
    <3> QED BY <2>1, <2>2, <3>1, <3>2, NibLess
  <2>3. ASSUME NEW p \in {"g_fold", "q_enq"}, Goto(l, p), UNCHANGED recounted
        PROVE  NibInv'
    <3>1. p \in CountedPcs /\ Fits(p, op[l])
      BY DEF Fits, CountedPcs, PlainPcs, SigPcs
    <3> QED BY <2>1, <2>3, <3>1, NibStays
  <2> QED BY <1>5, <2>2, <2>3 DEF QueueRetry
<1>6. CASE WakeUp(l)
  <2>1. At(l, "q_asleep") /\ UNCHANGED <<op, recounted>>
    BY <1>6 DEF WakeUp, callVars, noteVars
  <2>2. CASE op[l] # "lock_sig"
    <3>1. PICK p \in {"w_take", "w_relk"} :
            Goto(l, p) /\ op[l] \in {"lock", "rellock"} /\ UNCHANGED niblked
      BY <1>6, <2>2 DEF WakeUp
    <3>2. Fits(p, op[l]) /\ l \notin Counted /\ l \notin Counted'
      BY <2>1, <3>1 DEF Fits, PlainPcs, SigPcs, Counted
    <3> QED BY <1>0, <1>1, <2>1, <3>1, <3>2, NibMove
  <2>3. CASE op[l] = "lock_sig"
    <3>1. PICK p \in {"s_issig2", "s_relock"} :
            Goto(l, p) /\ niblked' = [niblked EXCEPT ![Proc[l]] = @ + -1]
      BY <1>6, <2>3 DEF WakeUp, CountAwake, CountBlocked
    <3>2. l \in Counted
      BY <2>1, <2>3 DEF Counted, CountedPcs, At
    <3>3. p \notin CountedPcs /\ Fits(p, op[l])
      BY <2>3 DEF CountedPcs, Fits, PlainPcs
    <3> QED BY <2>1, <3>1, <3>2, <3>3, NibLess
  <2> QED BY <2>2, <2>3
<1>7. CASE RecordOwner(l)
  <2>1. /\ pc[l] \in {"f_pid", "g_pid"} /\ Goto(l, "hold") /\ UNCHANGED <<op, recounted>>
        /\ IF op[l] = "lock_sig" THEN CountBlocked(l, -1) ELSE UNCHANGED niblked
    BY <1>7 DEF RecordOwner
  <2>2. Fits("hold", op[l]) /\ "hold" \notin CountedPcs
    BY DEF Fits, PlainPcs, SigPcs, CountedPcs
  <2>3. CASE op[l] # "lock_sig"
    <3>1. l \notin Counted /\ l \notin Counted'
      BY <2>1, <2>3 DEF Counted
    <3> QED BY <1>0, <1>1, <2>1, <2>2, <2>3, <3>1, NibMove
  <2>4. CASE op[l] = "lock_sig"
    <3>1. niblked' = [niblked EXCEPT ![Proc[l]] = @ + -1]
      BY <2>1, <2>4 DEF CountBlocked
    <3>2. l \in Counted
      BY <1>0, <2>1, <2>4 DEF Counted, CountedPcs, Fits, PlainPcs
    <3> QED BY <2>1, <2>2, <3>1, <3>2, NibLess
  <2> QED BY <2>3, <2>4
<1> QED BY <1>2, <1>3, <1>4, <1>5, <1>6, <1>7 DEF Locking

(* The steps of sleep_lock_sig.                                            *)
LEMMA NibLockingSig ==
  ASSUME TypeOK, NoteTypeOK, NibInv, NEW l \in Lwps, LockingSig(l)
  PROVE  NibInv'
<1>0. l \in Ctxs /\ Fits(pc[l], op[l])
  BY DEF Ctxs, NibInv
<1>1. op[l] = "lock_sig" /\ UNCHANGED <<op, recounted>>
  BY <1>0 DEF LockingSig, SigAgain, SigLock, SigIssig, SigRelock, SigAcquire, SendWaiting,
    SigTake, FixFspin, FixAdd, Return, ASSERT, callVars, noteVars, At, SigPcs, Fits
<1>2. \A p \in SigPcs \union {"idle"} \union (CountedPcs \ {"s_take"}) : Fits(p, op[l])
  BY <1>1 DEF Fits, SigPcs, CountedPcs, PlainPcs
<1>3. CASE \/ SigAgain(l) \/ FixFspin(l) \/ FixAdd(l) \/ SigLock(l) \/ SigIssig(l)
           \/ SigRelock(l) \/ SendWaiting(l)
  <2>1. UNCHANGED niblked
    BY <1>3 DEF SigAgain, FixFspin, FixAdd, SigLock, SigIssig, SigRelock, SendWaiting,
      TakeIssig, procVars
  <2>2. pc[l] \notin CountedPcs
    BY <1>3 DEF SigAgain, FixFspin, FixAdd, SigLock, SigIssig, SigRelock, SendWaiting, At,
      CountedPcs
  <2>3. PICK p \in SigPcs \union {"idle"} : Goto(l, p) /\ p # "s_take"
    BY <1>3 DEF SigAgain, FixFspin, FixAdd, SigLock, SigIssig, SigRelock, SendWaiting,
      Return, SigPcs
  <2>4. p \notin CountedPcs
    BY <2>3 DEF SigPcs, CountedPcs
  <2> QED BY <1>0, <1>1, <1>2, <2>1, <2>2, <2>3, <2>4, NibAway
<1>4. CASE SigAcquire(l)
  <2>1. pc[l] \notin CountedPcs /\ l \notin Counted
    BY <1>4 DEF SigAcquire, At, CountedPcs, Counted
  <2>2. CASE Goto(l, "s_sigtoproc") /\ UNCHANGED niblked
    <3>1. "s_sigtoproc" \in SigPcs /\ "s_sigtoproc" \notin CountedPcs
      BY DEF SigPcs, CountedPcs
    <3> QED BY <1>0, <1>1, <1>2, <2>1, <2>2, <3>1, NibAway
  <2>3. CASE CountBlocked(l, 1) /\ Goto(l, "s_take")
    <3>1. niblked' = [niblked EXCEPT ![Proc[l]] = @ + 1]
      BY <2>3 DEF CountBlocked
    <3>2. "s_take" \in CountedPcs /\ Fits("s_take", op[l])
      BY <1>2 DEF CountedPcs, SigPcs
    <3> QED BY <1>1, <2>1, <2>3, <3>1, <3>2, NibMore
  <2> QED BY <1>4, <2>2, <2>3 DEF SigAcquire
<1>5. CASE SigTake(l)
  <2>1. At(l, "s_take") /\ UNCHANGED niblked
    BY <1>5 DEF SigTake, procVars
  <2>2. PICK p \in {"g_fold", "q_fspin"} : Goto(l, p)
    BY <1>5 DEF SigTake
  <2>3. pc[l] \in CountedPcs /\ p \in CountedPcs /\ Fits(p, op[l])
    BY <1>2, <2>1 DEF CountedPcs, At
  <2> QED BY <1>1, <2>1, <2>2, <2>3, NibStays
<1> QED BY <1>3, <1>4, <1>5 DEF LockingSig

(* Signal posters and the choices.                                         *)
LEMMA NibOther ==
  ASSUME TypeOK, NibInv, (\E c \in Ctxs : Unsleep(c)) \/ Choice
  PROVE  NibInv'
<1>1. ASSUME NEW c \in Ctxs, Unsleep(c) PROVE NibInv'
  <2>1. /\ At(c, "n_unsleep") /\ UNCHANGED <<op, niblked, recounted>>
        /\ Goto(c, IF c \in Lwps THEN "s_again" ELSE "idle")
    BY <1>1 DEF Unsleep, callVars, procVars, noteVars
  <2>2. c \in Lwps => Fits("n_unsleep", op[c])
    BY <2>1 DEF NibInv, At
  <2>3. c \in Lwps => Fits("s_again", op[c])
    BY <2>2 DEF Fits, SigPcs, PlainPcs
  <2>4. PICK p \in {"s_again", "idle"} : Goto(c, p) /\ (c \in Lwps => Fits(p, op[c]))
    BY <2>1, <2>3
  <2>5. pc[c] \notin CountedPcs /\ p \notin CountedPcs
    BY <2>1 DEF At, CountedPcs
  <2> QED BY <2>1, <2>4, <2>5, NibAway
<1>2. ASSUME NEW c \in Intrs, NEW t \in Lwps, Post(c, t) PROVE NibInv'
  <2>1. /\ At(c, "idle") /\ UNCHANGED <<op, niblked, recounted>> /\ c \in Ctxs
        /\ c \notin Lwps
    BY <1>2, LwpAssumption DEF Post, callVars, procVars, noteVars, Ctxs
  <2>2. PICK p \in {"n_unsleep", "idle"} : Goto(c, p)
    BY <1>2 DEF Post
  <2>3. pc[c] \notin CountedPcs /\ p \notin CountedPcs
    BY <2>1 DEF At, CountedPcs
  <2> QED BY <2>1, <2>2, <2>3, NibAway
<1>3. ASSUME NEW l \in Lwps, Call(l) PROVE NibInv'
  <2>1. PICK o \in DOMAIN EntryPc :
          At(l, "idle") /\ op' = [op EXCEPT ![l] = o] /\ Goto(l, EntryPc[o])
          /\ UNCHANGED <<niblked, recounted>>
    BY <1>3 DEF Call, procVars, noteVars
  <2>2. Fits(EntryPc[o], o) /\ EntryPc[o] \notin CountedPcs
    BY DEF EntryPc, Fits, PlainPcs, SigPcs, CountedPcs
  <2>3. \A k \in Lwps : /\ pc'[k] = IF k = l THEN EntryPc[o] ELSE pc[k]
                        /\ op'[k] = IF k = l THEN o ELSE op[k]
    BY <2>1 DEF Goto, TypeOK, CtxTypeOK, CallTypeOK, Ctxs
  <2>4. Counted' = Counted /\ Owed' = Owed
    BY <2>1, <2>2, <2>3 DEF Counted, At, CountedPcs, Owed
  <2>5. \A k \in Lwps : Fits(pc'[k], op'[k])
    BY <2>2, <2>3 DEF NibInv
  <2> QED BY <2>4, <2>5 DEF NibInv
<1>4. ASSUME NEW l \in Lwps, LwpExit(l) \/ Disown(l) \/ LockPrivate(l) PROVE NibInv'
  <2>1. UNCHANGED <<op, niblked, recounted>> /\ pc[l] \in {"idle", "hold"} /\ l \in Ctxs
    BY <1>4 DEF LwpExit, Disown, LockPrivate, ASSERT, callVars, procVars, noteVars, At, Ctxs
  <2>2. PICK p \in {"idle", "exited"} : UNCHANGED pc \/ Goto(l, p)
    BY <1>4 DEF LwpExit, Disown, LockPrivate
  <2>3. Fits(p, op[l]) /\ pc[l] \notin CountedPcs /\ p \notin CountedPcs
    BY <2>1 DEF Fits, SigPcs, PlainPcs, CountedPcs
  <2> QED BY <2>1, <2>2, <2>3, NibAway
<1>5. ASSUME NEW c \in Ctxs, WakeTooEarly(c) PROVE NibInv'
  <2>1. UNCHANGED <<pc, op, niblked, recounted>>
    BY <1>5 DEF WakeTooEarly, callVars, procVars
  <2> QED BY <2>1 DEF NibInv, Counted, Owed
<1> QED BY <1>1, <1>2, <1>3, <1>4, <1>5 DEF Choice

(* Every step keeps the count.                                             *)
LEMMA NibStep ==
  ASSUME TypeOK, NoteTypeOK, NibInv, [Next]_vars
  PROVE  NibInv'
<1>1. CASE UNCHANGED vars
  <2>1. UNCHANGED <<pc, op, niblked, recounted>>
    BY <1>1 DEF vars, callVars, procVars, noteVars
  <2> QED BY <2>1 DEF NibInv, Counted, Owed
<1>2. CASE Next
  BY <1>1, <1>2, NibUnlocking, NibLocking, NibLockingSig, NibOther DEF Next, Step, Quiet
<1> QED BY <1>1, <1>2

(* The count, at every moment.                                             *)
THEOREM NiblkedInvariant == Spec => []NibInv
<1>1. TypeInv /\ NibInv /\ [Next]_vars => NibInv'
  BY NibStep DEF TypeInv
<1> QED BY NibInit, <1>1, TypesAndChains, PTL DEF Spec

(* When no LWP of a process is in a call, p_niblked is what raced retries  *)
(* have left in it and no more: every other way out of sleep_lock_sig,     *)
(* with the lock, by a signal or by SIGWAITING, takes back what the caller *)
(* added.                                                                  *)
THEOREM OnlyRetriesStayCounted == Spec => []NiblkedBalanced
<1>1. TypeInv /\ NibInv => NiblkedBalanced
  <2> SUFFICES ASSUME TypeInv, NibInv, NEW p \in Procs,
                      \A l \in LwpsOf(p) : pc[l] \in {"idle", "hold"}
               PROVE  niblked[p] = recounted[p]
    BY DEF NiblkedBalanced
  <2>1. {m \in Counted : Proc[m] = p} = {}
    BY DEF Counted, CountedPcs, LwpsOf, At
  <2>2. Owed[p] = 0
    BY <2>1, FS_EmptySet DEF NibInv, CountsOf
  <2> QED BY <2>2 DEF Owed, TypeInv, TypeOK, CallTypeOK, NoteTypeOK
<1> QED BY <1>1, TypesAndChains, NiblkedInvariant, PTL
-----------------------------------------------------------------------------
(***************************************************************************)
(* What sl_pend counts, when no caller is reached by signals: sl_fixpend   *)
(* then stays zero, and the ASSERTs that sl_pend covers the sleeps of a    *)
(* caller follow from the count.                                           *)
(***************************************************************************)
SleptPcs == {"w_take", "w_mutex", "w_relk", "q_fspin", "q_retry", "q_enq", "q_sleep",
             "q_asleep", "g_fold", "g_pid"}
FspinPcs == {"q_retry", "q_enq", "d_deq"}
BusyPcs == {"u_fspin2", "u_list2", "u_retake", "u_nopid", "d_nopid", "d_fspin", "d_deq"}

(* No signal ends a sleep, and no call leaves a correction.                *)
Unsignalled ==
  /\ slFixpend = 0
  /\ \A l \in Lwps : op[l] # "lock_sig"
  /\ \A c \in Ctxs : pc[c] \notin SigPcs
  /\ \A l \in Lwps : lStat[l] = "SSLEEP" => "L_NWAKE" \in lFlag[l]
(* A caller remembers its sleeps until it has the lock.                    *)
Slept == \A l \in Lwps : /\ nsleeps[l] # 0 => pc[l] \in SleptPcs
                         /\ At(l, "q_asleep") => nsleeps[l] >= 1
(* sl_fspin is held, and sl_pid is SL_BUSY, for a while only.              *)
Brief == /\ slFspin # Nobody => slFspin \in Ctxs /\ pc[slFspin] \in FspinPcs
         /\ slPid = SL_BUSY => \E c \in Ctxs : pc[c] \in BusyPcs
Accounted == slPend = Cardinality(Units(Unsettled)) /\ failed = {}
AccInv == Unsignalled /\ Slept /\ Brief /\ Accounted

(* Nothing has happened at first.                                          *)
LEMMA AccInit == Init => AccInv
<1> SUFFICES ASSUME Init PROVE AccInv
  OBVIOUS
<1>1. /\ \A c \in Ctxs : pc[c] = "idle"
      /\ \A l \in Lwps : op[l] = "lock" /\ lStat[l] = "SONPROC" /\ nsleeps[l] = 0
      /\ slFixpend = 0 /\ slPend = 0 /\ failed = {} /\ slFspin = Nobody /\ slPid = NOPID
  BY DEF Init, LwpInit
<1>2. Unsettled \in [Lwps -> Nat] /\ \A l \in Lwps : Unsettled[l] = 0
  BY <1>1 DEF Unsettled, Acquiring, Ctxs
<1>3. Cardinality(Units(Unsettled)) = 0
  BY <1>2, UnitsNone
<1>4. Unsignalled
  BY <1>1 DEF Unsignalled, SigPcs
<1>5. Slept
  BY <1>1 DEF Slept, At, Ctxs
<1>6. Brief
  BY <1>1, SleepAssumption DEF Brief
<1> QED BY <1>1, <1>3, <1>4, <1>5, <1>6 DEF AccInv, Accounted

(* A queued LWP is about to sleep or asleep, so that what it is owed is    *)
(* never negative.                                                         *)
LEMMA OwedToEach ==
  ASSUME TypeOK, WakeInv, Slept
  PROVE  /\ Unsettled \in [Lwps -> Nat]
         /\ \A l \in Lwps : Contains(slList, l) => pc[l] \in {"q_sleep", "q_asleep"}
<1>1. \A l \in Lwps : Contains(slList, l) => pc[l] \in {"q_sleep", "q_asleep"}
  BY DEF WakeInv, Keeps, Sleepers, At
<1>2. \A l \in Lwps : nsleeps[l] \in Nat
  BY DEF TypeOK, CallTypeOK
<1>3. ASSUME NEW l \in Lwps PROVE Credit(l) \in Nat
  <2>1. CASE ~Contains(slList, l)
    BY <1>2, <2>1 DEF Credit
  <2>2. CASE Contains(slList, l) /\ At(l, "q_sleep")
    BY <1>2, <2>2 DEF Credit
  <2>3. CASE Contains(slList, l) /\ At(l, "q_asleep")
    BY <1>2, <2>3 DEF Credit, Slept, At
  <2> QED BY <1>1, <2>1, <2>2, <2>3 DEF At
<1> QED BY <1>1, <1>3 DEF Unsettled

(* Where nothing is settled, given or counted the sum is the same.         *)
LEMMA AccSame ==
  ASSUME Accounted, failed' = {}, slPend' = slPend,
         \A l \in Lwps : Unsettled'[l] = Unsettled[l]
  PROVE  Accounted'
<1>1. Unsettled' = Unsettled
  BY DEF Unsettled
<1> QED BY <1>1 DEF Accounted

(* A caller that takes the lock settles all that it was given: sl_pend     *)
(* covers it.                                                              *)
LEMMA Covered ==
  ASSUME TypeOK, WakeInv, Slept, Accounted, NEW l \in Lwps,
         pc[l] \in {"w_take", "q_retry"}
  PROVE  PendCovers(l) /\ Unsettled[l] = nsleeps[l]
<1>1. ~Contains(slList, l)
  BY OwedToEach
<1>2. nsleeps[l] \in Nat /\ Unsettled[l] = nsleeps[l]
  BY <1>1 DEF Unsettled, Credit, Acquiring, At, TypeOK, CallTypeOK
<1>3. Unsettled[l] <= Cardinality(Units(Unsettled))
  BY OwedToEach, UnitsPart, LwpAssumption
<1>4. Cardinality(Units(Unsettled)) \in Nat
  BY OwedToEach, UnitsFinite, LwpAssumption
<1> QED BY <1>2, <1>3, <1>4 DEF PendCovers, Accounted

LEMMA Settles ==
  ASSUME TypeOK, WakeInv, Slept, Accounted, NEW l \in Lwps,
         pc[l] \in {"w_take", "q_retry"}, TakeAndSettle(l), Goto(l, "g_fold"),
         UNCHANGED <<slList, nsleeps>>, failed' = {}
  PROVE  Accounted'
<1>1. Unsettled \in [Lwps -> Nat] /\ Unsettled[l] = nsleeps[l]
  BY OwedToEach, Covered
<1>2. \A m \in Lwps : pc'[m] = IF m = l THEN "g_fold" ELSE pc[m]
  BY DEF Goto, TypeOK, CtxTypeOK, Ctxs
<1>3. \A m \in Lwps : Unsettled'[m] = IF m = l THEN 0 ELSE Unsettled[m]
  BY <1>2 DEF Unsettled, Credit, Acquiring, At
<1>4. Unsettled' \in [Lwps -> Nat]
  BY <1>1, <1>3 DEF Unsettled
<1>5. Cardinality(Units(Unsettled')) = Cardinality(Units(Unsettled)) - Unsettled[l]
  BY <1>1, <1>3, <1>4, LwpAssumption, UnitsCleared
<1>6. Units(Unsettled)' = Units(Unsettled')
  BY DEF Units
<1> QED BY <1>1, <1>5, <1>6 DEF Accounted, TakeAndSettle
(* A step of one context, for what does not count.                         *)
LEMMA QuietMove ==
  ASSUME TypeOK, Unsignalled, NEW c \in Ctxs, NEW p,
         UNCHANGED pc \/ (Goto(c, p) /\ p \notin SigPcs),
         slFixpend' = 0, UNCHANGED op,
         \A l \in Lwps : lStat'[l] = "SSLEEP" =>
           \/ "L_NWAKE" \in lFlag'[l]
           \/ lStat[l] = "SSLEEP" /\ lFlag'[l] \in {lFlag[l], lFlag[l] \ {"L_SIGWOKE"}}
  PROVE  Unsignalled'
<1>1. \A d \in Ctxs : pc'[d] \notin SigPcs
  BY DEF TypeOK, CtxTypeOK, Goto, Unsignalled
<1> QED BY <1>1 DEF Unsignalled

LEMMA BriefMove ==
  ASSUME TypeOK, Brief, NEW c \in Ctxs, NEW p,
         UNCHANGED pc \/ Goto(c, p),
         \/ slFspin' = Nobody
         \/ slFspin' = c /\ pc'[c] \in FspinPcs
         \/ slFspin' = slFspin /\ (pc[c] \in FspinPcs => pc'[c] \in FspinPcs),
         \/ slPid' # SL_BUSY
         \/ pc'[c] \in BusyPcs
         \/ slPid' = slPid /\ (pc[c] \in BusyPcs => pc'[c] \in BusyPcs)
  PROVE  Brief'
<1>1. \A d \in Ctxs : d # c => pc'[d] = pc[d]
  BY DEF TypeOK, CtxTypeOK, Goto
<1>2. slFspin' # Nobody => slFspin' \in Ctxs /\ pc'[slFspin'] \in FspinPcs
  BY <1>1 DEF Brief
<1>3. slPid' = SL_BUSY => \E d \in Ctxs : pc'[d] \in BusyPcs
  BY <1>1 DEF Brief
<1> QED BY <1>2, <1>3 DEF Brief

LEMMA SleptMove ==
  ASSUME TypeOK, Slept, NEW c \in Ctxs, NEW p,
         UNCHANGED pc \/ Goto(c, p), UNCHANGED nsleeps,
         c \in Lwps => /\ nsleeps[c] # 0 => pc'[c] \in SleptPcs
                       /\ UNCHANGED pc \/ p # "q_asleep"
  PROVE  Slept'
<1>1. \A d \in Ctxs : d # c => pc'[d] = pc[d]
  BY DEF TypeOK, CtxTypeOK, Goto
<1>2. \A d \in Ctxs : Goto(d, p) => pc'[d] = p
  BY DEF TypeOK, CtxTypeOK, Goto
<1> QED BY <1>1, <1>2 DEF Slept, At, Ctxs

(* The steps of sleep_unlock.  The dequeuer adds to sl_pend one for each   *)
(* LWP that it takes off the queue.                                        *)
LEMMA AccUnlocking ==
  ASSUME TypeOK, WakeInv, AccInv, OwnerAssertsHold',
         NEW c \in Ctxs, Unlocking(c)
  PROVE  AccInv'
<1>0. Unsignalled /\ Slept /\ Brief /\ Accounted /\ slFixpend = 0 /\ failed = {}
  BY DEF AccInv, Unsignalled, Accounted
<1>1. /\ UNCHANGED <<op, nsleeps>> /\ pc[c] \notin Acquiring \union SleptPcs
      /\ failed' = {}
  BY <1>0 DEF Unlocking, UnlockStart, UnlockList, UnlockAvail, UnlockRecheck, UnlockRetake,
    UnlockDone, DequeueFspin, Dequeue, DequeueDone, WakeChain, DisownedUser, At, callVars,
    noteVars, ASSERT, Acquiring, SleptPcs, OwnerAssertsHold
<1>2. PICK p \in {"idle"} \union Releasing \union Released : UNCHANGED pc \/ Goto(c, p)
  BY DEF Unlocking, UnlockStart, UnlockList, UnlockAvail, UnlockRecheck, UnlockRetake,
    UnlockDone, DequeueFspin, Dequeue, DequeueDone, WakeChain, Releasing, Released
<1>3. p \notin SigPcs \union SleptPcs \union Acquiring
  BY DEF Releasing, Released, SigPcs, SleptPcs, Acquiring
<1>4. \A d : Goto(c, d) => pc'[c] = d
  BY DEF Goto, TypeOK, CtxTypeOK
<1>5. Unsignalled'
  <2>1. slFixpend' = 0
    BY <1>0 DEF Unlocking, UnlockStart, UnlockList, UnlockAvail, UnlockRecheck, UnlockRetake,
      UnlockDone, DequeueFspin, Dequeue, DequeueDone, WakeChain, CountWoken, lockVars
  <2>2. CASE ~WakeChain(c)
    <3>1. UNCHANGED <<lStat, lFlag>>
      BY <2>2 DEF Unlocking, UnlockStart, UnlockList, UnlockAvail, UnlockRecheck, UnlockRetake,
        UnlockDone, DequeueFspin, Dequeue, DequeueDone, lwpVars
    <3> QED BY <1>0, <1>1, <1>2, <1>3, <2>1, <3>1, QuietMove
  <2>3. CASE WakeChain(c)
    <3>1. /\ lStat' = [lStat EXCEPT ![Head(chain[c])] = "SRUN"]
          /\ lFlag' = [lFlag EXCEPT ![Head(chain[c])] = @ \ {"L_SIGWOKE"}]
      BY <2>3 DEF WakeChain, Wakeup
    <3>2. \A l \in Lwps : lStat'[l] = "SSLEEP" => lStat[l] = "SSLEEP" /\ lFlag'[l] = lFlag[l]
      BY <3>1 DEF TypeOK, LwpTypeOK
    <3> QED BY <1>0, <1>1, <1>2, <1>3, <2>1, <3>2, QuietMove
  <2> QED BY <2>2, <2>3
<1>6. Slept'
  <2>1. c \in Lwps => nsleeps[c] = 0
    BY <1>0, <1>1 DEF Slept
  <2>2. UNCHANGED pc \/ p # "q_asleep"
    BY <1>3 DEF SleptPcs
  <2> QED BY <1>0, <1>1, <1>2, <2>1, <2>2, SleptMove
<1>7. Brief'
  <2>1. \/ slFspin' = Nobody
        \/ slFspin' = c /\ pc'[c] \in FspinPcs
        \/ slFspin' = slFspin /\ (pc[c] \in FspinPcs => pc'[c] \in FspinPcs)
    <3>1. CASE DequeueFspin(c)
      BY <1>4, <3>1 DEF DequeueFspin, FspinPcs
    <3>2. CASE Dequeue(c)
      BY <3>2 DEF Dequeue
    <3>3. CASE ~DequeueFspin(c) /\ ~Dequeue(c)
      BY <3>3 DEF Unlocking, UnlockStart, UnlockList, UnlockAvail, UnlockRecheck, UnlockRetake,
        UnlockDone, DequeueDone, WakeChain, DisownedUser, At, lockVars, FspinPcs
    <3> QED BY <3>1, <3>2, <3>3
  <2>2. \/ slPid' # SL_BUSY
        \/ pc'[c] \in BusyPcs
        \/ slPid' = slPid /\ (pc[c] \in BusyPcs => pc'[c] \in BusyPcs)
    BY <1>4, SleepAssumption DEF Unlocking, UnlockStart, UnlockList, UnlockAvail, UnlockRecheck,
      UnlockRetake, UnlockDone, DequeueFspin, Dequeue, DequeueDone, WakeChain, DisownedUser,
      At, lockVars, BusyPcs, MarkReleased
  <2> QED BY <1>0, <1>2, <2>1, <2>2, BriefMove
<1>8. \A l \in Lwps : pc'[l] = pc[l] \/ (pc[l] \notin Acquiring /\ pc'[l] \notin Acquiring)
  BY <1>1, <1>2, <1>3 DEF Goto, TypeOK, CtxTypeOK, Ctxs
<1>9. Accounted'
  <2>1. CASE ~Dequeue(c)
    <3>1. UNCHANGED <<slPend, slList>>
      BY <2>1 DEF Unlocking, UnlockStart, UnlockList, UnlockAvail, UnlockRecheck, UnlockRetake,
        UnlockDone, DequeueFspin, DequeueDone, WakeChain, lockVars
    <3>2. \A l \in Lwps : Unsettled'[l] = Unsettled[l]
      BY <1>1, <1>8, <3>1 DEF Unsettled, Credit, At
    <3> QED BY <1>0, <1>1, <3>1, <3>2, AccSame
  <2>2. CASE Dequeue(c)
    <3>1. PICK n \in (IF slList = <<>> THEN {0} ELSE 1 .. Len(slList)) :
            slList' = SubSeq(slList, n + 1, Len(slList)) /\ slPend' = slPend + n - slFixpend
      BY <2>2 DEF Dequeue, CountWoken
    <3>2. slList \in Seq(Lwps) /\ IsInjective(slList) /\ n \in 0 .. Len(slList)
      BY LenProperties DEF WakeInv, Keeps
    <3> DEFINE a == SubSeq(slList, 1, n)
    <3>3. /\ a \in Seq(Lwps) /\ IsInjective(a) /\ Len(a) = n
          /\ \A m : Contains(slList, m) <=> (Contains(a, m) \/ Contains(slList', m))
          /\ \A m : ~(Contains(a, m) /\ Contains(slList', m))
      <4>1. Len(a) = n
        BY <3>2
      <4> QED BY <3>1, <3>2, <4>1, SplitQueue
    <3> HIDE DEF a
    <3>4. Unsettled \in [Lwps -> Nat]
      BY <1>0, OwedToEach
    <3>5. \A l \in Lwps : nsleeps[l] \in Nat
      BY DEF TypeOK, CallTypeOK
    <3>6. ASSUME NEW l \in Lwps
          PROVE  Unsettled'[l] = IF Contains(a, l) THEN Unsettled[l] + 1 ELSE Unsettled[l]
      <4>1. CASE Contains(a, l)
        <5>1. pc[l] \in {"q_sleep", "q_asleep"}
          BY <1>0, <3>3, <4>1, OwedToEach
        <5>2. pc'[l] = pc[l] /\ pc[l] \in Acquiring
          BY <1>8, <5>1 DEF Acquiring
        <5>3. Unsettled'[l] = Credit(l)' /\ Unsettled[l] = Credit(l)
          BY <5>2 DEF Unsettled
        <5> QED BY <1>1, <3>3, <3>5, <4>1, <5>2, <5>3 DEF Credit, At
      <4>2. CASE ~Contains(a, l)
        BY <1>1, <1>8, <3>3, <4>2 DEF Unsettled, Credit, At
      <4> QED BY <4>1, <4>2
    <3>7. Cardinality(Units(Unsettled')) = Cardinality(Units(Unsettled)) + Len(a)
      <4>1. Unsettled' \in [Lwps -> Nat]
        BY <3>4, <3>6 DEF Unsettled
      <4>2. IsFiniteSet(Lwps) /\ IsInjective(a)
        BY <3>3, LwpAssumption
      <4>3. \A l \in Lwps : Unsettled'[l] = IF Contains(a, l) THEN Unsettled[l] + 1
                                                             ELSE Unsettled[l]
        BY <3>6
      <4>4. a \in Seq(Lwps)
        BY <3>3
      <4> DEFINE g == Unsettled'
      <4>5. g \in [Lwps -> Nat] /\ OneMore(Lwps, a, Unsettled, g)
        BY <4>1, <4>3 DEF OneMore
      <4> HIDE DEF g
      <4>6. Cardinality(Units(g)) = Cardinality(Units(Unsettled)) + Len(a)
        <5>1. \A f, h \in [Lwps -> Nat] : \A q \in Seq(Lwps) :
                IsInjective(q) /\ OneMore(Lwps, q, f, h)
                  => Cardinality(Units(h)) = Cardinality(Units(f)) + Len(q)
          BY <4>2, UnitsCounted, Zenon
        <5> QED BY <3>4, <4>2, <4>4, <4>5, <5>1, Zenon
      <4> QED BY <4>6 DEF g
    <3>8. Cardinality(Units(Unsettled)) \in Nat
      BY <3>4, UnitsFinite, LwpAssumption
    <3>9. Units(Unsettled)' = Units(Unsettled')
      BY DEF Units
    <3>10. slPend' = Cardinality(Units(Unsettled'))
      BY <1>0, <3>1, <3>2, <3>3, <3>7, <3>8 DEF Accounted
    <3> QED BY <1>1, <3>9, <3>10 DEF Accounted
  <2> QED BY <2>1, <2>2
<1> QED BY <1>5, <1>6, <1>7, <1>9 DEF AccInv
(* The steps of sleep_lock and sleep_lock_rellock.                         *)
LEMMA AccLocking ==
  ASSUME TypeOK, WakeInv, AccInv, OwnerAssertsHold', NEW l \in Lwps, Locking(l)
  PROVE  AccInv'
<1>0. /\ Unsignalled /\ Slept /\ Brief /\ Accounted /\ slFixpend = 0 /\ failed = {}
      /\ op[l] # "lock_sig" /\ l \in Ctxs
  BY DEF AccInv, Unsignalled, Accounted, Ctxs
<1>1. \A p : Goto(l, p) => \A d \in Ctxs : pc'[d] = IF d = l THEN p ELSE pc[d]
  BY DEF Goto, TypeOK, CtxTypeOK
<1>2. /\ \A k \in Lwps : nsleeps[k] \in Nat /\ slPend \in Nat
      /\ pc[l] \in {"w_take", "q_retry"} => PendCovers(l)
  <2>1. Cardinality(Units(Unsettled)) \in Nat
    BY <1>0, OwedToEach, UnitsFinite, LwpAssumption
  <2> QED BY <1>0, <2>1, Covered DEF TypeOK, CallTypeOK, Accounted
<1>3. failed' = {}
  <2>1. CASE RecordOwner(l)
    <3>1. OwnerAsserts(l)["sl_pend"]
      <4>1. slPend >= 0
        BY <1>2
      <4>2. OwnerAsserts(l)["sl_pend"]
              = (At(l, "g_pid") /\ op[l] \in {"lock", "rellock"} => slPend >= 0)
        BY DEF OwnerAsserts
      <4> QED BY <4>1, <4>2
    <3>2. "sl_pid" \notin failed'
      BY DEF OwnerAssertsHold
    <3> QED BY <1>0, <2>1, <3>1, <3>2 DEF RecordOwner
  <2>2. CASE SlowTake(l) \/ QueueRetry(l) \/ Enqueue(l)
    BY <1>0, <1>2, <2>2 DEF SlowTake, QueueRetry, Enqueue, ASSERT, At, noteVars
  <2>3. CASE \/ FastStart(l) \/ FastTake(l) \/ TryLock(l) \/ SlowMutex(l) \/ Sleep(l)
             \/ RelockEntryLock(l) \/ QueueFspin(l) \/ WakeUp(l) \/ FoldFixpend(l)
    BY <1>0, <2>3 DEF FastStart, FastTake, TryLock, SlowMutex, Sleep, RelockEntryLock,
      QueueFspin, WakeUp, FoldFixpend, noteVars
  <2> QED BY <2>1, <2>2, <2>3 DEF Locking
<1>4. UNCHANGED op
  BY DEF Locking, FastStart, FastTake, TryLock, SlowTake, SlowMutex, RelockEntryLock,
    QueueFspin, QueueRetry, Enqueue, Sleep, WakeUp, FoldFixpend, RecordOwner, ASSERT, callVars
<1>5. PICK p \in Pcs \ SigPcs : UNCHANGED pc \/ Goto(l, p)
  <2>1. \E p \in {"w_take", "f_take", "f_pid", "g_pid", "idle", "g_fold", "w_mutex", "w_relk",
                  "q_fspin", "q_retry", "q_enq", "q_sleep", "q_asleep", "hold"} :
          UNCHANGED pc \/ Goto(l, p)
    BY <1>0 DEF Locking, FastStart, FastTake, TryLock, SlowTake, SlowMutex, RelockEntryLock,
      QueueFspin, QueueRetry, Enqueue, Sleep, WakeUp, FoldFixpend, RecordOwner, ASSERT
  <2> QED BY <2>1 DEF Pcs, SigPcs, Acquiring, Acquired
<1>6. Unsignalled'
  <2>1. slFixpend' = 0
    BY <1>0 DEF Locking, FastStart, FastTake, TryLock, SlowTake, SlowMutex, RelockEntryLock,
      QueueFspin, QueueRetry, Enqueue, Sleep, WakeUp, FoldFixpend, RecordOwner, ASSERT, lockVars
  <2>2. CASE Sleep(l)
    <3>1. /\ lStat' = [lStat EXCEPT ![l] = "SSLEEP"]
          /\ lFlag' = [lFlag EXCEPT ![l] = @ \union {"L_NWAKE"}]
      BY <1>0, <2>2 DEF Sleep, Block
    <3>2. \A k \in Lwps : lStat'[k] = "SSLEEP" =>
            "L_NWAKE" \in lFlag'[k] \/ (lStat[k] = "SSLEEP" /\ lFlag'[k] = lFlag[k])
      BY <3>1 DEF TypeOK, LwpTypeOK
    <3> QED BY <1>0, <1>4, <1>5, <2>1, <3>2, QuietMove
  <2>3. CASE WakeUp(l)
    <3>1. lStat' = [lStat EXCEPT ![l] = "SONPROC"] /\ UNCHANGED lFlag
      BY <2>3 DEF WakeUp, Resume
    <3>2. \A k \in Lwps : lStat'[k] = "SSLEEP" => lStat[k] = "SSLEEP" /\ lFlag'[k] = lFlag[k]
      BY <3>1 DEF TypeOK, LwpTypeOK
    <3> QED BY <1>0, <1>4, <1>5, <2>1, <3>2, QuietMove
  <2>4. CASE ~Sleep(l) /\ ~WakeUp(l)
    <3>1. UNCHANGED <<lStat, lFlag>>
      BY <2>4 DEF Locking, FastStart, FastTake, TryLock, SlowTake, SlowMutex, RelockEntryLock,
        QueueFspin, QueueRetry, Enqueue, FoldFixpend, RecordOwner, ASSERT, lwpVars
    <3> QED BY <1>0, <1>4, <1>5, <2>1, <3>1, QuietMove
  <2> QED BY <2>2, <2>3, <2>4
<1>7. Slept'
  <2>1. CASE Sleep(l)
    <3>1. nsleeps' = [nsleeps EXCEPT ![l] = @ + 1] /\ Goto(l, "q_asleep") /\ At(l, "q_sleep")
      BY <2>1 DEF Sleep
    <3>2. \A k \in Lwps : nsleeps'[k] = IF k = l THEN nsleeps[k] + 1 ELSE nsleeps[k]
      BY <3>1 DEF TypeOK, CallTypeOK
    <3>3. nsleeps'[l] >= 1 /\ pc'[l] = "q_asleep"
      BY <1>0, <1>1, <1>2, <3>1, <3>2
    <3>4. \A k \in Lwps : k # l => nsleeps'[k] = nsleeps[k] /\ pc'[k] = pc[k]
      BY <1>1, <3>1, <3>2 DEF Ctxs
    <3> QED BY <1>0, <3>3, <3>4 DEF Slept, SleptPcs, At
  <2>2. CASE RecordOwner(l) /\ ~UNCHANGED nsleeps
    <3>1. nsleeps' = [nsleeps EXCEPT ![l] = 0] /\ Goto(l, "hold")
      BY <2>2 DEF RecordOwner, ASSERT, callVars
    <3>2. \A k \in Lwps : nsleeps'[k] = IF k = l THEN 0 ELSE nsleeps[k]
      BY <3>1 DEF TypeOK, CallTypeOK
    <3>3. \A k \in Lwps : pc'[k] = IF k = l THEN "hold" ELSE pc[k]
      BY <1>1, <3>1 DEF Ctxs
    <3> QED BY <1>0, <3>2, <3>3 DEF Slept, At
  <2>3. CASE ~Sleep(l) /\ UNCHANGED nsleeps
    <3>1. nsleeps[l] # 0 => pc[l] \in SleptPcs
      BY <1>0 DEF Slept
    <3>2. CASE RecordOwner(l) /\ ~UNCHANGED pc
      <4>1. nsleeps' = [nsleeps EXCEPT ![l] = 0] /\ Goto(l, "hold")
        BY <3>2 DEF RecordOwner, ASSERT
      <4>2. nsleeps[l] = 0
        BY <2>3, <4>1 DEF TypeOK, CallTypeOK
      <4> QED BY <1>0, <2>3, <4>1, <4>2, SleptMove
    <3>3. CASE ~(RecordOwner(l) /\ ~UNCHANGED pc)
      <4>1. pc[l] \in SleptPcs => pc'[l] \in SleptPcs
        <5>1. CASE UNCHANGED pc
          BY <5>1
        <5>2. CASE ~UNCHANGED pc
          BY <1>0, <1>1, <2>3, <3>3, <5>2 DEF Locking, FastStart, FastTake, TryLock, SlowTake,
            SlowMutex, RelockEntryLock, QueueFspin, QueueRetry, Enqueue, WakeUp, FoldFixpend,
            ASSERT, At, SleptPcs
        <5> QED BY <5>1, <5>2
      <4>2. UNCHANGED pc \/ p # "q_asleep"
        BY <1>0, <1>1, <1>5, <2>3 DEF Locking, FastStart, FastTake, TryLock, SlowTake, SlowMutex,
          RelockEntryLock, QueueFspin, QueueRetry, Enqueue, WakeUp, FoldFixpend, RecordOwner,
          ASSERT
      <4> QED BY <1>0, <1>5, <2>3, <3>1, <4>1, <4>2, SleptMove
    <3> QED BY <3>2, <3>3
  <2>4. Sleep(l) \/ RecordOwner(l) \/ UNCHANGED nsleeps
    BY DEF Locking, FastStart, FastTake, TryLock, SlowTake, SlowMutex, RelockEntryLock,
      QueueFspin, QueueRetry, Enqueue, WakeUp, FoldFixpend, ASSERT, callVars
  <2> QED BY <2>1, <2>2, <2>3, <2>4
<1>8. Brief'
  <2>1. \/ slFspin' = Nobody
        \/ slFspin' = l /\ pc'[l] \in FspinPcs
        \/ slFspin' = slFspin /\ (pc[l] \in FspinPcs => pc'[l] \in FspinPcs)
    BY <1>0, <1>1, <1>3 DEF Locking, FastStart, FastTake, TryLock, SlowTake, SlowMutex,
      RelockEntryLock, QueueFspin, QueueRetry, Enqueue, Sleep, WakeUp, FoldFixpend, RecordOwner,
      ASSERT, At, FspinPcs, lockVars
  <2>2. slPid' \in {l, slPid} /\ pc[l] \notin BusyPcs
    BY DEF Locking, FastStart, FastTake, TryLock, SlowTake, SlowMutex,
      RelockEntryLock, QueueFspin, QueueRetry, Enqueue, Sleep, WakeUp, FoldFixpend, RecordOwner,
      ASSERT, At, BusyPcs, lockVars
  <2> QED BY <1>0, <1>5, <2>1, <2>2, BriefMove, SleepAssumption
<1>9. Accounted'
  <2>1. ASSUME UNCHANGED <<slPend, slList, nsleeps>>,
               UNCHANGED pc \/ \E q : /\ Goto(l, q) /\ q # "q_sleep" /\ ~At(l, "q_sleep")
                                      /\ q \in Acquiring <=> pc[l] \in Acquiring
        PROVE  Accounted'
    <3>1. ASSUME NEW k \in Lwps PROVE Unsettled'[k] = Unsettled[k]
      <4>1. /\ pc'[k] \in Acquiring <=> pc[k] \in Acquiring
            /\ pc'[k] = "q_sleep" <=> pc[k] = "q_sleep"
        <5>1. CASE UNCHANGED pc
          BY <5>1
        <5>2. CASE ~UNCHANGED pc
          BY <1>1, <2>1, <5>2 DEF At, Ctxs
        <5> QED BY <5>1, <5>2
      <4> QED BY <2>1, <4>1 DEF Unsettled, Credit, At
    <3> QED BY <1>0, <1>3, <2>1, <3>1, AccSame
  <2>2. ASSUME UNCHANGED <<slPend, slList, nsleeps>>, Unsettled[l] = 0,
               \E q : Goto(l, q) /\ q \notin Acquiring
        PROVE  Accounted'
    <3>1. ASSUME NEW k \in Lwps PROVE Unsettled'[k] = Unsettled[k]
      <4>1. CASE k = l
        <5>1. pc'[l] \notin Acquiring
          BY <1>0, <1>1, <2>2
        <5> QED BY <2>2, <4>1, <5>1 DEF Unsettled
      <4>2. CASE k # l
        <5>1. pc'[k] = pc[k]
          BY <1>1, <2>2, <4>2 DEF Ctxs
        <5> QED BY <2>2, <5>1 DEF Unsettled, Credit, At
      <4> QED BY <4>1, <4>2
    <3> QED BY <1>0, <1>3, <2>2, <3>1, AccSame
  <2>3. ~Contains(slList, l) /\ pc[l] \in {"f_take", "t_take"} => Unsettled[l] = 0
    BY <1>0 DEF Slept, SleptPcs, Unsettled, Credit, At
  <2>4. pc[l] \in {"f_take", "t_take"} => Unsettled[l] = 0
    BY <1>0, <2>3, OwedToEach
  <2>5. CASE FastTake(l) \/ TryLock(l)
    <3>1. UNCHANGED <<slPend, slList, nsleeps>> /\ pc[l] \in {"f_take", "t_take"}
      BY <2>5 DEF FastTake, TryLock, callVars, At
    <3>2. CASE Goto(l, "w_take")
      <4>1. {"w_take", "f_take", "t_take"} \subseteq Acquiring
        BY DEF Acquiring
      <4> QED BY <2>1, <3>1, <3>2, <4>1 DEF At
    <3>3. CASE \E q \in {"f_pid", "g_pid", "idle"} : Goto(l, q)
      <4>1. {"f_pid", "g_pid", "idle"} \cap Acquiring = {}
        BY DEF Acquiring
      <4> QED BY <2>2, <2>4, <3>1, <3>3, <4>1
    <3> QED BY <2>5, <3>2, <3>3 DEF FastTake, TryLock
  <2>6. CASE \/ FastStart(l) \/ RelockEntryLock(l) \/ SlowMutex(l) \/ QueueFspin(l) \/ WakeUp(l)
             \/ FoldFixpend(l)
    <3>1. UNCHANGED <<slList, nsleeps>> /\ slPend' = slPend
      BY <1>0, <1>2, <2>6 DEF FastStart, RelockEntryLock, SlowMutex, QueueFspin, WakeUp,
        FoldFixpend, lockVars, callVars
    <3>2. /\ ~At(l, "q_sleep")
          /\ \E q : Goto(l, q) /\ q # "q_sleep" /\ (q \in Acquiring <=> pc[l] \in Acquiring)
      <4>1. CASE FoldFixpend(l)
        BY <4>1 DEF FoldFixpend, At, Acquiring
      <4>2. CASE ~FoldFixpend(l)
        <5>1. \E q \in {"f_take", "w_take", "q_fspin", "q_retry", "w_relk"} : Goto(l, q)
          BY <1>0, <2>6, <4>2 DEF FastStart, RelockEntryLock, SlowMutex, QueueFspin, WakeUp
        <5>2. pc[l] \in Acquiring /\ ~At(l, "q_sleep")
          BY <2>6, <4>2 DEF FastStart, RelockEntryLock, SlowMutex, QueueFspin, WakeUp, At,
            Acquiring
        <5> QED BY <5>1, <5>2 DEF Acquiring
      <4> QED BY <4>1, <4>2
    <3> QED BY <2>1, <3>1, <3>2
  <2>7. CASE SlowTake(l) \/ QueueRetry(l)
    <3>1. pc[l] \in {"w_take", "q_retry"} /\ UNCHANGED <<slList, nsleeps>>
      BY <2>7 DEF SlowTake, QueueRetry, ASSERT, At, callVars, lockVars
    <3>2. CASE TakeAndSettle(l) /\ Goto(l, "g_fold")
      BY <1>0, <1>3, <3>1, <3>2, Settles
    <3>3. CASE UNCHANGED slPend /\ \E q \in {"w_mutex", "q_enq"} : Goto(l, q)
      <4>1. {"w_take", "q_retry", "w_mutex", "q_enq"} \subseteq Acquiring
        BY DEF Acquiring
      <4> QED BY <2>1, <3>1, <3>3, <4>1 DEF At
    <3> QED BY <1>0, <1>2, <2>7, <3>1, <3>2, <3>3 DEF SlowTake, QueueRetry
  <2>8. CASE Enqueue(l)
    <3>1. /\ At(l, "q_enq") /\ slList' = InsertSleeper(slList, l) /\ Goto(l, "q_sleep")
          /\ UNCHANGED <<slPend, nsleeps>>
      BY <1>0, <2>8 DEF Enqueue, callVars
    <3>2. slList \in Seq(Lwps) /\ IsInjective(slList) /\ ~Contains(slList, l)
      BY <1>0, <3>1, OwedToEach DEF WakeInv, Keeps, At
    <3>3. \A m : Contains(slList', m) <=> (Contains(slList, m) \/ m = l)
      <4>1. CASE slList' = Append(slList, l)
        BY <3>2, <4>1, AppendQueue
      <4>2. CASE slList' = <<l>> \o slList
        BY <3>2, <4>2, PrependQueue
      <4> QED BY <3>1, <4>1, <4>2 DEF InsertSleeper
    <3>4. ASSUME NEW k \in Lwps PROVE Unsettled'[k] = Unsettled[k]
      <4>1. CASE k = l
        <5>1. pc'[l] = "q_sleep" /\ pc[l] = "q_enq"
          BY <1>0, <1>1, <3>1 DEF At
        <5> QED BY <1>2, <3>1, <3>2, <3>3, <4>1, <5>1 DEF Unsettled, Credit, At, Acquiring
      <4>2. CASE k # l
        <5>1. pc'[k] = pc[k]
          BY <1>1, <3>1, <4>2 DEF Ctxs
        <5> QED BY <3>1, <3>3, <4>2, <5>1 DEF Unsettled, Credit, At
      <4> QED BY <4>1, <4>2
    <3> QED BY <1>0, <1>3, <3>1, <3>4, AccSame
  <2>9. CASE Sleep(l)
    <3>1. /\ At(l, "q_sleep") /\ Goto(l, "q_asleep") /\ UNCHANGED <<slList, slPend>>
          /\ nsleeps' = [nsleeps EXCEPT ![l] = @ + 1]
      BY <2>9 DEF Sleep, lockVars
    <3>2. \A k \in Lwps : nsleeps'[k] = IF k = l THEN nsleeps[k] + 1 ELSE nsleeps[k]
      BY <3>1 DEF TypeOK, CallTypeOK
    <3>3. ASSUME NEW k \in Lwps PROVE Unsettled'[k] = Unsettled[k]
      <4>1. CASE k = l
        <5>1. pc'[l] = "q_asleep" /\ pc[l] = "q_sleep"
          BY <1>0, <1>1, <3>1 DEF At
        <5> QED BY <1>2, <3>1, <3>2, <4>1, <5>1 DEF Unsettled, Credit, At, Acquiring
      <4>2. CASE k # l
        <5>1. pc'[k] = pc[k]
          BY <1>1, <3>1, <4>2 DEF Ctxs
        <5> QED BY <3>1, <3>2, <4>2, <5>1 DEF Unsettled, Credit, At
      <4> QED BY <4>1, <4>2
    <3> QED BY <1>0, <1>3, <3>1, <3>3, AccSame
  <2>10. CASE RecordOwner(l)
    <3>1. /\ pc[l] \in {"f_pid", "g_pid"} /\ Goto(l, "hold") /\ UNCHANGED <<slList, slPend>>
          /\ nsleeps' = [nsleeps EXCEPT ![l] = 0]
      BY <1>0, <1>3, <2>10 DEF RecordOwner, ASSERT
    <3>2. \A k \in Lwps : k # l => nsleeps'[k] = nsleeps[k] /\ pc'[k] = pc[k]
      BY <1>1, <3>1 DEF TypeOK, CallTypeOK, Ctxs
    <3>3. pc'[l] \notin Acquiring /\ pc[l] \notin Acquiring
      BY <1>0, <1>1, <3>1 DEF Acquiring
    <3>4. \A k \in Lwps : Unsettled'[k] = Unsettled[k]
      BY <3>1, <3>2, <3>3 DEF Unsettled, Credit, At
    <3> QED BY <1>0, <1>3, <3>1, <3>4, AccSame
  <2> QED BY <2>5, <2>6, <2>7, <2>8, <2>9, <2>10 DEF Locking
<1> QED BY <1>6, <1>7, <1>8, <1>9 DEF AccInv
(* No signal is delivered to a sleeper, and the choices count nothing.  A  *)
(* private taker finds the lock idle.                                      *)
LEMMA AccOther ==
  ASSUME "lock_sig" \notin Ops, TypeOK, OwnInv, WakeInv, AccInv,
         (\E c \in Ctxs : Unsleep(c)) \/ Choice
  PROVE  AccInv'
<1>0. Unsignalled /\ Slept /\ Brief /\ Accounted /\ slFixpend = 0 /\ failed = {}
  BY DEF AccInv, Unsignalled, Accounted
<1>1. ASSUME NEW c \in Ctxs, Unsleep(c) PROVE FALSE
  BY <1>0, <1>1 DEF Unsleep, Unsignalled, At, SigPcs
<1>2. ASSUME NEW c \in Intrs, NEW t \in Lwps, Post(c, t) PROVE AccInv'
  <2>1. ~Interruptible(t)
    BY <1>0 DEF Interruptible, Unsignalled
  <2>2. /\ At(c, "idle") /\ Goto(c, "idle") /\ UNCHANGED <<lStat, lFlag>>
        /\ UNCHANGED <<slFixpend, slFspin, slPid, slPend, slList, op, nsleeps, failed>>
    BY <1>2, <2>1 DEF Post, PostSignal, lockVars, callVars, noteVars
  <2>3. UNCHANGED pc
    BY <2>2 DEF At, Goto, TypeOK, CtxTypeOK
  <2>4. Unsettled' = Unsettled
    BY <2>2, <2>3 DEF Unsettled, Credit, At
  <2> QED BY <1>0, <2>2, <2>3, <2>4 DEF AccInv, Unsignalled, Slept, Brief, Accounted, At
<1>3. ASSUME NEW l \in Lwps, Call(l) PROVE AccInv'
  <2>0. l \in Ctxs
    BY DEF Ctxs
  <2>1. PICK o \in (Ops \cap DOMAIN EntryPc) :
          op' = [op EXCEPT ![l] = o] /\ Goto(l, EntryPc[o])
    BY <1>3 DEF Call
  <2>2. /\ At(l, "idle") /\ UNCHANGED <<lStat, lFlag>>
        /\ UNCHANGED <<slFixpend, slFspin, slPid, slPend, slList, nsleeps, failed>>
    BY <1>3 DEF Call, lwpVars, lockVars, noteVars
  <2>3. EntryPc[o] \in {"f_start", "t_take"} /\ o # "lock_sig"
    BY <2>1 DEF EntryPc
  <2>4. \A d \in Ctxs : pc'[d] = IF d = l THEN EntryPc[o] ELSE pc[d]
    BY <2>1 DEF Goto, TypeOK, CtxTypeOK
  <2>5. \A k \in Lwps : op'[k] # "lock_sig"
    BY <1>0, <2>1, <2>3 DEF Unsignalled, TypeOK, CallTypeOK
  <2>6. Unsignalled'
    BY <1>0, <2>2, <2>3, <2>4, <2>5 DEF Unsignalled, SigPcs
  <2>7. EntryPc[o] # "q_asleep" /\ nsleeps[l] = 0
    BY <1>0, <2>2, <2>3 DEF Slept, SleptPcs, At
  <2>8. Slept'
    BY <1>0, <2>0, <2>1, <2>2, <2>7, SleptMove
  <2>9. Brief'
    <3>1. pc[l] \notin FspinPcs \union BusyPcs
      BY <2>2 DEF At, FspinPcs, BusyPcs
    <3> QED BY <1>0, <2>0, <2>1, <2>2, <3>1, BriefMove
  <2>10. ~Contains(slList, l)
    BY <1>0, <2>2, OwedToEach DEF At
  <2>11. ASSUME NEW k \in Lwps PROVE Unsettled'[k] = Unsettled[k]
    <3>1. CASE k = l
      BY <2>0, <2>2, <2>3, <2>4, <2>7, <2>10, <3>1 DEF Unsettled, Credit, At
    <3>2. CASE k # l
      <4>1. pc'[k] = pc[k]
        BY <2>4, <3>2 DEF Ctxs
      <4> QED BY <2>2, <4>1 DEF Unsettled, Credit, At
    <3> QED BY <3>1, <3>2
  <2>12. Accounted'
    BY <1>0, <2>2, <2>11, AccSame
  <2> QED BY <2>6, <2>8, <2>9, <2>12 DEF AccInv
<1>4. ASSUME NEW l \in Lwps, LwpExit(l) \/ Disown(l) PROVE AccInv'
  <2>1. /\ pc[l] \in {"idle", "hold"} /\ UNCHANGED <<lStat, lFlag>> /\ l \in Ctxs
        /\ UNCHANGED <<slFixpend, slFspin, slPend, slList, op, nsleeps, failed>>
        /\ slPid' \in {slPid, NOPID}
    BY <1>4 DEF LwpExit, Disown, lwpVars, lockVars, callVars, noteVars, At, Ctxs
  <2>2. PICK p \in {"idle", "exited"} : Goto(l, p)
    BY <1>4 DEF LwpExit, Disown
  <2>3. {"idle", "exited", "hold"} \cap (SigPcs \union SleptPcs \union FspinPcs \union BusyPcs
                                            \union Acquiring) = {}
    BY DEF SigPcs, SleptPcs, FspinPcs, BusyPcs, Acquiring
  <2>4. \A d \in Ctxs : pc'[d] = IF d = l THEN p ELSE pc[d]
    BY <2>2 DEF Goto, TypeOK, CtxTypeOK
  <2>5. Unsignalled'
    BY <1>0, <2>1, <2>2, <2>3, QuietMove
  <2>6. Slept'
    <3>1. nsleeps[l] = 0
      BY <1>0, <2>1, <2>3 DEF Slept
    <3> QED BY <1>0, <2>1, <2>2, <3>1, SleptMove
  <2>7. Brief'
    <3>1. pc[l] \notin FspinPcs \union BusyPcs
      BY <2>1, <2>3
    <3> QED BY <1>0, <2>1, <2>2, <3>1, BriefMove, SleepAssumption
  <2>8. \A k \in Lwps : Unsettled'[k] = Unsettled[k]
    <3>1. \A k \in Lwps : pc'[k] = pc[k] \/ (pc'[k] \notin Acquiring /\ pc[k] \notin Acquiring)
      BY <2>1, <2>2, <2>3, <2>4 DEF Ctxs
    <3> QED BY <2>1, <3>1 DEF Unsettled, Credit, At
  <2>9. Accounted'
    BY <1>0, <2>1, <2>8, AccSame
  <2> QED BY <2>5, <2>6, <2>7, <2>9 DEF AccInv
<1>5. ASSUME NEW l \in Lwps, LockPrivate(l) PROVE AccInv'
  <2>1. ~disowned /\ \A c \in Ctxs : pc[c] \in {"idle", "exited"}
    BY <1>5 DEF LockPrivate
  <2>2. {"idle", "exited"} \cap (FspinPcs \union BusyPcs \union Acquiring \union Has) = {}
    BY DEF FspinPcs, BusyPcs, Acquiring, Has, Acquired, Releasing
  <2>3. slFspin = Nobody /\ slPid # SL_BUSY
    BY <1>0, <2>1, <2>2 DEF Brief
  <2>4. slAvail
    BY <2>1, <2>2 DEF OwnInv
  <2>5. slList = <<>>
    <3>1. slList \in Seq(Lwps)
      BY DEF WakeInv, Keeps
    <3>2. ASSUME NEW k \in Lwps PROVE ~Contains(slList, k)
      <4>1. pc[k] \in {"idle", "exited"}
        BY <2>1 DEF Ctxs
      <4>2. Contains(slList, k) => pc[k] \in {"q_sleep", "q_asleep"}
        BY <1>0, OwedToEach
      <4> QED BY <4>1, <4>2
    <3> QED BY <3>1, <3>2, NobodyQueued
  <2>6. slPend = 0
    <3>1. Unsettled \in [Lwps -> Nat] /\ \A k \in Lwps : Unsettled[k] = 0
      BY <1>0, <2>1, <2>2, OwedToEach DEF Unsettled, Ctxs
    <3> QED BY <1>0, <3>1, UnitsNone DEF Accounted
  <2>7. /\ slPid' = NOPID /\ UNCHANGED <<lStat, lFlag, pc>>
        /\ UNCHANGED <<slFixpend, slFspin, slPend, slList, op, nsleeps, failed>>
    BY <1>5, <2>3, <2>4, <2>5, <2>6 DEF LockPrivate, SLEEP_LOCKAVAIL, SLEEP_LOCKBLKD,
      FspinFree, ASSERT, lwpVars
  <2>8. Unsettled' = Unsettled
    BY <2>7 DEF Unsettled, Credit, At
  <2> QED BY <1>0, <2>7, <2>8, SleepAssumption
      DEF AccInv, Unsignalled, Slept, Brief, Accounted, At
<1>6. ASSUME NEW c \in Ctxs, WakeTooEarly(c) PROVE AccInv'
  <2>1. /\ UNCHANGED <<pc, lStat, lFlag, op, nsleeps, failed>>
        /\ UNCHANGED <<slFixpend, slFspin, slPid, slPend, slList>>
    BY <1>6 DEF WakeTooEarly, lwpVars, lockVars, callVars
  <2>2. Unsettled' = Unsettled
    BY <2>1 DEF Unsettled, Credit, At
  <2> QED BY <1>0, <2>1, <2>2 DEF AccInv, Unsignalled, Slept, Brief, Accounted, At
<1> QED BY <1>1, <1>2, <1>3, <1>4, <1>5, <1>6 DEF Choice

(* Every step keeps the accounts.                                          *)
LEMMA AccStep ==
  ASSUME "lock_sig" \notin Ops, TypeOK, OwnInv, WakeInv, AccInv, OwnerAssertsHold', [Next]_vars
  PROVE  AccInv'
<1>1. CASE UNCHANGED vars
  <2>1. UNCHANGED <<pc, op, nsleeps, failed>> /\ UNCHANGED lockVars /\ UNCHANGED lwpVars
    BY <1>1 DEF vars, callVars, noteVars
  <2>2. Unsettled' = Unsettled
    BY <2>1 DEF Unsettled, Credit, At, lockVars
  <2> QED BY <2>1, <2>2 DEF AccInv, Unsignalled, Slept, Brief, Accounted, At, lockVars, lwpVars
<1>2. ASSUME NEW l \in Lwps PROVE ~LockingSig(l)
  <2>1. LockingSig(l) => pc[l] \in SigPcs
    BY DEF LockingSig, SigAgain, SigLock, SigIssig, SigRelock, SigAcquire, SendWaiting,
      SigTake, FixFspin, FixAdd, At, SigPcs
  <2> QED BY <2>1 DEF AccInv, Unsignalled, Ctxs
<1>3. CASE Next
  BY <1>1, <1>2, <1>3, AccUnlocking, AccLocking, AccOther DEF Next, Step, Quiet
<1> QED BY <1>1, <1>3

(* The accounts, at every moment.                                          *)
THEOREM AccountsInvariant ==
  ASSUME "lock_sig" \notin Ops PROVE Spec => []AccInv
<1>1. TypeInv /\ OwnInv /\ WakeInv /\ AccInv /\ OwnerAssertsHold' /\ [Next]_vars => AccInv'
  BY AccStep DEF TypeInv
<1> QED BY AccInit, <1>1, TypesAndChains, OwnershipInvariant, OwnerAssertions, WakeupInvariant,
      PTL DEF Spec

(* sl_pend is the number of wakeups given and not yet settled by an        *)
(* acquisition, whatever the order of the unlockers that give them, the    *)
(* callers that settle them and the ones that come in between.             *)
THEOREM WakeupsAreCounted ==
  ASSUME "lock_sig" \notin Ops PROVE Spec => []PendAccounting
<1>1. TypeInv /\ WakeInv /\ AccInv => PendAccounting
  <2> SUFFICES ASSUME TypeInv, WakeInv, AccInv PROVE PendAccounting
    OBVIOUS
  <2>1. Unsettled \in [Lwps -> Nat] /\ Cardinality(Units(Unsettled)) \in Nat
    BY OwedToEach, UnitsFinite, LwpAssumption DEF AccInv, TypeInv
  <2> QED BY <2>1 DEF AccInv, Accounted, Unsignalled, PendAccounting
<1> QED BY <1>1, TypesAndChains, WakeupInvariant, AccountsInvariant, PTL

(* No ASSERT of the sleep lock fails in calls that signals do not reach:   *)
(* not the ones that sl_pend covers the sleeps of the caller, nor those of *)
(* a private acquisition.                                                  *)
THEOREM AssertsAreTrue ==
  ASSUME "lock_sig" \notin Ops PROVE Spec => []AssertsHold
<1>1. AccInv => AssertsHold
  BY DEF AccInv, Accounted, AssertsHold
<1> QED BY <1>1, AccountsInvariant, PTL
-----------------------------------------------------------------------------
(***************************************************************************)
(* Nobody is stranded, with signals but without SIGWAITING: while the lock *)
(* is free, somebody who will look at it is on the way as long as an LWP   *)
(* is queued, or is about to queue itself because it found the lock taken. *)
(* An unlocker that has found sl_fspin free need not fear the latter.      *)
(***************************************************************************)
HeldPcs == {"q_retry", "q_enq", "d_deq", "s_fixadd"}
Queueing == \E l \in Lwps : At(l, "q_enq")

FspinInv == \A c \in Ctxs : pc[c] \in HeldPcs => slFspin = c
RecheckInv == slAvail /\ (\E c \in Ctxs : At(c, "u_list2")) => ~Queueing
LookInv == /\ RecheckInv
           /\ slAvail /\ (slList # <<>> \/ Queueing) => SomebodyLooks

LEMMA LookInit == Init => FspinInv /\ LookInv
  BY DEF Init, FspinInv, HeldPcs, RecheckInv, LookInv, Queueing, At, Ctxs

(* sl_fspin is taken when it is free, and let go only by its holder.       *)
LEMMA FspinMove ==
  ASSUME TypeOK, FspinInv, NEW c \in Ctxs, NEW p, UNCHANGED pc \/ Goto(c, p),
         \/ pc'[c] \notin HeldPcs /\ (slFspin' = slFspin \/ slFspin = c)
         \/ slFspin = Nobody /\ slFspin' = c
         \/ pc[c] \in HeldPcs /\ slFspin' = slFspin
  PROVE  FspinInv'
<1>1. \A d \in Ctxs : d # c => pc'[d] = pc[d]
  BY DEF TypeOK, CtxTypeOK, Goto
<1> QED BY <1>1, LwpAssumption DEF FspinInv

(* A step that does not make the lock free, and whose context, if it was   *)
(* to look at the lock, still is.                                          *)
LEMMA LookMove ==
  ASSUME TypeOK, LookInv, NEW c \in Ctxs, NEW p,
         \/ UNCHANGED pc
         \/ /\ Goto(c, p) /\ p \notin {"q_enq", "u_list2"}
            /\ pc[c] \in LookPcs => p \in LookPcs,
         slAvail' => slAvail, slList' # <<>> => slList # <<>>,
         UNCHANGED chain,
         \A l \in Lwps : Woken(l) => Woken(l)'
  PROVE  LookInv'
<1>1. \A d \in Ctxs : /\ pc[d] \in LookPcs => pc'[d] \in LookPcs
                      /\ pc'[d] \in {"q_enq", "u_list2"} => pc'[d] = pc[d]
  BY DEF TypeOK, CtxTypeOK, Goto
<1>2. Queueing' => Queueing
  BY <1>1 DEF Queueing, At, Ctxs
<1>3. SomebodyLooks => SomebodyLooks'
  BY <1>1 DEF SomebodyLooks
<1>4. \A d \in Ctxs : At(d, "u_list2")' => At(d, "u_list2")
  BY <1>1 DEF At
<1>5. RecheckInv'
  BY <1>2, <1>4 DEF LookInv, RecheckInv
<1> QED BY <1>2, <1>3, <1>5 DEF LookInv

(* A step after which the lock is taken.                                   *)
LEMMA LookTaken ==
  ASSUME slAvail' = FALSE PROVE LookInv'
  BY DEF LookInv, RecheckInv

(* The steps of sleep_unlock: the lock becomes free with an unlocker that  *)
(* will look again, or with a chain to wake.                               *)
LEMMA LookUnlocking ==
  ASSUME TypeOK, ChainInv, OwnInv, WakeInv, FspinInv, LookInv,
         NEW c \in Ctxs, Unlocking(c)
  PROVE  FspinInv' /\ LookInv'
<1>0. \A p : Goto(c, p) => \A d \in Ctxs : pc'[d] = IF d = c THEN p ELSE pc[d]
  BY DEF TypeOK, CtxTypeOK, Goto
<1>1. CASE UnlockStart(c) \/ UnlockList(c) \/ UnlockDone(c)
  <2>1. UNCHANGED <<lStat, lFlag, slAvail, slFspin, slList, chain>>
    BY <1>1 DEF UnlockStart, UnlockList, UnlockDone, lwpVars, lockVars
  <2>2. PICK p \in {"u_list", "d_fspin", "u_avail", "idle"} : UNCHANGED pc \/ Goto(c, p)
    BY <1>1 DEF UnlockStart, UnlockList, UnlockDone
  <2>3. pc[c] \notin LookPcs \union HeldPcs \union {"q_asleep"}
    BY <1>1 DEF UnlockStart, UnlockList, UnlockDone, DisownedUser, At, LookPcs, HeldPcs
  <2>4. p \notin HeldPcs \union {"q_enq", "u_list2"}
    BY DEF HeldPcs
  <2>5. \A l \in Lwps : Woken(l) => Woken(l)'
    BY <1>0, <2>1, <2>2, <2>3 DEF Woken, At, Ctxs
  <2>6. pc'[c] \notin HeldPcs
    BY <1>0, <2>2, <2>3, <2>4
  <2>7. LookInv'
    BY <2>1, <2>2, <2>3, <2>4, <2>5, LookMove
  <2> QED BY <2>1, <2>2, <2>6, <2>7, FspinMove
<1>2. CASE UnlockAvail(c)
  <2>1. At(c, "u_avail") /\ Goto(c, "u_fspin2") /\ UNCHANGED slFspin
    BY <1>2 DEF UnlockAvail
  <2>2. pc'[c] = "u_fspin2" /\ \A d \in Ctxs : d # c => pc'[d] = pc[d]
    BY <1>0, <2>1
  <2>3. \A d \in Ctxs : ~At(d, "u_list2")
    BY <2>1 DEF OwnInv, At, Past, Late, Releasing
  <2>4. RecheckInv'
    BY <2>2, <2>3 DEF RecheckInv, At
  <2>5. SomebodyLooks'
    BY <2>2 DEF SomebodyLooks, LookPcs
  <2>6. FspinInv'
    BY <2>1, <2>2, FspinMove DEF HeldPcs
  <2> QED BY <2>4, <2>5, <2>6 DEF LookInv
<1>3. CASE UnlockRecheck(c)
  <2>1. UNCHANGED <<lStat, lFlag, slAvail, slFspin, slList, chain>>
    BY <1>3 DEF UnlockRecheck, lwpVars, lockVars
  <2>2. pc[c] \in {"u_fspin2", "u_list2"} /\ pc[c] \notin HeldPcs
    BY <1>3 DEF UnlockRecheck, At, HeldPcs
  <2>3. PICK p \in {"u_list2", "u_retake", "u_nopid"} : Goto(c, p)
    BY <1>3 DEF UnlockRecheck
  <2>4. FspinInv'
    BY <1>0, <2>1, <2>2, <2>3, FspinMove DEF HeldPcs
  <2>5. \A l \in Lwps : Woken(l) => Woken(l)'
    BY <1>0, <2>1, <2>2, <2>3 DEF Woken, At, Ctxs
  <2>6. CASE p = "u_list2"
    <3>1. FspinFree
      BY <1>3, <2>2, <2>3, <2>6, <1>0 DEF UnlockRecheck, At
    <3>2. ~Queueing
      BY <3>1, LwpAssumption DEF Queueing, FspinFree, FspinInv, HeldPcs, At, Ctxs
    <3>3. ~Queueing'
      BY <1>0, <2>3, <2>6, <3>2 DEF Queueing, At, Ctxs
    <3>4. SomebodyLooks'
      BY <1>0, <2>3, <2>6 DEF SomebodyLooks, LookPcs
    <3> QED BY <2>4, <3>3, <3>4 DEF LookInv, RecheckInv
  <2>7. CASE p = "u_retake"
    <3>1. p \in LookPcs /\ p \notin {"q_enq", "u_list2"}
      BY <2>7 DEF LookPcs
    <3> QED BY <2>1, <2>3, <2>4, <2>5, <3>1, LookMove
  <2>8. CASE p = "u_nopid"
    <3>1. At(c, "u_list2") /\ slList = <<>>
      BY <1>0, <1>3, <2>3, <2>8 DEF UnlockRecheck, At
    <3>2. slAvail' => ~Queueing
      BY <2>1, <3>1 DEF LookInv, RecheckInv
    <3>3. Queueing' => Queueing
      BY <1>0, <2>3, <2>8 DEF Queueing, At, Ctxs
    <3> QED BY <2>1, <2>4, <3>1, <3>2, <3>3 DEF LookInv, RecheckInv
  <2> QED BY <2>3, <2>6, <2>7, <2>8
<1>4. CASE UnlockRetake(c) \/ DequeueFspin(c)
  <2>1. CASE UnlockRetake(c)
    <3>1. At(c, "u_retake") /\ slAvail' = FALSE /\ UNCHANGED slFspin
      BY <2>1 DEF UnlockRetake
    <3>2. PICK p \in {"d_fspin", "u_nopid"} : Goto(c, p)
      BY <2>1 DEF UnlockRetake
    <3>3. pc'[c] \notin HeldPcs
      BY <1>0, <3>2 DEF HeldPcs
    <3> QED BY <3>1, <3>2, <3>3, FspinMove, LookTaken
  <2>2. CASE DequeueFspin(c)
    <3>1. /\ At(c, "d_fspin") /\ Goto(c, "d_deq") /\ slFspin = Nobody /\ slFspin' = c
          /\ UNCHANGED <<lStat, lFlag, slAvail, slList, chain>>
      BY <2>2 DEF DequeueFspin, FspinFree, lwpVars
    <3>2. pc[c] \notin LookPcs \union {"q_asleep"}
      BY <3>1 DEF At, LookPcs
    <3>3. \A l \in Lwps : Woken(l) => Woken(l)'
      BY <1>0, <3>1, <3>2 DEF Woken, At, Ctxs
    <3> QED BY <3>1, <3>2, <3>3, FspinMove, LookMove
  <2> QED BY <1>4, <2>1, <2>2
<1>5. CASE Dequeue(c)
  <2>1. At(c, "d_deq") /\ Goto(c, "d_nopid") /\ slFspin' = Nobody
    BY <1>5 DEF Dequeue
  <2>2. slFspin = c
    BY <2>1 DEF FspinInv, HeldPcs, At
  <2>3. FspinInv'
    <3>1. pc'[c] = "d_nopid" /\ \A d \in Ctxs : d # c => pc'[d] = pc[d]
      BY <1>0, <2>1
    <3> QED BY <2>2, <3>1 DEF FspinInv, HeldPcs
  <2>4. ~Queueing'
    BY <1>0, <2>1, <2>2 DEF Queueing, FspinInv, HeldPcs, At, Ctxs
  <2>5. slList' # <<>> => chain'[c] # <<>>
    <3>1. PICK n \in (IF slList = <<>> THEN {0} ELSE 1 .. Len(slList)) :
            /\ chain' = [chain EXCEPT ![c] = ChainOf(n)]
            /\ slList' = SubSeq(slList, n + 1, Len(slList))
      BY <1>5 DEF Dequeue
    <3>2. slList \in Seq(Lwps) /\ n \in 0 .. Len(slList)
      BY LenProperties DEF TypeOK, LockTypeOK
    <3>3. CASE slList = <<>>
      <4>1. slList' \in Seq(Lwps) /\ Len(slList') = 0
        BY <3>1, <3>2, <3>3
      <4> QED BY <4>1, EmptySeq
    <3>4. CASE slList # <<>>
      <4>1. n \in 1 .. Len(slList) /\ Len(slList) \in Nat
        BY <3>2, <3>1, <3>4, LenProperties
      <4>2. SubSeq(slList, 1, n) \in Seq(Lwps) /\ Len(SubSeq(slList, 1, n)) = n
        BY <3>2, <4>1, SubSeqProperties
      <4>3. Len(ChainOf(n)) = n
        BY <4>2 DEF ChainOf, Reverse
      <4>4. chain'[c] = ChainOf(n)
        BY <3>1 DEF TypeOK, CtxTypeOK
      <4> QED BY <4>1, <4>3, <4>4
    <3> QED BY <3>3, <3>4
  <2> QED BY <2>3, <2>4, <2>5 DEF LookInv, RecheckInv, SomebodyLooks
<1>6. CASE DequeueDone(c)
  <2>1. /\ At(c, "d_nopid") /\ UNCHANGED <<lStat, lFlag, slAvail, slFspin, slList, chain>>
    BY <1>6 DEF DequeueDone, lwpVars
  <2>2. PICK p \in {"idle", "d_wake"} : Goto(c, p)
    BY <1>6 DEF DequeueDone
  <2>3. /\ pc[c] \notin LookPcs \union HeldPcs \union {"q_asleep"}
        /\ p \notin HeldPcs \union {"q_enq", "u_list2"}
    BY <2>1, <2>2 DEF At, LookPcs, HeldPcs
  <2>4. \A l \in Lwps : Woken(l) => Woken(l)'
    BY <1>0, <2>1, <2>2, <2>3 DEF Woken, At, Ctxs
  <2>5. pc'[c] \notin HeldPcs
    BY <1>0, <2>2, <2>3
  <2>6. LookInv'
    BY <2>1, <2>2, <2>3, <2>4, LookMove
  <2> QED BY <2>1, <2>2, <2>5, <2>6, FspinMove
<1>7. CASE WakeChain(c)
  <2>3. PICK w \in Lwps : w = Head(chain[c]) /\ w \in Sleepers
    <3>1. At(c, "d_wake")
      BY <1>7 DEF WakeChain
    <3>2. chain[c] # <<>> /\ chain[c] \in Seq(Lwps)
      BY <3>1 DEF ChainInv, TypeOK, CtxTypeOK
    <3>3. Head(chain[c]) \in Sleepers /\ Head(chain[c]) \in Lwps
      BY <3>2, KeepsWoken DEF WakeInv, Sleepers
    <3> QED BY <3>3
  <2>1. /\ At(c, "d_wake") /\ UNCHANGED <<slAvail, slFspin, slList>>
        /\ lMutex[w] = Nobody /\ lStat' = [lStat EXCEPT ![w] = "SRUN"]
        /\ lFlag' = [lFlag EXCEPT ![w] = lFlag[w] \ {"L_SIGWOKE"}]
    BY <1>7, <2>3 DEF WakeChain, Wakeup, MutexFree, lockVars
  <2>2. PICK p \in {"idle", "d_wake"} : Goto(c, p)
    BY <1>7 DEF WakeChain
  <2>4. pc[w] = "q_asleep" /\ w # c
    <3>1. ~At(w, "q_sleep")
      BY <1>7, <2>1, <2>3 DEF WakeChain, Unprotected, MutexFree
    <3>2. lStat[w] = "SSLEEP"
      BY <2>3, <3>1 DEF Sleepers
    <3> QED BY <2>1, <2>3, <3>2 DEF WakeInv, At
  <2>5. Woken(w)'
    <3>1. pc'[w] = "q_asleep"
      BY <1>0, <2>2, <2>3, <2>4 DEF Ctxs
    <3>2. lStat'[w] = "SRUN" /\ lFlag'[w] = lFlag[w] \ {"L_SIGWOKE"}
      BY <2>1, <2>3 DEF TypeOK, LwpTypeOK
    <3> QED BY <3>1, <3>2 DEF Woken, At
  <2>6. SomebodyLooks'
    BY <2>3, <2>5 DEF SomebodyLooks
  <2>7. \A d \in Ctxs : pc'[d] \in {"q_enq", "u_list2"} => pc'[d] = pc[d]
    BY <1>0, <2>2
  <2>8. RecheckInv'
    BY <2>1, <2>7 DEF LookInv, RecheckInv, Queueing, At, Ctxs
  <2>9. pc'[c] \notin HeldPcs
    BY <1>0, <2>2 DEF HeldPcs
  <2>10. FspinInv'
    BY <2>1, <2>2, <2>9, FspinMove
  <2> QED BY <2>6, <2>8, <2>10 DEF LookInv
<1> QED BY <1>1, <1>2, <1>3, <1>4, <1>5, <1>6, <1>7 DEF Unlocking

(* The steps of sleep_lock and sleep_lock_rellock: a caller gives up only  *)
(* when it finds the lock taken.                                           *)
LEMMA LookLocking ==
  ASSUME TypeOK, WakeInv, FspinInv, LookInv, NEW l \in Lwps, Locking(l)
  PROVE  FspinInv' /\ LookInv'
<1>0. l \in Ctxs /\ \A p : Goto(l, p) => \A d \in Ctxs : pc'[d] = IF d = l THEN p ELSE pc[d]
  BY DEF TypeOK, CtxTypeOK, Goto, Ctxs
<1>1. CASE \/ FastStart(l) \/ FastTake(l) \/ TryLock(l) \/ SlowTake(l) \/ SlowMutex(l)
           \/ RelockEntryLock(l) \/ FoldFixpend(l) \/ RecordOwner(l)
  <2>1. UNCHANGED <<lStat, lFlag, slFspin, slList, chain>>
    BY <1>1 DEF FastStart, FastTake, TryLock, SlowTake, SlowMutex, RelockEntryLock,
      FoldFixpend, RecordOwner, lwpVars, lockVars
  <2>2. slAvail' \in {slAvail, FALSE}
    BY <1>1 DEF FastStart, FastTake, TryLock, SlowTake, SlowMutex, RelockEntryLock,
      FoldFixpend, RecordOwner, TakeAndSettle, lockVars
  <2>3. pc[l] \in {"f_start", "f_take", "t_take", "w_take", "w_mutex", "w_relk", "g_fold",
                   "f_pid", "g_pid"}
    BY <1>1 DEF FastStart, FastTake, TryLock, SlowTake, SlowMutex, RelockEntryLock,
      FoldFixpend, RecordOwner, At
  <2>4. PICK p : /\ UNCHANGED pc \/ Goto(l, p)
                 /\ p \notin HeldPcs \union {"q_enq", "u_list2"}
                 /\ slAvail' = FALSE \/ UNCHANGED pc \/ (pc[l] \in LookPcs => p \in LookPcs)
    <3>1. CASE FastStart(l)
      BY <3>1 DEF FastStart, LookPcs, HeldPcs
    <3>2. CASE FastTake(l)
      BY <3>2 DEF FastTake, LookPcs, HeldPcs
    <3>3. CASE TryLock(l)
      BY <3>3 DEF TryLock, LookPcs, HeldPcs
    <3>4. CASE SlowTake(l)
      BY <3>4 DEF SlowTake, TakeAndSettle, LookPcs, HeldPcs
    <3>5. CASE SlowMutex(l) \/ RelockEntryLock(l)
      BY <3>5 DEF SlowMutex, RelockEntryLock, LookPcs, HeldPcs
    <3>6. CASE FoldFixpend(l) \/ RecordOwner(l)
      <4>1. pc[l] \notin LookPcs
        BY <3>6 DEF FoldFixpend, RecordOwner, At, LookPcs
      <4>2. UNCHANGED pc \/ Goto(l, "g_pid") \/ Goto(l, "hold")
        BY <3>6 DEF FoldFixpend, RecordOwner
      <4> QED BY <4>1, <4>2 DEF HeldPcs
    <3> QED BY <1>1, <3>1, <3>2, <3>3, <3>4, <3>5, <3>6
  <2>5. \A k \in Lwps : Woken(k) => Woken(k)'
    BY <1>0, <2>1, <2>3, <2>4 DEF Woken, At, Ctxs
  <2>6. pc'[l] \notin HeldPcs
    BY <1>0, <2>3, <2>4 DEF HeldPcs
  <2>7. FspinInv'
    BY <1>0, <2>1, <2>4, <2>6, FspinMove
  <2>8. CASE slAvail' # FALSE
    <3>1. UNCHANGED slAvail
      BY <2>2, <2>8
    <3>2. LookInv'
      BY <1>0, <2>1, <2>4, <2>5, <2>8, <3>1, LookMove
    <3> QED BY <2>7, <3>2
  <2> QED BY <2>7, <2>8, LookTaken
<1>2. CASE QueueFspin(l)
  <2>1. /\ At(l, "q_fspin") /\ Goto(l, "q_retry") /\ slFspin = Nobody /\ slFspin' = l
        /\ UNCHANGED <<lStat, lFlag, slAvail, slList, chain>>
    BY <1>2 DEF QueueFspin, FspinFree, lwpVars
  <2>2. \A k \in Lwps : Woken(k) => Woken(k)'
    BY <1>0, <2>1 DEF Woken, At, Ctxs
  <2>3. LookInv'
    BY <1>0, <2>1, <2>2, LookMove DEF LookPcs
  <2> QED BY <1>0, <2>1, <2>3, FspinMove
<1>3. CASE QueueRetry(l)
  <2>1. /\ At(l, "q_retry") /\ UNCHANGED <<lStat, lFlag, slList, chain>>
    BY <1>3 DEF QueueRetry
  <2>2. slFspin = l
    BY <1>0, <2>1 DEF FspinInv, HeldPcs, At
  <2>3. CASE slAvail' = FALSE /\ slFspin' = Nobody /\ Goto(l, "g_fold")
    <3>1. pc'[l] \notin HeldPcs /\ \A d \in Ctxs : d # l => pc'[d] = pc[d]
      BY <1>0, <2>3 DEF HeldPcs
    <3>2. FspinInv'
      BY <2>2, <3>1 DEF FspinInv
    <3> QED BY <2>3, <3>2, LookTaken
  <2>4. CASE UNCHANGED slAvail /\ slFspin' = Nobody /\ Goto(l, "s_acquire")
    <3>1. pc'[l] = "s_acquire" /\ \A d \in Ctxs : d # l => pc'[d] = pc[d]
      BY <1>0, <2>4
    <3>2. FspinInv'
      BY <2>2, <3>1 DEF FspinInv, HeldPcs
    <3>3. \A k \in Lwps : Woken(k) => Woken(k)'
      BY <2>1, <3>1 DEF Woken, At, Ctxs
    <3>4. LookInv'
      BY <1>0, <2>1, <2>4, <3>3, LookMove DEF LookPcs
    <3> QED BY <3>2, <3>4
  <2>5. CASE ~slAvail /\ UNCHANGED <<slAvail, slFspin>> /\ Goto(l, "q_enq")
    <3>1. FspinInv'
      BY <1>0, <2>1, <2>5, FspinMove DEF HeldPcs, At
    <3>2. slAvail' = FALSE
      BY <2>5 DEF TypeOK, FlagTypeOK
    <3> QED BY <3>1, <3>2, LookTaken
  <2> QED BY <1>3, <2>3, <2>4, <2>5 DEF QueueRetry, TakeAndSettle
<1>4. CASE Enqueue(l)
  <2>1. At(l, "q_enq") /\ UNCHANGED <<lStat, lFlag, slAvail, chain>>
    BY <1>4 DEF Enqueue, lwpVars, lockVars
  <2>2. slFspin = l
    BY <1>0, <2>1 DEF FspinInv, HeldPcs, At
  <2>3. Goto(l, "q_sleep") /\ slFspin' = Nobody
    BY <1>4 DEF Enqueue
  <2>4. pc'[l] = "q_sleep" /\ \A d \in Ctxs : d # l => pc'[d] = pc[d]
    BY <1>0, <2>3
  <2>5. FspinInv'
    BY <2>2, <2>4 DEF FspinInv, HeldPcs
  <2>6. ~Queueing'
    BY <2>2, <2>4 DEF Queueing, FspinInv, HeldPcs, At, Ctxs
  <2>7. SomebodyLooks => SomebodyLooks'
    BY <2>1, <2>4 DEF SomebodyLooks, Woken, LookPcs, At, Ctxs
  <2>8. Queueing
    BY <2>1 DEF Queueing
  <2> QED BY <2>1, <2>5, <2>6, <2>7, <2>8 DEF LookInv, RecheckInv
<1>5. CASE Sleep(l)
  <2>1. /\ At(l, "q_sleep") /\ Goto(l, "q_asleep")
        /\ UNCHANGED <<slAvail, slFspin, slList, chain>>
    BY <1>5 DEF Sleep, lockVars
  <2>2. \A k \in Lwps : k # l => lStat'[k] = lStat[k] /\ lFlag'[k] = lFlag[k]
    BY <1>5 DEF Sleep, Block, TypeOK, LwpTypeOK
  <2>3. \A k \in Lwps : Woken(k) => Woken(k)'
    BY <1>0, <2>1, <2>2 DEF Woken, At, Ctxs
  <2>4. LookInv'
    BY <1>0, <2>1, <2>3, LookMove DEF LookPcs, At
  <2> QED BY <1>0, <2>1, <2>4, FspinMove DEF HeldPcs
<1>6. CASE WakeUp(l)
  <2>1. /\ At(l, "q_asleep") /\ lStat[l] = "SRUN"
        /\ UNCHANGED <<lFlag, slAvail, slFspin, slList, chain>>
    BY <1>6 DEF WakeUp, Resume, lockVars
  <2>2. PICK p \in {"w_take", "w_relk", "s_issig2", "s_relock"} :
          Goto(l, p) /\ (p = "s_issig2" => "L_SIGWOKE" \in lFlag[l])
    BY <1>6 DEF WakeUp
  <2>3. \A k \in Lwps : k # l => lStat'[k] = lStat[k]
    BY <1>6 DEF WakeUp, Resume, TypeOK, LwpTypeOK
  <2>4. \A d \in Ctxs : pc'[d] = IF d = l THEN p ELSE pc[d]
    BY <1>0, <2>2
  <2>5. FspinInv'
    <3>1. pc'[l] \notin HeldPcs
      BY <1>0, <2>2, <2>4 DEF HeldPcs
    <3> QED BY <1>0, <2>1, <2>2, <3>1, FspinMove
  <2>6. Queueing' => Queueing
    BY <2>2, <2>4 DEF Queueing, At, Ctxs
  <2>7. \A d \in Ctxs : At(d, "u_list2")' => At(d, "u_list2")
    BY <2>2, <2>4 DEF At
  <2>8. SomebodyLooks => SomebodyLooks'
    <3>1. CASE Woken(l)
      <4>1. pc'[l] \in LookPcs
        BY <1>0, <2>2, <2>4, <3>1 DEF Woken, LookPcs
      <4> QED BY <1>0, <4>1 DEF SomebodyLooks
    <3>2. CASE ~Woken(l)
      <4>1. \A k \in Lwps : Woken(k) => Woken(k)'
        BY <2>1, <2>3, <2>4, <3>2 DEF Woken, At, Ctxs
      <4>2. \A d \in Ctxs : pc[d] \in LookPcs => pc'[d] = pc[d]
        BY <2>1, <2>4 DEF LookPcs, At
      <4> QED BY <2>1, <4>1, <4>2 DEF SomebodyLooks
    <3> QED BY <3>1, <3>2
  <2> QED BY <2>1, <2>5, <2>6, <2>7, <2>8 DEF LookInv, RecheckInv
<1> QED BY <1>1, <1>2, <1>3, <1>4, <1>5, <1>6 DEF Locking

(* The steps of sleep_lock_sig.  Without SIGWAITING no caller that has     *)
(* come past issig() turns back before it has tried the lock.              *)
LEMMA LookLockingSig ==
  ASSUME TypeOK, WakeInv, FspinInv, LookInv, WaitProcs = {}, NEW l \in Lwps,
         LockingSig(l)
  PROVE  FspinInv' /\ LookInv'
<1>0. l \in Ctxs /\ \A p : Goto(l, p) => \A d \in Ctxs : pc'[d] = IF d = l THEN p ELSE pc[d]
  BY DEF TypeOK, CtxTypeOK, Goto, Ctxs
<1>1. slList' = slList /\ chain' = chain
  BY DEF LockingSig, SigAgain, SigLock, SigIssig, SigRelock, SigAcquire, SendWaiting,
    SigTake, FixFspin, FixAdd, lockVars
<1>2. CASE SigAgain(l) \/ SigLock(l) \/ SigIssig(l) \/ SigRelock(l)
  <2>1. /\ UNCHANGED <<lStat, slAvail, slFspin>>
        /\ pc[l] \in {"s_again", "s_lock", "s_issig", "s_issig2", "s_relock"}
    BY <1>2 DEF SigAgain, SigLock, SigIssig, SigRelock, At, lwpVars, lockVars
  <2>2. PICK p \in {"s_issig", "s_lock", "s_acquire", "s_again", "s_fixlk", "idle"} :
          Goto(l, p) /\ (pc[l] = "s_relock" => p = "s_acquire")
    BY <1>2 DEF SigAgain, SigLock, SigIssig, SigRelock, Return, At
  <2>3. \A k \in Lwps : k # l => lFlag'[k] = lFlag[k]
    <3>1. CASE SigLock(l) \/ SigIssig(l)
      <4>1. lFlag' = lFlag \/ lFlag' = [lFlag EXCEPT ![l] = lFlag[l] \ {"L_SIGWOKE"}]
        BY <3>1 DEF SigLock, SigIssig
      <4> QED BY <4>1 DEF TypeOK, LwpTypeOK
    <3>2. CASE SigAgain(l) \/ SigRelock(l)
      BY <3>2 DEF SigAgain, SigRelock, lwpVars
    <3> QED BY <1>2, <3>1, <3>2
  <2>4. \A k \in Lwps : Woken(k) => Woken(k)'
    BY <1>0, <2>1, <2>2, <2>3 DEF Woken, At, Ctxs
  <2>5. /\ p \notin {"q_enq", "u_list2"} /\ (pc[l] \in LookPcs => p \in LookPcs)
    BY <2>1, <2>2 DEF LookPcs
  <2>6. pc'[l] \notin HeldPcs
    BY <1>0, <2>2 DEF HeldPcs
  <2>7. FspinInv'
    BY <1>0, <2>1, <2>2, <2>6, FspinMove
  <2>8. LookInv'
    BY <1>0, <1>1, <2>1, <2>2, <2>4, <2>5, LookMove
  <2> QED BY <2>7, <2>8
<1>3. CASE SigAcquire(l)
  <2>1. At(l, "s_acquire") /\ UNCHANGED <<lStat, lFlag, slAvail, slFspin>>
    BY <1>3 DEF SigAcquire, lwpVars, lockVars
  <2>2. UNCHANGED pc \/ Goto(l, "s_take")
    BY <1>3 DEF SigAcquire, LastToBlock
  <2>3. \A k \in Lwps : Woken(k) => Woken(k)'
    BY <1>0, <2>1, <2>2 DEF Woken, At, Ctxs
  <2>4. pc'[l] \notin HeldPcs
    BY <1>0, <2>1, <2>2 DEF HeldPcs, At
  <2>5. FspinInv'
    BY <1>0, <2>1, <2>2, <2>4, FspinMove
  <2>6. "s_take" \notin {"q_enq", "u_list2"} /\ "s_take" \in LookPcs
    BY DEF LookPcs
  <2>7. LookInv'
    BY <1>0, <1>1, <2>1, <2>2, <2>3, <2>6, LookMove
  <2> QED BY <2>5, <2>7
<1>4. CASE SendWaiting(l)
  <2>1. At(l, "s_sigtoproc") /\ UNCHANGED <<lStat, slAvail, slFspin>>
    BY <1>4 DEF SendWaiting, PostWaiting, PostSignal, lwpVars, lockVars
  <2>2. PICK p \in {"s_again", "n_unsleep"} : Goto(l, p)
    BY <1>4 DEF SendWaiting
  <2>3. \A k \in Lwps : lStat[k] = "SRUN" => lFlag'[k] = lFlag[k]
    <3>1. CASE WaitingPending(Proc[l])
      BY <1>4, <3>1 DEF SendWaiting, lwpVars
    <3>2. CASE ~WaitingPending(Proc[l])
      <4>1. PICK t \in Lwps : PostSignal(t, l)
        BY <1>4, <3>2 DEF SendWaiting, PostWaiting, LwpsOf
      <4> QED BY <4>1 DEF PostSignal, Interruptible, TypeOK, LwpTypeOK
    <3> QED BY <3>1, <3>2
  <2>4. \A k \in Lwps : Woken(k) => Woken(k)'
    BY <1>0, <2>1, <2>2, <2>3 DEF Woken, At, Ctxs
  <2>5. /\ p \notin {"q_enq", "u_list2"} /\ (pc[l] \in LookPcs => p \in LookPcs)
    BY <2>1, <2>2 DEF LookPcs, At
  <2>6. pc'[l] \notin HeldPcs
    BY <1>0, <2>2 DEF HeldPcs
  <2>7. FspinInv'
    BY <1>0, <2>1, <2>2, <2>6, FspinMove
  <2>8. LookInv'
    BY <1>0, <1>1, <2>1, <2>2, <2>4, <2>5, LookMove
  <2> QED BY <2>7, <2>8
<1>5. CASE SigTake(l)
  <2>1. At(l, "s_take") /\ UNCHANGED <<lStat, lFlag, slFspin>>
    BY <1>5 DEF SigTake
  <2>2. PICK p \in {"g_fold", "q_fspin"} :
          (UNCHANGED pc \/ Goto(l, p)) /\ (p = "q_fspin" \/ slAvail' = FALSE)
    BY <1>5 DEF SigTake, TakeAndSettle
  <2>3. pc'[l] \notin HeldPcs
    BY <1>0, <2>1, <2>2 DEF HeldPcs, At
  <2>4. FspinInv'
    BY <1>0, <2>1, <2>2, <2>3, FspinMove
  <2>5. CASE slAvail' # FALSE
    <3>1. UNCHANGED slAvail /\ p = "q_fspin"
      BY <1>5, <2>2, <2>5 DEF SigTake, TakeAndSettle
    <3>2. \A k \in Lwps : Woken(k) => Woken(k)'
      BY <1>0, <2>1, <2>2 DEF Woken, At, Ctxs
    <3>3. p \notin {"q_enq", "u_list2"} /\ p \in LookPcs
      BY <3>1 DEF LookPcs
    <3>4. LookInv'
      BY <1>0, <1>1, <2>1, <2>2, <3>1, <3>2, <3>3, LookMove
    <3> QED BY <2>4, <3>4
  <2> QED BY <2>4, <2>5, LookTaken
<1>6. CASE FixFspin(l) \/ FixAdd(l)
  <2>1. /\ pc[l] \in {"s_fixlk", "s_fixadd"} /\ UNCHANGED <<lStat, lFlag, slAvail>>
    BY <1>6 DEF FixFspin, FixAdd, At, lwpVars
  <2>2. PICK p \in {"s_fixadd", "idle"} : Goto(l, p)
    BY <1>6 DEF FixFspin, FixAdd, Return
  <2>3. \A k \in Lwps : Woken(k) => Woken(k)'
    BY <1>0, <2>1, <2>2 DEF Woken, At, Ctxs
  <2>4. FspinInv'
    <3>1. CASE FixFspin(l)
      <4>1. slFspin = Nobody /\ slFspin' = l
        BY <3>1 DEF FixFspin, FspinFree
      <4> QED BY <1>0, <2>2, <4>1, FspinMove
    <3>2. CASE FixAdd(l)
      <4>1. pc[l] = "s_fixadd" /\ pc'[l] = "idle"
        BY <1>0, <3>2 DEF FixAdd, Return, At
      <4>2. slFspin = l /\ pc'[l] \notin HeldPcs
        BY <1>0, <4>1 DEF FspinInv, HeldPcs
      <4> QED BY <1>0, <2>2, <4>2, FspinMove
    <3> QED BY <1>6, <3>1, <3>2
  <2>5. p \notin {"q_enq", "u_list2"} /\ pc[l] \notin LookPcs
    BY <2>1, <2>2 DEF LookPcs
  <2>6. LookInv'
    BY <1>0, <1>1, <2>1, <2>2, <2>3, <2>5, LookMove
  <2> QED BY <2>4, <2>6
<1> QED BY <1>2, <1>3, <1>4, <1>5, <1>6 DEF LockingSig

(* Signal posters take sleepers off the queue and add none; a caller that  *)
(* comes new only adds to those that look.                                 *)
LEMMA LookOther ==
  ASSUME TypeOK, WakeInv, FspinInv, LookInv, (\E c \in Ctxs : Unsleep(c)) \/ Choice
  PROVE  FspinInv' /\ LookInv'
<1>0. \A c \in Ctxs : \A p : Goto(c, p) => \A d \in Ctxs : pc'[d] = IF d = c THEN p ELSE pc[d]
  BY DEF TypeOK, CtxTypeOK, Goto
<1>1. ASSUME NEW c \in Ctxs, NEW p \in {"s_again", "idle", "n_unsleep", "f_start", "t_take",
                                       "exited"},
             UNCHANGED pc \/ Goto(c, p),
             pc[c] \in {"n_unsleep", "idle", "hold"},
             UNCHANGED <<slFspin, chain>>, slAvail' => slAvail,
             slList' # <<>> => slList # <<>>,
             \A k \in Lwps : Woken(k) /\ k # c => Woken(k)'
      PROVE  FspinInv' /\ LookInv'
  <2>1. /\ p \notin {"q_enq", "u_list2"} /\ pc[c] \notin LookPcs
        /\ p \notin HeldPcs /\ pc[c] \notin HeldPcs
    BY <1>1 DEF LookPcs, HeldPcs
  <2>2. \A k \in Lwps : Woken(k) => Woken(k)'
    BY <1>1 DEF Woken, At
  <2>3. pc'[c] \notin HeldPcs
    BY <1>0, <1>1, <2>1
  <2>4. FspinInv'
    BY <1>1, <2>3, FspinMove
  <2>5. LookInv'
    BY <1>1, <2>1, <2>2, LookMove
  <2> QED BY <2>4, <2>5
<1>2. ASSUME NEW c \in Ctxs, Unsleep(c) PROVE FspinInv' /\ LookInv'
  <2>1. PICK t \in Lwps : t = tgt[c] /\ lStat[t] = "SSLEEP"
    BY <1>2 DEF Unsleep, WakeInv
  <2>2. /\ pc[c] = "n_unsleep" /\ UNCHANGED <<lFlag, slAvail, slFspin, chain>>
        /\ slList' = slpdeque(slList, t)
        /\ lStat' = [lStat EXCEPT ![t] = IF Contains(slList, t) THEN "SRUN" ELSE @]
    BY <1>2, <2>1 DEF Unsleep, FinishNudge, At
  <2>3. PICK p \in {"s_again", "idle"} : Goto(c, p)
    BY <1>2 DEF Unsleep
  <2>4. \A k \in Lwps : k # t => lStat'[k] = lStat[k]
    BY <2>2 DEF TypeOK, LwpTypeOK
  <2>5. \A k \in Lwps : Woken(k) /\ k # c => Woken(k)'
    BY <1>0, <2>1, <2>2, <2>3, <2>4 DEF Woken, At, Ctxs
  <2>6. slList' # <<>> => slList # <<>>
    BY <2>2, EmptyQueue DEF slpdeque
  <2> QED BY <1>1, <2>2, <2>3, <2>5, <2>6
<1>3. ASSUME NEW c \in Intrs, NEW t \in Lwps, Post(c, t) PROVE FspinInv' /\ LookInv'
  <2>1. /\ c \in Ctxs /\ pc[c] = "idle"
        /\ UNCHANGED <<lStat, slAvail, slFspin, slList, chain>>
    BY <1>3 DEF Post, PostSignal, At, lockVars, Ctxs
  <2>2. PICK p \in {"idle", "n_unsleep"} : Goto(c, p)
    BY <1>3 DEF Post
  <2>3. \A k \in Lwps : lStat[k] = "SRUN" => lFlag'[k] = lFlag[k]
    BY <1>3 DEF Post, PostSignal, Interruptible, TypeOK, LwpTypeOK
  <2>4. \A k \in Lwps : Woken(k) /\ k # c => Woken(k)'
    BY <1>0, <2>1, <2>2, <2>3 DEF Woken, At, Ctxs
  <2> QED BY <1>1, <2>1, <2>2, <2>4
<1>4. ASSUME NEW l \in Lwps, Call(l) \/ LwpExit(l) \/ Disown(l) \/ LockPrivate(l)
      PROVE  FspinInv' /\ LookInv'
  <2>1. /\ l \in Ctxs /\ pc[l] \in {"idle", "hold"}
        /\ UNCHANGED <<lStat, lFlag, slFspin, slList, chain>>
        /\ (slAvail' => slAvail)
    BY <1>4 DEF Call, LwpExit, Disown, LockPrivate, At, lwpVars, lockVars, Ctxs
  <2>2. PICK p \in {"s_again", "idle", "f_start", "t_take", "exited"} :
          UNCHANGED pc \/ Goto(l, p)
    <3>1. CASE Call(l)
      <4>1. PICK o \in DOMAIN EntryPc : Goto(l, EntryPc[o])
        BY <3>1 DEF Call
      <4>2. EntryPc[o] \in {"f_start", "s_again", "t_take"}
        BY DEF EntryPc
      <4> QED BY <4>1, <4>2
    <3>2. CASE LwpExit(l) \/ Disown(l)
      BY <3>2 DEF LwpExit, Disown
    <3>3. CASE LockPrivate(l)
      BY <3>3 DEF LockPrivate
    <3> QED BY <1>4, <3>1, <3>2, <3>3
  <2>3. \A k \in Lwps : Woken(k) /\ k # l => Woken(k)'
    BY <1>0, <2>1, <2>2 DEF Woken, At, Ctxs
  <2> QED BY <1>1, <2>1, <2>2, <2>3
<1>5. ASSUME NEW c \in Ctxs, WakeTooEarly(c) PROVE FspinInv' /\ LookInv'
  <2>1. UNCHANGED <<pc, lStat, lFlag, slAvail, slFspin, slList, chain>>
    BY <1>5 DEF WakeTooEarly, lwpVars, lockVars
  <2> QED BY <2>1 DEF FspinInv, LookInv, RecheckInv, Queueing, SomebodyLooks, Woken, At
<1> QED BY <1>2, <1>3, <1>4, <1>5 DEF Choice

(* Every step keeps the invariant.                                         *)
LEMMA LookStep ==
  ASSUME TypeOK, ChainInv, OwnInv, WakeInv, FspinInv, LookInv, WaitProcs = {}, [Next]_vars
  PROVE  FspinInv' /\ LookInv'
<1>1. CASE UNCHANGED vars
  <2>1. UNCHANGED <<pc, lStat, lFlag, slAvail, slFspin, slList, chain>>
    BY <1>1 DEF vars, lwpVars, lockVars
  <2> QED BY <2>1 DEF FspinInv, LookInv, RecheckInv, Queueing, SomebodyLooks, Woken, At
<1>2. CASE Next
  BY <1>1, <1>2, LookUnlocking, LookLocking, LookLockingSig, LookOther
  DEF Next, Step, Quiet
<1> QED BY <1>1, <1>2

(* A free lock with LWPs queued on it is never left to itself, signals and *)
(* posters included, in a system where no process catches SIGWAITING: what *)
(* remains for liveness is that those on the way get there.                *)
THEOREM NobodyIsStranded ==
  ASSUME WaitProcs = {} PROVE Spec => []NobodyStranded
<1>1. /\ TypeInv /\ OwnInv /\ WakeInv /\ (FspinInv /\ LookInv) /\ [Next]_vars
      => (FspinInv /\ LookInv)'
  BY LookStep DEF TypeInv
<1>2. LookInv => NobodyStranded
  BY DEF LookInv, NobodyStranded
<1> QED BY LookInit, <1>1, <1>2, TypesAndChains, OwnershipInvariant, WakeupInvariant,
      PTL DEF Spec
=============================================================================
