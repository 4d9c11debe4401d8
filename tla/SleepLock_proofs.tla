-------------------------- MODULE SleepLock_proofs --------------------------
(***************************************************************************)
(* Theorems about SleepLock, for any set of LWPs and of other contexts,    *)
(* any entry points in use, any number of calls and signals, process exits *)
(* included: types; exclusion, the owner recorded in sl_pid, and the guard *)
(* of SL_BUSY against a late unlocker; the abstract lock it implements.    *)
(***************************************************************************)
EXTENDS SleepLock, SleepQueue_proofs

-----------------------------------------------------------------------------
(* A chain of more than one has somebody left after the first.             *)
LEMMA TailOfMore ==
  ASSUME NEW S, NEW q \in Seq(S), q # <<>>, Len(q) # 1
  PROVE  Tail(q) # <<>>
<1>1. Tail(q) \in Seq(S) /\ Len(Tail(q)) = Len(q) - 1 /\ Len(q) \in Nat
  BY TailQueue, LenProperties
<1>2. Len(Tail(q)) # 0
  BY <1>1, EmptySeq
<1> QED BY <1>2, EmptySeq, Zenon

(* The part of the queue that a dequeue leaves, and the chain it makes.    *)
LEMMA DequeueSeq ==
  ASSUME NEW S, NEW q \in Seq(S),
         NEW n \in (IF q = <<>> THEN {0} ELSE 1 .. Len(q))
  PROVE  /\ SubSeq(q, n + 1, Len(q)) \in Seq(S)
         /\ Reverse(SubSeq(q, 1, n)) \in Seq(S)
<1>1. n \in 0 .. Len(q)
  BY LenProperties
<1>2. SubSeq(q, n + 1, Len(q)) \in Seq(S) /\ SubSeq(q, 1, n) \in Seq(S)
  BY <1>1, SplitQueue
<1> QED BY <1>2, ReverseQueue
-----------------------------------------------------------------------------
(* Types.  A context that is waking its chain has somebody left to wake.   *)

ChainInv == \A c \in Ctxs : At(c, "d_wake") => chain[c] # <<>>
TypeInv == TypeOK /\ NoteTypeOK /\ ChainInv

(* sl_fixpend wraps within an unsigned char.                               *)
LEMMA Mod256 == \A n \in Int : n % 256 \in 0 .. 255
  OBVIOUS

(* The control points, one by one.                                         *)
LEMMA PcsElements ==
  /\ "idle" \in Pcs /\ "f_start" \in Pcs /\ "f_take" \in Pcs /\ "w_take" \in Pcs
  /\ "w_mutex" \in Pcs /\ "w_relk" \in Pcs /\ "t_take" \in Pcs /\ "s_again" \in Pcs
  /\ "s_lock" \in Pcs /\ "s_issig" \in Pcs /\ "s_issig2" \in Pcs
  /\ "s_relock" \in Pcs /\ "s_acquire" \in Pcs /\ "s_take" \in Pcs
  /\ "s_fixlk" \in Pcs /\ "s_fixadd" \in Pcs /\ "s_sigtoproc" \in Pcs
  /\ "n_unsleep" \in Pcs /\ "q_fspin" \in Pcs /\ "q_retry" \in Pcs
  /\ "q_enq" \in Pcs /\ "q_sleep" \in Pcs /\ "q_asleep" \in Pcs /\ "f_pid" \in Pcs
  /\ "g_fold" \in Pcs /\ "g_pid" \in Pcs /\ "hold" \in Pcs /\ "u_list" \in Pcs
  /\ "u_avail" \in Pcs /\ "d_fspin" \in Pcs /\ "d_deq" \in Pcs
  /\ "u_fspin2" \in Pcs /\ "u_list2" \in Pcs /\ "u_retake" \in Pcs
  /\ "u_nopid" \in Pcs /\ "d_nopid" \in Pcs /\ "d_wake" \in Pcs /\ "exited" \in Pcs
  BY DEF Pcs, Acquiring, Acquired, Releasing, Released

(* A lock fresh from sleep_init is of its type, and nobody walks a chain.  *)
LEMMA TypeInit == Init => TypeInv
<1> SUFFICES ASSUME Init PROVE TypeInv
  OBVIOUS
<1>1. LwpTypeOK
  BY DEF Init, LwpInit, LwpTypeOK
<1>2. FlagTypeOK
  BY DEF Init, FlagTypeOK
<1>3. LockTypeOK
  BY EmptySeq DEF Init, LockTypeOK
<1>4. CallTypeOK
  BY DEF Init, CallTypeOK
<1>5. CtxTypeOK
  BY EmptySeq, PcsElements DEF Init, CtxTypeOK
<1>6. \A c \in Ctxs : ~At(c, "d_wake")
  BY DEF Init, At
<1>7. NoteTypeOK
  BY DEF Init, NoteTypeOK
<1> QED BY <1>1, <1>2, <1>3, <1>4, <1>5, <1>6, <1>7 DEF TypeInv, TypeOK, ChainInv

(* The steps of sleep_unlock.                                              *)
LEMMA TypeUnlocking ==
  ASSUME TypeOK, ChainInv, NEW c \in Ctxs, Unlocking(c)
  PROVE  TypeOK'
<1> USE DEF TypeOK
<1>1. CASE UnlockStart(c)
  <2>1. LwpTypeOK'
    BY <1>1 DEF UnlockStart, LwpTypeOK, Ctxs, lwpVars
  <2>2. FlagTypeOK'
    BY <1>1 DEF UnlockStart, FlagTypeOK, lockVars, procVars, lwpVars
  <2>3. LockTypeOK'
    BY <1>1 DEF UnlockStart, LockTypeOK, Ctxs, lockVars
  <2>4. CallTypeOK'
    BY <1>1 DEF UnlockStart, CallTypeOK, callVars, procVars
  <2>5. CtxTypeOK'
    BY <1>1, PcsElements DEF UnlockStart, CtxTypeOK, Ctxs, callVars, Goto
  <2> QED BY <2>1, <2>2, <2>3, <2>4, <2>5
<1>2. CASE UnlockList(c)
  <2>1. LwpTypeOK'
    BY <1>2 DEF UnlockList, LwpTypeOK, Ctxs, lwpVars
  <2>2. FlagTypeOK'
    BY <1>2 DEF UnlockList, FlagTypeOK, lockVars, procVars, lwpVars
  <2>3. LockTypeOK'
    BY <1>2 DEF UnlockList, LockTypeOK, Ctxs, lockVars
  <2>4. CallTypeOK'
    BY <1>2 DEF UnlockList, CallTypeOK, callVars, procVars
  <2>5. CtxTypeOK'
    BY <1>2, PcsElements DEF UnlockList, CtxTypeOK, Ctxs, callVars, Goto
  <2> QED BY <2>1, <2>2, <2>3, <2>4, <2>5
<1>3. CASE UnlockAvail(c)
  BY <1>3, PcsElements
  DEF UnlockAvail, MarkReleased, LwpTypeOK, FlagTypeOK, LockTypeOK, CallTypeOK,
    CtxTypeOK, Ctxs, lwpVars, lockVars, procVars, callVars, Goto
<1>4. CASE UnlockRecheck(c)
  <2>1. LwpTypeOK'
    BY <1>4 DEF UnlockRecheck, LwpTypeOK, Ctxs, lwpVars
  <2>2. FlagTypeOK'
    BY <1>4 DEF UnlockRecheck, FlagTypeOK, lockVars, procVars
  <2>3. LockTypeOK'
    BY <1>4 DEF UnlockRecheck, LockTypeOK, Ctxs, lockVars
  <2>4. CallTypeOK'
    BY <1>4 DEF UnlockRecheck, CallTypeOK, callVars, procVars
  <2>5. CtxTypeOK'
    BY <1>4, PcsElements DEF UnlockRecheck, CtxTypeOK, Ctxs, Goto
  <2> QED BY <2>1, <2>2, <2>3, <2>4, <2>5
<1>5. CASE UnlockRetake(c)
  <2>1. LwpTypeOK'
    BY <1>5 DEF UnlockRetake, LwpTypeOK, Ctxs, lwpVars
  <2>2. FlagTypeOK'
    BY <1>5 DEF UnlockRetake, FlagTypeOK, lockVars, procVars, lwpVars
  <2>3. LockTypeOK'
    BY <1>5 DEF UnlockRetake, LockTypeOK, Ctxs, lockVars
  <2>4. CallTypeOK'
    BY <1>5 DEF UnlockRetake, CallTypeOK, callVars, procVars
  <2>5. CtxTypeOK'
    BY <1>5, PcsElements DEF UnlockRetake, CtxTypeOK, Ctxs, callVars, Goto
  <2> QED BY <2>1, <2>2, <2>3, <2>4, <2>5
<1>6. CASE UnlockDone(c)
  <2>1. LwpTypeOK'
    BY <1>6 DEF UnlockDone, LwpTypeOK, Ctxs, lwpVars
  <2>2. FlagTypeOK'
    BY <1>6 DEF UnlockDone, FlagTypeOK, lockVars, procVars, lwpVars
  <2>3. LockTypeOK'
    BY <1>6 DEF UnlockDone, LockTypeOK, Ctxs, lockVars
  <2>4. CallTypeOK'
    BY <1>6 DEF UnlockDone, CallTypeOK, callVars, procVars
  <2>5. CtxTypeOK'
    BY <1>6, PcsElements DEF UnlockDone, CtxTypeOK, Ctxs, callVars, Goto
  <2> QED BY <2>1, <2>2, <2>3, <2>4, <2>5
<1>7. CASE DequeueFspin(c)
  <2>1. LwpTypeOK'
    BY <1>7 DEF DequeueFspin, LwpTypeOK, Ctxs, lwpVars
  <2>2. FlagTypeOK'
    BY <1>7 DEF DequeueFspin, FlagTypeOK, lockVars, procVars, lwpVars
  <2>3. LockTypeOK'
    BY <1>7 DEF DequeueFspin, LockTypeOK, Ctxs, lockVars
  <2>4. CallTypeOK'
    BY <1>7 DEF DequeueFspin, CallTypeOK, callVars, procVars
  <2>5. CtxTypeOK'
    BY <1>7, PcsElements DEF DequeueFspin, CtxTypeOK, Ctxs, callVars, Goto
  <2> QED BY <2>1, <2>2, <2>3, <2>4, <2>5
<1>8. CASE Dequeue(c)
  <2>1. LwpTypeOK'
    BY <1>8 DEF Dequeue, MarkReleased, CountWoken, ChainOf, LwpTypeOK, Ctxs, lwpVars
  <2>2. FlagTypeOK'
    BY <1>8 DEF Dequeue, MarkReleased, CountWoken, ChainOf, FlagTypeOK, lockVars, procVars,
      lwpVars
  <2>3. LockTypeOK'
    BY <1>8, DequeueSeq DEF Dequeue, MarkReleased, CountWoken, ChainOf, LockTypeOK, Ctxs,
      lockVars
  <2>4. CallTypeOK'
    BY <1>8 DEF Dequeue, MarkReleased, CountWoken, ChainOf, CallTypeOK, callVars, procVars
  <2>5. CtxTypeOK'
    <3>1. PICK n \in (IF slList = <<>> THEN {0} ELSE 1 .. Len(slList)) :
            chain' = [chain EXCEPT ![c] = ChainOf(n)]
      BY <1>8 DEF Dequeue
    <3>2. ChainOf(n) \in Seq(Lwps)
      BY DequeueSeq DEF ChainOf, LockTypeOK
    <3> QED BY <1>8, <3>1, <3>2, PcsElements DEF Dequeue, CtxTypeOK, Goto
  <2> QED BY <2>1, <2>2, <2>3, <2>4, <2>5
<1>9. CASE DequeueDone(c)
  <2>1. LwpTypeOK'
    BY <1>9 DEF DequeueDone, LwpTypeOK, Ctxs, lwpVars
  <2>2. FlagTypeOK'
    BY <1>9 DEF DequeueDone, FlagTypeOK, lockVars, procVars, lwpVars
  <2>3. LockTypeOK'
    BY <1>9 DEF DequeueDone, LockTypeOK, Ctxs, lockVars
  <2>4. CallTypeOK'
    BY <1>9 DEF DequeueDone, CallTypeOK, callVars, procVars
  <2>5. CtxTypeOK'
    BY <1>9, PcsElements DEF DequeueDone, CtxTypeOK, Ctxs, callVars, Goto
  <2> QED BY <2>1, <2>2, <2>3, <2>4, <2>5
<1>10. CASE WakeChain(c)
  <2>1. LwpTypeOK'
    BY <1>10 DEF WakeChain, Wakeup, ChainInv, At, LwpTypeOK, Ctxs, lwpVars
  <2>2. FlagTypeOK'
    BY <1>10 DEF WakeChain, Wakeup, ChainInv, At, FlagTypeOK, lockVars, procVars, lwpVars
  <2>3. LockTypeOK'
    BY <1>10, HeadTailProperties DEF WakeChain, Wakeup, ChainInv, At, LockTypeOK, Ctxs,
      lockVars
  <2>4. CallTypeOK'
    BY <1>10 DEF WakeChain, Wakeup, ChainInv, At, CallTypeOK, callVars, procVars
  <2>5. CtxTypeOK'
    BY <1>10, PcsElements, HeadTailProperties DEF WakeChain, Wakeup, ChainInv, At,
      CtxTypeOK, Ctxs, callVars, Goto
  <2> QED BY <2>1, <2>2, <2>3, <2>4, <2>5
<1> QED BY <1>1, <1>2, <1>3, <1>4, <1>5, <1>6, <1>7, <1>8, <1>9, <1>10 DEF
  Unlocking

(* The steps of sleep_lock and sleep_lock_rellock.                         *)
LEMMA TypeLocking ==
  ASSUME TypeOK, ChainInv, NEW l \in Lwps, Locking(l)
  PROVE  TypeOK'
<1> USE DEF TypeOK
<1>1. CASE FastStart(l)
  <2>1. LwpTypeOK'
    BY <1>1 DEF FastStart, LwpTypeOK, Ctxs, lwpVars
  <2>2. FlagTypeOK'
    BY <1>1 DEF FastStart, FlagTypeOK, lockVars, procVars, lwpVars
  <2>3. LockTypeOK'
    BY <1>1 DEF FastStart, LockTypeOK, Ctxs, lockVars
  <2>4. CallTypeOK'
    BY <1>1 DEF FastStart, CallTypeOK, callVars, procVars
  <2>5. CtxTypeOK'
    BY <1>1, PcsElements DEF FastStart, CtxTypeOK, Ctxs, callVars, Goto
  <2> QED BY <2>1, <2>2, <2>3, <2>4, <2>5
<1>2. CASE FastTake(l)
  <2>1. LwpTypeOK'
    BY <1>2 DEF FastTake, ReleaseEntryLock, LwpTypeOK, Ctxs, lwpVars
  <2>2. FlagTypeOK'
    BY <1>2 DEF FastTake, ReleaseEntryLock, FlagTypeOK, lockVars, procVars
  <2>3. LockTypeOK'
    BY <1>2 DEF FastTake, ReleaseEntryLock, LockTypeOK, Ctxs, lockVars
  <2>4. CallTypeOK'
    BY <1>2 DEF FastTake, ReleaseEntryLock, CallTypeOK, callVars, procVars
  <2>5. CtxTypeOK'
    BY <1>2, PcsElements DEF FastTake, ReleaseEntryLock, CtxTypeOK, Ctxs, Goto
  <2> QED BY <2>1, <2>2, <2>3, <2>4, <2>5
<1>3. CASE TryLock(l)
  <2>1. LwpTypeOK'
    BY <1>3 DEF TryLock, LwpTypeOK, Ctxs, lwpVars
  <2>2. FlagTypeOK'
    BY <1>3 DEF TryLock, FlagTypeOK, lockVars, procVars
  <2>3. LockTypeOK'
    BY <1>3 DEF TryLock, LockTypeOK, Ctxs, lockVars
  <2>4. CallTypeOK'
    BY <1>3 DEF TryLock, CallTypeOK, callVars, procVars
  <2>5. CtxTypeOK'
    BY <1>3, PcsElements DEF TryLock, CtxTypeOK, Ctxs, Goto
  <2> QED BY <2>1, <2>2, <2>3, <2>4, <2>5
<1>4. CASE SlowTake(l)
  <2>1. LwpTypeOK'
    BY <1>4 DEF SlowTake, TakeAndSettle, LwpTypeOK, Ctxs, lwpVars
  <2>2. FlagTypeOK'
    BY <1>4 DEF SlowTake, TakeAndSettle, FlagTypeOK, lockVars, procVars
  <2>3. LockTypeOK'
    <3>1. slPend' \in Int
      BY <1>4 DEF SlowTake, TakeAndSettle, lockVars, LockTypeOK,
        CallTypeOK
    <3>2. UNCHANGED <<slFspin, slList, slFixpend, slPid>>
      BY <1>4 DEF SlowTake, lockVars
    <3> QED BY <3>1, <3>2 DEF LockTypeOK
  <2>4. CallTypeOK'
    BY <1>4 DEF SlowTake, TakeAndSettle, CallTypeOK, callVars, procVars
  <2>5. CtxTypeOK'
    BY <1>4, PcsElements DEF SlowTake, TakeAndSettle, CtxTypeOK, Ctxs,
      Goto
  <2> QED BY <2>1, <2>2, <2>3, <2>4, <2>5
<1>5. CASE SlowMutex(l)
  BY <1>5, PcsElements
  DEF SlowMutex, LockMutex, LwpTypeOK, FlagTypeOK, LockTypeOK, CallTypeOK,
    CtxTypeOK, Ctxs, lwpVars, lockVars, procVars, callVars, Goto
<1>6. CASE RelockEntryLock(l)
  BY <1>6, PcsElements
  DEF RelockEntryLock, LwpTypeOK, FlagTypeOK, LockTypeOK, CallTypeOK, CtxTypeOK,
    Ctxs, lwpVars, lockVars, procVars, callVars, Goto
<1>7. CASE QueueFspin(l)
  <2>1. LwpTypeOK'
    BY <1>7 DEF QueueFspin, LwpTypeOK, Ctxs, lwpVars
  <2>2. FlagTypeOK'
    BY <1>7 DEF QueueFspin, FlagTypeOK, lockVars, procVars, lwpVars
  <2>3. LockTypeOK'
    BY <1>7 DEF QueueFspin, LockTypeOK, Ctxs, lockVars
  <2>4. CallTypeOK'
    BY <1>7 DEF QueueFspin, CallTypeOK, callVars, procVars
  <2>5. CtxTypeOK'
    BY <1>7, PcsElements DEF QueueFspin, CtxTypeOK, Ctxs, callVars, Goto
  <2> QED BY <2>1, <2>2, <2>3, <2>4, <2>5
<1>8. CASE QueueRetry(l)
  <2>1. LwpTypeOK'
    BY <1>8 DEF QueueRetry, TakeAndSettle, UnlockMutex, LwpTypeOK, Ctxs, lwpVars
  <2>2. FlagTypeOK'
    BY <1>8 DEF QueueRetry, TakeAndSettle, UnlockMutex, FlagTypeOK, lockVars,
      procVars
  <2>3. LockTypeOK'
    BY <1>8 DEF QueueRetry, TakeAndSettle, UnlockMutex, LockTypeOK, Ctxs,
      lockVars, CallTypeOK
  <2>4. CallTypeOK'
    BY <1>8 DEF QueueRetry, TakeAndSettle, UnlockMutex, CallTypeOK, callVars,
      procVars
  <2>5. CtxTypeOK'
    BY <1>8, PcsElements DEF QueueRetry, TakeAndSettle, UnlockMutex, CtxTypeOK,
      Ctxs, Goto
  <2> QED BY <2>1, <2>2, <2>3, <2>4, <2>5
<1>9. CASE Enqueue(l)
  <2>1. LwpTypeOK'
    BY <1>9 DEF Enqueue, InsertSleeper, LwpTypeOK, Ctxs, lwpVars
  <2>2. FlagTypeOK'
    BY <1>9 DEF Enqueue, InsertSleeper, FlagTypeOK, lockVars, procVars
  <2>3. LockTypeOK'
    <3>1. <<l>> \in Seq(Lwps) /\ InsertSleeper(slList, l) \in Seq(Lwps)
      BY AppendProperties, ConcatProperties DEF InsertSleeper, LockTypeOK
    <3> QED BY <1>9, <3>1 DEF Enqueue, LockTypeOK, Ctxs, lockVars
  <2>4. CallTypeOK'
    BY <1>9 DEF Enqueue, InsertSleeper, CallTypeOK, callVars, procVars
  <2>5. CtxTypeOK'
    BY <1>9, PcsElements DEF Enqueue, InsertSleeper, CtxTypeOK, Ctxs,
      Goto
  <2> QED BY <2>1, <2>2, <2>3, <2>4, <2>5
<1>10. CASE Sleep(l)
  <2>1. LwpTypeOK'
    BY <1>10 DEF Sleep, Block, UnlockMutex, ReleaseEntryLock, LwpTypeOK, Ctxs,
      lwpVars
  <2>2. FlagTypeOK'
    BY <1>10 DEF Sleep, Block, UnlockMutex, ReleaseEntryLock, FlagTypeOK,
      lockVars, procVars
  <2>3. LockTypeOK'
    BY <1>10 DEF Sleep, Block, UnlockMutex, ReleaseEntryLock, LockTypeOK, Ctxs,
      lockVars
  <2>4. CallTypeOK'
    BY <1>10 DEF Sleep, Block, UnlockMutex, ReleaseEntryLock, CallTypeOK,
      callVars, procVars
  <2>5. CtxTypeOK'
    BY <1>10, PcsElements DEF Sleep, Block, UnlockMutex, ReleaseEntryLock,
      CtxTypeOK, Ctxs, Goto
  <2> QED BY <2>1, <2>2, <2>3, <2>4, <2>5
<1>11. CASE WakeUp(l)
  <2>1. LwpTypeOK'
    BY <1>11 DEF WakeUp, Resume, CountAwake, CountBlocked, LwpTypeOK, Ctxs,
      lwpVars
  <2>2. FlagTypeOK'
    BY <1>11 DEF WakeUp, Resume, CountAwake, CountBlocked, FlagTypeOK, lockVars,
      procVars
  <2>3. LockTypeOK'
    BY <1>11 DEF WakeUp, Resume, CountAwake, CountBlocked, LockTypeOK, Ctxs,
      lockVars
  <2>4. CallTypeOK'
    BY <1>11 DEF WakeUp, Resume, CountAwake, CountBlocked, CallTypeOK, callVars,
      procVars
  <2>5. CtxTypeOK'
    BY <1>11, PcsElements DEF WakeUp, Resume, CountAwake, CountBlocked,
      CtxTypeOK, Ctxs, Goto
  <2> QED BY <2>1, <2>2, <2>3, <2>4, <2>5
<1>12. CASE FoldFixpend(l)
  <2>1. LwpTypeOK'
    BY <1>12 DEF FoldFixpend, ReleaseEntryLock, LwpTypeOK, Ctxs, lwpVars
  <2>2. FlagTypeOK'
    BY <1>12 DEF FoldFixpend, ReleaseEntryLock, FlagTypeOK, lockVars, procVars, lwpVars
  <2>3. LockTypeOK'
    BY <1>12 DEF FoldFixpend, ReleaseEntryLock, LockTypeOK, Ctxs, lockVars
  <2>4. CallTypeOK'
    BY <1>12 DEF FoldFixpend, ReleaseEntryLock, CallTypeOK, callVars, procVars
  <2>5. CtxTypeOK'
    BY <1>12, PcsElements DEF FoldFixpend, ReleaseEntryLock, CtxTypeOK, Ctxs, callVars, Goto
  <2> QED BY <2>1, <2>2, <2>3, <2>4, <2>5
<1>13. CASE RecordOwner(l)
  <2>1. LwpTypeOK'
    BY <1>13 DEF RecordOwner, CountBlocked, LwpTypeOK, Ctxs, lwpVars
  <2>2. FlagTypeOK'
    BY <1>13 DEF RecordOwner, CountBlocked, FlagTypeOK, lockVars,
      procVars
  <2>3. LockTypeOK'
    BY <1>13 DEF RecordOwner, CountBlocked, LockTypeOK, Ctxs, lockVars
  <2>4. CallTypeOK'
    BY <1>13 DEF RecordOwner, CountBlocked, CallTypeOK, callVars,
      procVars
  <2>5. CtxTypeOK'
    BY <1>13, PcsElements DEF RecordOwner, CountBlocked, CtxTypeOK, Ctxs,
      Goto
  <2> QED BY <2>1, <2>2, <2>3, <2>4, <2>5
<1> QED BY <1>1, <1>2, <1>3, <1>4, <1>5, <1>6, <1>7, <1>8, <1>9, <1>10, <1>11,
  <1>12, <1>13 DEF Locking

(* The steps of sleep_lock_sig.                                            *)
LEMMA TypeLockingSig ==
  ASSUME TypeOK, ChainInv, NEW l \in Lwps, LockingSig(l)
  PROVE  TypeOK'
<1> USE DEF TypeOK
<1>1. CASE SigAgain(l)
  <2>1. LwpTypeOK'
    BY <1>1 DEF SigAgain, LwpTypeOK, Ctxs, lwpVars
  <2>2. FlagTypeOK'
    BY <1>1 DEF SigAgain, FlagTypeOK, lockVars, procVars, lwpVars
  <2>3. LockTypeOK'
    BY <1>1 DEF SigAgain, LockTypeOK, Ctxs, lockVars
  <2>4. CallTypeOK'
    BY <1>1 DEF SigAgain, CallTypeOK, callVars, procVars
  <2>5. CtxTypeOK'
    BY <1>1, PcsElements DEF SigAgain, CtxTypeOK, Ctxs, callVars, Goto
  <2> QED BY <2>1, <2>2, <2>3, <2>4, <2>5
<1>2. CASE SigLock(l)
  <2>1. LwpTypeOK'
    BY <1>2 DEF SigLock, LockMutex, LwpTypeOK, Ctxs, lwpVars
  <2>2. FlagTypeOK'
    BY <1>2 DEF SigLock, LockMutex, FlagTypeOK, lockVars, procVars
  <2>3. LockTypeOK'
    BY <1>2 DEF SigLock, LockMutex, LockTypeOK, Ctxs, lockVars
  <2>4. CallTypeOK'
    BY <1>2 DEF SigLock, LockMutex, CallTypeOK, callVars, procVars
  <2>5. CtxTypeOK'
    BY <1>2, PcsElements DEF SigLock, LockMutex, CtxTypeOK, Ctxs, Goto
  <2> QED BY <2>1, <2>2, <2>3, <2>4, <2>5
<1>3. CASE SigIssig(l)
  <2>1. LwpTypeOK'
    BY <1>3 DEF SigIssig, TakeIssig, Issig, IssigReturns, Return, LwpTypeOK,
      Ctxs, lwpVars, Goto
  <2>2. FlagTypeOK'
    BY <1>3 DEF SigIssig, TakeIssig, Issig, IssigReturns, Return, FlagTypeOK,
      lockVars, procVars, Goto
  <2>3. LockTypeOK'
    BY <1>3 DEF SigIssig, TakeIssig, Issig, IssigReturns, Return, LockTypeOK,
      Ctxs, lockVars, Goto
  <2>4. CallTypeOK'
    BY <1>3 DEF SigIssig, TakeIssig, Issig, IssigReturns, Return, CallTypeOK,
      callVars, procVars, Goto
  <2>5. CtxTypeOK'
    <3>1. PICK p \in Pcs : Goto(l, p)
      BY <1>3, PcsElements DEF SigIssig, Return
    <3> QED BY <1>3, <3>1 DEF SigIssig, CtxTypeOK, Ctxs, Goto
  <2> QED BY <2>1, <2>2, <2>3, <2>4, <2>5
<1>4. CASE SigRelock(l)
  BY <1>4, PcsElements
  DEF SigRelock, LockMutex, LwpTypeOK, FlagTypeOK, LockTypeOK, CallTypeOK,
    CtxTypeOK, Ctxs, lwpVars, lockVars, procVars, callVars, Goto
<1>5. CASE SigAcquire(l)
  <2>1. LwpTypeOK'
    BY <1>5 DEF SigAcquire, UnlockMutex, CountBlocked, LwpTypeOK, Ctxs,
      lwpVars
  <2>2. FlagTypeOK'
    BY <1>5 DEF SigAcquire, UnlockMutex, CountBlocked, FlagTypeOK,
      lockVars, procVars
  <2>3. LockTypeOK'
    BY <1>5 DEF SigAcquire, UnlockMutex, CountBlocked, LockTypeOK, Ctxs,
      lockVars
  <2>4. CallTypeOK'
    BY <1>5 DEF SigAcquire, UnlockMutex, CountBlocked, CallTypeOK,
      callVars, procVars
  <2>5. CtxTypeOK'
    BY <1>5, PcsElements DEF SigAcquire, UnlockMutex, CountBlocked,
      CtxTypeOK, Ctxs, Goto
  <2> QED BY <2>1, <2>2, <2>3, <2>4, <2>5
<1>6. CASE SendWaiting(l)
  <2>1. LwpTypeOK'
    <3>1. CASE UNCHANGED lwpVars
      BY <3>1 DEF LwpTypeOK, lwpVars
    <3>2. CASE \E t \in Lwps : PostSignal(t, l)
      BY <3>2 DEF PostSignal, LockMutex, LwpTypeOK, Ctxs
    <3> QED BY <1>6, <3>1, <3>2 DEF SendWaiting, PostWaiting, LwpsOf
  <2>2. FlagTypeOK'
    BY <1>6 DEF SendWaiting, PostWaiting, PostSignal, LockMutex, LwpsOf,
      FlagTypeOK, lockVars, procVars
  <2>3. LockTypeOK'
    BY <1>6 DEF SendWaiting, PostWaiting, PostSignal, LockMutex, LwpsOf,
      LockTypeOK, Ctxs, lockVars
  <2>4. CallTypeOK'
    BY <1>6 DEF SendWaiting, PostWaiting, PostSignal, LockMutex, LwpsOf,
      CallTypeOK, callVars, procVars
  <2>5. CtxTypeOK'
    BY <1>6, PcsElements DEF SendWaiting, PostWaiting, PostSignal, LockMutex,
      LwpsOf, CtxTypeOK, Ctxs, Goto
  <2> QED BY <2>1, <2>2, <2>3, <2>4, <2>5
<1>7. CASE SigTake(l)
  <2>1. LwpTypeOK'
    BY <1>7 DEF SigTake, TakeAndSettle, UnlockMutex, LwpTypeOK, Ctxs, lwpVars
  <2>2. FlagTypeOK'
    BY <1>7 DEF SigTake, TakeAndSettle, UnlockMutex, FlagTypeOK, lockVars,
      procVars
  <2>3. LockTypeOK'
    BY <1>7 DEF SigTake, TakeAndSettle, UnlockMutex, LockTypeOK, Ctxs, lockVars,
      CallTypeOK
  <2>4. CallTypeOK'
    BY <1>7 DEF SigTake, TakeAndSettle, UnlockMutex, CallTypeOK, callVars,
      procVars
  <2>5. CtxTypeOK'
    BY <1>7, PcsElements DEF SigTake, TakeAndSettle, UnlockMutex, CtxTypeOK,
      Ctxs, Goto
  <2> QED BY <2>1, <2>2, <2>3, <2>4, <2>5
<1>8. CASE FixFspin(l)
  BY <1>8, PcsElements
  DEF FixFspin, LwpTypeOK, FlagTypeOK, LockTypeOK, CallTypeOK, CtxTypeOK, Ctxs,
    lwpVars, lockVars, procVars, callVars, Goto
<1>9. CASE FixAdd(l)
  <2>1. LwpTypeOK'
    BY <1>9 DEF FixAdd, Return, LwpTypeOK, Ctxs, lwpVars, Goto
  <2>2. FlagTypeOK'
    BY <1>9 DEF FixAdd, Return, FlagTypeOK, lockVars, procVars, Goto
  <2>3. LockTypeOK'
    <3>1. slFixpend + nsleeps[l] - 1 \in Int
      BY DEF LockTypeOK, CallTypeOK
    <3> QED BY <1>9, <3>1, Mod256 DEF FixAdd, LockTypeOK, Ctxs
  <2>4. CallTypeOK'
    BY <1>9 DEF FixAdd, Return, CallTypeOK, callVars, procVars, Goto
  <2>5. CtxTypeOK'
    BY <1>9, PcsElements DEF FixAdd, Return, CtxTypeOK, Ctxs, Goto
  <2> QED BY <2>1, <2>2, <2>3, <2>4, <2>5
<1> QED BY <1>1, <1>2, <1>3, <1>4, <1>5, <1>6, <1>7, <1>8, <1>9 DEF LockingSig

(* The steps of signal posters, and the choices.                           *)
LEMMA TypeOther ==
  ASSUME TypeOK,
         (\E c \in Ctxs : Unsleep(c)) \/ Choice
  PROVE  TypeOK'
<1> USE DEF TypeOK
<1>1. ASSUME NEW c \in Ctxs, Unsleep(c) PROVE TypeOK'
  <2>1. LwpTypeOK'
    BY <1>1 DEF Unsleep, FinishNudge, UnlockMutex, LwpTypeOK, Ctxs, lwpVars
  <2>2. FlagTypeOK'
    BY <1>1 DEF Unsleep, FinishNudge, UnlockMutex, FlagTypeOK, lockVars,
      procVars
  <2>3. LockTypeOK'
    BY <1>1, SlpdequeQueue DEF Unsleep, LockTypeOK
  <2>4. CallTypeOK'
    BY <1>1 DEF Unsleep, FinishNudge, UnlockMutex, CallTypeOK, callVars,
      procVars
  <2>5. CtxTypeOK'
    BY <1>1, PcsElements DEF Unsleep, FinishNudge, UnlockMutex, CtxTypeOK, Ctxs,
      Goto
  <2> QED BY <2>1, <2>2, <2>3, <2>4, <2>5
<1>2. ASSUME NEW c \in Intrs, NEW t \in Lwps, Post(c, t) PROVE TypeOK'
  <2>1. LwpTypeOK'
    BY <1>2 DEF Post, PostSignal, LockMutex, LwpTypeOK, Ctxs, lwpVars
  <2>2. FlagTypeOK'
    BY <1>2 DEF Post, PostSignal, LockMutex, FlagTypeOK, lockVars, procVars
  <2>3. LockTypeOK'
    BY <1>2 DEF Post, PostSignal, LockMutex, LockTypeOK, Ctxs, lockVars
  <2>4. CallTypeOK'
    BY <1>2 DEF Post, PostSignal, LockMutex, CallTypeOK, callVars, procVars
  <2>5. CtxTypeOK'
    BY <1>2, PcsElements DEF Post, PostSignal, LockMutex, CtxTypeOK, Ctxs, Goto
  <2> QED BY <2>1, <2>2, <2>3, <2>4, <2>5
<1>3. ASSUME NEW l \in Lwps, Call(l) PROVE TypeOK'
  <2>1. LwpTypeOK'
    BY <1>3 DEF Call, EntryPc, LwpTypeOK, Ctxs, lwpVars
  <2>2. FlagTypeOK'
    BY <1>3 DEF Call, EntryPc, FlagTypeOK, lockVars, procVars
  <2>3. LockTypeOK'
    BY <1>3 DEF Call, EntryPc, LockTypeOK, Ctxs, lockVars
  <2>4. CallTypeOK'
    BY <1>3 DEF Call, EntryPc, CallTypeOK, callVars, procVars
  <2>5. CtxTypeOK'
    BY <1>3, PcsElements DEF Call, EntryPc, CtxTypeOK, Ctxs, Goto
  <2> QED BY <2>1, <2>2, <2>3, <2>4, <2>5
<1>4. ASSUME NEW l \in Lwps, Disown(l) PROVE TypeOK'
  BY <1>4, PcsElements
  DEF Disown, LwpTypeOK, FlagTypeOK, LockTypeOK, CallTypeOK, CtxTypeOK, Ctxs,
    lwpVars, lockVars, procVars, callVars, Goto
<1>5. ASSUME NEW l \in Lwps, LwpExit(l) PROVE TypeOK'
  <2>1. LwpTypeOK'
    BY <1>5 DEF LwpExit, LwpTypeOK, Ctxs, lwpVars
  <2>2. FlagTypeOK'
    BY <1>5 DEF LwpExit, FlagTypeOK, lockVars, procVars, lwpVars
  <2>3. LockTypeOK'
    BY <1>5 DEF LwpExit, LockTypeOK, Ctxs, lockVars
  <2>4. CallTypeOK'
    BY <1>5 DEF LwpExit, CallTypeOK, callVars, procVars
  <2>5. CtxTypeOK'
    BY <1>5, PcsElements DEF LwpExit, CtxTypeOK, Ctxs, callVars, Goto
  <2> QED BY <2>1, <2>2, <2>3, <2>4, <2>5
<1>6. ASSUME NEW l \in Lwps, LockPrivate(l) PROVE TypeOK'
  <2>1. LwpTypeOK'
    BY <1>6 DEF LockPrivate, LwpTypeOK, Ctxs, lwpVars
  <2>2. FlagTypeOK'
    BY <1>6 DEF LockPrivate, FlagTypeOK, lockVars, procVars
  <2>3. LockTypeOK'
    BY <1>6 DEF LockPrivate, LockTypeOK, Ctxs, lockVars
  <2>4. CallTypeOK'
    BY <1>6 DEF LockPrivate, CallTypeOK, callVars, procVars
  <2>5. CtxTypeOK'
    BY <1>6, PcsElements DEF LockPrivate, CtxTypeOK, Ctxs, Goto
  <2> QED BY <2>1, <2>2, <2>3, <2>4, <2>5
<1>7. ASSUME NEW c \in Ctxs, WakeTooEarly(c) PROVE TypeOK'
  BY <1>7 DEF WakeTooEarly, LwpTypeOK, FlagTypeOK, LockTypeOK, CallTypeOK, CtxTypeOK,
    lwpVars, lockVars, procVars, callVars
<1> QED BY <1>1, <1>2, <1>3, <1>4, <1>5, <1>6, <1>7 DEF Choice

(* What is noted: an ASSERT that was false, one more retry, or nothing.    *)
LEMMA NoteStep ==
  ASSUME NoteTypeOK, Next
  PROVE  NoteTypeOK'
<1> USE DEF noteVars, ASSERT
<1>1. failed' \subseteq {"l_mutex", "sl_pend", "sl_pid", "sl_avail", "private"}
  <2> USE DEF NoteTypeOK
  <2>1. ASSUME NEW c \in Ctxs, Unlocking(c) \/ Unsleep(c)
        PROVE  failed' \subseteq failed \union {"sl_avail"}
    BY <2>1 DEF Unlocking, UnlockStart, UnlockList, UnlockAvail, UnlockRecheck,
      UnlockRetake, UnlockDone, DequeueFspin, Dequeue, DequeueDone, WakeChain, Unsleep
  <2>2. ASSUME NEW l \in Lwps, Locking(l)
        PROVE  failed' \subseteq failed \union {"sl_pid", "sl_pend"}
    BY <2>2 DEF Locking, FastStart, FastTake, TryLock, SlowTake, SlowMutex,
      RelockEntryLock, QueueFspin, QueueRetry, Enqueue, Sleep, WakeUp, FoldFixpend,
      RecordOwner
  <2>3. ASSUME NEW l \in Lwps, LockingSig(l)
        PROVE  failed' \subseteq failed \union {"l_mutex", "sl_pend"}
    BY <2>3 DEF LockingSig, SigAgain, SigLock, SigIssig, SigRelock, SigAcquire,
      SendWaiting, SigTake, FixFspin, FixAdd
  <2>4. Choice => failed' \subseteq failed \union {"private"}
    BY DEF Choice, Call, Disown, LockPrivate, LwpExit, Post, WakeTooEarly
  <2>5. Quiet => failed' = failed
    BY DEF Quiet, vars
  <2> QED BY <2>1, <2>2, <2>3, <2>4, <2>5 DEF Next, Step
<1>2. \/ UNCHANGED recounted
      \/ \E l \in Lwps : recounted' = [recounted EXCEPT ![Proc[l]] = @ + 1]
  BY DEF Next, Step, Quiet, vars, Choice, Call, Disown, LockPrivate, LwpExit, Post,
    WakeTooEarly, Unlocking, UnlockStart, UnlockList, UnlockAvail, UnlockRecheck,
    UnlockRetake, UnlockDone, DequeueFspin, Dequeue, DequeueDone, WakeChain, Unsleep,
    Locking, FastStart, FastTake, TryLock, SlowTake, SlowMutex, RelockEntryLock,
    QueueFspin, QueueRetry, Enqueue, Sleep, WakeUp, FoldFixpend, RecordOwner,
    LockingSig, SigAgain, SigLock, SigIssig, SigRelock, SigAcquire, SendWaiting,
    SigTake, FixFspin, FixAdd
<1>3. recounted' \in [Procs -> Nat]
  BY <1>2 DEF NoteTypeOK
<1>4. wild' = wild \/ wild' = TRUE
  BY DEF Next, Step, Quiet, vars, Choice, Call, Disown, LockPrivate, LwpExit, Post,
    WakeTooEarly, Unlocking, UnlockStart, UnlockList, UnlockAvail, UnlockRecheck,
    UnlockRetake, UnlockDone, DequeueFspin, Dequeue, DequeueDone, WakeChain, Unsleep,
    Locking, FastStart, FastTake, TryLock, SlowTake, SlowMutex, RelockEntryLock,
    QueueFspin, QueueRetry, Enqueue, Sleep, WakeUp, FoldFixpend, RecordOwner,
    LockingSig, SigAgain, SigLock, SigIssig, SigRelock, SigAcquire, SendWaiting,
    SigTake, FixFspin, FixAdd
<1>5. wild' \in BOOLEAN
  BY <1>4 DEF NoteTypeOK
<1> QED BY <1>1, <1>3, <1>5 DEF NoteTypeOK

(* The steps that lock leave wakeup chains and their walkers alone.        *)
LEMMA LockingChain ==
  ASSUME NEW l, Locking(l) \/ LockingSig(l)
  PROVE  /\ UNCHANGED chain
         /\ UNCHANGED pc \/ \E p : p # "d_wake" /\ Goto(l, p)
<1>1. CASE Locking(l)
  BY <1>1 DEF Locking, FastStart, FastTake, TryLock, SlowTake, SlowMutex,
    RelockEntryLock, QueueFspin, QueueRetry, Enqueue, Sleep, WakeUp, FoldFixpend,
    RecordOwner
<1>2. CASE LockingSig(l)
  BY <1>2 DEF LockingSig, SigAgain, SigLock, SigIssig, SigRelock, SigAcquire,
    SendWaiting, SigTake, FixFspin, FixAdd, Return
<1> QED BY <1>1, <1>2

(* Only the dequeue and the wakeups themselves change what is left to wake. *)
LEMMA ChainStep ==
  ASSUME TypeOK, ChainInv, Next
  PROVE  ChainInv'
<1> USE DEF ChainInv, TypeOK, CtxTypeOK, At
<1>0. ASSUME NEW c, UNCHANGED chain, UNCHANGED pc \/ \E p : p # "d_wake" /\ Goto(c, p)
      PROVE  ChainInv'
  BY <1>0 DEF Goto
<1>1. ASSUME NEW c \in Ctxs, Unlocking(c) PROVE ChainInv'
  <2>1. CASE DequeueDone(c)
    BY <1>1, <2>1 DEF DequeueDone, Goto
  <2>2. CASE WakeChain(c)
    <3>1. chain[c] \in Seq(Lwps) /\ chain[c] # <<>>
      BY <1>1, <2>2 DEF WakeChain
    <3>2. Len(chain[c]) # 1 => Tail(chain[c]) # <<>>
      BY <3>1, TailOfMore
    <3> QED BY <1>1, <2>2, <3>2 DEF WakeChain, Goto
  <2>3. CASE Dequeue(c)
    BY <1>1, <2>3 DEF Dequeue, Goto
  <2>4. CASE ~(DequeueDone(c) \/ WakeChain(c) \/ Dequeue(c))
    BY <1>0, <1>1, <2>4 DEF Unlocking, UnlockStart, UnlockList, UnlockAvail,
      UnlockRecheck, UnlockRetake, UnlockDone, DequeueFspin
  <2> QED BY <2>1, <2>2, <2>3, <2>4
<1>2. ASSUME NEW c \in Ctxs, Unsleep(c) PROVE ChainInv'
  BY <1>0, <1>2 DEF Unsleep
<1>3. ASSUME NEW l \in Lwps, Call(l) PROVE ChainInv'
  BY <1>0, <1>3 DEF Call, EntryPc
<1>4. ASSUME Choice, \A l \in Lwps : ~Call(l) PROVE ChainInv'
  BY <1>0, <1>4 DEF Choice, Disown, LockPrivate, LwpExit, Post, WakeTooEarly
<1>5. CASE Quiet
  BY <1>5 DEF Quiet, vars
<1> QED BY <1>0, <1>1, <1>2, <1>3, <1>4, <1>5, LockingChain
  DEF Next, Step, Choice

(* Types and chains, at every moment.                                      *)
THEOREM TypesAndChains == Spec => []TypeInv
<1>1. TypeInv /\ [Next]_vars => TypeInv'
  <2> SUFFICES ASSUME TypeInv, [Next]_vars PROVE TypeInv'
    OBVIOUS
  <2>1. CASE UNCHANGED vars
    BY <2>1 DEF vars, lwpVars, lockVars, procVars, callVars, noteVars, TypeInv, ChainInv,
      NoteTypeOK, At, TypeOK, LwpTypeOK, FlagTypeOK, LockTypeOK, CallTypeOK, CtxTypeOK
  <2>2. CASE Next
    <3>1. ChainInv'
      BY <2>2, ChainStep DEF TypeInv
    <3>2. TypeOK'
      BY <2>1, <2>2, TypeUnlocking, TypeLocking, TypeLockingSig, TypeOther
      DEF TypeInv, Next, Step, Quiet
    <3>3. NoteTypeOK'
      BY <2>2, NoteStep DEF TypeInv
    <3> QED BY <3>1, <3>2, <3>3 DEF TypeInv
  <2> QED BY <2>1, <2>2
<1> QED BY TypeInit, <1>1, PTL DEF Spec

(* Every variable has its type, whatever the contexts do.                  *)
THEOREM TypeCorrect == Spec => [](TypeOK /\ NoteTypeOK)
BY TypesAndChains, PTL DEF TypeInv
-----------------------------------------------------------------------------
(* The protocol of sl_avail, sl_pid and SL_BUSY.                           *)


(* An unlocker that has made the lock available and not yet cleared        *)
(* SL_BUSY.  There is at most one, sl_pid is SL_BUSY while there is, and a *)
(* context past the check of sl_pid, or a disowned lock, excludes it.  So  *)
(* its store of NOPID never hits an owner's.                               *)
Late == {"u_fspin2", "u_list2", "u_retake", "u_nopid", "d_nopid"}
Past == {"hold"} \union Releasing
Has == Acquired \union Releasing

OwnInv ==
  /\ \A c, d \in Ctxs : pc[c] \in Has /\ pc[d] \in Has => c = d
  /\ disowned => (\A c \in Ctxs : pc[c] \notin Has) /\ slPid = NOPID
  /\ slAvail <=> (\A c \in Ctxs : pc[c] \notin Has) /\ ~disowned
  /\ \A c \in Ctxs : pc[c] \in Late => slPid = SL_BUSY
  /\ \A c, d \in Ctxs : pc[c] \in Late /\ pc[d] \in Late => c = d
  /\ \A c, d \in Ctxs : pc[c] \in Past => pc[d] \notin Late
  /\ \A l \in Lwps : At(l, "hold") => slPid = l
  /\ \A l \in Lwps : slPid = l => pc[l] \in Past

(* Nobody has the lock at first.                                           *)
LEMMA OwnInit == Init => OwnInv
  BY SleepAssumption DEF Init, OwnInv, Has, Late, Past, Acquired, Releasing, At, Ctxs

(* A step that moves one context about in its part of the protocol and      *)
(* leaves the lock alone.                                                  *)
LEMMA OwnMove ==
  ASSUME TypeOK, OwnInv, NEW c \in Ctxs, NEW p,
         UNCHANGED pc \/ /\ Goto(c, p) /\ p # "hold"
                         /\ p \in Has <=> pc[c] \in Has
                         /\ p \in Late <=> pc[c] \in Late
                         /\ p \in Past <=> pc[c] \in Past,
         UNCHANGED <<slAvail, disowned, slPid>>
  PROVE  OwnInv'
<1>1. \A d \in Ctxs : /\ pc'[d] \in Has <=> pc[d] \in Has
                      /\ pc'[d] \in Late <=> pc[d] \in Late
                      /\ pc'[d] \in Past <=> pc[d] \in Past
                      /\ pc'[d] = "hold" => pc[d] = "hold"
  <2>1. CASE UNCHANGED pc
    BY <2>1
  <2>2. CASE ~UNCHANGED pc
    <3>1. \A d \in Ctxs : pc'[d] = IF d = c THEN p ELSE pc[d]
      BY <2>2 DEF TypeOK, CtxTypeOK, Goto
    <3> QED BY <2>2, <3>1
  <2> QED BY <2>1, <2>2
<1>2. slAvail' <=> (\A d \in Ctxs : pc'[d] \notin Has) /\ ~disowned'
  BY <1>1 DEF OwnInv
<1> QED BY <1>1, <1>2 DEF OwnInv, At, Ctxs

(* A step that takes the lock.                                             *)
LEMMA OwnTake ==
  ASSUME TypeOK, OwnInv, NEW c \in Ctxs, NEW p \in Acquired \ {"hold"},
         pc[c] \notin Late, slAvail, slAvail' = FALSE,
         Goto(c, p), UNCHANGED <<disowned, slPid>>
  PROVE  OwnInv'
  BY DEF TypeOK, CtxTypeOK, OwnInv, At, Goto, Ctxs, Has, Late, Past, Acquired,
    Releasing

(* The steps of sleep_unlock.                                              *)
LEMMA OwnUnlocking ==
  ASSUME TypeOK, OwnInv, NEW c \in Ctxs, Unlocking(c)
  PROVE  OwnInv'
<1> USE SleepAssumption DEF TypeOK, FlagTypeOK, LockTypeOK, CtxTypeOK, OwnInv, Has, Late,
        Past, Acquired, Releasing, At, Goto, Ctxs, lockVars
<1>1. CASE UnlockStart(c)
  <2>1. ~slAvail
    BY <1>1 DEF UnlockStart, DisownedUser
  <2>2. CASE At(c, "hold")
    <3>1. ~DisownedUser(c) /\ disowned' = disowned /\ UNCHANGED <<slAvail, slPid>>
      BY <1>1, <2>2 DEF UnlockStart, DisownedUser
    <3>2. PICK p \in Releasing : Goto(c, p)
      BY <1>1, <2>1 DEF UnlockStart
    <3> QED BY <2>2, <3>1, <3>2, OwnMove
  <2>3. CASE DisownedUser(c)
    BY <1>1, <2>1, <2>3 DEF UnlockStart, DisownedUser
  <2> QED BY <1>1, <2>2, <2>3 DEF UnlockStart
<1>2. CASE UnlockList(c)
  BY <1>2 DEF UnlockList
<1>3. CASE UnlockAvail(c)
  BY <1>3 DEF UnlockAvail, MarkReleased
<1>4. CASE UnlockRecheck(c)
  <2>1. UNCHANGED <<slAvail, disowned, slPid>>
    BY <1>4 DEF UnlockRecheck
  <2>2. PICK p \in Late : Goto(c, p)
    BY <1>4 DEF UnlockRecheck
  <2>3. pc[c] \in Late
    BY <1>4 DEF UnlockRecheck
  <2> QED BY <2>1, <2>2, <2>3, OwnMove
<1>5. CASE UnlockRetake(c)
  <2>1. pc[c] = "u_retake" /\ slAvail' = FALSE /\ UNCHANGED <<slPid, disowned>>
    BY <1>5 DEF UnlockRetake
  <2>2. PICK p \in {"d_fspin", "u_nopid"} : Goto(c, p) /\ (slAvail <=> p = "d_fspin")
    BY <1>5 DEF UnlockRetake
  <2> QED BY <2>1, <2>2
<1>6. CASE UnlockDone(c)
  BY <1>6 DEF UnlockDone
<1>7. CASE DequeueFspin(c)
  BY <1>7 DEF DequeueFspin
<1>8. CASE Dequeue(c)
  BY <1>8 DEF Dequeue, MarkReleased
<1>9. CASE DequeueDone(c)
  BY <1>9 DEF DequeueDone
<1>10. CASE WakeChain(c)
  BY <1>10 DEF WakeChain
<1> QED BY <1>1, <1>2, <1>3, <1>4, <1>5, <1>6, <1>7, <1>8, <1>9, <1>10 DEF Unlocking

(* The steps of sleep_lock and sleep_lock_rellock.                         *)
LEMMA OwnLocking ==
  ASSUME TypeOK, OwnInv, NEW l \in Lwps, Locking(l)
  PROVE  OwnInv'
<1> USE SleepAssumption DEF TypeOK, FlagTypeOK, LockTypeOK, CtxTypeOK, OwnInv, Has, Late,
        Past, Acquired, Releasing, At, Goto, Ctxs, lockVars
<1>1. CASE FastStart(l)
  BY <1>1 DEF FastStart
<1>2. CASE FastTake(l)
  <2>1. CASE slAvail
    <3>1. slAvail' = FALSE /\ Goto(l, "f_pid") /\ UNCHANGED <<disowned, slPid>>
      BY <1>2, <2>1 DEF FastTake
    <3> QED BY <1>2, <2>1, <3>1, OwnTake DEF FastTake
  <2>2. CASE ~slAvail
    <3>1. UNCHANGED slAvail
      BY <1>2, <2>2 DEF FastTake
    <3>2. Goto(l, "w_take") /\ UNCHANGED <<disowned, slPid>>
      BY <1>2, <2>2 DEF FastTake
    <3> QED BY <1>2, <3>1, <3>2, OwnMove DEF FastTake
  <2> QED BY <2>1, <2>2
<1>3. CASE TryLock(l)
  <2>1. CASE slAvail
    <3>1. slAvail' = FALSE /\ Goto(l, "g_pid") /\ UNCHANGED <<disowned, slPid>>
      BY <1>3, <2>1 DEF TryLock
    <3> QED BY <1>3, <2>1, <3>1, OwnTake DEF TryLock
  <2>2. CASE ~slAvail
    <3>1. UNCHANGED slAvail
      BY <1>3, <2>2 DEF TryLock
    <3>2. Goto(l, "idle") /\ UNCHANGED <<disowned, slPid>>
      BY <1>3, <2>2 DEF TryLock
    <3> QED BY <1>3, <3>1, <3>2, OwnMove DEF TryLock
  <2> QED BY <2>1, <2>2
<1>4. CASE SlowTake(l)
  <2>0. At(l, "w_take") /\ UNCHANGED <<disowned, slPid>>
    BY <1>4 DEF SlowTake
  <2>1. CASE slAvail /\ slAvail' = FALSE /\ Goto(l, "g_fold")
    BY <2>0, <2>1, OwnTake
  <2>2. CASE UNCHANGED slAvail /\ Goto(l, "w_mutex")
    <3>1. /\ pc[l] \notin Has /\ pc[l] \notin Late /\ pc[l] \notin Past
          /\ "w_mutex" \notin Has /\ "w_mutex" \notin Late /\ "w_mutex" \notin Past
      BY <2>0
    <3> HIDE DEF OwnInv, Has, Late, Past, TypeOK
    <3> QED BY <2>0, <2>2, <3>1, OwnMove
  <2> QED BY <1>4, <2>1, <2>2 DEF SlowTake, TakeAndSettle
<1>5. CASE SlowMutex(l)
  BY <1>5 DEF SlowMutex
<1>6. CASE RelockEntryLock(l)
  BY <1>6 DEF RelockEntryLock
<1>7. CASE QueueFspin(l)
  BY <1>7 DEF QueueFspin
<1>8. CASE QueueRetry(l)
  <2>0. At(l, "q_retry") /\ UNCHANGED <<disowned, slPid>>
    BY <1>8 DEF QueueRetry
  <2>1. CASE slAvail /\ slAvail' = FALSE /\ Goto(l, "g_fold")
    BY <2>0, <2>1, OwnTake
  <2>2. ASSUME NEW p \in {"s_acquire", "q_enq"}, UNCHANGED slAvail, Goto(l, p)
        PROVE  OwnInv'
    <3>1. /\ pc[l] \notin Has /\ pc[l] \notin Late /\ pc[l] \notin Past
          /\ p \notin Has /\ p \notin Late /\ p \notin Past /\ p # "hold"
      BY <2>0
    <3> HIDE DEF OwnInv, Has, Late, Past, TypeOK
    <3> QED BY <2>0, <2>2, <3>1, OwnMove
  <2> QED BY <1>8, <2>1, <2>2 DEF QueueRetry, TakeAndSettle
<1>9. CASE Enqueue(l)
  <2>1. UNCHANGED <<slAvail, disowned, slPid>> /\ Goto(l, "q_sleep") /\ At(l, "q_enq")
    BY <1>9 DEF Enqueue
  <2> QED BY <2>1, OwnMove
<1>10. CASE Sleep(l)
  BY <1>10 DEF Sleep
<1>11. CASE WakeUp(l)
  <2>1. UNCHANGED <<slAvail, disowned, slPid>>
    BY <1>11 DEF WakeUp
  <2>2. PICK p : UNCHANGED pc \/ /\ Goto(l, p) /\ p # "hold"
                                  /\ p \notin Has /\ p \notin Late /\ p \notin Past
    BY <1>11 DEF WakeUp
  <2>3. pc[l] \notin Has /\ pc[l] \notin Late /\ pc[l] \notin Past
    BY <1>11 DEF WakeUp
  <2> QED BY <2>1, <2>2, <2>3, OwnMove
<1>12. CASE FoldFixpend(l)
  BY <1>12 DEF FoldFixpend
<1>13. CASE RecordOwner(l)
  BY <1>13 DEF RecordOwner
<1> QED BY <1>1, <1>2, <1>3, <1>4, <1>5, <1>6, <1>7, <1>8, <1>9, <1>10, <1>11, <1>12, <1>13 DEF Locking

(* The steps of sleep_lock_sig.                                            *)
LEMMA OwnLockingSig ==
  ASSUME TypeOK, OwnInv, NEW l \in Lwps, LockingSig(l)
  PROVE  OwnInv'
<1> USE SleepAssumption DEF TypeOK, FlagTypeOK, LockTypeOK, CtxTypeOK, OwnInv, Has, Late,
        Past, Acquired, Releasing, At, Goto, Ctxs, lockVars
<1>1. CASE SigAgain(l)
  BY <1>1 DEF SigAgain
<1>2. CASE SigLock(l)
  <2>1. UNCHANGED <<slAvail, disowned, slPid>>
    BY <1>2 DEF SigLock
  <2>2. PICK p : UNCHANGED pc \/ /\ Goto(l, p) /\ p # "hold"
                                  /\ p \notin Has /\ p \notin Late /\ p \notin Past
    BY <1>2 DEF SigLock
  <2>3. pc[l] \notin Has /\ pc[l] \notin Late /\ pc[l] \notin Past
    BY <1>2 DEF SigLock
  <2> QED BY <2>1, <2>2, <2>3, OwnMove
<1>3. CASE SigIssig(l)
  <2>1. UNCHANGED <<slAvail, disowned, slPid>>
    BY <1>3 DEF SigIssig, Return
  <2>2. PICK p : UNCHANGED pc \/ /\ Goto(l, p) /\ p # "hold"
                                  /\ p \notin Has /\ p \notin Late /\ p \notin Past
    BY <1>3 DEF SigIssig, Return
  <2>3. pc[l] \notin Has /\ pc[l] \notin Late /\ pc[l] \notin Past
    BY <1>3 DEF SigIssig
  <2> QED BY <2>1, <2>2, <2>3, OwnMove
<1>4. CASE SigRelock(l)
  BY <1>4 DEF SigRelock
<1>5. CASE SigAcquire(l)
  <2>1. UNCHANGED <<slAvail, disowned, slPid>>
    BY <1>5 DEF SigAcquire
  <2>2. PICK p : UNCHANGED pc \/ /\ Goto(l, p) /\ p # "hold"
                                  /\ p \notin Has /\ p \notin Late /\ p \notin Past
    BY <1>5 DEF SigAcquire
  <2>3. pc[l] \notin Has /\ pc[l] \notin Late /\ pc[l] \notin Past
    BY <1>5 DEF SigAcquire
  <2> QED BY <2>1, <2>2, <2>3, OwnMove
<1>6. CASE SendWaiting(l)
  <2>1. At(l, "s_sigtoproc") /\ UNCHANGED <<slAvail, disowned, slPid>>
    BY <1>6 DEF SendWaiting
  <2>2. PICK p \in {"s_again", "n_unsleep"} : Goto(l, p)
    BY <1>6 DEF SendWaiting
  <2>3. /\ pc[l] \notin Has /\ pc[l] \notin Late /\ pc[l] \notin Past
        /\ p \notin Has /\ p \notin Late /\ p \notin Past /\ p # "hold"
    BY <2>1, <2>2
  <2> QED BY <2>1, <2>2, <2>3, OwnMove
<1>7. CASE SigTake(l)
  <2>0. At(l, "s_take") /\ UNCHANGED <<disowned, slPid>>
    BY <1>7 DEF SigTake
  <2>1. CASE slAvail /\ slAvail' = FALSE /\ Goto(l, "g_fold")
    BY <2>0, <2>1, OwnTake
  <2>2. CASE UNCHANGED slAvail /\ Goto(l, "q_fspin")
    <3>1. /\ pc[l] \notin Has /\ pc[l] \notin Late /\ pc[l] \notin Past
          /\ "q_fspin" \notin Has /\ "q_fspin" \notin Late /\ "q_fspin" \notin Past
      BY <2>0
    <3> HIDE DEF OwnInv, Has, Late, Past, TypeOK
    <3> QED BY <2>0, <2>2, <3>1, OwnMove
  <2> QED BY <1>7, <2>1, <2>2 DEF SigTake, TakeAndSettle
<1>8. CASE FixFspin(l)
  BY <1>8 DEF FixFspin
<1>9. CASE FixAdd(l)
  BY <1>9 DEF FixAdd, Return
<1> QED BY <1>1, <1>2, <1>3, <1>4, <1>5, <1>6, <1>7, <1>8, <1>9 DEF LockingSig

(* The steps of signal posters, and the choices.                           *)
LEMMA OwnOther ==
  ASSUME TypeOK, OwnInv, (\E c \in Ctxs : Unsleep(c)) \/ Choice
  PROVE  OwnInv'
<1> USE SleepAssumption DEF TypeOK, FlagTypeOK, LockTypeOK, CtxTypeOK, OwnInv, Has, Late,
        Past, Acquired, Releasing, At, Goto, Ctxs, lockVars
<1>1. ASSUME NEW c \in Ctxs, Unsleep(c) PROVE OwnInv'
  <2>1. At(c, "n_unsleep") /\ UNCHANGED <<slAvail, disowned, slPid>>
    BY <1>1 DEF Unsleep
  <2>2. PICK p \in {"s_again", "idle"} : Goto(c, p)
    BY <1>1 DEF Unsleep
  <2> QED BY <2>1, <2>2, OwnMove
<1>2. ASSUME NEW c \in Intrs, NEW t \in Lwps, Post(c, t) PROVE OwnInv'
  <2>1. At(c, "idle") /\ UNCHANGED <<slAvail, disowned, slPid>>
    BY <1>2 DEF Post
  <2>2. PICK p \in {"n_unsleep", "idle"} : Goto(c, p)
    BY <1>2 DEF Post
  <2> QED BY <2>1, <2>2, OwnMove
<1>3. ASSUME NEW l \in Lwps, Call(l) PROVE OwnInv'
  <2>1. At(l, "idle") /\ UNCHANGED <<slAvail, disowned, slPid>>
    BY <1>3 DEF Call
  <2>2. PICK p \in {"f_start", "s_again", "t_take"} : Goto(l, p)
    <3>1. PICK o \in DOMAIN EntryPc : Goto(l, EntryPc[o])
      BY <1>3 DEF Call
    <3>2. EntryPc[o] \in {"f_start", "s_again", "t_take"}
      BY DEF EntryPc
    <3> QED BY <3>1, <3>2
  <2> QED BY <2>1, <2>2, OwnMove
<1>4. ASSUME NEW l \in Lwps, LwpExit(l) PROVE OwnInv'
  BY <1>4, OwnMove DEF LwpExit
<1>5. ASSUME NEW l \in Lwps, Disown(l) PROVE OwnInv'
  BY <1>5 DEF Disown
<1>6. ASSUME NEW l \in Lwps, LockPrivate(l) PROVE OwnInv'
  <2>1. /\ ~disowned /\ \A c \in Ctxs : pc[c] \in {"idle", "exited"}
        /\ slAvail' = FALSE /\ slPid' = NOPID /\ disowned' = TRUE /\ UNCHANGED pc
    BY <1>6 DEF LockPrivate
  <2>2. \A c \in Ctxs : pc'[c] \notin Has /\ pc'[c] \notin Late /\ pc'[c] \notin Past
                        /\ pc'[c] # "hold"
    BY <2>1
  <2>3. \A l1 \in Lwps : slPid' # l1
    BY <2>1
  <2> HIDE DEF Has, Late, Past, TypeOK, LockTypeOK, CtxTypeOK, FlagTypeOK
  <2> QED BY <2>1, <2>2, <2>3
<1>7. ASSUME NEW c \in Ctxs, WakeTooEarly(c) PROVE OwnInv'
  BY <1>7 DEF WakeTooEarly
<1> QED BY <1>1, <1>2, <1>3, <1>4, <1>5, <1>6, <1>7 DEF Choice

(* Every step keeps the invariant.                                         *)
LEMMA OwnStep ==
  ASSUME TypeOK, OwnInv, [Next]_vars
  PROVE  OwnInv'
<1>1. CASE UNCHANGED vars
  BY <1>1 DEF vars, lockVars, OwnInv, At
<1>2. CASE Next
  BY <1>1, <1>2, OwnUnlocking, OwnLocking, OwnLockingSig, OwnOther
  DEF Next, Step, Quiet
<1> QED BY <1>1, <1>2

(* The protocol of sl_avail, sl_pid and SL_BUSY, at every moment.          *)
THEOREM OwnershipInvariant == Spec => []OwnInv
<1>1. TypeOK /\ OwnInv /\ [Next]_vars => OwnInv'
  BY OwnStep
<1> QED BY OwnInit, <1>1, TypeCorrect, PTL DEF Spec

(* At most one context has the lock, whatever the entry points, the        *)
(* signals and the order of the steps.                                     *)
THEOREM Exclusion == Spec => []MutualExclusion
<1>1. OwnInv => MutualExclusion
  BY DEF OwnInv, MutualExclusion, Holders, Has
<1> QED BY <1>1, OwnershipInvariant, PTL

(* SLEEP_LOCKOWNED tells the truth.                                        *)
THEOREM OwnerIsTrue == Spec => []TrueOwner
<1>1. OwnInv => TrueOwner
  BY DEF OwnInv, TrueOwner, SLEEP_LOCKOWNED, Past
<1> QED BY <1>1, OwnershipInvariant, PTL

(* The only steps that test the owner find it as asserted.                 *)
LEMMA OwnerAssertsStep ==
  ASSUME TypeOK, OwnInv, OwnerAssertsHold, [Next]_vars
  PROVE  OwnerAssertsHold'
<1> USE DEF OwnerAssertsHold
<1> USE DEF noteVars, ASSERT
<1>1. ASSUME NEW c \in Ctxs, UnlockStart(c) PROVE failed' = failed
  <2>1. ~slAvail
    BY <1>1 DEF UnlockStart, DisownedUser, OwnInv, Has, Acquired, At
  <2> QED BY <1>1, <2>1 DEF UnlockStart
<1>2. ASSUME NEW c \in Ctxs, Unlocking(c) PROVE failed' = failed
  BY <1>1, <1>2 DEF Unlocking, UnlockList, UnlockAvail, UnlockRecheck, UnlockRetake,
    UnlockDone, DequeueFspin, Dequeue, DequeueDone, WakeChain
<1>3. ASSUME NEW l \in Lwps, RecordOwner(l) PROVE failed' \subseteq failed \union {"sl_pend"}
  <2>1. OwnerAsserts(l)["sl_pid"]
    <3>1. slPid # SL_BUSY
      BY <1>3 DEF RecordOwner
    <3>2. At(l, "g_pid") => slPid \notin Lwps
      BY DEF OwnInv, At, Has, Past, Acquired, Releasing, Ctxs
    <3>3. At(l, "g_pid") => slPid = NOPID
      BY <3>1, <3>2 DEF TypeOK, LockTypeOK
    <3> QED BY <3>3 DEF OwnerAsserts
  <2>2. failed' = failed \union {a \in {"sl_pid", "sl_pend"} : ~OwnerAsserts(l)[a]}
    BY <1>3 DEF RecordOwner
  <2> QED BY <2>1, <2>2
<1>4. ASSUME NEW l \in Lwps, Locking(l) PROVE failed' \subseteq failed \union {"sl_pend"}
  BY <1>3, <1>4 DEF Locking, FastStart, FastTake, TryLock, SlowTake, SlowMutex,
    RelockEntryLock, QueueFspin, QueueRetry, Enqueue, Sleep, WakeUp, FoldFixpend
<1>5. ASSUME NEW l \in Lwps, LockingSig(l)
      PROVE  failed' \subseteq failed \union {"sl_pend", "l_mutex"}
  BY <1>5 DEF LockingSig, SigAgain, SigLock, SigIssig, SigRelock, SigAcquire,
    SendWaiting, SigTake, FixFspin, FixAdd
<1>6. (\E c \in Ctxs : Unsleep(c)) \/ Choice => failed' \subseteq failed \union {"private"}
  BY DEF Unsleep, Choice, Call, Disown, LockPrivate, LwpExit, Post, WakeTooEarly
<1>7. UNCHANGED vars => failed' = failed
  BY DEF vars
<1>8. failed' \subseteq failed \union {"sl_pend", "l_mutex", "private"}
  BY <1>2, <1>4, <1>5, <1>6, <1>7 DEF Next, Step, Quiet
<1> QED BY <1>8

(* The ASSERTs about the owner and about sl_avail never fail.              *)
THEOREM OwnerAssertions == Spec => []OwnerAssertsHold
<1>1. Init => OwnerAssertsHold
  BY DEF Init, OwnerAssertsHold
<1>2. TypeOK /\ OwnInv /\ OwnerAssertsHold /\ [Next]_vars => OwnerAssertsHold'
  BY OwnerAssertsStep
<1> QED BY <1>1, <1>2, TypeCorrect, OwnershipInvariant, PTL DEF Spec

(* A lock that SLEEP_LOCKAVAIL calls free has no unlocker still at it.     *)
THEOREM NoUnlockerIsLate == Spec => []NoLateUnlocker
<1>1. OwnInv => NoLateUnlocker
  BY DEF OwnInv, NoLateUnlocker, SLEEP_LOCKAVAIL, Released, Late
<1> QED BY <1>1, OwnershipInvariant, PTL
-----------------------------------------------------------------------------
(***************************************************************************)
(* SleepLock implements AbstractLock: every step of the code is one of the *)
(* abstract lock, or changes nothing that the abstract lock has.           *)
(***************************************************************************)


AbsStep == [A!Next]_(A!vars)

(* A step of one context that neither enters nor leaves the sets of the    *)
(* holders and of the waiters.                                             *)
LEMMA Stays ==
  ASSUME TypeOK, NEW c \in Ctxs, NEW p,
         UNCHANGED pc \/ /\ Goto(c, p)
                         /\ p \in Has <=> pc[c] \in Has
                         /\ p \in Acquiring <=> pc[c] \in Acquiring,
         UNCHANGED <<disowned, op>>
  PROVE  AbsStep
<1>1. \A d \in Ctxs : /\ pc'[d] \in Has <=> pc[d] \in Has
                      /\ pc'[d] \in Acquiring <=> pc[d] \in Acquiring
  <2>1. CASE UNCHANGED pc
    BY <2>1
  <2>2. CASE ~UNCHANGED pc
    <3>1. \A d \in Ctxs : pc'[d] = IF d = c THEN p ELSE pc[d]
      BY <2>2 DEF TypeOK, CtxTypeOK, Goto
    <3> QED BY <2>2, <3>1
  <2> QED BY <2>1, <2>2
<1>2. Holders' = Holders /\ Waiters' = Waiters
  BY <1>1 DEF Holders, Waiters, Has, Ctxs
<1> QED BY <1>2 DEF AbsStep, A!vars

(* A step that takes the lock.                                             *)
LEMMA Takes ==
  ASSUME TypeOK, OwnInv, NEW c \in Ctxs, NEW p \in Has,
         Goto(c, p), slAvail, UNCHANGED <<disowned, op>>
  PROVE  AbsStep
<1>1. \A d \in Ctxs : pc'[d] = IF d = c THEN p ELSE pc[d]
  BY DEF TypeOK, CtxTypeOK, Goto
<1>2. Holders = {} /\ ~disowned
  BY DEF OwnInv, Holders, Has
<1>3. Holders' = {c}
  BY <1>1, <1>2 DEF Holders, Has
<1>4. Waiters' = Waiters \ {c}
  BY <1>1 DEF Waiters, Has, Acquiring, Acquired, Releasing, Ctxs
<1>5. A!Acquire(c)
  BY <1>2, <1>3, <1>4 DEF A!Acquire, A!Free
<1> QED BY <1>5 DEF AbsStep, A!Next

(* A step that makes the lock available.                                   *)
LEMMA Gives ==
  ASSUME TypeOK, OwnInv, NEW c \in Ctxs, NEW p,
         pc[c] \in Releasing, p \notin Has, p \notin Acquiring,
         Goto(c, p), UNCHANGED <<disowned, op>>
  PROVE  AbsStep
<1>1. \A d \in Ctxs : pc'[d] = IF d = c THEN p ELSE pc[d]
  BY DEF TypeOK, CtxTypeOK, Goto
<1>2. Holders = {c}
  BY DEF OwnInv, Holders, Has
<1>3. Holders' = {}
  BY <1>1, <1>2 DEF Holders, Has
<1>4. Waiters' = Waiters
  BY <1>1 DEF Waiters, Acquiring, Releasing, Ctxs
<1>5. A!Release(c)
  BY <1>2, <1>3, <1>4 DEF A!Release
<1> QED BY <1>5 DEF AbsStep, A!Next

(* A step in which a caller comes or goes without the lock.                *)
LEMMA ComesOrGoes ==
  ASSUME TypeOK, NEW l \in Lwps, NEW p, NEW o,
         p \notin Has, pc[l] \notin Has,
         Goto(l, p), op' = [op EXCEPT ![l] = o], UNCHANGED disowned
  PROVE  AbsStep
<1>1. \A d \in Ctxs : pc'[d] = IF d = l THEN p ELSE pc[d]
  BY DEF TypeOK, CtxTypeOK, Goto
<1>2. \A d \in Lwps : op'[d] = IF d = l THEN o ELSE op[d]
  BY DEF TypeOK, CallTypeOK
<1>3. Holders' = Holders
  BY <1>1 DEF Holders, Has
<1>4. Waiters' = Waiters \union {l} \/ Waiters' = Waiters \ {l}
  BY <1>1, <1>2 DEF Waiters, Ctxs
<1>5. A!Request(l) \/ A!GiveUp(l)
  BY <1>3, <1>4 DEF A!Request, A!GiveUp
<1> QED BY <1>5 DEF AbsStep, A!Next, Ctxs

(* Steps of a context that is no LWP, and of one that gives up.             *)
LEMMA Outside ==
  ASSUME TypeOK, NEW c \in Ctxs, NEW p, c \notin Lwps, Goto(c, p),
         p \notin Has, pc[c] \notin Has, UNCHANGED <<disowned, op>>
  PROVE  AbsStep
<1>1. \A d \in Ctxs : pc'[d] = IF d = c THEN p ELSE pc[d]
  BY DEF TypeOK, CtxTypeOK, Goto
<1>2. Holders' = Holders /\ Waiters' = Waiters
  BY <1>1 DEF Holders, Waiters, Has, Ctxs
<1> QED BY <1>2 DEF AbsStep, A!vars

(* A caller that returns without the lock waits no longer.                 *)
LEMMA GoesAway ==
  ASSUME TypeOK, NEW l \in Lwps, pc[l] \notin Has, Goto(l, "idle"),
         UNCHANGED <<disowned, op>>
  PROVE  AbsStep
<1>1. op' = [op EXCEPT ![l] = op[l]] /\ "idle" \notin Has
  BY DEF TypeOK, CallTypeOK, Has, Acquired, Releasing
<1> QED BY <1>1, ComesOrGoes

(* The steps of sleep_unlock.                                              *)
LEMMA AbsUnlocking ==
  ASSUME TypeOK, OwnInv, NEW c \in Ctxs, Unlocking(c)
  PROVE  AbsStep
<1> USE DEF Has, Acquiring, Acquired, Releasing, At, Ctxs, callVars
<1>1. CASE UnlockStart(c)
  <2>1. ~slAvail /\ UNCHANGED op
    BY <1>1 DEF UnlockStart, DisownedUser, OwnInv, callVars
  <2>2. PICK p \in Releasing : Goto(c, p)
    BY <1>1, <2>1 DEF UnlockStart
  <2>3. CASE At(c, "hold")
    <3>1. UNCHANGED disowned
      BY <1>1, <2>3 DEF UnlockStart, DisownedUser, TypeOK, FlagTypeOK
    <3> QED BY <2>1, <2>2, <2>3, <3>1, Stays
  <2>4. CASE DisownedUser(c)
    <3>1. \A d \in Ctxs : pc'[d] = IF d = c THEN p ELSE pc[d]
      BY <2>2 DEF TypeOK, CtxTypeOK, Goto
    <3>2. disowned /\ ~disowned' /\ pc[c] = "idle"
      BY <1>1, <2>4 DEF UnlockStart, DisownedUser
    <3>3. Holders' = {c}
      BY <3>1, <3>2 DEF Holders, OwnInv
    <3>4. Waiters' = Waiters
      BY <2>1, <3>1, <3>2 DEF Waiters
    <3>5. disowned' = FALSE
      BY <1>1, <2>4 DEF UnlockStart, DisownedUser
    <3>6. A!Adopt(c)
      BY <3>2, <3>3, <3>4, <3>5 DEF A!Adopt
    <3> QED BY <3>6 DEF AbsStep, A!Next
  <2> QED BY <1>1, <2>3, <2>4 DEF UnlockStart
<1>2. CASE UnlockList(c)
  <2>1. UNCHANGED <<disowned, op>>
    BY <1>2 DEF UnlockList
  <2>2. PICK p \in {"u_avail", "d_fspin"} : Goto(c, p)
    BY <1>2 DEF UnlockList
  <2>3. /\ p \in Has <=> pc[c] \in Has
        /\ p \in Acquiring <=> pc[c] \in Acquiring
    BY <1>2 DEF UnlockList
  <2> QED BY <2>1, <2>2, <2>3, Stays
<1>3. CASE UnlockAvail(c)
  <2>1. UNCHANGED <<disowned, op>>
    BY <1>3 DEF UnlockAvail, MarkReleased
  <2>2. PICK p \in {"u_fspin2"} : Goto(c, p)
    BY <1>3 DEF UnlockAvail, MarkReleased
  <2>3. pc[c] \in Releasing /\ p \notin Has /\ p \notin Acquiring
    BY <1>3 DEF UnlockAvail
  <2> QED BY <2>1, <2>2, <2>3, Gives
<1>4. CASE UnlockRecheck(c)
  <2>1. UNCHANGED <<disowned, op>>
    BY <1>4 DEF UnlockRecheck
  <2>2. PICK p \in {"u_list2", "u_retake", "u_nopid"} : Goto(c, p)
    BY <1>4 DEF UnlockRecheck
  <2>3. /\ p \in Has <=> pc[c] \in Has
        /\ p \in Acquiring <=> pc[c] \in Acquiring
    BY <1>4 DEF UnlockRecheck
  <2> QED BY <2>1, <2>2, <2>3, Stays
<1>5. CASE UnlockRetake(c)
  <2>1. UNCHANGED <<disowned, op>>
    BY <1>5 DEF UnlockRetake
  <2>2. CASE slAvail /\ Goto(c, "d_fspin")
    BY <2>1, <2>2, Takes
  <2>3. CASE Goto(c, "u_nopid")
    BY <1>5, <2>1, <2>3, Stays DEF UnlockRetake
  <2> QED BY <1>5, <2>2, <2>3 DEF UnlockRetake
<1>6. CASE UnlockDone(c)
  <2>1. UNCHANGED <<disowned, op>>
    BY <1>6 DEF UnlockDone
  <2>2. PICK p \in {"idle"} : Goto(c, p)
    BY <1>6 DEF UnlockDone
  <2>3. /\ p \in Has <=> pc[c] \in Has
        /\ p \in Acquiring <=> pc[c] \in Acquiring
    BY <1>6 DEF UnlockDone
  <2> QED BY <2>1, <2>2, <2>3, Stays
<1>7. CASE DequeueFspin(c)
  <2>1. UNCHANGED <<disowned, op>>
    BY <1>7 DEF DequeueFspin
  <2>2. PICK p \in {"d_deq"} : Goto(c, p)
    BY <1>7 DEF DequeueFspin
  <2>3. /\ p \in Has <=> pc[c] \in Has
        /\ p \in Acquiring <=> pc[c] \in Acquiring
    BY <1>7 DEF DequeueFspin
  <2> QED BY <2>1, <2>2, <2>3, Stays
<1>8. CASE Dequeue(c)
  <2>1. UNCHANGED <<disowned, op>>
    BY <1>8 DEF Dequeue, MarkReleased
  <2>2. PICK p \in {"d_nopid"} : Goto(c, p)
    BY <1>8 DEF Dequeue, MarkReleased
  <2>3. pc[c] \in Releasing /\ p \notin Has /\ p \notin Acquiring
    BY <1>8 DEF Dequeue
  <2> QED BY <2>1, <2>2, <2>3, Gives
<1>9. CASE DequeueDone(c)
  <2>1. UNCHANGED <<disowned, op>>
    BY <1>9 DEF DequeueDone
  <2>2. PICK p \in {"idle", "d_wake"} : Goto(c, p)
    BY <1>9 DEF DequeueDone
  <2>3. /\ p \in Has <=> pc[c] \in Has
        /\ p \in Acquiring <=> pc[c] \in Acquiring
    BY <1>9 DEF DequeueDone
  <2> QED BY <2>1, <2>2, <2>3, Stays
<1>10. CASE WakeChain(c)
  <2>1. UNCHANGED <<disowned, op>>
    BY <1>10 DEF WakeChain
  <2>2. PICK p \in {"idle", "d_wake"} : Goto(c, p)
    BY <1>10 DEF WakeChain
  <2>3. /\ p \in Has <=> pc[c] \in Has
        /\ p \in Acquiring <=> pc[c] \in Acquiring
    BY <1>10 DEF WakeChain
  <2> QED BY <2>1, <2>2, <2>3, Stays
<1> QED BY <1>1, <1>2, <1>3, <1>4, <1>5, <1>6, <1>7, <1>8, <1>9, <1>10 DEF Unlocking

(* The steps of sleep_lock and sleep_lock_rellock.                         *)
LEMMA AbsLocking ==
  ASSUME TypeOK, OwnInv, NEW l \in Lwps, Locking(l)
  PROVE  AbsStep
<1> USE DEF Has, Acquiring, Acquired, Releasing, At, Ctxs, callVars
<1>1. CASE FastStart(l)
  <2>1. UNCHANGED <<disowned, op>>
    BY <1>1 DEF FastStart
  <2>2. PICK p \in {"f_take", "w_take"} : Goto(l, p)
    BY <1>1 DEF FastStart
  <2>3. /\ p \in Has <=> pc[l] \in Has
        /\ p \in Acquiring <=> pc[l] \in Acquiring
    BY <1>1 DEF FastStart
  <2> QED BY <2>1, <2>2, <2>3, Stays
<1>2. CASE FastTake(l)
  <2>1. UNCHANGED <<disowned, op>>
    BY <1>2 DEF FastTake
  <2>2. CASE slAvail /\ Goto(l, "f_pid")
    BY <2>1, <2>2, Takes
  <2>3. CASE Goto(l, "w_take")
    BY <1>2, <2>1, <2>3, Stays DEF FastTake
  <2> QED BY <1>2, <2>2, <2>3 DEF FastTake
<1>3. CASE TryLock(l)
  <2>1. At(l, "t_take") /\ UNCHANGED <<disowned, op>>
    BY <1>3 DEF TryLock
  <2>2. CASE slAvail
    BY <1>3, <2>1, <2>2, Takes DEF TryLock
  <2>3. CASE ~slAvail
    <3>1. Goto(l, "idle")
      BY <1>3, <2>3 DEF TryLock
    <3> QED BY <2>1, <3>1, GoesAway
  <2> QED BY <2>2, <2>3
<1>4. CASE SlowTake(l)
  <2>1. UNCHANGED <<disowned, op>>
    BY <1>4 DEF SlowTake, TakeAndSettle
  <2>2. CASE slAvail /\ Goto(l, "g_fold")
    BY <2>1, <2>2, Takes
  <2>3. CASE Goto(l, "w_mutex")
    BY <1>4, <2>1, <2>3, Stays DEF SlowTake
  <2> QED BY <1>4, <2>2, <2>3 DEF SlowTake, TakeAndSettle
<1>5. CASE SlowMutex(l)
  <2>1. UNCHANGED <<disowned, op>>
    BY <1>5 DEF SlowMutex
  <2>2. PICK p \in {"q_fspin"} : Goto(l, p)
    BY <1>5 DEF SlowMutex
  <2>3. /\ p \in Has <=> pc[l] \in Has
        /\ p \in Acquiring <=> pc[l] \in Acquiring
    BY <1>5 DEF SlowMutex
  <2> QED BY <2>1, <2>2, <2>3, Stays
<1>6. CASE RelockEntryLock(l)
  <2>1. UNCHANGED <<disowned, op>>
    BY <1>6 DEF RelockEntryLock
  <2>2. PICK p \in {"w_take"} : Goto(l, p)
    BY <1>6 DEF RelockEntryLock
  <2>3. /\ p \in Has <=> pc[l] \in Has
        /\ p \in Acquiring <=> pc[l] \in Acquiring
    BY <1>6 DEF RelockEntryLock
  <2> QED BY <2>1, <2>2, <2>3, Stays
<1>7. CASE QueueFspin(l)
  <2>1. UNCHANGED <<disowned, op>>
    BY <1>7 DEF QueueFspin
  <2>2. PICK p \in {"q_retry"} : Goto(l, p)
    BY <1>7 DEF QueueFspin
  <2>3. /\ p \in Has <=> pc[l] \in Has
        /\ p \in Acquiring <=> pc[l] \in Acquiring
    BY <1>7 DEF QueueFspin
  <2> QED BY <2>1, <2>2, <2>3, Stays
<1>8. CASE QueueRetry(l)
  <2>1. At(l, "q_retry") /\ UNCHANGED <<disowned, op>>
    BY <1>8 DEF QueueRetry
  <2>2. CASE slAvail /\ Goto(l, "g_fold")
    BY <2>1, <2>2, Takes
  <2>3. CASE \E p \in {"s_acquire", "q_enq"} : Goto(l, p)
    BY <2>1, <2>3, Stays
  <2> QED BY <1>8, <2>2, <2>3 DEF QueueRetry
<1>9. CASE Enqueue(l)
  <2>1. UNCHANGED <<disowned, op>>
    BY <1>9 DEF Enqueue
  <2>2. PICK p \in {"q_sleep"} : Goto(l, p)
    BY <1>9 DEF Enqueue
  <2>3. /\ p \in Has <=> pc[l] \in Has
        /\ p \in Acquiring <=> pc[l] \in Acquiring
    BY <1>9 DEF Enqueue
  <2> QED BY <2>1, <2>2, <2>3, Stays
<1>10. CASE Sleep(l)
  <2>1. UNCHANGED <<disowned, op>>
    BY <1>10 DEF Sleep
  <2>2. PICK p \in {"q_asleep"} : Goto(l, p)
    BY <1>10 DEF Sleep
  <2>3. /\ p \in Has <=> pc[l] \in Has
        /\ p \in Acquiring <=> pc[l] \in Acquiring
    BY <1>10 DEF Sleep
  <2> QED BY <2>1, <2>2, <2>3, Stays
<1>11. CASE WakeUp(l)
  <2>1. UNCHANGED <<disowned, op>>
    BY <1>11 DEF WakeUp
  <2>2. PICK p \in {"w_take", "w_relk", "s_issig2", "s_relock"} : Goto(l, p)
    BY <1>11 DEF WakeUp
  <2>3. /\ p \in Has <=> pc[l] \in Has
        /\ p \in Acquiring <=> pc[l] \in Acquiring
    BY <1>11 DEF WakeUp
  <2> QED BY <2>1, <2>2, <2>3, Stays
<1>12. CASE FoldFixpend(l)
  <2>1. UNCHANGED <<disowned, op>>
    BY <1>12 DEF FoldFixpend
  <2>2. PICK p \in {"g_pid"} : Goto(l, p)
    BY <1>12 DEF FoldFixpend
  <2>3. /\ p \in Has <=> pc[l] \in Has
        /\ p \in Acquiring <=> pc[l] \in Acquiring
    BY <1>12 DEF FoldFixpend
  <2> QED BY <2>1, <2>2, <2>3, Stays
<1>13. CASE RecordOwner(l)
  <2>1. UNCHANGED <<disowned, op>>
    BY <1>13 DEF RecordOwner
  <2>2. PICK p \in {"hold"} : Goto(l, p)
    BY <1>13 DEF RecordOwner
  <2>3. /\ p \in Has <=> pc[l] \in Has
        /\ p \in Acquiring <=> pc[l] \in Acquiring
    BY <1>13 DEF RecordOwner
  <2> QED BY <2>1, <2>2, <2>3, Stays
<1> QED BY <1>1, <1>2, <1>3, <1>4, <1>5, <1>6, <1>7, <1>8, <1>9, <1>10, <1>11, <1>12, <1>13 DEF Locking

(* The steps of sleep_lock_sig.                                            *)
LEMMA AbsLockingSig ==
  ASSUME TypeOK, OwnInv, NEW l \in Lwps, LockingSig(l)
  PROVE  AbsStep
<1> USE DEF Has, Acquiring, Acquired, Releasing, At, Ctxs, callVars
<1>1. CASE SigAgain(l)
  <2>1. UNCHANGED <<disowned, op>>
    BY <1>1 DEF SigAgain
  <2>2. PICK p \in {"s_issig", "s_lock"} : Goto(l, p)
    BY <1>1 DEF SigAgain
  <2>3. /\ p \in Has <=> pc[l] \in Has
        /\ p \in Acquiring <=> pc[l] \in Acquiring
    BY <1>1 DEF SigAgain
  <2> QED BY <2>1, <2>2, <2>3, Stays
<1>2. CASE SigLock(l)
  <2>1. UNCHANGED <<disowned, op>>
    BY <1>2 DEF SigLock
  <2>2. PICK p \in {"s_issig", "s_acquire"} : Goto(l, p)
    BY <1>2 DEF SigLock
  <2>3. /\ p \in Has <=> pc[l] \in Has
        /\ p \in Acquiring <=> pc[l] \in Acquiring
    BY <1>2 DEF SigLock
  <2> QED BY <2>1, <2>2, <2>3, Stays
<1>3. CASE SigIssig(l)
  <2>1. pc[l] \in {"s_issig", "s_issig2"} /\ UNCHANGED <<disowned, op>>
    BY <1>3 DEF SigIssig, Return
  <2>2. CASE \E p \in {"s_acquire", "s_again", "s_fixlk"} : Goto(l, p)
    BY <2>1, <2>2, Stays
  <2>3. CASE Goto(l, "idle")
    BY <2>1, <2>3, GoesAway
  <2> QED BY <1>3, <2>2, <2>3 DEF SigIssig, Return
<1>4. CASE SigRelock(l)
  <2>1. UNCHANGED <<disowned, op>>
    BY <1>4 DEF SigRelock
  <2>2. PICK p \in {"s_acquire"} : Goto(l, p)
    BY <1>4 DEF SigRelock
  <2>3. /\ p \in Has <=> pc[l] \in Has
        /\ p \in Acquiring <=> pc[l] \in Acquiring
    BY <1>4 DEF SigRelock
  <2> QED BY <2>1, <2>2, <2>3, Stays
<1>5. CASE SigAcquire(l)
  <2>1. UNCHANGED <<disowned, op>>
    BY <1>5 DEF SigAcquire
  <2>2. PICK p \in {"s_sigtoproc", "s_take"} : Goto(l, p)
    BY <1>5 DEF SigAcquire
  <2>3. /\ p \in Has <=> pc[l] \in Has
        /\ p \in Acquiring <=> pc[l] \in Acquiring
    BY <1>5 DEF SigAcquire
  <2> QED BY <2>1, <2>2, <2>3, Stays
<1>6. CASE SendWaiting(l)
  <2>1. UNCHANGED <<disowned, op>>
    BY <1>6 DEF SendWaiting
  <2>2. PICK p \in {"s_again", "n_unsleep"} : Goto(l, p)
    BY <1>6 DEF SendWaiting
  <2>3. /\ p \in Has <=> pc[l] \in Has
        /\ p \in Acquiring <=> pc[l] \in Acquiring
    BY <1>6 DEF SendWaiting
  <2> QED BY <2>1, <2>2, <2>3, Stays
<1>7. CASE SigTake(l)
  <2>1. UNCHANGED <<disowned, op>>
    BY <1>7 DEF SigTake, TakeAndSettle
  <2>2. CASE slAvail /\ Goto(l, "g_fold")
    BY <2>1, <2>2, Takes
  <2>3. CASE UNCHANGED pc \/ Goto(l, "q_fspin")
    BY <1>7, <2>1, <2>3, Stays DEF SigTake
  <2> QED BY <1>7, <2>2, <2>3 DEF SigTake, TakeAndSettle
<1>8. CASE FixFspin(l)
  <2>1. UNCHANGED <<disowned, op>>
    BY <1>8 DEF FixFspin
  <2>2. PICK p \in {"s_fixadd"} : Goto(l, p)
    BY <1>8 DEF FixFspin
  <2>3. /\ p \in Has <=> pc[l] \in Has
        /\ p \in Acquiring <=> pc[l] \in Acquiring
    BY <1>8 DEF FixFspin
  <2> QED BY <2>1, <2>2, <2>3, Stays
<1>9. CASE FixAdd(l)
  <2>1. At(l, "s_fixadd") /\ Goto(l, "idle") /\ UNCHANGED <<disowned, op>>
    BY <1>9 DEF FixAdd, Return
  <2> QED BY <2>1, GoesAway
<1> QED BY <1>1, <1>2, <1>3, <1>4, <1>5, <1>6, <1>7, <1>8, <1>9 DEF LockingSig

(* The steps of signal posters, and the choices.                           *)
LEMMA AbsOther ==
  ASSUME TypeOK, OwnInv, (\E c \in Ctxs : Unsleep(c)) \/ Choice
  PROVE  AbsStep
<1> USE DEF Has, Acquiring, Acquired, Releasing, At, callVars
<1>1. ASSUME NEW c \in Ctxs, Unsleep(c) PROVE AbsStep
  <2>1. At(c, "n_unsleep") /\ UNCHANGED <<disowned, op>>
    BY <1>1 DEF Unsleep
  <2>2. CASE c \in Lwps
    <3>1. Goto(c, "s_again")
      BY <1>1, <2>2 DEF Unsleep
    <3> QED BY <2>1, <3>1, Stays
  <2>3. CASE c \notin Lwps
    <3>1. Goto(c, "idle")
      BY <1>1, <2>3 DEF Unsleep
    <3> QED BY <2>1, <2>3, <3>1, Outside
  <2> QED BY <2>2, <2>3
<1>2. ASSUME NEW c \in Intrs, NEW t \in Lwps, Post(c, t) PROVE AbsStep
  <2>1. At(c, "idle") /\ UNCHANGED <<disowned, op>>
    BY <1>2 DEF Post
  <2>2. PICK p \in {"n_unsleep", "idle"} : Goto(c, p)
    BY <1>2 DEF Post
  <2>3. c \in Ctxs /\ c \notin Lwps
    BY LwpAssumption DEF Ctxs
  <2> QED BY <2>1, <2>2, <2>3, Outside
<1>3. ASSUME NEW l \in Lwps, Call(l) PROVE AbsStep
  <2>1. At(l, "idle") /\ UNCHANGED disowned
    BY <1>3 DEF Call
  <2>2. PICK o \in DOMAIN EntryPc : Goto(l, EntryPc[o]) /\ op' = [op EXCEPT ![l] = o]
    BY <1>3 DEF Call
  <2>3. EntryPc[o] \notin Has
    BY DEF EntryPc
  <2> QED BY <2>1, <2>2, <2>3, ComesOrGoes
<1>4. ASSUME NEW l \in Lwps, LwpExit(l) PROVE AbsStep
  <2>1. At(l, "idle") /\ Goto(l, "exited") /\ UNCHANGED <<disowned, op>> /\ l \in Ctxs
    BY <1>4 DEF LwpExit, Ctxs
  <2> QED BY <2>1, Stays
<1>5. ASSUME NEW l \in Lwps, Disown(l) PROVE AbsStep
  <2>1. At(l, "hold") /\ Goto(l, "idle") /\ disowned' = TRUE /\ UNCHANGED op
    BY <1>5 DEF Disown
  <2>2. \A d \in Ctxs : pc'[d] = IF d = l THEN "idle" ELSE pc[d]
    BY <2>1 DEF TypeOK, CtxTypeOK, Goto
  <2>3. Holders = {l} /\ Holders' = {}
    BY <2>1, <2>2 DEF Holders, OwnInv, Ctxs
  <2>4. Waiters' = Waiters
    BY <2>1, <2>2 DEF Waiters, Ctxs
  <2>5. A!Disown(l)
    BY <2>1, <2>3, <2>4 DEF A!Disown
  <2> QED BY <2>5 DEF AbsStep, A!Next, Ctxs
<1>6. ASSUME NEW l \in Lwps, LockPrivate(l) PROVE AbsStep
  <2>1. /\ \A c \in Ctxs : pc[c] \in {"idle", "exited"}
        /\ ~disowned /\ disowned' = TRUE /\ UNCHANGED <<pc, op>>
    BY <1>6 DEF LockPrivate
  <2>2. Holders = {}
    BY <2>1 DEF Holders
  <2>3. Holders' = Holders /\ Waiters' = Waiters
    BY <2>1 DEF Holders, Waiters
  <2>4. A!AcquireLoose
    BY <2>1, <2>2, <2>3 DEF A!AcquireLoose, A!Free
  <2> QED BY <2>4 DEF AbsStep, A!Next
<1>7. ASSUME NEW c \in Ctxs, WakeTooEarly(c) PROVE AbsStep
  BY <1>7, Stays DEF WakeTooEarly
<1> QED BY <1>1, <1>2, <1>3, <1>4, <1>5, <1>6, <1>7 DEF Choice

(* The sleep lock is a lock: ImplementsLock holds of it whatever the       *)
(* constants are.                                                          *)
THEOREM Refinement == Spec => ImplementsLock
<1>1. Init => A!Init
  <2> SUFFICES ASSUME Init PROVE A!Init
    OBVIOUS
  <2>1. Holders = {} /\ Waiters = {} /\ disowned = FALSE
    BY DEF Init, Holders, Waiters, Acquiring, Acquired, Releasing, Ctxs
  <2> QED BY <2>1 DEF A!Init
<1>2. TypeOK /\ OwnInv /\ [Next]_vars => AbsStep
  <2> SUFFICES ASSUME TypeOK, OwnInv, [Next]_vars PROVE AbsStep
    OBVIOUS
  <2>1. CASE UNCHANGED vars
    BY <2>1 DEF vars, callVars, AbsStep, A!vars, Holders, Waiters
  <2>2. CASE Next
    BY <2>1, <2>2, AbsUnlocking, AbsLocking, AbsLockingSig, AbsOther
    DEF Next, Step, Quiet
  <2> QED BY <2>1, <2>2
<1> QED BY <1>1, <1>2, TypeCorrect, OwnershipInvariant, PTL
    DEF Spec, ImplementsLock, A!Spec, AbsStep
=============================================================================
