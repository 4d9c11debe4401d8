--------------------------- MODULE SyncVar_proofs ---------------------------
(***************************************************************************)
(* Theorems about SyncVar, for any set of LWPs and of other contexts, any  *)
(* processes and any number of signals: types, the count of blocked LWPs,  *)
(* that no sleeper misses a signal, and that SyncVar implements the        *)
(* abstract synchronization variable as far as safety goes.                *)
(***************************************************************************)
EXTENDS SyncVar, SleepQueue_proofs

Pcs == {"idle", "mutex", "count", "sigtoproc", "recheck", "issig", "unlock", "enq", "sleep",
        "asleep", "issig2", "unsleep", "wake"}
(* Where an LWP holds its own l_mutex, and where the entry lock.           *)
HolderPcs == {"count", "enq", "sleep", "unlock"}
EntryPcs == {"mutex", "count", "enq", "sleep"}

Types ==
  /\ LwpTypeOK
  /\ lkp \in Lwps \union {Nobody} /\ waitsig \in [Lwps -> BOOLEAN]
  /\ pc \in [Ctxs -> Pcs]
  /\ op \in [Lwps -> {"wait", "wait_sig"}] /\ ret \in [Lwps -> BOOLEAN]
  /\ tgt \in [Ctxs -> Lwps \union {Nobody}] /\ sigs \in Nat

WakeInv == Attended(svList, chain, pc, tgt, lMutex, lStat, HolderPcs)

(* A caller has the entry lock until it sleeps or gives up.                *)
EntryInv == \A l \in Lwps : lkp = l <=> pc[l] \in EntryPcs

(* Only an interruptible sleeper is marked L_SIGWOKE, until it has seen to *)
(* the signal; and it had none pending when it went to sleep.              *)
SigOf(l) ==
  /\ "L_SIGWOKE" \in lFlag[l] => pc[l] \in {"asleep", "issig2"} /\ op[l] = "wait_sig"
  /\ pc[l] = "asleep" => ("L_NWAKE" \in lFlag[l] <=> op[l] = "wait")
  /\ pc[l] \in {"count", "enq", "sleep"} /\ op[l] = "wait_sig" => ~trapevf[l]
  /\ pc[l] = "count" => op[l] = "wait_sig"

SigInv == (\A l \in Lwps : SigOf(l)) /\ SleeperHearsSignals

Counted == {l \in Lwps : op[l] = "wait_sig" /\ pc[l] \in {"enq", "sleep", "asleep"}}
CountInv == CountsOf(niblked, Proc, Procs, Counted)

Inv == Types /\ WakeInv /\ EntryInv /\ SigInv /\ CountInv

LEMMA InvInit == Init => Inv
<1> SUFFICES ASSUME Init PROVE Inv
  OBVIOUS
<1>1. /\ \A c \in Ctxs : pc[c] = "idle"
      /\ \A l \in Lwps : pc[l] = "idle" /\ lFlag[l] = {} /\ lStat[l] = "SONPROC"
      /\ lkp = Nobody /\ Nobody \notin Lwps
  BY LwpAssumption DEF Init, LwpInit, Ctxs
<1>2. Types
  BY DEF Init, LwpInit, Types, LwpTypeOK, Ctxs, Pcs
<1>3. WakeInv
  <2>1. "sleep" \in HolderPcs /\ HolderPcs \cap {"asleep", "unsleep", "wake", "idle"} = {}
    BY DEF HolderPcs
  <2> QED BY <2>1, AttendedAtFirst DEF WakeInv, Init, LwpInit
<1>4. EntryInv /\ SigInv
  BY <1>1 DEF EntryInv, SigInv, SigOf, EntryPcs, SleeperHearsSignals, Interruptible, At
<1>5. Counted = {}
  BY <1>1 DEF Counted
<1>6. CountInv
  BY <1>5, CountsNobody DEF CountInv, Init
<1> QED BY <1>2, <1>3, <1>4, <1>6 DEF Inv

-----------------------------------------------------------------------------
(***************************************************************************)
(* Who wakes a sleeper.                                                    *)
(***************************************************************************)
LEMMA PcsAndStats == Types => pc \in [Ctxs -> Pcs] /\ \E U : lStat \in [Lwps -> U]
  BY DEF Types, LwpTypeOK

(* Steps between two points that are neither sleep nor wakeup.             *)
LEMMA WakeMove ==
  ASSUME Types, WakeInv, NEW c \in Ctxs, NEW p, Goto(c, p),
         pc[c] \notin RestPcs, pc[c] # "wake", p \notin RestPcs \union {"wake"},
         \/ UNCHANGED lMutex /\ (p \in HolderPcs => lMutex[c] = c)
         \/ \E m : lMutex' = [lMutex EXCEPT ![c] = m] /\ (p \in HolderPcs => m = c),
         UNCHANGED tgt \/ \E t : tgt' = [tgt EXCEPT ![c] = t],
         UNCHANGED <<svList, chain, lStat>>
  PROVE  WakeInv'
<1>1. /\ Attended(svList, chain, pc, tgt, lMutex, lStat, HolderPcs) /\ pc \in [Ctxs -> Pcs]
      /\ tgt \in [Ctxs -> Lwps \union {Nobody}] /\ lMutex \in [Lwps -> Ctxs \union {Nobody}]
  BY DEF WakeInv, Types, LwpTypeOK
<1>2. PICK m : lMutex' = [lMutex EXCEPT ![c] = m] /\ (p \in HolderPcs => m = c)
  <2>1. lMutex = [lMutex EXCEPT ![c] = lMutex[c]]
    BY <1>1
  <2> QED BY <2>1
<1>3. PICK t : tgt' = [tgt EXCEPT ![c] = t]
  <2>1. tgt = [tgt EXCEPT ![c] = tgt[c]]
    BY <1>1
  <2> QED BY <2>1
<1>4. Attended(svList, chain, [pc EXCEPT ![c] = p], [tgt EXCEPT ![c] = t],
               [lMutex EXCEPT ![c] = m], lStat, HolderPcs)
  BY <1>1, <1>2, AttendedMove
<1> QED BY <1>2, <1>3, <1>4 DEF WakeInv, Goto

(* A post to an LWP that is interruptibly asleep, or to another.           *)
LEMMA WakePost ==
  ASSUME Types, WakeInv, NEW c \in Ctxs, NEW t \in Lwps, NEW p,
         PostSignal(t, c), Target(c, t),
         Goto(c, IF Interruptible(t) THEN "unsleep" ELSE p),
         pc[c] \notin RestPcs, pc[c] # "wake",
         p \notin RestPcs \union {"wake"} \union HolderPcs,
         UNCHANGED <<svList, chain>>
  PROVE  WakeInv'
<1>1. /\ UNCHANGED lStat /\ lMutex[t] = Nobody /\ lMutex \in [Lwps -> Ctxs \union {Nobody}]
      /\ tgt \in [Ctxs -> Lwps \union {Nobody}]
  BY DEF PostSignal, MutexFree, Types, LwpTypeOK
<1>2. CASE Interruptible(t)
  <2>1. /\ lMutex' = [lMutex EXCEPT ![t] = c] /\ pc' = [pc EXCEPT ![c] = "unsleep"]
        /\ tgt' = [tgt EXCEPT ![c] = t] /\ lStat[t] = "SSLEEP"
    BY <1>2 DEF PostSignal, LockMutex, Goto, Target, Interruptible
  <2>2. Attended(svList, chain, [pc EXCEPT ![c] = "unsleep"], [tgt EXCEPT ![c] = t],
                 [lMutex EXCEPT ![t] = c], lStat, HolderPcs)
    BY <1>1, <2>1, PcsAndStats, AttendedPosted DEF WakeInv
  <2> QED BY <1>1, <2>1, <2>2 DEF WakeInv
<1>3. CASE ~Interruptible(t)
  <2>1. Goto(c, p) /\ UNCHANGED lMutex /\ tgt' = [tgt EXCEPT ![c] = Nobody]
    BY <1>3 DEF PostSignal, Target
  <2> QED BY <1>1, <2>1, WakeMove
<1> QED BY <1>2, <1>3

LEMMA WakeWaiting ==
  ASSUME Types, WakeInv, NEW l \in Lwps, Waiting(l)
  PROVE  WakeInv'
<1>0. l \in Ctxs /\ lMutex \in [Lwps -> Ctxs \union {Nobody}]
  BY DEF Ctxs, Types, LwpTypeOK
<1>2. CASE Mutex(l)
  <2>1. pc[l] = "mutex" /\ UNCHANGED <<svList, chain, lStat, tgt>>
    BY <1>2 DEF Mutex, At
  <2>2. CASE SignalSeen(l)
    <3>1. Goto(l, "issig") /\ UNCHANGED lMutex
      BY <1>2, <2>2 DEF Mutex
    <3> QED BY <1>0, <2>1, <3>1, WakeMove DEF RestPcs, HolderPcs
  <2>3. CASE ~SignalSeen(l)
    <3>1. PICK p \in {"count", "enq"} : Goto(l, p)
      BY <1>2, <2>3 DEF Mutex
    <3>2. lMutex' = [lMutex EXCEPT ![l] = l]
      BY <1>2, <2>3 DEF Mutex, LockMutex
    <3> QED BY <1>0, <2>1, <3>1, <3>2, WakeMove DEF RestPcs
  <2> QED BY <2>2, <2>3
<1>3. CASE Count(l)
  <2>1. pc[l] = "count" /\ UNCHANGED <<svList, chain, lStat, tgt>>
    BY <1>3 DEF Count, At
  <2>2. CASE UnlockMutex(l) /\ Goto(l, "sigtoproc")
    <3>1. lMutex' = [lMutex EXCEPT ![l] = Nobody]
      BY <2>2 DEF UnlockMutex
    <3> QED BY <1>0, <2>1, <2>2, <3>1, WakeMove DEF RestPcs, HolderPcs
  <2>3. CASE UNCHANGED lMutex /\ Goto(l, "enq")
    <3>1. lMutex[l] = l
      BY <2>1 DEF WakeInv, Attended, HolderPcs
    <3> QED BY <1>0, <2>1, <2>3, <3>1, WakeMove DEF RestPcs
  <2> QED BY <1>3, <2>2, <2>3 DEF Count
<1>4. CASE SendWaiting(l)
  <2>1. pc[l] = "sigtoproc" /\ UNCHANGED <<svList, chain>>
    BY <1>4 DEF SendWaiting, At
  <2>2. CASE WaitingPending(Proc[l])
    <3>1. Goto(l, "recheck") /\ UNCHANGED <<lStat, lMutex, tgt>>
      BY <1>4, <2>2 DEF SendWaiting, lwpVars
    <3> QED BY <1>0, <2>1, <3>1, WakeMove DEF RestPcs, HolderPcs
  <2>3. CASE ~WaitingPending(Proc[l])
    <3>1. PICK t \in LwpsOf(Proc[l]) :
            /\ PostWaiting(t, l) /\ Target(l, t)
            /\ Goto(l, IF Interruptible(t) THEN "unsleep" ELSE "recheck")
      BY <1>4, <2>3 DEF SendWaiting
    <3>2. t \in Lwps /\ PostSignal(t, l)
      BY <3>1 DEF LwpsOf, PostWaiting
    <3> QED BY <1>0, <2>1, <3>1, <3>2, WakePost DEF RestPcs, HolderPcs
  <2> QED BY <2>2, <2>3
<1>5. CASE RecheckSignal(l)
  <2>1. pc[l] = "recheck" /\ UNCHANGED <<svList, chain, lStat, tgt, lMutex>>
    BY <1>5 DEF RecheckSignal, At, lwpVars
  <2>2. PICK p \in {"issig", "idle"} : Goto(l, p)
    BY <1>5 DEF RecheckSignal, Return
  <2> QED BY <1>0, <2>1, <2>2, WakeMove DEF RestPcs, HolderPcs
<1>6. CASE IssigReturn(l)
  <2>1. pc[l] \in {"issig", "issig2"} /\ UNCHANGED <<svList, chain, lStat, tgt>>
    BY <1>6 DEF IssigReturn
  <2>2. PICK r \in IssigReturns :
          /\ lMutex' = [lMutex EXCEPT ![l] = IF r = "ISSIG_NONE" THEN l ELSE @]
          /\ Goto(l, IF r = "ISSIG_NONE" THEN "unlock" ELSE "idle")
    BY <1>6 DEF IssigReturn, TakeIssig, Issig, Return
  <2>3. CASE r = "ISSIG_NONE"
    <3>1. Goto(l, "unlock") /\ lMutex' = [lMutex EXCEPT ![l] = l]
      BY <2>2, <2>3
    <3> QED BY <1>0, <2>1, <3>1, WakeMove DEF RestPcs
  <2>4. CASE r # "ISSIG_NONE"
    <3>1. Goto(l, "idle") /\ lMutex' = [lMutex EXCEPT ![l] = @]
      BY <2>2, <2>4
    <3> QED BY <1>0, <2>1, <3>1, WakeMove DEF RestPcs, HolderPcs
  <2> QED BY <2>3, <2>4
<1>7. CASE IssigNone(l)
  <2>1. /\ pc[l] = "unlock" /\ UNCHANGED <<svList, chain, lStat, tgt>> /\ Goto(l, "idle")
        /\ lMutex' = [lMutex EXCEPT ![l] = Nobody]
    BY <1>7 DEF IssigNone, At, Return, UnlockMutex
  <2> QED BY <1>0, <2>1, WakeMove DEF RestPcs, HolderPcs
<1>8. CASE Enqueue(l)
  <2>1. /\ pc[l] = "enq" /\ UNCHANGED <<chain, lStat, tgt, lMutex>>
        /\ pc' = [pc EXCEPT ![l] = "sleep"] /\ svList' = Append(svList, l)
    BY <1>8 DEF Enqueue, At, Goto, lwpVars
  <2>2. pc[l] \in HolderPcs /\ pc[l] # "sleep"
    BY <2>1 DEF HolderPcs
  <2>3. Attended(Append(svList, l), chain, [pc EXCEPT ![l] = "sleep"], tgt, lMutex, lStat,
                 HolderPcs)
    BY <2>2, PcsAndStats, AttendedQueued DEF WakeInv
  <2> QED BY <2>1, <2>3 DEF WakeInv
<1>9. CASE Sleep(l)
  <2>1. /\ pc[l] = "sleep" /\ UNCHANGED <<svList, chain, tgt>>
        /\ lStat' = [lStat EXCEPT ![l] = "SSLEEP"] /\ lMutex' = [lMutex EXCEPT ![l] = Nobody]
        /\ pc' = [pc EXCEPT ![l] = "asleep"]
    BY <1>9 DEF Sleep, Block, UnlockMutex, At, Goto
  <2>2. Attended(svList, chain, [pc EXCEPT ![l] = "asleep"], tgt,
                 [lMutex EXCEPT ![l] = Nobody], [lStat EXCEPT ![l] = "SSLEEP"], HolderPcs)
    BY <1>0, <2>1, PcsAndStats, AttendedSlept DEF WakeInv
  <2> QED BY <2>1, <2>2 DEF WakeInv
<1>10. CASE WakeUp(l)
  <2>1. /\ pc[l] = "asleep" /\ lStat[l] = "SRUN" /\ UNCHANGED <<svList, chain, tgt, lMutex>>
        /\ lStat' = [lStat EXCEPT ![l] = "SONPROC"]
    BY <1>10 DEF WakeUp, Resume, At
  <2>2. PICK p \in {"issig2", "idle"} : pc' = [pc EXCEPT ![l] = p]
    BY <1>10 DEF WakeUp, Return, Goto
  <2>3. p \notin RestPcs \union HolderPcs \union {"wake"}
    BY DEF RestPcs, HolderPcs
  <2>4. Attended(svList, chain, [pc EXCEPT ![l] = p], tgt, lMutex,
                 [lStat EXCEPT ![l] = "SONPROC"], HolderPcs)
    BY <2>1, <2>3, PcsAndStats, AttendedResumed DEF WakeInv
  <2> QED BY <2>1, <2>2, <2>4 DEF WakeInv
<1> QED BY <1>2, <1>3, <1>4, <1>5, <1>6, <1>7, <1>8, <1>9, <1>10 DEF Waiting

LEMMA WakeOther ==
  ASSUME Types, WakeInv, NEW c \in Ctxs,
         \/ WakeChain(c) \/ Unsleep(c) \/ sv_signal(c) \/ sv_broadcast(c)
         \/ (c \in Lwps /\ Call(c)) \/ \E t \in Lwps : Post(c, t)
  PROVE  WakeInv'
<1>0. lMutex \in [Lwps -> Ctxs \union {Nobody}] /\ svList \in Seq(Lwps) /\ IsInjective(svList)
  BY DEF Types, LwpTypeOK, WakeInv, Attended, Keeps
<1>1. CASE WakeChain(c)
  <2>1. /\ pc[c] = "wake" /\ UNCHANGED <<svList, tgt, lMutex>>
        /\ lMutex[Head(chain[c])] = Nobody
        /\ lStat' = [lStat EXCEPT ![Head(chain[c])] = "SRUN"]
        /\ chain' = [chain EXCEPT ![c] = Tail(chain[c])]
        /\ pc' = [pc EXCEPT ![c] = IF Tail(chain[c]) = <<>> THEN "idle" ELSE "wake"]
    BY <1>1 DEF WakeChain, Wakeup, MutexFree, At, Goto, RestOfChain
  <2>2. Attended(svList, [chain EXCEPT ![c] = Tail(chain[c])],
                 [pc EXCEPT ![c] = IF Tail(chain[c]) = <<>> THEN "idle" ELSE "wake"], tgt,
                 lMutex, [lStat EXCEPT ![Head(chain[c])] = "SRUN"], HolderPcs)
    BY <2>1, PcsAndStats, AttendedWoken DEF WakeInv
  <2> QED BY <2>1, <2>2 DEF WakeInv
<1>2. CASE Unsleep(c)
  <2>1. /\ pc[c] = "unsleep" /\ UNCHANGED chain
        /\ \A d \in Ctxs : d # c => tgt'[d] = tgt[d]
        /\ svList' = slpdeque(svList, tgt[c]) /\ lMutex' = [lMutex EXCEPT ![tgt[c]] = Nobody]
        /\ lStat' = [lStat EXCEPT ![tgt[c]] = IF Contains(svList, tgt[c]) THEN "SRUN" ELSE @]
    BY <1>2 DEF Unsleep, FinishNudge, UnlockMutex, At, Types
  <2>2. PICK p \in {"recheck", "idle"} : pc' = [pc EXCEPT ![c] = p]
    BY <1>2 DEF Unsleep, Goto
  <2>3. p \notin RestPcs \union HolderPcs \union {"wake"}
    BY DEF RestPcs, HolderPcs
  <2>4. Attended(slpdeque(svList, tgt[c]), chain, [pc EXCEPT ![c] = p], tgt',
                 [lMutex EXCEPT ![tgt[c]] = Nobody],
                 [lStat EXCEPT ![tgt[c]] = IF Contains(svList, tgt[c]) THEN "SRUN" ELSE @],
                 HolderPcs)
    BY <1>0, <2>1, <2>3, PcsAndStats, AttendedUnslept DEF WakeInv
  <2> QED BY <2>1, <2>2, <2>4 DEF WakeInv
<1>3. CASE sv_signal(c)
  <2>1. /\ pc[c] = "idle" /\ svList # <<>> /\ UNCHANGED <<tgt, lMutex, lStat>>
        /\ chain' = [chain EXCEPT ![c] = <<Head(svList)>>] /\ svList' = Tail(svList)
        /\ pc' = [pc EXCEPT ![c] = "wake"]
    BY <1>3 DEF sv_signal, At, Goto, lwpVars
  <2>2. Attended(Tail(svList), [chain EXCEPT ![c] = <<Head(svList)>>],
                 [pc EXCEPT ![c] = "wake"], tgt, lMutex, lStat, HolderPcs)
    BY <1>0, <2>1, PcsAndStats, TakenParts, AttendedTaken DEF WakeInv
  <2> QED BY <2>1, <2>2 DEF WakeInv
<1>4. CASE sv_broadcast(c)
  <2>1. /\ pc[c] = "idle" /\ svList # <<>> /\ UNCHANGED <<tgt, lMutex, lStat>>
        /\ chain' = [chain EXCEPT ![c] = svList] /\ svList' = <<>>
        /\ pc' = [pc EXCEPT ![c] = "wake"]
    BY <1>4 DEF sv_broadcast, At, Goto, lwpVars
  <2>2. Attended(<<>>, [chain EXCEPT ![c] = svList], [pc EXCEPT ![c] = "wake"], tgt, lMutex,
                 lStat, HolderPcs)
    BY <1>0, <2>1, PcsAndStats, EmptyQueue, AttendedTaken DEF WakeInv
  <2> QED BY <2>1, <2>2 DEF WakeInv
<1>5. CASE c \in Lwps /\ Call(c)
  <2>1. pc[c] = "idle" /\ Goto(c, "mutex") /\ UNCHANGED <<svList, chain, lStat, tgt, lMutex>>
    BY <1>5 DEF Call, At, lwpVars
  <2> QED BY <2>1, WakeMove DEF RestPcs, HolderPcs
<1>6. ASSUME NEW t \in Lwps, Post(c, t) PROVE WakeInv'
  <2>1. /\ pc[c] = "idle" /\ PostSignal(t, c) /\ Target(c, t) /\ UNCHANGED <<svList, chain>>
        /\ Goto(c, IF Interruptible(t) THEN "unsleep" ELSE "idle")
    BY <1>6 DEF Post, At
  <2> QED BY <2>1, WakePost DEF RestPcs, HolderPcs
<1> QED BY <1>1, <1>2, <1>3, <1>4, <1>5, <1>6
-----------------------------------------------------------------------------
(***************************************************************************)
(* Types, the entry lock and the signals.                                  *)
(***************************************************************************)
LEMMA TypesWaiting ==
  ASSUME Types, NEW l \in Lwps, Waiting(l)
  PROVE  Types'
<1>0. l \in Ctxs
  BY DEF Ctxs
<1> USE DEF Types, LwpTypeOK, Pcs, Goto, Return, lwpVars, procVars, callVars
<1>1. CASE Mutex(l)
  BY <1>0, <1>1 DEF Mutex, LockMutex
<1>2. CASE Count(l)
  BY <1>0, <1>2 DEF Count, UnlockMutex, CountBlocked
<1>3. CASE SendWaiting(l)
  <2>1. LwpTypeOK' /\ waitsig' \in [Lwps -> BOOLEAN]
    <3>1. CASE UNCHANGED <<lwpVars, waitsig>>
      BY <3>1
    <3>2. ASSUME NEW t \in Lwps, PostWaiting(t, l)
          PROVE  LwpTypeOK' /\ waitsig' \in [Lwps -> BOOLEAN]
      BY <1>0, <3>2, PostTypes DEF PostWaiting
    <3> QED BY <1>3, <3>1, <3>2 DEF SendWaiting, LwpsOf
  <2>2. tgt' \in [Ctxs -> Lwps \union {Nobody}] /\ pc' \in [Ctxs -> Pcs]
    BY <1>0, <1>3 DEF SendWaiting, Target, LwpsOf
  <2> QED BY <1>3, <2>1, <2>2 DEF SendWaiting
<1>4. CASE RecheckSignal(l)
  BY <1>0, <1>4 DEF RecheckSignal
<1>5. CASE IssigReturn(l)
  <2>1. PICK r \in IssigReturns :
          /\ TakeIssig(l, r)
          /\ IF r = "ISSIG_NONE" THEN Goto(l, "unlock") /\ UNCHANGED callVars
                                ELSE Return(l, r = "ISSIG_STOPPED")
    BY <1>5 DEF IssigReturn
  <2>2. /\ lMutex' \in [Lwps -> Ctxs \union {Nobody}] /\ trapevf' \in [Lwps -> BOOLEAN]
        /\ waitsig' \in [Lwps -> BOOLEAN]
    BY <1>0, <2>1 DEF TakeIssig, Issig
  <2>3. lFlag' \in [Lwps -> SUBSET {"L_NWAKE", "L_SIGWOKE"}]
    BY <1>5 DEF IssigReturn
  <2>4. pc' \in [Ctxs -> Pcs] /\ ret' \in [Lwps -> BOOLEAN] /\ UNCHANGED op
    BY <1>0, <2>1
  <2> QED BY <1>5, <2>2, <2>3, <2>4 DEF IssigReturn
<1>6. CASE IssigNone(l)
  BY <1>0, <1>6 DEF IssigNone, UnlockMutex
<1>7. CASE Enqueue(l)
  BY <1>0, <1>7 DEF Enqueue
<1>8. CASE Sleep(l)
  BY <1>0, <1>8 DEF Sleep, Block, UnlockMutex
<1>9. CASE WakeUp(l)
  BY <1>0, <1>9 DEF WakeUp, Resume
<1> QED BY <1>1, <1>2, <1>3, <1>4, <1>5, <1>6, <1>7, <1>8, <1>9 DEF Waiting

LEMMA TypesOther ==
  ASSUME Types, NEW c \in Ctxs,
         \/ WakeChain(c) \/ Unsleep(c) \/ sv_signal(c) \/ sv_broadcast(c)
         \/ (c \in Lwps /\ Call(c)) \/ \E t \in Lwps : Post(c, t)
  PROVE  Types'
<1> USE DEF Types, LwpTypeOK, Pcs, Goto, lwpVars, procVars, callVars
<1>1. CASE WakeChain(c)
  BY <1>1 DEF WakeChain, Wakeup
<1>2. CASE Unsleep(c)
  BY <1>2 DEF Unsleep, FinishNudge, UnlockMutex
<1>3. CASE sv_signal(c) \/ sv_broadcast(c)
  BY <1>3 DEF sv_signal, sv_broadcast
<1>4. CASE c \in Lwps /\ Call(c)
  BY <1>4, SvAssumption DEF Call
<1>5. ASSUME NEW t \in Lwps, Post(c, t) PROVE Types'
  BY <1>5 DEF Post, PostSignal, LockMutex, Target
<1> QED BY <1>1, <1>2, <1>3, <1>4, <1>5

(* Whoever comes to a point, in a step that leaves the entry lock alone.   *)
LEMMA EntryMove ==
  ASSUME Types, EntryInv, NEW c \in Ctxs, NEW p, Goto(c, p), UNCHANGED lkp,
         c \in Lwps => (pc[c] \in EntryPcs <=> p \in EntryPcs)
  PROVE  EntryInv'
<1>1. \A l \in Lwps : l \in Ctxs /\ pc'[l] = IF l = c THEN p ELSE pc[l]
  BY DEF Types, Goto, Ctxs
<1> QED BY <1>1 DEF EntryInv

LEMMA EntryWaiting ==
  ASSUME Types, EntryInv, NEW l \in Lwps, Waiting(l)
  PROVE  EntryInv'
<1>0. l \in Ctxs /\ Lwps \subseteq Ctxs /\ Nobody \notin Lwps
  BY LwpAssumption DEF Ctxs
<1>1. ASSUME NEW p, Goto(l, p), lkp' = Nobody, pc[l] \in EntryPcs, p \notin EntryPcs
      PROVE  EntryInv'
  <2>1. \A k \in Lwps : pc'[k] = IF k = l THEN p ELSE pc[k]
    BY <1>0, <1>1 DEF Types, Goto
  <2>2. lkp = l
    BY <1>1 DEF EntryInv
  <2> QED BY <1>0, <1>1, <2>1, <2>2 DEF EntryInv
<1>2. CASE Mutex(l)
  <2>1. CASE SignalSeen(l)
    BY <1>1, <1>2, <2>1 DEF Mutex, At, EntryPcs
  <2>2. CASE ~SignalSeen(l)
    <3>1. PICK p \in {"count", "enq"} : Goto(l, p)
      BY <1>2, <2>2 DEF Mutex
    <3> QED BY <1>0, <1>2, <2>2, <3>1, EntryMove DEF Mutex, At, EntryPcs
  <2> QED BY <2>1, <2>2
<1>3. CASE Count(l)
  <2>1. CASE lkp' = Nobody /\ Goto(l, "sigtoproc")
    BY <1>1, <1>3, <2>1 DEF Count, At, EntryPcs
  <2>2. CASE UNCHANGED lkp /\ Goto(l, "enq")
    BY <1>0, <1>3, <2>2, EntryMove DEF Count, At, EntryPcs
  <2> QED BY <1>3, <2>1, <2>2 DEF Count
<1>4. CASE Sleep(l)
  BY <1>1, <1>4 DEF Sleep, At, EntryPcs
<1>5. CASE Enqueue(l)
  BY <1>0, <1>5, EntryMove DEF Enqueue, At, EntryPcs
<1>6. CASE \/ SendWaiting(l) \/ RecheckSignal(l) \/ IssigReturn(l) \/ IssigNone(l)
           \/ WakeUp(l)
  <2>1. pc[l] \notin EntryPcs /\ UNCHANGED lkp
    BY <1>6 DEF SendWaiting, RecheckSignal, IssigReturn, IssigNone, WakeUp, At, EntryPcs
  <2>2. PICK p \in {"recheck", "unsleep", "issig", "idle", "unlock", "issig2"} : Goto(l, p)
    BY <1>6 DEF SendWaiting, RecheckSignal, IssigReturn, IssigNone, WakeUp, Return
  <2>3. p \notin EntryPcs
    BY DEF EntryPcs
  <2> QED BY <1>0, <2>1, <2>2, <2>3, EntryMove
<1> QED BY <1>2, <1>3, <1>4, <1>5, <1>6 DEF Waiting

LEMMA EntryOther ==
  ASSUME Types, EntryInv, NEW c \in Ctxs,
         \/ WakeChain(c) \/ Unsleep(c) \/ sv_signal(c) \/ sv_broadcast(c)
         \/ (c \in Lwps /\ Call(c)) \/ \E t \in Lwps : Post(c, t)
  PROVE  EntryInv'
<1>1. CASE c \in Lwps /\ Call(c)
  <2>1. \A k \in Lwps : pc'[k] = IF k = c THEN "mutex" ELSE pc[k]
    BY <1>1 DEF Call, Types, Goto, Ctxs
  <2>2. lkp = Nobody /\ lkp' = c /\ Nobody \notin Lwps
    BY <1>1, LwpAssumption DEF Call, Ctxs
  <2> QED BY <2>1, <2>2 DEF EntryInv, EntryPcs
<1>2. CASE \/ WakeChain(c) \/ Unsleep(c) \/ sv_signal(c) \/ sv_broadcast(c)
           \/ \E t \in Lwps : Post(c, t)
  <2>1. pc[c] \notin EntryPcs /\ UNCHANGED lkp
    BY <1>2 DEF WakeChain, Unsleep, sv_signal, sv_broadcast, Post, At, EntryPcs
  <2>2. PICK p \in {"idle", "wake", "recheck", "unsleep"} : Goto(c, p)
    BY <1>2 DEF WakeChain, Unsleep, sv_signal, sv_broadcast, Post
  <2>3. p \notin EntryPcs
    BY DEF EntryPcs
  <2> QED BY <2>1, <2>2, <2>3, EntryMove
<1> QED BY <1>1, <1>2
(* A step of c that changes the signals and flags of nobody else, takes    *)
(* nobody else's queueing for granted and tells nobody of a signal.        *)
LEMMA SigStep ==
  ASSUME Types, WakeInv, SigInv, NEW c \in Ctxs, NEW p, Goto(c, p),
         pc[c] # "unsleep", UNCHANGED tgt \/ \E t : tgt' = [tgt EXCEPT ![c] = t],
         \A k \in Lwps : k # c => /\ lFlag'[k] = lFlag[k] /\ trapevf'[k] = trapevf[k]
                                  /\ lStat'[k] = lStat[k] /\ op'[k] = op[k]
                                  /\ Contains(svList', k) => Contains(svList, k),
         c \in Lwps => /\ SigOf(c)'
                       /\ lStat'[c] = "SSLEEP" => op[c] = "wait" \/ ~trapevf'[c]
                       /\ lStat'[c] = "SSLEEP" => p = "asleep" /\ UNCHANGED op
  PROVE  SigInv'
<1>1. /\ \A d \in Ctxs : pc'[d] = IF d = c THEN p ELSE pc[d]
      /\ \A d \in Ctxs : d # c => tgt'[d] = tgt[d]
      /\ Lwps \subseteq Ctxs
  BY DEF Types, Goto, Ctxs
<1>2. \A k \in Lwps : SigOf(k)'
  BY <1>1 DEF SigInv, SigOf
<1>3. ASSUME NEW k \in Lwps, Interruptible(k)', Contains(svList', k), trapevf'[k]
      PROVE  \E d \in Ctxs : pc'[d] = "unsleep" /\ tgt'[d] = k
  <2>1. CASE k = c
    <3>1. "L_NWAKE" \notin lFlag'[c] /\ lStat'[c] = "SSLEEP"
      BY <1>3, <2>1 DEF Interruptible
    <3>2. op[c] = "wait" /\ op' = op /\ pc'[c] = "asleep"
      BY <1>1, <1>3, <2>1, <3>1
    <3> QED BY <1>2, <1>3, <2>1, <3>1, <3>2 DEF SigOf
  <2>2. CASE k # c
    <3>1. Interruptible(k) /\ Contains(svList, k) /\ trapevf[k]
      BY <1>3, <2>2 DEF Interruptible
    <3>2. PICK d \in Ctxs : pc[d] = "unsleep" /\ tgt[d] = k
      BY <3>1 DEF SigInv, SleeperHearsSignals, At
    <3> QED BY <1>1, <3>2
  <2> QED BY <2>1, <2>2
<1> QED BY <1>2, <1>3 DEF SigInv, SleeperHearsSignals, At

(* A signal is posted: an interruptible sleeper is told of it.             *)
LEMMA SigPost ==
  ASSUME Types, WakeInv, SigInv, NEW c \in Ctxs, NEW t \in Lwps, NEW p,
         PostSignal(t, c), Target(c, t),
         Goto(c, IF Interruptible(t) THEN "unsleep" ELSE p),
         pc[c] \notin RestPcs \union {"wake"} \union HolderPcs \union {"issig2"},
         p \notin RestPcs \union {"wake"} \union HolderPcs, UNCHANGED <<svList, op>>
  PROVE  SigInv'
<1> DEFINE n == IF Interruptible(t) THEN "unsleep" ELSE p
<1>0. /\ Lwps \subseteq Ctxs /\ Nobody \notin Ctxs /\ UNCHANGED lStat /\ lMutex[t] = Nobody
      /\ pc \in [Ctxs -> Pcs] /\ tgt \in [Ctxs -> Lwps \union {Nobody}]
      /\ trapevf \in [Lwps -> BOOLEAN] /\ lFlag \in [Lwps -> SUBSET {"L_NWAKE", "L_SIGWOKE"}]
      /\ op \in [Lwps -> {"wait", "wait_sig"}]
  BY LwpAssumption DEF Types, LwpTypeOK, Ctxs, PostSignal, MutexFree
<1>1. /\ \A d \in Ctxs : pc'[d] = IF d = c THEN n ELSE pc[d]
      /\ \A d \in Ctxs : tgt'[d] = IF d # c THEN tgt[d] ELSE
                                   IF Interruptible(t) THEN t ELSE Nobody
      /\ \A k \in Lwps : trapevf'[k] = IF k = t THEN TRUE ELSE trapevf[k]
      /\ \A k \in Lwps : lFlag'[k] = IF k = t /\ Interruptible(t)
                                       THEN lFlag[k] \union {"L_SIGWOKE"} ELSE lFlag[k]
  <2>1. /\ \A d \in Ctxs : pc'[d] = IF d = c THEN n ELSE pc[d]
        /\ \A d \in Ctxs : tgt'[d] = IF d # c THEN tgt[d] ELSE
                                     IF Interruptible(t) THEN t ELSE Nobody
    BY <1>0 DEF Goto, Target
  <2>2. \A k \in Lwps : trapevf'[k] = IF k = t THEN TRUE ELSE trapevf[k]
    BY <1>0 DEF PostSignal
  <2>3. \A k \in Lwps : lFlag'[k] = IF k = t /\ Interruptible(t)
                                       THEN lFlag[k] \union {"L_SIGWOKE"} ELSE lFlag[k]
    BY <1>0 DEF PostSignal
  <2> QED BY <2>1, <2>2, <2>3
<1>2. n \notin {"count", "enq", "sleep", "asleep"}
  BY DEF RestPcs, HolderPcs
<1> HIDE DEF n
<1>3. Interruptible(t) => pc[t] = "asleep" /\ op[t] = "wait_sig" /\ t # c
  <2>1. Interruptible(t) => pc[t] = "asleep"
    BY DEF Interruptible, WakeInv, Attended
  <2>2. pc[t] = "asleep" => ("L_NWAKE" \in lFlag[t] <=> op[t] = "wait")
    BY DEF SigInv, SigOf
  <2> QED BY <1>0, <2>1, <2>2 DEF Interruptible, RestPcs
<1>4. pc[t] \notin {"count", "enq", "sleep"}
  BY <1>0 DEF WakeInv, Attended, HolderPcs
<1>5. ASSUME NEW k \in Lwps PROVE SigOf(k)'
  <2>1. SigOf(k) /\ UNCHANGED op
    BY DEF SigInv
  <2>2. pc'[k] = (IF k = c THEN n ELSE pc[k]) /\ pc[c] \notin {"asleep", "issig2"}
    BY <1>0, <1>1 DEF RestPcs
  <2>3. CASE k # t
    BY <1>1, <1>2, <2>1, <2>2, <2>3 DEF SigOf
  <2>4. CASE k = t
    <3>1. CASE Interruptible(t)
      <4>1. lFlag'[t] = lFlag[t] \union {"L_SIGWOKE"} /\ pc'[t] = "asleep"
        BY <1>1, <1>3, <2>2, <2>4, <3>1
      <4> QED BY <1>3, <2>1, <2>4, <3>1, <4>1 DEF SigOf
    <3>2. CASE ~Interruptible(t)
      <4>1. lFlag'[t] = lFlag[t]
        BY <1>1, <3>2
      <4> QED BY <1>2, <1>4, <2>1, <2>2, <2>4, <4>1 DEF SigOf
    <3> QED BY <3>1, <3>2
  <2> QED BY <2>3, <2>4
<1>6. ASSUME NEW k \in Lwps, Interruptible(k)', Contains(svList', k), trapevf'[k]
      PROVE  \E d \in Ctxs : pc'[d] = "unsleep" /\ tgt'[d] = k
  <2>1. Interruptible(k) /\ Contains(svList, k)
    BY <1>0, <1>1, <1>6 DEF Interruptible
  <2>2. CASE k = t
    BY <1>1, <2>1, <2>2 DEF n
  <2>3. CASE k # t
    <3>1. PICK d \in Ctxs : pc[d] = "unsleep" /\ tgt[d] = k
      BY <1>1, <1>6, <2>1, <2>3 DEF SigInv, SleeperHearsSignals, At
    <3> QED BY <1>1, <3>1 DEF RestPcs
  <2> QED BY <2>2, <2>3
<1> QED BY <1>5, <1>6 DEF SigInv, SleeperHearsSignals, At
LEMMA SigWaiting ==
  ASSUME Types, WakeInv, SigInv, NEW l \in Lwps, Waiting(l)
  PROVE  SigInv'
<1>0. /\ l \in Ctxs /\ lMutex \in [Lwps -> Ctxs \union {Nobody}]
      /\ lStat \in [Lwps -> {"SONPROC", "SSLEEP", "SRUN"}]
      /\ lFlag \in [Lwps -> SUBSET {"L_NWAKE", "L_SIGWOKE"}] /\ trapevf \in [Lwps -> BOOLEAN]
      /\ op \in [Lwps -> {"wait", "wait_sig"}] /\ pc \in [Ctxs -> Pcs]
      /\ SigOf(l) /\ (lStat[l] = "SONPROC" <=> pc[l] # "asleep")
  BY DEF Ctxs, Types, LwpTypeOK, SigInv, WakeInv, Attended
<1>1. ASSUME NEW p, Goto(l, p), p # "asleep", pc[l] \notin {"asleep", "unsleep"},
             UNCHANGED <<lStat, lFlag, op, tgt>>,
             UNCHANGED trapevf \/ trapevf' = [trapevf EXCEPT ![l] = FALSE],
             \A k \in Lwps : k # l => (Contains(svList', k) => Contains(svList, k)),
             p \in {"count", "enq", "sleep"} /\ op[l] = "wait_sig" => ~trapevf[l],
             p = "count" => op[l] = "wait_sig", pc[l] # "issig2"
      PROVE  SigInv'
  <2>1. pc'[l] = p /\ (trapevf'[l] => trapevf[l]) /\ lStat'[l] = "SONPROC"
    BY <1>0, <1>1 DEF Goto
  <2>2. SigOf(l)'
    BY <1>0, <1>1, <2>1 DEF SigOf
  <2>3. \A k \in Lwps : k # l => /\ lFlag'[k] = lFlag[k] /\ trapevf'[k] = trapevf[k]
                                 /\ lStat'[k] = lStat[k] /\ op'[k] = op[k]
    BY <1>0, <1>1
  <2> QED BY <1>0, <1>1, <2>1, <2>2, <2>3, SigStep
<1>2. CASE Mutex(l)
  <2>1. /\ pc[l] = "mutex" /\ UNCHANGED <<svList, lStat, lFlag, op, tgt, trapevf>>
    BY <1>2 DEF Mutex, At, callVars
  <2>2. PICK p \in {"issig", "count", "enq"} :
          Goto(l, p) /\ (p # "issig" => ~SignalSeen(l))
                     /\ (p = "count" => op[l] = "wait_sig")
    BY <1>2 DEF Mutex
  <2> QED BY <1>0, <1>1, <2>1, <2>2 DEF SignalSeen
<1>3. CASE Count(l)
  <2>1. /\ pc[l] = "count" /\ UNCHANGED <<svList, lStat, lFlag, op, tgt, trapevf>>
    BY <1>3 DEF Count, At, callVars
  <2>2. PICK p \in {"sigtoproc", "enq"} : Goto(l, p)
    BY <1>3 DEF Count
  <2>3. ~trapevf[l]
    BY <1>0, <2>1 DEF SigOf
  <2> QED BY <1>0, <1>1, <2>1, <2>2, <2>3
<1>4. CASE SendWaiting(l)
  <2>1. pc[l] = "sigtoproc" /\ UNCHANGED <<svList, op>>
    BY <1>4 DEF SendWaiting, At, callVars
  <2>2. CASE WaitingPending(Proc[l])
    BY <1>0, <1>1, <1>4, <2>1, <2>2 DEF SendWaiting, lwpVars
  <2>3. CASE ~WaitingPending(Proc[l])
    <3>1. PICK t \in LwpsOf(Proc[l]) :
            /\ PostWaiting(t, l) /\ Target(l, t)
            /\ Goto(l, IF Interruptible(t) THEN "unsleep" ELSE "recheck")
      BY <1>4, <2>3 DEF SendWaiting
    <3>2. t \in Lwps /\ PostSignal(t, l)
      BY <3>1 DEF LwpsOf, PostWaiting
    <3> QED BY <1>0, <2>1, <3>1, <3>2, SigPost DEF RestPcs, HolderPcs
  <2> QED BY <2>2, <2>3
<1>5. CASE RecheckSignal(l)
  <2>1. pc[l] = "recheck" /\ UNCHANGED <<svList, lStat, lFlag, op, tgt, trapevf>>
    BY <1>5 DEF RecheckSignal, At, callVars, lwpVars, Return
  <2>2. PICK p \in {"issig", "idle"} : Goto(l, p)
    BY <1>5 DEF RecheckSignal, Return
  <2> QED BY <1>0, <1>1, <2>1, <2>2
<1>6. CASE IssigReturn(l)
  <2>1. /\ pc[l] \in {"issig", "issig2"} /\ UNCHANGED <<svList, lStat, op, tgt>>
        /\ trapevf' = [trapevf EXCEPT ![l] = FALSE]
        /\ lFlag' = [lFlag EXCEPT ![l] = IF pc[l] = "issig2" THEN @ \ {"L_SIGWOKE"} ELSE @]
    BY <1>6 DEF IssigReturn, TakeIssig, Issig, Return, callVars, At
  <2>2. PICK p \in {"unlock", "idle"} : Goto(l, p)
    BY <1>6 DEF IssigReturn, Return
  <2>3. /\ pc'[l] = p /\ trapevf'[l] = FALSE /\ lStat'[l] = "SONPROC"
        /\ "L_SIGWOKE" \notin lFlag'[l]
    BY <1>0, <2>1, <2>2 DEF Goto, SigOf
  <2>4. \A k \in Lwps : k # l => /\ lFlag'[k] = lFlag[k] /\ trapevf'[k] = trapevf[k]
                                 /\ lStat'[k] = lStat[k] /\ op'[k] = op[k]
                                 /\ Contains(svList', k) => Contains(svList, k)
    BY <1>0, <2>1
  <2>5. SigOf(l)'
    BY <2>2, <2>3 DEF SigOf
  <2> QED BY <1>0, <2>1, <2>2, <2>3, <2>4, <2>5, SigStep
<1>7. CASE IssigNone(l)
  <2>1. /\ pc[l] = "unlock" /\ UNCHANGED <<svList, lStat, lFlag, op, tgt, trapevf>>
        /\ Goto(l, "idle")
    BY <1>7 DEF IssigNone, At, Return
  <2> QED BY <1>0, <1>1, <2>1
<1>8. CASE Enqueue(l)
  <2>1. /\ pc[l] = "enq" /\ UNCHANGED <<lStat, lFlag, op, tgt, trapevf>>
        /\ Goto(l, "sleep") /\ svList' = Append(svList, l)
    BY <1>8 DEF Enqueue, At, callVars, lwpVars
  <2>2. \A k \in Lwps : k # l => (Contains(svList', k) => Contains(svList, k))
    BY <2>1, AppendQueue DEF WakeInv, Attended, Keeps
  <2>3. op[l] = "wait_sig" => ~trapevf[l]
    BY <1>0, <2>1 DEF SigOf
  <2> QED BY <1>0, <1>1, <2>1, <2>2, <2>3
<1>9. CASE Sleep(l)
  <2>1. /\ pc[l] = "sleep" /\ UNCHANGED <<svList, op, tgt, trapevf>> /\ Goto(l, "asleep")
        /\ lStat' = [lStat EXCEPT ![l] = "SSLEEP"]
        /\ lFlag' = [lFlag EXCEPT ![l] = IF op[l] = "wait" THEN @ \union {"L_NWAKE"}
                                         ELSE (@ \ {"L_NWAKE"}) \ {"L_SIGWOKE"}]
    BY <1>9 DEF Sleep, At, callVars, Block
  <2>2. op[l] = "wait_sig" => ~trapevf[l]
    BY <1>0, <2>1 DEF SigOf
  <2>3. pc'[l] = "asleep" /\ "L_SIGWOKE" \notin lFlag[l]
    BY <1>0, <2>1 DEF SigOf, Goto
  <2>4. \A k \in Lwps : k # l => /\ lFlag'[k] = lFlag[k] /\ trapevf'[k] = trapevf[k]
                                 /\ lStat'[k] = lStat[k] /\ op'[k] = op[k]
                                 /\ Contains(svList', k) => Contains(svList, k)
    BY <1>0, <2>1
  <2>5. SigOf(l)'
    BY <1>0, <2>1, <2>3 DEF SigOf
  <2>6. op[l] = "wait" \/ ~trapevf'[l]
    BY <1>0, <2>1, <2>2
  <2> QED BY <1>0, <2>1, <2>4, <2>5, <2>6, SigStep
<1>10. CASE WakeUp(l)
  <2>1. /\ pc[l] = "asleep" /\ UNCHANGED <<svList, lFlag, op, tgt, trapevf>>
        /\ lStat' = [lStat EXCEPT ![l] = "SONPROC"]
    BY <1>10 DEF WakeUp, At, callVars, Resume, Return
  <2>2. PICK p \in {"issig2", "idle"} :
          Goto(l, p) /\ (p = "idle" => ~(op[l] = "wait_sig" /\ "L_SIGWOKE" \in lFlag[l]))
    BY <1>10 DEF WakeUp, Return
  <2>3. pc'[l] = p /\ lStat'[l] = "SONPROC"
    BY <1>0, <2>1, <2>2 DEF Goto
  <2>4. \A k \in Lwps : k # l => /\ lFlag'[k] = lFlag[k] /\ trapevf'[k] = trapevf[k]
                                 /\ lStat'[k] = lStat[k] /\ op'[k] = op[k]
                                 /\ Contains(svList', k) => Contains(svList, k)
    BY <1>0, <2>1
  <2>5. SigOf(l)'
    BY <1>0, <2>1, <2>2, <2>3 DEF SigOf
  <2> QED BY <1>0, <2>1, <2>2, <2>3, <2>4, <2>5, SigStep
<1> QED BY <1>2, <1>3, <1>4, <1>5, <1>6, <1>7, <1>8, <1>9, <1>10 DEF Waiting

LEMMA SigOther ==
  ASSUME Types, WakeInv, SigInv, NEW c \in Ctxs,
         \/ WakeChain(c) \/ Unsleep(c) \/ sv_signal(c) \/ sv_broadcast(c)
         \/ (c \in Lwps /\ Call(c)) \/ \E t \in Lwps : Post(c, t)
  PROVE  SigInv'
<1>0. /\ lStat \in [Lwps -> {"SONPROC", "SSLEEP", "SRUN"}] /\ pc \in [Ctxs -> Pcs]
      /\ lFlag \in [Lwps -> SUBSET {"L_NWAKE", "L_SIGWOKE"}] /\ trapevf \in [Lwps -> BOOLEAN]
      /\ op \in [Lwps -> {"wait", "wait_sig"}] /\ Lwps \subseteq Ctxs
      /\ tgt \in [Ctxs -> Lwps \union {Nobody}]
      /\ svList \in Seq(Lwps) /\ IsInjective(svList)
      /\ \A l \in Lwps : SigOf(l) /\ (lStat[l] = "SONPROC" <=> pc[l] # "asleep")
  BY DEF Ctxs, Types, LwpTypeOK, SigInv, WakeInv, Attended, Keeps
<1>1. CASE WakeChain(c)
  <2>1. /\ pc[c] = "wake" /\ UNCHANGED <<svList, tgt, op, trapevf>>
        /\ lMutex[Head(chain[c])] = Nobody
        /\ lStat' = [lStat EXCEPT ![Head(chain[c])] = "SRUN"]
        /\ lFlag' = [lFlag EXCEPT ![Head(chain[c])] = @ \ {"L_SIGWOKE"}]
    BY <1>1 DEF WakeChain, Wakeup, MutexFree, At, callVars
  <2>2. PICK p \in {"idle", "wake"} : Goto(c, p)
    BY <1>1 DEF WakeChain
  <2>3. PICK w \in Lwps : w = Head(chain[c])
    BY <2>1, AttendedHead DEF WakeInv
  <2>4. /\ \A k \in Lwps : /\ lStat'[k] = IF k = w THEN "SRUN" ELSE lStat[k]
                           /\ lFlag'[k] = IF k = w THEN lFlag[k] \ {"L_SIGWOKE"} ELSE lFlag[k]
        /\ \A d \in Ctxs : pc'[d] = IF d = c THEN p ELSE pc[d]
    BY <1>0, <2>1, <2>2, <2>3 DEF Goto
  <2>5. \A k \in Lwps : SigOf(k)'
    BY <1>0, <2>1, <2>4 DEF SigOf
  <2>6. \A k \in Lwps : Interruptible(k)' => Interruptible(k)
    BY <2>4 DEF Interruptible
  <2>7. SleeperHearsSignals'
    BY <2>1, <2>4, <2>6 DEF SleeperHearsSignals, At, SigInv
  <2> QED BY <2>5, <2>7 DEF SigInv
<1>2. CASE Unsleep(c)
  <2>1. /\ pc[c] = "unsleep" /\ UNCHANGED <<op, trapevf, lFlag>>
        /\ tgt' = [tgt EXCEPT ![c] = Nobody] /\ svList' = slpdeque(svList, tgt[c])
        /\ lStat' = [lStat EXCEPT ![tgt[c]] = IF Contains(svList, tgt[c]) THEN "SRUN" ELSE @]
    BY <1>2 DEF Unsleep, FinishNudge, At, callVars
  <2>2. PICK p \in {"recheck", "idle"} : Goto(c, p)
    BY <1>2 DEF Unsleep
  <2>3. PICK t \in Lwps : t = tgt[c] /\ pc[t] = "asleep" /\ t # c
    BY <1>0, <2>1 DEF WakeInv, Attended
  <2>4. /\ \A d \in Ctxs : pc'[d] = IF d = c THEN p ELSE pc[d]
        /\ \A d \in Ctxs : d # c => tgt'[d] = tgt[d]
        /\ \A k \in Lwps : k # t => lStat'[k] = lStat[k]
    BY <1>0, <2>1, <2>2, <2>3 DEF Goto
  <2>5. \A k \in Lwps : SigOf(k)'
    BY <1>0, <2>1, <2>4 DEF SigOf
  <2>6. \A k \in Lwps : Contains(svList', k) => Contains(svList, k) /\ k # t
    BY <1>0, <2>1, <2>3, SlpdequeQueue
  <2>7. SleeperHearsSignals'
    <3>1. ASSUME NEW k \in Lwps, Interruptible(k)', Contains(svList', k), trapevf'[k]
          PROVE  \E d \in Ctxs : pc'[d] = "unsleep" /\ tgt'[d] = k
      <4>1. k # t /\ Interruptible(k) /\ Contains(svList, k) /\ trapevf[k]
        BY <2>1, <2>4, <2>6, <3>1 DEF Interruptible
      <4>2. PICK d \in Ctxs : pc[d] = "unsleep" /\ tgt[d] = k
        BY <4>1 DEF SigInv, SleeperHearsSignals, At
      <4> QED BY <2>3, <2>4, <4>1, <4>2
    <3> QED BY <3>1 DEF SleeperHearsSignals, At
  <2> QED BY <2>5, <2>7 DEF SigInv
<1>3. CASE sv_signal(c) \/ sv_broadcast(c)
  <2>1. /\ pc[c] = "idle" /\ Goto(c, "wake")
        /\ UNCHANGED <<op, trapevf, lFlag, lStat, tgt>>
        /\ \A k : Contains(svList', k) => Contains(svList, k)
    <3>1. /\ pc[c] = "idle" /\ Goto(c, "wake") /\ svList # <<>>
          /\ UNCHANGED <<op, trapevf, lFlag, lStat, tgt>>
          /\ svList' = Tail(svList) \/ svList' = <<>>
      BY <1>3 DEF sv_signal, sv_broadcast, At, callVars, lwpVars
    <3>2. CASE svList' = Tail(svList)
      BY <1>0, <3>1, <3>2, TakenParts
    <3>3. CASE svList' = <<>>
      BY <3>1, <3>3, EmptyQueue
    <3> QED BY <3>1, <3>2, <3>3
  <2>2. c \in Lwps => SigOf(c)' /\ lStat'[c] = "SONPROC"
    <3>1. pc'[c] = "wake"
      BY <1>0, <2>1 DEF Goto
    <3> QED BY <1>0, <2>1, <3>1 DEF SigOf
  <2> QED BY <2>1, <2>2, SigStep
<1>4. CASE c \in Lwps /\ Call(c)
  <2>1. /\ pc[c] = "idle" /\ Goto(c, "mutex")
        /\ UNCHANGED <<trapevf, lFlag, lStat, tgt, svList>>
        /\ \E o : op' = [op EXCEPT ![c] = o]
    BY <1>4 DEF Call, At, lwpVars
  <2>2. \A k \in Lwps : k # c => op'[k] = op[k]
    BY <1>0, <2>1
  <2>3. SigOf(c)' /\ lStat'[c] = "SONPROC"
    <3>1. pc'[c] = "mutex"
      BY <1>0, <2>1 DEF Goto
    <3> QED BY <1>0, <1>4, <2>1, <3>1 DEF SigOf
  <2> QED BY <2>1, <2>2, <2>3, SigStep
<1>5. ASSUME NEW t \in Lwps, Post(c, t) PROVE SigInv'
  <2>1. /\ pc[c] = "idle" /\ PostSignal(t, c) /\ Target(c, t) /\ UNCHANGED <<svList, op>>
        /\ Goto(c, IF Interruptible(t) THEN "unsleep" ELSE "idle")
    BY <1>5 DEF Post, At, callVars
  <2> QED BY <2>1, SigPost DEF RestPcs, HolderPcs
<1> QED BY <1>1, <1>2, <1>3, <1>4, <1>5
-----------------------------------------------------------------------------
(***************************************************************************)
(* The count of blocked LWPs.                                              *)
(***************************************************************************)
LEMMA CountMove ==
  ASSUME Types, CountInv, NEW c \in Ctxs, NEW p, Goto(c, p), UNCHANGED niblked,
         \A k \in Lwps : k # c => op'[k] = op[k],
         c \in Lwps => (c \in Counted <=> op'[c] = "wait_sig" /\ p \in {"enq", "sleep", "asleep"})
  PROVE  CountInv'
<1>1. \A k \in Lwps : pc'[k] = IF k = c THEN p ELSE pc[k]
  BY DEF Types, Goto, Ctxs
<1>2. Counted' = Counted
  BY <1>1 DEF Counted
<1> QED BY <1>2 DEF CountInv

LEMMA CountWaiting ==
  ASSUME Types, SigInv, CountInv, NEW l \in Lwps, Waiting(l)
  PROVE  CountInv'
<1>0. l \in Ctxs /\ Proc[l] \in Procs /\ pc \in [Ctxs -> Pcs]
  BY DEF Ctxs, Procs, Types
<1>1. CASE Mutex(l)
  <2>1. PICK p \in {"issig", "count", "enq"} :
          Goto(l, p) /\ (p = "enq" => op[l] # "wait_sig")
    BY <1>1 DEF Mutex
  <2> QED BY <1>0, <1>1, <2>1, CountMove DEF Mutex, At, Counted, callVars, procVars
<1>2. CASE Count(l)
  <2>1. CASE Goto(l, "sigtoproc") /\ UNCHANGED niblked
    BY <1>0, <1>2, <2>1, CountMove DEF Count, At, Counted, callVars
  <2>2. CASE CountBlocked(l, 1) /\ Goto(l, "enq")
    <3>1. niblked' = [niblked EXCEPT ![Proc[l]] = @ + 1] /\ pc[l] = "count" /\ UNCHANGED op
      BY <1>2, <2>2 DEF Count, At, CountBlocked, callVars
    <3>2. op[l] = "wait_sig"
      BY <3>1 DEF SigInv, SigOf
    <3>3. \A k \in Lwps : pc'[k] = IF k = l THEN "enq" ELSE pc[k]
      BY <1>0, <2>2 DEF Goto, Ctxs
    <3>4. Counted' = Counted \union {l} /\ l \notin Counted /\ Counted \subseteq Lwps
      BY <3>1, <3>2, <3>3 DEF Counted
    <3>5. CountsOf([niblked EXCEPT ![Proc[l]] = @ + 1], Proc, Procs, Counted \union {l})
      BY <1>0, <3>4, CountsMore DEF CountInv
    <3> QED BY <3>1, <3>4, <3>5 DEF CountInv
  <2> QED BY <1>2, <2>1, <2>2 DEF Count
<1>3. CASE SendWaiting(l)
  <2>1. PICK p \in {"recheck", "unsleep"} : Goto(l, p)
    BY <1>3 DEF SendWaiting
  <2> QED BY <1>0, <1>3, <2>1, CountMove DEF SendWaiting, At, Counted, callVars
<1>4. CASE RecheckSignal(l) \/ IssigReturn(l) \/ IssigNone(l)
  <2>1. /\ pc[l] \in {"recheck", "issig", "issig2", "unlock"} /\ UNCHANGED <<niblked, op>>
    BY <1>4 DEF RecheckSignal, IssigReturn, IssigNone, Return, At, callVars, procVars
  <2>2. PICK p \in {"issig", "idle", "unlock"} : Goto(l, p)
    BY <1>4 DEF RecheckSignal, IssigReturn, IssigNone, Return
  <2> QED BY <1>0, <2>1, <2>2, CountMove DEF Counted
<1>5. CASE Enqueue(l) \/ Sleep(l)
  <2>1. /\ pc[l] \in {"enq", "sleep"} /\ UNCHANGED <<niblked, op>>
    BY <1>5 DEF Enqueue, Sleep, At, callVars, procVars
  <2>2. PICK p \in {"sleep", "asleep"} : Goto(l, p)
    BY <1>5 DEF Enqueue, Sleep
  <2> QED BY <1>0, <2>1, <2>2, CountMove DEF Counted
<1>6. CASE WakeUp(l)
  <2>1. pc[l] = "asleep" /\ UNCHANGED op
    BY <1>6 DEF WakeUp, At, Return, callVars
  <2>2. PICK p \in {"issig2", "idle"} : Goto(l, p)
    BY <1>6 DEF WakeUp, Return
  <2>3. CASE op[l] = "wait_sig"
    <3>1. niblked' = [niblked EXCEPT ![Proc[l]] = @ + -1]
      BY <1>6, <2>3 DEF WakeUp, Uncount, CountAwake, CountBlocked
    <3>2. \A k \in Lwps : pc'[k] = IF k = l THEN p ELSE pc[k]
      BY <1>0, <2>2 DEF Goto, Ctxs
    <3>3. Counted' = Counted \ {l} /\ l \in Counted /\ Counted \subseteq Lwps
      BY <2>1, <2>3, <3>2 DEF Counted
    <3>4. CountsOf([niblked EXCEPT ![Proc[l]] = @ + -1], Proc, Procs, Counted \ {l})
      BY <1>0, <3>3, CountsLess DEF CountInv
    <3> QED BY <3>1, <3>3, <3>4 DEF CountInv
  <2>4. CASE op[l] # "wait_sig"
    <3>1. UNCHANGED niblked
      BY <1>6, <2>4 DEF WakeUp, Uncount
    <3> QED BY <1>0, <2>1, <2>2, <2>4, <3>1, CountMove DEF Counted
  <2> QED BY <2>3, <2>4
<1> QED BY <1>1, <1>2, <1>3, <1>4, <1>5, <1>6 DEF Waiting

LEMMA CountOther ==
  ASSUME Types, CountInv, NEW c \in Ctxs,
         \/ WakeChain(c) \/ Unsleep(c) \/ sv_signal(c) \/ sv_broadcast(c)
         \/ (c \in Lwps /\ Call(c)) \/ \E t \in Lwps : Post(c, t)
  PROVE  CountInv'
<1>1. /\ pc[c] \in {"wake", "unsleep", "idle"} /\ UNCHANGED niblked
      /\ \A k \in Lwps : k # c => op'[k] = op[k]
  BY DEF WakeChain, Unsleep, sv_signal, sv_broadcast, Call, Post, At, callVars, procVars, Types
<1>2. PICK p \in {"idle", "wake", "recheck", "mutex", "unsleep"} : Goto(c, p)
  BY DEF WakeChain, Unsleep, sv_signal, sv_broadcast, Call, Post
<1> QED BY <1>1, <1>2, CountMove DEF Counted

-----------------------------------------------------------------------------
(***************************************************************************)
(* The invariant.                                                          *)
(***************************************************************************)
LEMMA InvSame ==
  ASSUME Inv, UNCHANGED vars
  PROVE  Inv'
<1>1. UNCHANGED <<lMutex, lStat, lFlag, trapevf, niblked, waitsig, op, ret, svList, lkp, pc,
                  tgt, chain, sigs>>
  BY DEF vars, lwpVars, procVars, callVars
<1>2. Types' /\ WakeInv' /\ EntryInv' /\ CountInv'
  BY <1>1 DEF Inv, Types, LwpTypeOK, WakeInv, EntryInv, CountInv, Counted
<1>3. SigInv'
  BY <1>1 DEF Inv, SigInv, SigOf, SleeperHearsSignals, Interruptible, At
<1> QED BY <1>2, <1>3 DEF Inv

LEMMA InvStep ==
  ASSUME Inv, [Next]_vars
  PROVE  Inv'
<1>1. ASSUME NEW l \in Lwps, Waiting(l) PROVE Inv'
  BY <1>1, TypesWaiting, WakeWaiting, EntryWaiting, SigWaiting, CountWaiting DEF Inv
<1>2. ASSUME NEW c \in Ctxs,
             \/ WakeChain(c) \/ Unsleep(c) \/ sv_signal(c) \/ sv_broadcast(c)
             \/ (c \in Lwps /\ Call(c)) \/ \E t \in Lwps : Post(c, t)
      PROVE  Inv'
  BY <1>2, TypesOther, WakeOther, EntryOther, SigOther, CountOther DEF Inv
<1>3. CASE Next
  <2>1. ASSUME NEW l \in Lwps, Call(l) PROVE Inv'
    BY <1>2, <2>1 DEF Ctxs
  <2> QED BY <1>1, <1>2, <1>3, <2>1 DEF Next, Step, Choice
<1> QED BY <1>3, InvSame

(* Every LWP that sleeps on the variable, or is about to, is on its queue  *)
(* or in the chain of one waker, and never in two places; a poster holds   *)
(* the l_mutex of the sleeper it takes off the queue.                      *)
THEOREM Invariant == Spec => []Inv
  BY InvInit, InvStep, PTL DEF Spec

LEMMA CountedOfProc ==
  ASSUME NEW p
  PROVE  {m \in Counted : Proc[m] = p} =
         {l \in LwpsOf(p) : op[l] = "wait_sig" /\ pc[l] \in {"enq", "sleep", "asleep"}}
  BY DEF Counted, LwpsOf

(* The variables keep their types through every step: the queue and the    *)
(* chains hold LWPs only and p_niblked never is negative.                  *)
THEOREM TypeCorrect == Spec => []TypeOK
<1>1. Inv => TypeOK
  <2> SUFFICES ASSUME Inv PROVE TypeOK
    OBVIOUS
  <2>1. niblked \in [Procs -> Nat]
    <3>1. ASSUME NEW p \in Procs PROVE niblked[p] \in Nat
      <4>1. niblked[p] = Cardinality({m \in Counted : Proc[m] = p})
        BY DEF Inv, CountInv, CountsOf
      <4>2. IsFiniteSet({m \in Counted : Proc[m] = p})
        <5>1. {m \in Counted : Proc[m] = p} \subseteq Lwps
          BY DEF Counted
        <5> QED BY <5>1, LwpAssumption, FS_Subset
      <4> QED BY <4>1, <4>2, FS_CardinalityType
    <3> QED BY <3>1 DEF Inv, CountInv, CountsOf
  <2>2. svList \in Seq(Lwps) /\ chain \in [Ctxs -> Seq(Lwps)]
    BY DEF Inv, WakeInv, Attended, Keeps
  <2> QED BY <2>1, <2>2 DEF Inv, Types, TypeOK, Pcs
<1> QED BY <1>1, Invariant, PTL

(* p_niblked of every process is the number of its LWPs that block in      *)
(* sv_wait_sig or are about to, however their waits end.                   *)
THEOREM BlockedAreCounted == Spec => []NiblkedBalanced
<1>1. Inv => NiblkedBalanced
  BY CountedOfProc DEF Inv, CountInv, CountsOf, NiblkedBalanced
<1> QED BY <1>1, Invariant, PTL

(* No LWP sleeps interruptibly with a signal pending that nobody is about  *)
(* to wake it for.                                                         *)
THEOREM SignalsAreHeard == Spec => []SleeperHearsSignals
<1>1. Inv => SleeperHearsSignals
  BY DEF Inv, SigInv
<1> QED BY <1>1, Invariant, PTL
-----------------------------------------------------------------------------
(***************************************************************************)
(* A poster has marked whom it takes off the queue: a wakeup that would    *)
(* take the mark away needs the l_mutex that the poster keeps.             *)
(***************************************************************************)
Marked == \A c \in Ctxs : pc[c] = "unsleep" => "L_SIGWOKE" \in lFlag[tgt[c]]

LEMMA MarkKept ==
  ASSUME Inv, Marked, NEW c \in Ctxs, NEW p, p # "unsleep", Goto(c, p),
         UNCHANGED tgt \/ \E t : tgt' = [tgt EXCEPT ![c] = t],
         \A k \in Lwps : pc[k] = "asleep" /\ lMutex[k] # Nobody /\ "L_SIGWOKE" \in lFlag[k]
                         => "L_SIGWOKE" \in lFlag'[k]
  PROVE  Marked'
<1>1. \A d \in Ctxs : d # c => pc'[d] = pc[d] /\ tgt'[d] = tgt[d]
  BY DEF Inv, Types, Goto
<1>2. pc'[c] # "unsleep"
  BY DEF Inv, Types, Goto
<1>3. \A d \in Ctxs : pc[d] = "unsleep" =>
        tgt[d] \in Lwps /\ lMutex[tgt[d]] # Nobody /\ pc[tgt[d]] = "asleep"
  BY LwpAssumption DEF Inv, WakeInv, Attended, Ctxs
<1> QED BY <1>1, <1>2, <1>3 DEF Marked

LEMMA MarkPost ==
  ASSUME Inv, Marked, NEW c \in Ctxs, NEW t \in Lwps, NEW p, p # "unsleep",
         PostSignal(t, c), Target(c, t), Goto(c, IF Interruptible(t) THEN "unsleep" ELSE p)
  PROVE  Marked'
<1>1. /\ \A d \in Ctxs : d # c => pc'[d] = pc[d] /\ tgt'[d] = tgt[d]
      /\ pc'[c] = (IF Interruptible(t) THEN "unsleep" ELSE p)
      /\ Interruptible(t) => tgt'[c] = t
  BY DEF Inv, Types, Goto, Target
<1>2. /\ \A k \in Lwps : "L_SIGWOKE" \in lFlag[k] => "L_SIGWOKE" \in lFlag'[k]
      /\ Interruptible(t) => "L_SIGWOKE" \in lFlag'[t]
  BY DEF Inv, Types, LwpTypeOK, PostSignal
<1>3. \A d \in Ctxs : pc[d] = "unsleep" => tgt[d] \in Lwps
  BY DEF Inv, WakeInv, Attended
<1> QED BY <1>1, <1>2, <1>3 DEF Marked

LEMMA MarkStep ==
  ASSUME Inv, Marked, [Next]_vars
  PROVE  Marked'
<1>0. /\ lFlag \in [Lwps -> SUBSET {"L_NWAKE", "L_SIGWOKE"}] /\ Lwps \subseteq Ctxs
      /\ \A l \in Lwps : SigOf(l)
  BY DEF Inv, Types, LwpTypeOK, Ctxs, SigInv
<1>1. ASSUME NEW l \in Lwps, Waiting(l) PROVE Marked'
  <2>1. CASE SendWaiting(l)
    <3>1. CASE WaitingPending(Proc[l])
      <4>1. Goto(l, "recheck") /\ UNCHANGED <<lFlag, tgt>>
        BY <2>1, <3>1 DEF SendWaiting, lwpVars
      <4> QED BY <1>0, <4>1, MarkKept
    <3>2. CASE ~WaitingPending(Proc[l])
      <4>1. PICK t \in LwpsOf(Proc[l]) :
              /\ PostWaiting(t, l) /\ Target(l, t)
              /\ Goto(l, IF Interruptible(t) THEN "unsleep" ELSE "recheck")
        BY <2>1, <3>2 DEF SendWaiting
      <4> QED BY <1>0, <4>1, MarkPost DEF LwpsOf, PostWaiting
    <3> QED BY <3>1, <3>2
  <2>2. CASE ~SendWaiting(l)
    <3>1. PICK p \in Pcs \ {"unsleep"} : Goto(l, p)
      BY <1>1, <2>2 DEF Waiting, Mutex, Count, RecheckSignal, IssigReturn, IssigNone, Enqueue,
                        Sleep, WakeUp, Return, Pcs
    <3>2. UNCHANGED tgt
      BY <1>1, <2>2 DEF Waiting, Mutex, Count, RecheckSignal, IssigReturn, IssigNone, Enqueue,
                        Sleep, WakeUp
    <3>3. ASSUME NEW k \in Lwps, pc[k] = "asleep", "L_SIGWOKE" \in lFlag[k]
          PROVE  "L_SIGWOKE" \in lFlag'[k]
      <4>1. CASE Sleep(l)
        BY <1>0, <3>3, <4>1 DEF Sleep, Block, At
      <4>2. CASE IssigReturn(l)
        BY <1>0, <3>3, <4>2 DEF IssigReturn, At
      <4>3. CASE UNCHANGED lFlag
        BY <3>3, <4>3
      <4>4. Sleep(l) \/ IssigReturn(l) \/ UNCHANGED lFlag
        BY <1>1, <2>2 DEF Waiting, Mutex, Count, RecheckSignal, IssigNone, Enqueue, WakeUp,
                          Resume, lwpVars
      <4> QED BY <4>1, <4>2, <4>3, <4>4
    <3> QED BY <1>0, <3>1, <3>2, <3>3, MarkKept
  <2> QED BY <2>1, <2>2
<1>2. ASSUME NEW c \in Ctxs, WakeChain(c) PROVE Marked'
  <2>1. PICK p \in {"idle", "wake"} : Goto(c, p)
    BY <1>2 DEF WakeChain
  <2>2. /\ UNCHANGED tgt /\ lMutex[Head(chain[c])] = Nobody
        /\ lFlag' = [lFlag EXCEPT ![Head(chain[c])] = @ \ {"L_SIGWOKE"}]
    BY <1>2 DEF WakeChain, Wakeup, MutexFree
  <2> QED BY <1>0, <2>1, <2>2, MarkKept
<1>3. ASSUME NEW c \in Ctxs, Unsleep(c) PROVE Marked'
  <2>1. PICK p \in {"recheck", "idle"} : Goto(c, p)
    BY <1>3 DEF Unsleep
  <2>2. UNCHANGED lFlag /\ tgt' = [tgt EXCEPT ![c] = Nobody]
    BY <1>3 DEF Unsleep, FinishNudge
  <2> QED BY <2>1, <2>2, MarkKept
<1>4. ASSUME NEW c \in Ctxs, sv_signal(c) \/ sv_broadcast(c) \/ (c \in Lwps /\ Call(c))
      PROVE  Marked'
  <2>1. PICK p \in {"wake", "mutex"} : Goto(c, p)
    BY <1>4 DEF sv_signal, sv_broadcast, Call
  <2>2. UNCHANGED <<lFlag, tgt>>
    BY <1>4 DEF sv_signal, sv_broadcast, Call, lwpVars
  <2> QED BY <2>1, <2>2, MarkKept
<1>5. ASSUME NEW c \in Ctxs, NEW t \in Lwps, Post(c, t) PROVE Marked'
  BY <1>5, MarkPost DEF Post
<1>6. CASE Next
  BY <1>0, <1>1, <1>2, <1>3, <1>4, <1>5, <1>6 DEF Next, Step, Choice
<1>7. CASE UNCHANGED vars
  BY <1>7 DEF vars, lwpVars, Marked
<1> QED BY <1>6, <1>7
-----------------------------------------------------------------------------
(***************************************************************************)
(* Refinement.                                                             *)
(***************************************************************************)
Active == {l \in Lwps : pc[l] \notin {"idle", "wake"}}
Waiters == {l \in Lwps : Contains(svList, l)}
Woken == {l \in Lwps : Gone(l) /\ ~Interrupted(l)}

AbsStep == [A!Next]_(A!vars)

(* What a step of c means for the abstract variable: who is active, who is *)
(* a waiter and who is woken.                                              *)
LEMMA AbsActive ==
  ASSUME Inv, NEW c \in Ctxs, NEW p, Goto(c, p)
  PROVE  /\ \A k \in Lwps : pc'[k] = IF k = c THEN p ELSE pc[k]
         /\ c \in Lwps => Active' = IF p \in {"idle", "wake"} THEN Active \ {c}
                                                            ELSE Active \union {c}
         /\ c \notin Lwps => Active' = Active
<1>1. \A k \in Lwps : pc'[k] = IF k = c THEN p ELSE pc[k]
  BY DEF Inv, Types, Goto, Ctxs
<1> QED BY <1>1 DEF Active

LEMMA AbsSame ==
  ASSUME Inv, NEW c \in Ctxs, NEW p, Goto(c, p), UNCHANGED <<svList, chain>>,
         c \in Lwps => pc[c] \notin {"sleep", "asleep"} /\ p \notin {"sleep", "asleep"},
         \A k \in Lwps : k # c /\ Gone(k) /\ ~InChain(k) =>
           ("L_SIGWOKE" \in lFlag'[k] <=> "L_SIGWOKE" \in lFlag[k])
  PROVE  Waiters' = Waiters /\ Woken' = Woken
<1>1. \A k \in Lwps : pc'[k] = IF k = c THEN p ELSE pc[k]
  BY AbsActive
<1>2. \A k \in Lwps : /\ k = c => ~Gone(k) /\ ~Gone(k)'
                      /\ k # c => (Gone(k)' <=> Gone(k))
  BY <1>1 DEF Gone
<1>3. \A k \in Lwps : InChain(k)' <=> InChain(k)
  BY DEF InChain
<1>4. \A k \in Lwps : (Gone(k) /\ ~Interrupted(k))' <=> (Gone(k) /\ ~Interrupted(k))
  BY <1>2, <1>3 DEF Interrupted
<1> QED BY <1>4 DEF Waiters, Woken

(* Whoever is neither asleep nor about to sleep has no wakeup to take.     *)
LEMMA NotWoken ==
  ASSUME Inv, NEW l \in Lwps, pc[l] \notin {"sleep", "asleep"}
  PROVE  l \notin Woken /\ l \notin Waiters
<1>1. l \notin Drowsy(pc, lStat)
  BY DEF Inv, WakeInv, Attended, Drowsy
<1>2. ~Contains(svList, l)
  BY <1>1 DEF Inv, WakeInv, Attended, Keeps
<1> QED BY <1>2 DEF Woken, Waiters, Gone

(* A caller starts, gives up before it waits, or waits.                    *)
LEMMA AbsCall ==
  ASSUME Inv, NEW l \in Lwps, Call(l) \/ Mutex(l) \/ Count(l) \/ Enqueue(l)
  PROVE  AbsStep
<1>0. l \in Ctxs /\ (lkp = l <=> pc[l] \in EntryPcs)
  BY DEF Ctxs, Inv, EntryInv
<1>1. CASE Call(l)
  <2>1. /\ pc[l] = "idle" /\ Goto(l, "mutex") /\ lkp = Nobody /\ lkp' = l
        /\ UNCHANGED <<svList, chain, lFlag, ret>>
    BY <1>1 DEF Call, At, lwpVars
  <2>2. Waiters' = Waiters /\ Woken' = Woken /\ Active' = Active \union {l} /\ l \notin Active
    BY <1>0, <2>1, AbsActive, AbsSame DEF Active
  <2>3. A!Enter(l)
    BY <2>1, <2>2 DEF A!Enter, Active, Waiters, Woken
  <2> QED BY <2>3 DEF AbsStep, A!Next
<1>2. CASE Mutex(l) \/ Count(l)
  <2>1. /\ pc[l] \in {"mutex", "count"} /\ UNCHANGED <<svList, chain, lFlag, ret>>
        /\ lkp' \in {lkp, Nobody}
    BY <1>2 DEF Mutex, Count, At, callVars
  <2>2. PICK p \in {"issig", "count", "enq", "sigtoproc"} : Goto(l, p)
    BY <1>2 DEF Mutex, Count
  <2>3. Waiters' = Waiters /\ Woken' = Woken /\ Active' = Active
    BY <1>0, <2>1, <2>2, AbsActive, AbsSame DEF Active
  <2>4. lkp = l
    BY <1>0, <2>1 DEF EntryPcs
  <2>5. A!Leave(l) \/ UNCHANGED <<lkp, Active, Waiters, Woken, ret>>
    BY <2>1, <2>3, <2>4 DEF A!Leave, Active, Waiters, Woken
  <2> QED BY <2>5 DEF AbsStep, A!Next, A!vars, Active, Waiters, Woken
<1>3. CASE Enqueue(l)
  <2>1. /\ pc[l] = "enq" /\ Goto(l, "sleep") /\ svList' = Append(svList, l)
        /\ UNCHANGED <<chain, lFlag, ret, lkp>>
    BY <1>3 DEF Enqueue, At, callVars, lwpVars
  <2>2. \A k \in Lwps : Contains(svList', k) <=> Contains(svList, k) \/ k = l
    BY <2>1, AppendQueue DEF Inv, WakeInv, Attended, Keeps
  <2>3. \A k \in Lwps : pc'[k] = IF k = l THEN "sleep" ELSE pc[k]
    BY <1>0, <2>1, AbsActive
  <2>4. Active' = Active /\ Waiters' = Waiters \union {l}
    BY <1>0, <2>1, <2>2, AbsActive DEF Active, Waiters
  <2>5. l \notin Woken /\ l \notin Waiters
    BY <2>1, NotWoken
  <2>6. \A k \in Lwps : (Gone(k)' <=> Gone(k)) /\ (InChain(k)' <=> InChain(k))
    BY <2>1, <2>2, <2>3 DEF Gone, InChain
  <2>7. Woken' = Woken
    BY <2>1, <2>6 DEF Woken, Interrupted
  <2>8. lkp = l
    BY <1>0, <2>1 DEF EntryPcs
  <2>9. A!Wait(l)
    BY <2>1, <2>4, <2>5, <2>7, <2>8 DEF A!Wait, Active, Waiters, Woken
  <2> QED BY <2>9 DEF AbsStep, A!Next
<1> QED BY <1>1, <1>2, <1>3

(* It sleeps, and its entry lock is free.                                  *)
LEMMA AbsSleep ==
  ASSUME Inv, NEW l \in Lwps, Sleep(l)
  PROVE  AbsStep
<1>1. /\ l \in Ctxs /\ pc[l] = "sleep" /\ Goto(l, "asleep") /\ lkp' = Nobody
      /\ UNCHANGED <<svList, chain, ret>>
      /\ \A k \in Lwps : k # l => lFlag'[k] = lFlag[k]
  BY DEF Ctxs, Sleep, Block, At, callVars, Inv, Types, LwpTypeOK
<1>2. l \in Drowsy(pc, lStat) /\ (lkp = l)
  BY <1>1 DEF Drowsy, Inv, EntryInv, EntryPcs
<1>3. ~Contains(svList, l) => InChain(l)
  BY <1>2 DEF Inv, WakeInv, Attended, Keeps, InChain
<1>4. \A k \in Lwps : pc'[k] = IF k = l THEN "asleep" ELSE pc[k]
  BY <1>1, AbsActive
<1>5. \A k \in Lwps : (Gone(k)' <=> Gone(k)) /\ (InChain(k)' <=> InChain(k))
  BY <1>1, <1>4 DEF Gone, InChain
<1>6. Active' = Active /\ Waiters' = Waiters
  BY <1>1, <1>4 DEF Active, Waiters
<1>7. \A k \in Lwps : (Gone(k) /\ ~Interrupted(k))' <=> (Gone(k) /\ ~Interrupted(k))
  BY <1>1, <1>3, <1>5 DEF Interrupted, Gone
<1>8. Woken' = Woken
  BY <1>7 DEF Woken
<1>9. A!Leave(l)
  BY <1>1, <1>2, <1>6, <1>8 DEF A!Leave, Active, Waiters, Woken
<1> QED BY <1>9 DEF AbsStep, A!Next

(* A call that does not wait any more goes on, or returns.                 *)
LEMMA AbsReturn ==
  ASSUME Inv, NEW l \in Lwps, RecheckSignal(l) \/ IssigReturn(l) \/ IssigNone(l)
  PROVE  AbsStep
<1>1. /\ l \in Ctxs /\ pc[l] \in {"recheck", "issig", "issig2", "unlock"}
      /\ UNCHANGED <<svList, chain, lkp>>
      /\ \A k \in Lwps : k # l => lFlag'[k] = lFlag[k]
  BY DEF Ctxs, RecheckSignal, IssigReturn, IssigNone, At, lwpVars, Inv, Types, LwpTypeOK
<1>2. \/ \E p \in {"issig", "unlock"} : Goto(l, p) /\ UNCHANGED ret
      \/ \E r \in BOOLEAN : Return(l, r)
  BY DEF RecheckSignal, IssigReturn, IssigNone, callVars
<1>3. lkp # l /\ l \in Active /\ l \notin Woken /\ l \notin Waiters
  BY <1>1, NotWoken DEF Inv, EntryInv, EntryPcs, Active
<1>4. CASE \E p \in {"issig", "unlock"} : Goto(l, p) /\ UNCHANGED ret
  <2>1. Active' = Active /\ Waiters' = Waiters /\ Woken' = Woken
    BY <1>1, <1>3, <1>4, AbsActive, AbsSame
  <2> QED BY <1>1, <1>4, <2>1 DEF AbsStep, A!vars, Active, Waiters, Woken
<1>5. ASSUME NEW r \in BOOLEAN, Return(l, r) PROVE AbsStep
  <2>1. Goto(l, "idle") /\ ret' = [ret EXCEPT ![l] = r]
    BY <1>5 DEF Return
  <2>2. Active' = Active \ {l} /\ Waiters' = Waiters /\ Woken' = Woken
    BY <1>1, <2>1, AbsActive, AbsSame
  <2>3. A!Return(l, r)
    BY <1>1, <1>3, <2>1, <2>2 DEF A!Return, Active, Waiters, Woken
  <2> QED BY <2>3 DEF AbsStep, A!Next
<1> QED BY <1>2, <1>4, <1>5

(* swtch() returns: in an LWP that was woken, or interrupted.              *)
LEMMA AbsWakeUp ==
  ASSUME Inv, NEW l \in Lwps, WakeUp(l)
  PROVE  AbsStep
<1>1. /\ l \in Ctxs /\ pc[l] = "asleep" /\ lStat[l] = "SRUN"
      /\ UNCHANGED <<svList, chain, lkp, lFlag>>
  BY DEF Ctxs, WakeUp, Resume, At
<1>2. ~Contains(svList, l) /\ ~InChain(l) /\ lkp # l /\ l \in Active /\ l \notin Waiters
  <2>1. l \notin Drowsy(pc, lStat)
    BY <1>1 DEF Drowsy
  <2>2. ~Contains(svList, l) /\ \A c \in Ctxs : ~Contains(chain[c], l)
    BY <2>1 DEF Inv, WakeInv, Attended, Keeps
  <2> QED BY <1>1, <2>2 DEF InChain, Inv, EntryInv, EntryPcs, Active, Waiters
<1>3. l \in Woken <=> "L_SIGWOKE" \notin lFlag[l]
  BY <1>1, <1>2 DEF Woken, Gone, Interrupted
<1>4. ASSUME NEW p \in {"issig2", "idle"}, Goto(l, p)
      PROVE  /\ Waiters' = Waiters /\ Woken' = Woken \ {l}
             /\ Active' = IF p = "idle" THEN Active \ {l} ELSE Active
  <2>1. \A k \in Lwps : pc'[k] = IF k = l THEN p ELSE pc[k]
    BY <1>1, <1>4, AbsActive
  <2>2. \A k \in Lwps : (InChain(k)' <=> InChain(k)) /\ (k # l => (Gone(k)' <=> Gone(k)))
    BY <1>1, <2>1 DEF InChain, Gone
  <2>3. ~Gone(l)'
    BY <2>1 DEF Gone
  <2>4. Woken' = Woken \ {l}
    BY <1>1, <2>2, <2>3 DEF Woken, Interrupted
  <2> QED BY <1>1, <1>2, <1>4, <2>4, AbsActive DEF Waiters
<1>5. CASE op[l] = "wait_sig" /\ "L_SIGWOKE" \in lFlag[l]
  <2>1. Goto(l, "issig2") /\ UNCHANGED ret
    BY <1>5 DEF WakeUp, callVars
  <2>2. UNCHANGED <<lkp, Active, Waiters, Woken, ret>>
    BY <1>1, <1>3, <1>4, <1>5, <2>1
  <2> QED BY <2>2 DEF AbsStep, A!vars, Active, Waiters, Woken
<1>6. CASE ~(op[l] = "wait_sig" /\ "L_SIGWOKE" \in lFlag[l])
  <2>1. Goto(l, "idle") /\ ret' = [ret EXCEPT ![l] = TRUE]
    BY <1>6 DEF WakeUp, Return
  <2>2. Active' = Active \ {l} /\ Waiters' = Waiters /\ Woken' = Woken \ {l}
    BY <1>4, <2>1
  <2>3. A!Return(l, TRUE)
    BY <1>1, <1>2, <2>1, <2>2 DEF A!Return, Active, Waiters, Woken
  <2> QED BY <2>3 DEF AbsStep, A!Next
<1> QED BY <1>5, <1>6
(* A signaller takes the front of the queue, a, and leaves b.              *)
LEMMA AbsTaken ==
  ASSUME Inv, NEW c \in Ctxs, NEW a, pc[c] = "idle", Goto(c, "wake"),
         UNCHANGED <<lkp, ret, lFlag>>, chain' = [chain EXCEPT ![c] = a],
         NEW h \in Lwps, Contains(a, h),
         \A m : Contains(svList, m) <=> (Contains(a, m) \/ Contains(svList', m)),
         \A m : ~(Contains(a, m) /\ Contains(svList', m))
  PROVE  AbsStep
<1> DEFINE S == {l \in Lwps : Contains(a, l)}
<1>1. /\ chain \in [Ctxs -> Seq(Lwps)] /\ chain[c] = <<>>
      /\ \A l \in Lwps : Contains(svList, l) =>
           l \in Drowsy(pc, lStat) /\ \A d \in Ctxs : ~Contains(chain[d], l)
      /\ \A l \in Lwps : lStat[l] = "SONPROC" <=> pc[l] # "asleep"
  BY DEF Inv, WakeInv, Attended, Keeps
<1>2. \A k \in Lwps : pc'[k] = IF k = c THEN "wake" ELSE pc[k]
  BY AbsActive
<1>3. Active' = Active /\ Waiters' = Waiters \ S /\ S \subseteq Waiters /\ h \in S
  BY <1>2 DEF Active, Waiters
<1>4. \A k \in Lwps : InChain(k)' <=> (InChain(k) \/ k \in S)
  <2>1. \A d \in Ctxs : chain'[d] = IF d = c THEN a ELSE chain[d]
    BY <1>1
  <2>2. \A m : ~Contains(chain[c], m)
    BY <1>1, EmptyQueue
  <2> QED BY <2>1, <2>2 DEF InChain
<1>5. \A k \in Lwps : Gone(k)' <=> (Gone(k) \/ k \in S)
  BY <1>1, <1>2 DEF Gone, Drowsy
<1>6. \A k \in Lwps : k \in S => ~Gone(k)
  BY DEF Gone
<1>7. Woken' = Woken \union S
  BY <1>4, <1>5, <1>6 DEF Woken, Interrupted
<1> HIDE DEF S
<1>8. A!Wakeup(S)
  BY <1>3, <1>7 DEF A!Wakeup, Active, Waiters, Woken
<1>9. S \in SUBSET {l \in Lwps : Contains(svList, l)}
  BY <1>3 DEF Waiters
<1> QED BY <1>8, <1>9 DEF AbsStep, A!Next

LEMMA AbsSignal ==
  ASSUME Inv, NEW c \in Ctxs, sv_signal(c) \/ sv_broadcast(c)
  PROVE  AbsStep
<1>1. /\ pc[c] = "idle" /\ Goto(c, "wake") /\ UNCHANGED <<lkp, ret, lFlag>> /\ svList # <<>>
      /\ svList \in Seq(Lwps) /\ IsInjective(svList)
  BY DEF sv_signal, sv_broadcast, At, callVars, lwpVars, Inv, WakeInv, Attended, Keeps
<1>2. PICK h \in Lwps : h = Head(svList) /\ Contains(svList, h)
  BY <1>1, TailQueue
<1>3. CASE sv_signal(c)
  <2>1. chain' = [chain EXCEPT ![c] = <<h>>] /\ svList' = Tail(svList)
    BY <1>2, <1>3 DEF sv_signal
  <2> QED BY <1>1, <1>2, <2>1, TakenParts, AbsTaken
<1>4. CASE sv_broadcast(c)
  <2>1. chain' = [chain EXCEPT ![c] = svList] /\ svList' = <<>>
    BY <1>4 DEF sv_broadcast
  <2>2. \A m : ~Contains(svList', m)
    BY <2>1, EmptyQueue
  <2> QED BY <1>1, <1>2, <2>1, <2>2, AbsTaken
<1> QED BY <1>3, <1>4

(* To wake the LWPs of a chain, and to post a signal, changes nothing for  *)
(* the abstract variable.                                                  *)
LEMMA AbsWakeChain ==
  ASSUME Inv, NEW c \in Ctxs, WakeChain(c)
  PROVE  AbsStep
<1>1. /\ pc[c] = "wake" /\ lMutex[Head(chain[c])] = Nobody /\ UNCHANGED <<lkp, ret, svList>>
      /\ lFlag' = [lFlag EXCEPT ![Head(chain[c])] = @ \ {"L_SIGWOKE"}]
      /\ chain' = [chain EXCEPT ![c] = Tail(chain[c])]
  BY DEF WakeChain, Wakeup, MutexFree, At, RestOfChain, callVars
<1>2. PICK p \in {"idle", "wake"} : Goto(c, p)
  BY DEF WakeChain
<1>3. PICK w \in Lwps : /\ w = Head(chain[c]) /\ Contains(chain[c], w) /\ pc[w] = "asleep"
                        /\ \A k \in Lwps : k # w =>
                             (Contains(Tail(chain[c]), k) <=> Contains(chain[c], k))
  <2>1. /\ Head(chain[c]) \in Lwps /\ Contains(chain[c], Head(chain[c]))
        /\ pc[Head(chain[c])] = "asleep"
        /\ \A k \in Lwps : k # Head(chain[c]) =>
             (Contains(Tail(chain[c]), k) <=> Contains(chain[c], k))
    BY <1>1, AttendedHead DEF Inv, WakeInv
  <2> QED BY <2>1
<1>4. \A k \in Lwps : pc'[k] = IF k = c THEN p ELSE pc[k]
  BY <1>2, AbsActive
<1>5. /\ lFlag \in [Lwps -> SUBSET {"L_NWAKE", "L_SIGWOKE"}]
      /\ chain \in [Ctxs -> Seq(Lwps)]
  BY DEF Inv, Types, LwpTypeOK, WakeInv, Attended, Keeps
<1>6. Active' = Active /\ Waiters' = Waiters
  BY <1>1, <1>4 DEF Active, Waiters
<1>7. /\ \A k \in Lwps : Gone(k)' <=> Gone(k)
      /\ \A k \in Lwps : k # w => lFlag'[k] = lFlag[k] /\ (InChain(k)' <=> InChain(k))
      /\ InChain(w) /\ "L_SIGWOKE" \notin lFlag'[w]
  <2>1. \A k \in Lwps : Gone(k)' <=> Gone(k)
    BY <1>1, <1>4 DEF Gone
  <2>2. \A k \in Lwps : k # w => lFlag'[k] = lFlag[k] /\ (InChain(k)' <=> InChain(k))
    BY <1>1, <1>3, <1>5 DEF InChain
  <2>3. InChain(w) /\ "L_SIGWOKE" \notin lFlag'[w]
    BY <1>1, <1>3, <1>5 DEF InChain
  <2> QED BY <2>1, <2>2, <2>3
<1>8. \A k \in Lwps : (Gone(k) /\ ~Interrupted(k))' <=> (Gone(k) /\ ~Interrupted(k))
  BY <1>7 DEF Interrupted
<1>9. Woken' = Woken
  BY <1>8 DEF Woken
<1> QED BY <1>1, <1>6, <1>9 DEF AbsStep, A!vars, Active, Waiters, Woken

LEMMA AbsPost ==
  ASSUME Inv, NEW c \in Ctxs, NEW p, Goto(c, p), UNCHANGED <<lkp, ret, svList, chain>>,
         c \in Lwps => pc[c] = "sigtoproc" /\ p \in {"recheck", "unsleep"},
         UNCHANGED lFlag \/ \E t \in Lwps : PostSignal(t, c)
  PROVE  AbsStep
<1>1. \A k \in Lwps : Gone(k) /\ ~InChain(k) =>
        ("L_SIGWOKE" \in lFlag'[k] <=> "L_SIGWOKE" \in lFlag[k])
  <2>1. CASE UNCHANGED lFlag
    BY <2>1
  <2>2. ASSUME NEW t \in Lwps, PostSignal(t, c),
               NEW k \in Lwps, Gone(k), ~InChain(k)
        PROVE  "L_SIGWOKE" \in lFlag'[k] <=> "L_SIGWOKE" \in lFlag[k]
    <3>1. k \notin Drowsy(pc, lStat)
      BY <2>2 DEF Inv, WakeInv, Attended, Keeps, Gone, InChain
    <3>2. ~Interruptible(k)
      BY <3>1 DEF Drowsy, Interruptible
    <3> QED BY <2>2, <3>2 DEF PostSignal, Inv, Types, LwpTypeOK
  <2> QED BY <2>1, <2>2
<1>2. Waiters' = Waiters /\ Woken' = Woken
  BY <1>1, AbsSame
<1>3. Active' = Active
  BY AbsActive DEF Active
<1> QED BY <1>2, <1>3 DEF AbsStep, A!vars, Active, Waiters, Woken

LEMMA AbsPosts ==
  ASSUME Inv, NEW c \in Ctxs,
         (c \in Lwps /\ SendWaiting(c)) \/ \E t \in Lwps : Post(c, t)
  PROVE  AbsStep
<1>1. ASSUME c \in Lwps, SendWaiting(c) PROVE AbsStep
  <2>1. pc[c] = "sigtoproc" /\ UNCHANGED <<lkp, ret, svList, chain>>
    BY <1>1 DEF SendWaiting, At, callVars
  <2>2. \E p \in {"recheck", "unsleep"} : Goto(c, p)
    BY <1>1 DEF SendWaiting
  <2>3. UNCHANGED lFlag \/ \E t \in Lwps : PostSignal(t, c)
    BY <1>1 DEF SendWaiting, lwpVars, PostWaiting, LwpsOf
  <2> QED BY <2>1, <2>2, <2>3, AbsPost
<1>2. ASSUME NEW t \in Lwps, Post(c, t) PROVE AbsStep
  <2>1. c \notin Lwps /\ UNCHANGED <<lkp, ret, svList, chain>> /\ PostSignal(t, c)
    BY <1>2, LwpAssumption DEF Post, callVars
  <2>2. \E p : Goto(c, p)
    BY <1>2 DEF Post
  <2> QED BY <2>1, <2>2, AbsPost
<1> QED BY <1>1, <1>2

(* A poster takes a waiter off the queue, or finds it gone.                *)
LEMMA AbsUnsleep ==
  ASSUME Inv, Marked, NEW c \in Ctxs, Unsleep(c)
  PROVE  AbsStep
<1>1. /\ pc[c] = "unsleep" /\ UNCHANGED <<lkp, ret, chain, lFlag>>
      /\ svList' = slpdeque(svList, tgt[c])
  BY DEF Unsleep, FinishNudge, At, callVars
<1>2. PICK p \in {"recheck", "idle"} : Goto(c, p) /\ (c \in Lwps => p = "recheck")
  BY DEF Unsleep
<1>3. PICK t \in Lwps : /\ t = tgt[c] /\ pc[t] = "asleep" /\ t # c
                        /\ "L_SIGWOKE" \in lFlag[t]
  BY <1>1 DEF Inv, WakeInv, Attended, Marked
<1>4. /\ svList \in Seq(Lwps) /\ IsInjective(svList)
      /\ Contains(svList, t) => ~InChain(t)
  BY DEF Inv, WakeInv, Attended, Keeps, InChain
<1>5. Active' = Active
  BY <1>1, <1>2, AbsActive DEF Active
<1>6. \A k \in Lwps : pc'[k] = IF k = c THEN p ELSE pc[k]
  BY <1>2, AbsActive
<1>7. \A k : Contains(svList', k) <=> Contains(svList, k) /\ k # t
  BY <1>1, <1>3, <1>4, SlpdequeQueue
<1>8. /\ Waiters' = Waiters \ {t} /\ (t \in Waiters <=> Contains(svList, t))
      /\ \A k \in Lwps : k # t => (Gone(k)' <=> Gone(k))
      /\ \A k \in Lwps : InChain(k)' <=> InChain(k)
  BY <1>1, <1>6, <1>7 DEF Waiters, Gone, InChain
<1>9. (Gone(t) /\ ~Interrupted(t))' <=> (Gone(t) /\ ~Interrupted(t))
  <2>1. CASE Contains(svList, t)
    BY <1>1, <1>3, <1>4, <1>8, <2>1 DEF Interrupted, Gone
  <2>2. CASE ~Contains(svList, t)
    BY <1>1, <1>3, <1>6, <1>7, <1>8, <2>2 DEF Interrupted, Gone
  <2> QED BY <2>1, <2>2
<1>10. Woken' = Woken
  BY <1>1, <1>8, <1>9 DEF Woken, Interrupted
<1>11. A!Interrupt(t) \/ UNCHANGED <<lkp, Active, Waiters, Woken, ret>>
  BY <1>1, <1>5, <1>8, <1>10 DEF A!Interrupt, Active, Waiters, Woken
<1> QED BY <1>11 DEF AbsStep, A!Next, A!vars, Active, Waiters, Woken

(* sv.c is a synchronization variable: a call ends once, a caller that     *)
(* still has its entry lock becomes a waiter or gives up, and a wakeup     *)
(* that a signaller gave to a waiter is never consumed by a call that      *)
(* fails, however signals interrupt it.                                    *)
THEOREM Refinement == Spec => A!Spec
<1>1. Init => A!Init /\ Marked
  <2> SUFFICES ASSUME Init PROVE A!Init /\ Marked
    OBVIOUS
  <2>1. (\A c \in Ctxs : pc[c] = "idle") /\ \A l \in Lwps : l \in Ctxs
    BY DEF Init, Ctxs
  <2>2. \A m : ~Contains(svList, m)
    BY EmptyQueue DEF Init
  <2>3. Active = {} /\ Waiters = {} /\ Woken = {}
    BY <2>1, <2>2 DEF Active, Waiters, Woken, Gone
  <2> QED BY <2>1, <2>3 DEF A!Init, Active, Waiters, Woken, Init, Marked
<1>2. Inv /\ Marked /\ [Next]_vars => AbsStep
  <2> SUFFICES ASSUME Inv, Marked, [Next]_vars PROVE AbsStep
    OBVIOUS
  <2>1. CASE UNCHANGED vars
    <3>1. UNCHANGED <<pc, svList, chain, lFlag, lkp, ret>>
      BY <2>1 DEF vars, lwpVars, callVars
    <3> QED BY <3>1 DEF AbsStep, A!vars, Gone, Interrupted, InChain
  <2>2. CASE Next
    <3>1. \A l \in Lwps : Waiting(l) => AbsStep
      BY AbsCall, AbsSleep, AbsReturn, AbsWakeUp, AbsPosts DEF Waiting, Ctxs
    <3> QED BY <2>2, <3>1, AbsCall, AbsSignal, AbsWakeChain, AbsPosts, AbsUnsleep
            DEF Next, Step, Choice
  <2> QED BY <2>1, <2>2
<1>3. Inv /\ Marked /\ [Next]_vars => Marked'
  BY MarkStep
<1> QED BY <1>1, <1>2, <1>3, Invariant, PTL DEF Spec, A!Spec, AbsStep
=============================================================================
