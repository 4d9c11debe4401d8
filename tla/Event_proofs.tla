---------------------------- MODULE Event_proofs ----------------------------
(***************************************************************************)
(* Theorems about Event, for any set of LWPs and of other contexts, any    *)
(* processes and any number of signals: types, ev_state and the sleep      *)
(* queue, the count of blocked LWPs, that no sleeper misses a signal, and  *)
(* that Event implements the abstract event as far as safety goes.         *)
(***************************************************************************)
EXTENDS Event, SleepQueue_proofs

(***************************************************************************)
(* The count of an event and its sleep queue.                              *)
(***************************************************************************)
(* A queue of LWPs, and ev_state in step with it.                          *)
CountInv == evList \in Seq(Lwps) /\ evState \in Int /\ StateCountsBlocked

(* Minus zero is zero.                                                     *)
LEMMA MinusZero == 0 \in Int /\ \A k \in Int : k = 0 => 0 = -k
  OBVIOUS

(* With nobody queued, the event is posted or it is not.                   *)
LEMMA CountEmpty ==
  ASSUME NEW q, NEW n, q = <<>>, n \in {0, 1}
  PROVE  /\ q \in Seq(Lwps) /\ n \in Int
         /\ IF n = 1 THEN q = <<>> ELSE n = -Len(q)
<1>1. q \in Seq(Lwps) /\ Len(q) = 0
  BY EmptySeq, Zenon
<1>2. CASE n = 1
  BY <1>1, <1>2
<1>3. CASE n = 0
  BY <1>1, <1>3, MinusZero, Zenon
<1> QED BY <1>2, <1>3

(* A new event is neither posted nor waited for.                           *)
LEMMA CountInit == Init => CountInv
<1>1. Init => evList = <<>> /\ evState \in {0, 1}
  BY DEF Init
<1> QED BY <1>1, CountEmpty DEF CountInv, StateCountsBlocked

(* --ev_state: the event was posted, or there is one LWP more.             *)
LEMMA CountGo ==
  ASSUME CountInv, NEW l \in Lwps, Go(l)
  PROVE  CountInv'
<1>1. evState' = evState - 1
  BY DEF Go
<1>2. CASE evState = 1
  <2>1. evState' = 0 /\ evList = <<>>
    BY <1>1, <1>2 DEF CountInv, StateCountsBlocked
  <2>2. evList' = <<>>
    BY <2>1 DEF Go
  <2> QED BY <2>1, <2>2, CountEmpty DEF CountInv, StateCountsBlocked
<1>3. CASE evState # 1
  <2>1. evState = -Len(evList) /\ Len(evList) \in Nat /\ evList \in Seq(Lwps)
    BY <1>3, LenProperties DEF CountInv, StateCountsBlocked
  <2>2. evState' # 0 /\ evState' # 1 /\ evState' \in Int
    BY <1>1, <2>1
  <2>3. evList' = Append(evList, l)
    BY <2>2 DEF Go
  <2>4. evList' \in Seq(Lwps) /\ Len(evList') = Len(evList) + 1
    BY <2>1, <2>3, AppendProperties
  <2>5. evState' = -Len(evList')
    BY <1>1, <2>1, <2>4
  <2> QED BY <2>2, <2>4, <2>5 DEF CountInv, StateCountsBlocked
<1> QED BY <1>2, <1>3

(* A posted event is consumed once, from a queue that is empty.            *)
LEMMA CountConsume ==
  ASSUME CountInv, NEW l \in Lwps, Consume(l)
  PROVE  CountInv'
<1>1. CASE evState = 1
  <2>1. evState' = 0 /\ evList' = <<>>
    BY <1>1 DEF Consume, CountInv, StateCountsBlocked
  <2> QED BY <2>1, CountEmpty DEF CountInv, StateCountsBlocked
<1>2. CASE evState # 1
  BY <1>2 DEF Consume, CountInv, StateCountsBlocked
<1> QED BY <1>1, <1>2

(* An event goes to the head of the queue, to all of it, or is posted.     *)
LEMMA CountSignal ==
  ASSUME CountInv, NEW c \in Ctxs, EVENT_SIGNAL(c) \/ EVENT_BROADCAST(c)
  PROVE  CountInv'
<1>1. /\ evState = -Len(evList) /\ Len(evList) \in Nat /\ evList \in Seq(Lwps)
      /\ evState # 1
  BY LenProperties DEF EVENT_SIGNAL, EVENT_BROADCAST, CountInv, StateCountsBlocked
<1>2. CASE evState = 0
  <2>1. evState' = 1 /\ evList' = evList
    BY <1>2 DEF EVENT_SIGNAL, EVENT_BROADCAST
  <2>2. evList = <<>>
    BY <1>1, <1>2, EmptySeq
  <2> QED BY <2>1, <2>2, CountEmpty DEF CountInv, StateCountsBlocked
<1>3. CASE evState # 0
  <2>1. evList # <<>>
    BY <1>1, <1>3, EmptySeq
  <2>2. CASE evState' = evState + 1 /\ evList' = Tail(evList)
    <3>1. evList' \in Seq(Lwps) /\ Len(evList') = Len(evList) - 1
      BY <1>1, <2>1, <2>2, HeadTailProperties
    <3>2. evState' = -Len(evList') /\ evState' # 1 /\ evState' \in Int
      BY <1>1, <1>3, <2>2, <3>1
    <3> QED BY <3>1, <3>2 DEF CountInv, StateCountsBlocked
  <2>3. CASE evState' = 0 /\ evList' = <<>>
    BY <2>3, CountEmpty DEF CountInv, StateCountsBlocked
  <2> QED BY <1>3, <2>2, <2>3 DEF EVENT_SIGNAL, EVENT_BROADCAST
<1> QED BY <1>2, <1>3

(* An event is cleared when nobody is queued for it.                       *)
LEMMA CountClear ==
  ASSUME CountInv, NEW c \in Ctxs, Clear(c)
  PROVE  CountInv'
<1>1. evList' = <<>> /\ evState' = 0
  BY DEF Clear
<1> QED BY <1>1, CountEmpty DEF CountInv, StateCountsBlocked

(* A signal takes an LWP off the queue and out of the count, or neither.   *)
LEMMA CountUnsleep ==
  ASSUME CountInv, NEW c \in Ctxs, Unsleep(c)
  PROVE  CountInv'
<1> DEFINE t == tgt[c]
<1>1. /\ evList' = slpdeque(evList, t)
      /\ evState' = IF Contains(evList, t) THEN evState + 1 ELSE evState
  BY DEF Unsleep, OneWaiterLess
<1>2. evList \in Seq(Lwps) /\ Len(evList) \in Nat
  BY LenProperties DEF CountInv
<1>3. /\ evList' \in Seq(Lwps)
      /\ Len(evList') = IF Contains(evList, t) THEN Len(evList) - 1 ELSE Len(evList)
  BY <1>1, <1>2, SlpdequeQueue
<1>4. CASE ~Contains(evList, t)
  BY <1>1, <1>4 DEF slpdeque, CountInv, StateCountsBlocked
<1>5. CASE Contains(evList, t)
  <2>1. Len(evList) > 0
    BY <1>2, <1>5 DEF Contains
  <2>2. evState = -Len(evList)
    BY <2>1, EmptySeq DEF CountInv, StateCountsBlocked
  <2>3. evState' = -Len(evList') /\ evState' # 1 /\ evState' \in Int
    BY <1>1, <1>2, <1>3, <1>5, <2>1, <2>2
  <2> QED BY <1>3, <2>3 DEF CountInv, StateCountsBlocked
<1> QED BY <1>4, <1>5

(* Nothing else touches the event.                                         *)
LEMMA CountOther ==
  ASSUME CountInv, UNCHANGED evVars
  PROVE  CountInv'
  BY DEF CountInv, StateCountsBlocked, evVars

(* Every step keeps ev_state in step with the queue.                       *)
LEMMA CountStep ==
  ASSUME CountInv, [Next]_vars
  PROVE  CountInv'
<1>1. ASSUME NEW c \in Ctxs, WakeChain(c) PROVE CountInv'
  BY <1>1, CountOther DEF WakeChain
<1>2. ASSUME NEW c \in Ctxs, Unsleep(c) PROVE CountInv'
  BY <1>2, CountUnsleep
<1>3. ASSUME NEW l \in Lwps, Waiting(l) PROVE CountInv'
  <2>1. CASE Consume(l)
    BY <2>1, CountConsume
  <2>2. CASE Go(l)
    BY <2>2, CountGo
  <2>3. CASE \/ Peek(l) \/ Mutex(l) \/ Again(l) \/ IssigReturn(l) \/ Acquire(l)
             \/ SendWaiting(l) \/ Unblock(l) \/ Sleep(l) \/ WakeUp(l)
    BY <2>3, CountOther
       DEF Peek, Mutex, Again, IssigReturn, Acquire, SendWaiting, Unblock, Sleep, WakeUp
  <2> QED BY <1>3, <2>1, <2>2, <2>3 DEF Waiting
<1>4. CASE Choice
  <2>1. ASSUME NEW l \in Lwps, Call(l) PROVE CountInv'
    BY <2>1, CountOther DEF Call
  <2>2. ASSUME NEW c \in Ctxs, NEW t \in Lwps, Post(c, t) PROVE CountInv'
    BY <2>2, CountOther DEF Post
  <2> QED BY <1>4, <2>1, <2>2, CountSignal, CountClear DEF Choice
<1>5. CASE UNCHANGED vars
  BY <1>5, CountOther DEF vars
<1> QED BY <1>1, <1>2, <1>3, <1>4, <1>5 DEF Next, Step

(* ev_state says truly whether the event is posted, or how many LWPs are   *)
(* on the queue, whatever waits, signals, broadcasts and interruptions are *)
(* under way: EVENT_SIGNAL never takes the head of an empty queue, and no  *)
(* LWP is queued for an event that is posted.                              *)
THEOREM StateIsCount == Spec => []StateCountsBlocked
<1>1. CountInv => StateCountsBlocked
  BY DEF CountInv
<1> QED BY <1>1, CountInit, CountStep, PTL DEF Spec
-----------------------------------------------------------------------------
(***************************************************************************)
(* The invariant.                                                          *)
(***************************************************************************)
Pcs == {"idle", "peek", "consume", "mutex", "again", "issig", "acquire", "sigtolwp", "go",
        "unblock", "sleep", "asleep", "issig2", "unsleep", "wake"}
(* Where an LWP holds its own l_mutex.                                     *)
HolderPcs == {"acquire", "go", "sleep"}

Types ==
  /\ LwpTypeOK
  /\ waitsig \in [Lwps -> BOOLEAN] /\ pc \in [Ctxs -> Pcs]
  /\ op \in [Lwps -> {"wait", "wait_sig"}] /\ ret \in [Lwps -> BOOLEAN]
  /\ tgt \in [Ctxs -> Lwps \union {Nobody}] /\ sigs \in Nat
  /\ \A l \in Lwps : pc[l] # "unsleep"

WakeInv == Attended(evList, chain, pc, tgt, lMutex, lStat, HolderPcs)

(* Which points belong to which call; only an interruptible sleeper is     *)
(* marked L_SIGWOKE, until it has seen to the signal; and it had none      *)
(* pending when it went to sleep.                                          *)
SigOf(l) ==
  /\ pc[l] \in {"again", "issig", "acquire", "sigtolwp", "issig2", "unblock"}
       => op[l] = "wait_sig"
  /\ pc[l] = "mutex" => op[l] = "wait"
  /\ "L_SIGWOKE" \in lFlag[l] => pc[l] \in {"asleep", "issig2", "again"} /\ op[l] = "wait_sig"
  /\ pc[l] = "asleep" => ("L_NWAKE" \in lFlag[l] <=> op[l] = "wait")
  /\ pc[l] \in HolderPcs /\ op[l] = "wait_sig" => ~trapevf[l]

SigInv == (\A l \in Lwps : SigOf(l)) /\ SleeperHearsSignals

Counted == {l \in Lwps : op[l] = "wait_sig" /\ pc[l] \in {"go", "unblock", "sleep", "asleep"}}
BlockInv == CountsOf(niblked, Proc, Procs, Counted)

Inv == CountInv /\ Types /\ WakeInv /\ SigInv /\ BlockInv

LEMMA InvInit == Init => Inv
<1> SUFFICES ASSUME Init PROVE Inv
  OBVIOUS
<1>1. /\ \A c \in Ctxs : pc[c] = "idle"
      /\ \A l \in Lwps : l \in Ctxs /\ lFlag[l] = {} /\ lStat[l] = "SONPROC"
  BY DEF Init, LwpInit, Ctxs
<1>2. Types
  BY <1>1 DEF Init, LwpInit, Types, LwpTypeOK, Pcs
<1>3. WakeInv
  <2>1. "sleep" \in HolderPcs /\ HolderPcs \cap {"asleep", "unsleep", "wake", "idle"} = {}
    BY DEF HolderPcs
  <2> QED BY <2>1, AttendedAtFirst DEF WakeInv, Init, LwpInit
<1>4. SigInv
  BY <1>1 DEF SigInv, SigOf, HolderPcs, SleeperHearsSignals, Interruptible
<1>5. Counted = {}
  BY <1>1 DEF Counted
<1>6. BlockInv
  BY <1>5, CountsNobody DEF BlockInv, Init
<1> QED BY <1>2, <1>3, <1>4, <1>6, CountInit DEF Inv

-----------------------------------------------------------------------------
(***************************************************************************)
(* Types.                                                                  *)
(***************************************************************************)
LEMMA TypesWaiting ==
  ASSUME Types, NEW l \in Lwps, Waiting(l)
  PROVE  Types'
<1>0. l \in Ctxs /\ Lwps \subseteq Ctxs
  BY DEF Ctxs
<1> USE DEF Types, LwpTypeOK, Pcs, Goto, Return, lwpVars, procVars, callVars
<1>1. CASE Peek(l)
  BY <1>0, <1>1 DEF Peek, SlowPc
<1>2. CASE Consume(l)
  BY <1>0, <1>2 DEF Consume, SlowPc
<1>3. CASE Mutex(l)
  BY <1>0, <1>3 DEF Mutex, LockMutex
<1>4. CASE Again(l)
  BY <1>0, <1>4 DEF Again, LockMutex
<1>5. CASE IssigReturn(l)
  <2>1. PICK r \in IssigReturns : TakeIssig(l, r)
    BY <1>5 DEF IssigReturn
  <2>2. /\ lMutex' \in [Lwps -> Ctxs \union {Nobody}] /\ trapevf' \in [Lwps -> BOOLEAN]
        /\ waitsig' \in [Lwps -> BOOLEAN]
    <3>1. lMutex' \in [Lwps -> Ctxs \union {Nobody}]
      BY <1>0, <2>1 DEF TakeIssig, Issig
    <3>2. trapevf' \in [Lwps -> BOOLEAN] /\ waitsig' \in [Lwps -> BOOLEAN]
      BY <1>0, <2>1 DEF TakeIssig, Issig
    <3> QED BY <3>1, <3>2
  <2>3. lFlag' \in [Lwps -> SUBSET {"L_NWAKE", "L_SIGWOKE"}]
    BY <1>5 DEF IssigReturn
  <2>4. \/ \E p \in {"acquire", "again"} : Goto(l, p) /\ UNCHANGED callVars
        \/ Return(l, FALSE)
    BY <1>5 DEF IssigReturn
  <2>5. /\ pc' \in [Ctxs -> Pcs] /\ ret' \in [Lwps -> BOOLEAN] /\ UNCHANGED op
        /\ \A k \in Lwps : pc'[k] # "unsleep"
    <3>1. UNCHANGED op /\ ret' \in [Lwps -> BOOLEAN]
      BY <2>4
    <3>2. PICK p \in {"acquire", "again", "idle"} : Goto(l, p)
      BY <2>4
    <3>3. pc' \in [Ctxs -> Pcs] /\ \A k \in Ctxs : k # l => pc'[k] = pc[k]
      BY <1>0, <3>2
    <3>4. pc'[l] = p
      BY <1>0, <3>2
    <3> QED BY <1>0, <3>1, <3>2, <3>3, <3>4
  <2>6. UNCHANGED <<lStat, tgt, sigs>>
    BY <1>5 DEF IssigReturn
  <2> QED BY <2>2, <2>3, <2>5, <2>6
<1>6. CASE Acquire(l)
  BY <1>0, <1>6 DEF Acquire, UnlockMutex, CountBlocked
<1>7. CASE SendWaiting(l)
  <2>1. LwpTypeOK' /\ waitsig' \in [Lwps -> BOOLEAN]
    BY <1>0, <1>7, PostTypes DEF SendWaiting, PostWaiting
  <2> QED BY <1>0, <1>7, <2>1 DEF SendWaiting
<1>8. CASE Go(l)
  <2>1. /\ UNCHANGED <<lStat, lFlag, trapevf, waitsig, tgt, sigs, op>>
        /\ UnlockMutex(l) \/ UNCHANGED lMutex
    BY <1>8 DEF Go
  <2>2. lMutex' \in [Lwps -> Ctxs \union {Nobody}]
    BY <2>1 DEF UnlockMutex
  <2>3. \E p \in {"unblock", "idle", "sleep"} : Goto(l, p)
    BY <1>8 DEF Go
  <2>4. ret' \in [Lwps -> BOOLEAN]
    BY <1>8 DEF Go
  <2>5. pc' \in [Ctxs -> Pcs] /\ \A k \in Lwps : pc'[k] # "unsleep"
    BY <1>0, <2>3
  <2> QED BY <2>1, <2>2, <2>4, <2>5
<1>9. CASE Unblock(l)
  BY <1>0, <1>9 DEF Unblock
<1>10. CASE Sleep(l)
  BY <1>0, <1>10 DEF Sleep, Block, UnlockMutex
<1>11. CASE WakeUp(l)
  BY <1>0, <1>11 DEF WakeUp, Resume
<1> QED BY <1>1, <1>2, <1>3, <1>4, <1>5, <1>6, <1>7, <1>8, <1>9, <1>10, <1>11 DEF Waiting

LEMMA TypesOther ==
  ASSUME Types, NEW c \in Ctxs,
         \/ WakeChain(c) \/ Unsleep(c) \/ EVENT_SIGNAL(c) \/ EVENT_BROADCAST(c) \/ Clear(c)
         \/ (c \in Lwps /\ Call(c)) \/ \E t \in Lwps : Post(c, t)
  PROVE  Types'
<1>0. Lwps \subseteq Ctxs
  BY DEF Ctxs
<1> USE DEF Types, LwpTypeOK, Pcs, Goto, lwpVars, procVars, callVars
<1>1. CASE WakeChain(c)
  BY <1>0, <1>1 DEF WakeChain, Wakeup
<1>2. CASE Unsleep(c)
  BY <1>0, <1>2 DEF Unsleep, FinishNudge, UnlockMutex
<1>3. CASE EVENT_SIGNAL(c) \/ EVENT_BROADCAST(c) \/ Clear(c)
  BY <1>0, <1>3 DEF EVENT_SIGNAL, EVENT_BROADCAST, Clear
<1>4. CASE c \in Lwps /\ Call(c)
  BY <1>0, <1>4, EventAssumption DEF Call
<1>5. ASSUME NEW t \in Lwps, Post(c, t) PROVE Types'
  <2>1. LwpTypeOK' /\ c \notin Lwps
    BY <1>5, PostTypes, LwpAssumption DEF Post
  <2> QED BY <1>0, <1>5, <2>1 DEF Post
<1> QED BY <1>1, <1>2, <1>3, <1>4, <1>5

-----------------------------------------------------------------------------
(***************************************************************************)
(* Who wakes a sleeper.                                                    *)
(***************************************************************************)
LEMMA PcsAndStats == Types => pc \in [Ctxs -> Pcs] /\ \E U : lStat \in [Lwps -> U]
  BY DEF Types, LwpTypeOK

(* Steps between two points that are neither sleep nor wakeup.             *)
LEMMA WakeMove ==
  ASSUME Types, WakeInv, NEW c \in Ctxs, NEW p, Goto(c, p),
         pc[c] \notin RestPcs, pc[c] # "wake", p \notin RestPcs \union {"wake"},
         \/ UNCHANGED lMutex /\ (p \in HolderPcs => lMutex[c] = c)
         \/ \E m : lMutex' = [lMutex EXCEPT ![c] = m] /\ (p \in HolderPcs => m = c),
         UNCHANGED tgt \/ \E t : tgt' = [tgt EXCEPT ![c] = t],
         UNCHANGED <<evList, chain, lStat>>
  PROVE  WakeInv'
<1>1. /\ Attended(evList, chain, pc, tgt, lMutex, lStat, HolderPcs) /\ pc \in [Ctxs -> Pcs]
      /\ tgt \in [Ctxs -> Lwps \union {Nobody}] /\ lMutex \in [Lwps -> Ctxs \union {Nobody}]
  BY DEF WakeInv, Types, LwpTypeOK
<1>2. PICK m : lMutex' = [lMutex EXCEPT ![c] = m] /\ (p \in HolderPcs => m = c)
  <2>1. lMutex = [lMutex EXCEPT ![c] = lMutex[c]]
    BY <1>1
  <2> QED BY <2>1
<1>3. PICK t : tgt' = [tgt EXCEPT ![c] = t]
  <2>1. tgt = [tgt EXCEPT ![c] = tgt[c]]
    BY <1>1
  <2> QED BY <2>1
<1>4. Attended(evList, chain, [pc EXCEPT ![c] = p], [tgt EXCEPT ![c] = t],
               [lMutex EXCEPT ![c] = m], lStat, HolderPcs)
  BY <1>1, <1>2, AttendedMove
<1> QED BY <1>2, <1>3, <1>4 DEF WakeInv, Goto

(* To post SIGWAITING to oneself wakes nobody.                             *)
LEMMA SelfPost ==
  ASSUME Types, WakeInv, NEW l \in Lwps, SendWaiting(l)
  PROVE  /\ pc[l] = "sigtolwp" /\ Goto(l, "again")
         /\ UNCHANGED <<lMutex, lStat, lFlag, evVars, op, ret, chain, tgt>>
         /\ trapevf' = [trapevf EXCEPT ![l] = TRUE]
<1>1. pc[l] = "sigtolwp" /\ PostSignal(l, l)
  BY DEF SendWaiting, At, PostWaiting
<1>2. ~Interruptible(l)
  BY <1>1 DEF WakeInv, Attended, Interruptible
<1> QED BY <1>1, <1>2 DEF SendWaiting, PostSignal, callVars

LEMMA WakeWaiting ==
  ASSUME CountInv, Types, WakeInv, NEW l \in Lwps, Waiting(l)
  PROVE  WakeInv'
<1>0. l \in Ctxs /\ lMutex \in [Lwps -> Ctxs \union {Nobody}]
  BY DEF Ctxs, Types, LwpTypeOK
<1>1. CASE Peek(l) \/ Consume(l)
  <2>1. /\ pc[l] \in {"peek", "consume"} /\ UNCHANGED <<evList, chain, lStat, tgt, lMutex>>
    BY <1>1 DEF Peek, Consume, At, lwpVars, evVars
  <2>2. PICK p \in {"consume", "again", "mutex", "idle"} : Goto(l, p)
    BY <1>1 DEF Peek, Consume, Return, SlowPc
  <2> QED BY <1>0, <2>1, <2>2, WakeMove DEF RestPcs, HolderPcs
<1>2. CASE Mutex(l)
  <2>1. /\ pc[l] = "mutex" /\ UNCHANGED <<evList, chain, lStat, tgt>> /\ Goto(l, "go")
        /\ lMutex' = [lMutex EXCEPT ![l] = l]
    BY <1>2 DEF Mutex, At, evVars, LockMutex
  <2> QED BY <1>0, <2>1, WakeMove DEF RestPcs
<1>3. CASE Again(l)
  <2>1. pc[l] = "again" /\ UNCHANGED <<evList, chain, lStat, tgt>>
    BY <1>3 DEF Again, At, evVars
  <2>2. CASE SignalSeen(l)
    <3>1. Goto(l, "issig") /\ UNCHANGED lMutex
      BY <1>3, <2>2 DEF Again
    <3> QED BY <1>0, <2>1, <3>1, WakeMove DEF RestPcs, HolderPcs
  <2>3. CASE ~SignalSeen(l)
    <3>1. Goto(l, "acquire") /\ lMutex' = [lMutex EXCEPT ![l] = l]
      BY <1>3, <2>3 DEF Again, LockMutex
    <3> QED BY <1>0, <2>1, <3>1, WakeMove DEF RestPcs
  <2> QED BY <2>2, <2>3
<1>4. CASE IssigReturn(l)
  <2>1. pc[l] \in {"issig", "issig2"} /\ UNCHANGED <<evList, chain, lStat, tgt>>
    BY <1>4 DEF IssigReturn, evVars
  <2>2. PICK r \in IssigReturns :
          /\ lMutex' = [lMutex EXCEPT ![l] = IF r = "ISSIG_NONE" THEN l ELSE @]
          /\ \/ r = "ISSIG_NONE" /\ Goto(l, "acquire")
             \/ r # "ISSIG_NONE" /\ \E p \in {"again", "idle"} : Goto(l, p)
    BY <1>4 DEF IssigReturn, TakeIssig, Issig, Return
  <2>3. CASE r = "ISSIG_NONE"
    <3>1. Goto(l, "acquire") /\ lMutex' = [lMutex EXCEPT ![l] = l]
      BY <2>2, <2>3
    <3> QED BY <1>0, <2>1, <3>1, WakeMove DEF RestPcs
  <2>4. CASE r # "ISSIG_NONE"
    <3>1. (\E p \in {"again", "idle"} : Goto(l, p)) /\ lMutex' = [lMutex EXCEPT ![l] = @]
      BY <2>2, <2>4
    <3> QED BY <1>0, <2>1, <3>1, WakeMove DEF RestPcs, HolderPcs
  <2> QED BY <2>3, <2>4
<1>5. CASE Acquire(l)
  <2>1. pc[l] = "acquire" /\ UNCHANGED <<evList, chain, lStat, tgt>>
    BY <1>5 DEF Acquire, At, evVars
  <2>2. CASE UnlockMutex(l) /\ Goto(l, "sigtolwp")
    <3>1. lMutex' = [lMutex EXCEPT ![l] = Nobody]
      BY <2>2 DEF UnlockMutex
    <3> QED BY <1>0, <2>1, <2>2, <3>1, WakeMove DEF RestPcs, HolderPcs
  <2>3. CASE UNCHANGED lMutex /\ Goto(l, "go")
    <3>1. lMutex[l] = l
      BY <2>1 DEF WakeInv, Attended, HolderPcs
    <3> QED BY <1>0, <2>1, <2>3, <3>1, WakeMove DEF RestPcs
  <2> QED BY <1>5, <2>2, <2>3 DEF Acquire
<1>6. CASE SendWaiting(l)
  <2>1. /\ pc[l] = "sigtolwp" /\ Goto(l, "again")
        /\ UNCHANGED <<lMutex, lStat, evList, chain, tgt>>
    BY <1>6, SelfPost DEF evVars
  <2> QED BY <1>0, <2>1, WakeMove DEF RestPcs, HolderPcs
<1>7. CASE Go(l)
  <2>1. pc[l] = "go" /\ UNCHANGED <<chain, lStat, tgt>>
    BY <1>7 DEF Go, At
  <2>2. CASE evState' = 0
    <3>1. UNCHANGED evList /\ lMutex' = [lMutex EXCEPT ![l] = Nobody]
      BY <1>7, <2>2 DEF Go, UnlockMutex
    <3>2. PICK p \in {"unblock", "idle"} : Goto(l, p)
      BY <1>7, <2>2 DEF Go, Return
    <3> QED BY <1>0, <2>1, <3>1, <3>2, WakeMove DEF RestPcs, HolderPcs
  <2>3. CASE evState' # 0
    <3>1. /\ UNCHANGED lMutex /\ evList' = Append(evList, l)
          /\ pc' = [pc EXCEPT ![l] = "sleep"]
      BY <1>7, <2>3 DEF Go, Goto
    <3>2. pc[l] \in HolderPcs /\ pc[l] # "sleep"
      BY <2>1 DEF HolderPcs
    <3>3. Attended(Append(evList, l), chain, [pc EXCEPT ![l] = "sleep"], tgt, lMutex, lStat,
                   HolderPcs)
      BY <3>2, PcsAndStats, AttendedQueued DEF WakeInv
    <3> QED BY <2>1, <3>1, <3>3 DEF WakeInv
  <2> QED BY <2>2, <2>3
<1>8. CASE Unblock(l)
  <2>1. /\ pc[l] = "unblock" /\ UNCHANGED <<evList, chain, lStat, tgt, lMutex>>
        /\ Goto(l, "idle")
    BY <1>8 DEF Unblock, At, evVars, lwpVars, Return
  <2> QED BY <1>0, <2>1, WakeMove DEF RestPcs, HolderPcs
<1>9. CASE Sleep(l)
  <2>1. /\ pc[l] = "sleep" /\ UNCHANGED <<evList, chain, tgt>>
        /\ lStat' = [lStat EXCEPT ![l] = "SSLEEP"] /\ lMutex' = [lMutex EXCEPT ![l] = Nobody]
        /\ pc' = [pc EXCEPT ![l] = "asleep"]
    BY <1>9 DEF Sleep, Block, UnlockMutex, At, Goto, evVars
  <2>2. Attended(evList, chain, [pc EXCEPT ![l] = "asleep"], tgt,
                 [lMutex EXCEPT ![l] = Nobody], [lStat EXCEPT ![l] = "SSLEEP"], HolderPcs)
    BY <1>0, <2>1, PcsAndStats, AttendedSlept DEF WakeInv
  <2> QED BY <2>1, <2>2 DEF WakeInv
<1>10. CASE WakeUp(l)
  <2>1. /\ pc[l] = "asleep" /\ lStat[l] = "SRUN" /\ UNCHANGED <<evList, chain, tgt, lMutex>>
        /\ lStat' = [lStat EXCEPT ![l] = "SONPROC"]
    BY <1>10 DEF WakeUp, Resume, At, evVars
  <2>2. PICK p \in {"issig2", "idle"} : pc' = [pc EXCEPT ![l] = p]
    BY <1>10 DEF WakeUp, Return, Goto
  <2>3. p \notin RestPcs \union HolderPcs \union {"wake"}
    BY DEF RestPcs, HolderPcs
  <2>4. Attended(evList, chain, [pc EXCEPT ![l] = p], tgt, lMutex,
                 [lStat EXCEPT ![l] = "SONPROC"], HolderPcs)
    BY <2>1, <2>3, PcsAndStats, AttendedResumed DEF WakeInv
  <2> QED BY <2>1, <2>2, <2>4 DEF WakeInv
<1> QED BY <1>1, <1>2, <1>3, <1>4, <1>5, <1>6, <1>7, <1>8, <1>9, <1>10 DEF Waiting
(* A signaller takes the front of the queue, a, or all of it.              *)
Takes(c, a) ==
  /\ Goto(c, "wake") /\ chain' = [chain EXCEPT ![c] = a] /\ evState # 1 /\ evState' # 1
  /\ a # <<>> /\ IsInjective(a) /\ \E h \in Lwps : Contains(a, h)
  /\ evList' \in Seq(Lwps) /\ IsInjective(evList')
  /\ \A m : Contains(evList, m) <=> (Contains(a, m) \/ Contains(evList', m))
  /\ \A m : ~(Contains(a, m) /\ Contains(evList', m))

(* With nobody queued it posts the event.                                  *)
Posts == evState = 0 /\ evState' = 1 /\ evList = <<>> /\ UNCHANGED <<evList, chain, pc>>

LEMMA SignalTakes ==
  ASSUME CountInv, WakeInv, NEW c \in Ctxs, EVENT_SIGNAL(c) \/ EVENT_BROADCAST(c)
  PROVE  /\ pc[c] = "idle" /\ UNCHANGED <<tgt, lMutex, lStat, lFlag, trapevf, op, ret>>
         /\ Posts \/ \E a \in Seq(Lwps) : Takes(c, a)
<1>1. pc[c] = "idle" /\ UNCHANGED <<tgt, lMutex, lStat, lFlag, trapevf, op, ret>>
  BY DEF EVENT_SIGNAL, EVENT_BROADCAST, At, lwpVars, callVars
<1>2. /\ evState = -Len(evList) /\ Len(evList) \in Nat /\ evList \in Seq(Lwps)
      /\ IsInjective(evList)
  BY LenProperties DEF EVENT_SIGNAL, EVENT_BROADCAST, CountInv, StateCountsBlocked, WakeInv,
                       Attended, Keeps
<1>3. CASE evState = 0
  <2>1. evList = <<>>
    BY <1>2, <1>3, EmptySeq
  <2> QED BY <1>1, <1>3, <2>1 DEF EVENT_SIGNAL, EVENT_BROADCAST, Posts
<1>4. CASE evState # 0
  <2>1. evList # <<>>
    BY <1>2, <1>4, EmptySeq
  <2>2. PICK h \in Lwps : h = Head(evList) /\ Contains(evList, h)
    BY <1>2, <2>1, TailQueue
  <2>3. CASE EVENT_SIGNAL(c)
    <3>1. /\ Goto(c, "wake") /\ evState' = evState + 1 /\ evState # 1
          /\ chain' = [chain EXCEPT ![c] = <<h>>] /\ evList' = Tail(evList)
      BY <1>4, <2>2, <2>3 DEF EVENT_SIGNAL
    <3>2. evState' # 1
      BY <1>2, <1>4, <3>1
    <3>3. /\ <<h>> \in Seq(Lwps) /\ <<h>> # <<>> /\ IsInjective(<<h>>)
          /\ Contains(<<h>>, h)
          /\ evList' \in Seq(Lwps) /\ IsInjective(evList')
          /\ \A m : Contains(evList, m) <=> (Contains(<<h>>, m) \/ Contains(evList', m))
          /\ \A m : ~(Contains(<<h>>, m) /\ Contains(evList', m))
      BY <1>2, <2>1, <2>2, <3>1, TakenParts
    <3>4. Takes(c, <<h>>)
      BY <3>1, <3>2, <3>3 DEF Takes
    <3> QED BY <1>1, <3>3, <3>4
  <2>4. CASE EVENT_BROADCAST(c)
    <3>1. /\ Goto(c, "wake") /\ evState' = 0 /\ evState # 1
          /\ chain' = [chain EXCEPT ![c] = evList] /\ evList' = <<>>
      BY <1>4, <2>4 DEF EVENT_BROADCAST
    <3>2. evList' \in Seq(Lwps) /\ IsInjective(evList') /\ \A m : ~Contains(evList', m)
      BY <3>1, EmptyQueue
    <3>3. evState' # 1
      BY <3>1
    <3>4. Takes(c, evList)
      BY <1>2, <2>1, <2>2, <3>1, <3>2, <3>3 DEF Takes
    <3> QED BY <1>1, <1>2, <3>4
  <2> QED BY <2>3, <2>4
<1> QED BY <1>3, <1>4

LEMMA WakeOther ==
  ASSUME CountInv, Types, WakeInv, NEW c \in Ctxs,
         \/ WakeChain(c) \/ Unsleep(c) \/ EVENT_SIGNAL(c) \/ EVENT_BROADCAST(c) \/ Clear(c)
         \/ (c \in Lwps /\ Call(c)) \/ \E t \in Lwps : Post(c, t)
  PROVE  WakeInv'
<1>0. /\ lMutex \in [Lwps -> Ctxs \union {Nobody}] /\ evList \in Seq(Lwps)
      /\ IsInjective(evList) /\ tgt \in [Ctxs -> Lwps \union {Nobody}]
  BY DEF Types, LwpTypeOK, WakeInv, Attended, Keeps
<1>1. CASE WakeChain(c)
  <2>1. /\ pc[c] = "wake" /\ UNCHANGED <<evList, tgt, lMutex>>
        /\ lMutex[Head(chain[c])] = Nobody
        /\ lStat' = [lStat EXCEPT ![Head(chain[c])] = "SRUN"]
        /\ chain' = [chain EXCEPT ![c] = Tail(chain[c])]
        /\ pc' = [pc EXCEPT ![c] = IF Tail(chain[c]) = <<>> THEN "idle" ELSE "wake"]
    BY <1>1 DEF WakeChain, Wakeup, MutexFree, At, Goto, RestOfChain, evVars
  <2>2. Attended(evList, [chain EXCEPT ![c] = Tail(chain[c])],
                 [pc EXCEPT ![c] = IF Tail(chain[c]) = <<>> THEN "idle" ELSE "wake"], tgt,
                 lMutex, [lStat EXCEPT ![Head(chain[c])] = "SRUN"], HolderPcs)
    BY <2>1, PcsAndStats, AttendedWoken DEF WakeInv
  <2> QED BY <2>1, <2>2 DEF WakeInv
<1>2. CASE Unsleep(c)
  <2>1. /\ pc[c] = "unsleep" /\ UNCHANGED chain /\ pc' = [pc EXCEPT ![c] = "idle"]
        /\ \A d \in Ctxs : d # c => tgt'[d] = tgt[d]
        /\ evList' = slpdeque(evList, tgt[c]) /\ lMutex' = [lMutex EXCEPT ![tgt[c]] = Nobody]
        /\ lStat' = [lStat EXCEPT ![tgt[c]] = IF Contains(evList, tgt[c]) THEN "SRUN" ELSE @]
    BY <1>2 DEF Unsleep, FinishNudge, UnlockMutex, At, Types, Goto
  <2>2. "idle" \notin RestPcs \union HolderPcs \union {"wake"}
    BY DEF RestPcs, HolderPcs
  <2>3. Attended(slpdeque(evList, tgt[c]), chain, [pc EXCEPT ![c] = "idle"], tgt',
                 [lMutex EXCEPT ![tgt[c]] = Nobody],
                 [lStat EXCEPT ![tgt[c]] = IF Contains(evList, tgt[c]) THEN "SRUN" ELSE @],
                 HolderPcs)
    BY <1>0, <2>1, <2>2, PcsAndStats, AttendedUnslept DEF WakeInv
  <2> QED BY <2>1, <2>3 DEF WakeInv
<1>3. CASE EVENT_SIGNAL(c) \/ EVENT_BROADCAST(c)
  <2>1. pc[c] = "idle" /\ UNCHANGED <<tgt, lMutex, lStat>>
    BY <1>3, SignalTakes
  <2>2. CASE Posts
    BY <2>1, <2>2 DEF WakeInv, Posts
  <2>3. ASSUME NEW a \in Seq(Lwps), Takes(c, a) PROVE WakeInv'
    <3>1. Attended(evList', [chain EXCEPT ![c] = a], [pc EXCEPT ![c] = "wake"], tgt, lMutex,
                   lStat, HolderPcs)
      BY <2>1, <2>3, PcsAndStats, AttendedTaken DEF WakeInv, Takes
    <3> QED BY <2>1, <2>3, <3>1 DEF WakeInv, Takes, Goto
  <2> QED BY <1>3, <2>2, <2>3, SignalTakes
<1>4. CASE Clear(c)
  BY <1>4 DEF Clear, WakeInv, lwpVars
<1>5. CASE c \in Lwps /\ Call(c)
  <2>1. pc[c] = "idle" /\ Goto(c, "peek") /\ UNCHANGED <<evList, chain, lStat, tgt, lMutex>>
    BY <1>5 DEF Call, At, lwpVars, evVars
  <2> QED BY <2>1, WakeMove DEF RestPcs, HolderPcs
<1>6. ASSUME NEW t \in Lwps, Post(c, t) PROVE WakeInv'
  <2>1. /\ pc[c] = "idle" /\ PostSignal(t, c) /\ UNCHANGED <<evList, chain, lStat>>
        /\ lMutex[t] = Nobody
    BY <1>6 DEF Post, At, evVars, PostSignal, MutexFree
  <2>2. CASE Interruptible(t)
    <3>1. /\ lMutex' = [lMutex EXCEPT ![t] = c] /\ pc' = [pc EXCEPT ![c] = "unsleep"]
          /\ tgt' = [tgt EXCEPT ![c] = t] /\ lStat[t] = "SSLEEP"
      BY <1>6, <2>2 DEF Post, PostSignal, LockMutex, Goto, Interruptible
    <3>2. pc[c] \notin RestPcs /\ pc[c] # "wake"
      BY <2>1 DEF RestPcs
    <3>3. Attended(evList, chain, [pc EXCEPT ![c] = "unsleep"], [tgt EXCEPT ![c] = t],
                   [lMutex EXCEPT ![t] = c], lStat, HolderPcs)
      BY <1>0, <2>1, <3>1, <3>2, PcsAndStats, AttendedPosted DEF WakeInv
    <3> QED BY <2>1, <3>1, <3>3 DEF WakeInv
  <2>3. CASE ~Interruptible(t)
    <3>1. Goto(c, "idle") /\ UNCHANGED lMutex /\ tgt' = [tgt EXCEPT ![c] = Nobody]
      BY <1>6, <2>3 DEF Post, PostSignal
    <3> QED BY <2>1, <3>1, WakeMove DEF RestPcs, HolderPcs
  <2> QED BY <2>2, <2>3
<1> QED BY <1>1, <1>2, <1>3, <1>4, <1>5, <1>6
-----------------------------------------------------------------------------
(***************************************************************************)
(* Signals.                                                                *)
(***************************************************************************)
(* A step of c that changes the signals and flags of nobody else, queues   *)
(* nobody else and tells nobody of a signal.                               *)
LEMMA SigStep ==
  ASSUME Types, WakeInv, SigInv, NEW c \in Ctxs, NEW p, Goto(c, p),
         pc[c] # "unsleep", UNCHANGED tgt,
         \A k \in Lwps : k # c => /\ lFlag'[k] = lFlag[k] /\ trapevf'[k] = trapevf[k]
                                  /\ lStat'[k] = lStat[k] /\ op'[k] = op[k]
                                  /\ Contains(evList', k) => Contains(evList, k),
         c \in Lwps => /\ SigOf(c)'
                       /\ lStat'[c] = "SSLEEP" => op[c] = "wait" \/ ~trapevf'[c]
                       /\ lStat'[c] = "SSLEEP" => p = "asleep" /\ UNCHANGED op
  PROVE  SigInv'
<1>1. /\ \A d \in Ctxs : pc'[d] = IF d = c THEN p ELSE pc[d]
      /\ Lwps \subseteq Ctxs
  BY DEF Types, Goto, Ctxs
<1>2. \A k \in Lwps : SigOf(k)'
  BY <1>1 DEF SigInv, SigOf
<1>3. ASSUME NEW k \in Lwps, Interruptible(k)', Contains(evList', k), trapevf'[k]
      PROVE  \E d \in Ctxs : pc'[d] = "unsleep" /\ tgt'[d] = k
  <2>1. CASE k = c
    <3>1. "L_NWAKE" \notin lFlag'[c] /\ lStat'[c] = "SSLEEP"
      BY <1>3, <2>1 DEF Interruptible
    <3>2. op[c] = "wait" /\ op' = op /\ pc'[c] = "asleep"
      BY <1>1, <1>3, <2>1, <3>1
    <3> QED BY <1>2, <1>3, <2>1, <3>1, <3>2 DEF SigOf
  <2>2. CASE k # c
    <3>1. Interruptible(k) /\ Contains(evList, k) /\ trapevf[k]
      BY <1>3, <2>2 DEF Interruptible
    <3>2. PICK d \in Ctxs : pc[d] = "unsleep" /\ tgt[d] = k
      BY <3>1 DEF SigInv, SleeperHearsSignals, At, Queued
    <3> QED BY <1>1, <3>2
  <2> QED BY <2>1, <2>2
<1> QED BY <1>2, <1>3 DEF SigInv, SleeperHearsSignals, At, Queued

LEMMA SigWaiting ==
  ASSUME Types, WakeInv, SigInv, NEW l \in Lwps, Waiting(l)
  PROVE  SigInv'
<1>0. /\ l \in Ctxs /\ pc \in [Ctxs -> Pcs] /\ lStat \in [Lwps -> {"SONPROC", "SSLEEP", "SRUN"}]
      /\ lFlag \in [Lwps -> SUBSET {"L_NWAKE", "L_SIGWOKE"}] /\ trapevf \in [Lwps -> BOOLEAN]
      /\ op \in [Lwps -> {"wait", "wait_sig"}] /\ pc[l] # "unsleep"
      /\ SigOf(l) /\ (lStat[l] = "SONPROC" <=> pc[l] # "asleep")
  BY DEF Ctxs, Types, LwpTypeOK, SigInv, WakeInv, Attended
<1>1. ASSUME NEW p, Goto(l, p), pc'[l] = p => SigOf(l)', pc[l] # "asleep",
             UNCHANGED <<lStat, op, tgt>>,
             UNCHANGED lFlag \/ lFlag' = [lFlag EXCEPT ![l] = @ \ {"L_SIGWOKE"}],
             UNCHANGED trapevf \/ \E v : trapevf' = [trapevf EXCEPT ![l] = v],
             \A k \in Lwps : k # l => (Contains(evList', k) => Contains(evList, k))
      PROVE  SigInv'
  <2>1. pc'[l] = p /\ lStat'[l] = "SONPROC"
    BY <1>0, <1>1 DEF Goto
  <2>2. \A k \in Lwps : k # l => /\ lFlag'[k] = lFlag[k] /\ trapevf'[k] = trapevf[k]
                                 /\ lStat'[k] = lStat[k] /\ op'[k] = op[k]
    BY <1>0, <1>1
  <2> QED BY <1>0, <1>1, <2>1, <2>2, SigStep
<1>2. CASE Peek(l) \/ Consume(l)
  <2>1. pc[l] \in {"peek", "consume"} /\ UNCHANGED <<evList, lStat, lFlag, op, tgt, trapevf>>
    BY <1>2 DEF Peek, Consume, At, callVars, lwpVars, evVars, Return
  <2>2. PICK p \in {"consume", "idle", SlowPc(l)} : Goto(l, p)
    BY <1>2 DEF Peek, Consume, Return
  <2>3. pc'[l] = p => SigOf(l)'
    BY <1>0, <2>1, <2>2 DEF SigOf, SlowPc, HolderPcs
  <2> QED BY <1>1, <2>1, <2>2, <2>3
<1>3. CASE Mutex(l)
  <2>1. /\ pc[l] = "mutex" /\ UNCHANGED <<evList, lStat, lFlag, op, tgt, trapevf>>
        /\ Goto(l, "go")
    BY <1>3 DEF Mutex, At, callVars, evVars
  <2>2. pc'[l] = "go" => SigOf(l)'
    BY <1>0, <2>1 DEF SigOf, HolderPcs
  <2> QED BY <1>1, <2>1, <2>2
<1>4. CASE Again(l)
  <2>1. /\ pc[l] = "again" /\ UNCHANGED <<evList, lStat, op, tgt, trapevf>>
        /\ lFlag' = [lFlag EXCEPT ![l] = @ \ {"L_SIGWOKE"}]
    BY <1>4 DEF Again, At, callVars, evVars
  <2>2. PICK p \in {"issig", "acquire"} : Goto(l, p) /\ (p = "acquire" => ~trapevf[l])
    BY <1>4 DEF Again, SignalSeen
  <2>3. pc'[l] = p => SigOf(l)'
    BY <1>0, <2>1, <2>2 DEF SigOf, HolderPcs
  <2> QED BY <1>1, <2>1, <2>2, <2>3
<1>5. CASE IssigReturn(l)
  <2>1. /\ pc[l] \in {"issig", "issig2"} /\ UNCHANGED <<evList, lStat, op, tgt>>
        /\ trapevf' = [trapevf EXCEPT ![l] = FALSE]
    BY <1>5 DEF IssigReturn, TakeIssig, Issig, Return, callVars, At, evVars
  <2>2. PICK p \in {"acquire", "again", "idle"} :
          /\ Goto(l, p)
          /\ \/ lFlag' = [lFlag EXCEPT ![l] = @ \ {"L_SIGWOKE"}]
             \/ UNCHANGED lFlag /\ (pc[l] = "issig" \/ p = "again")
    BY <1>5 DEF IssigReturn, Return, At
  <2>3. op[l] = "wait_sig" /\ trapevf'[l] = FALSE
    BY <1>0, <2>1 DEF SigOf
  <2>4. "L_SIGWOKE" \notin lFlag'[l] \/ p = "again"
    BY <1>0, <2>1, <2>2 DEF SigOf
  <2>5. pc'[l] = p => SigOf(l)'
    BY <2>1, <2>2, <2>3, <2>4 DEF SigOf, HolderPcs
  <2> QED BY <1>1, <2>1, <2>2, <2>5
<1>6. CASE Acquire(l)
  <2>1. pc[l] = "acquire" /\ UNCHANGED <<evList, lStat, lFlag, op, tgt, trapevf>>
    BY <1>6 DEF Acquire, At, callVars, evVars
  <2>2. PICK p \in {"sigtolwp", "go"} : Goto(l, p)
    BY <1>6 DEF Acquire
  <2>3. pc'[l] = p => SigOf(l)'
    BY <1>0, <2>1, <2>2 DEF SigOf, HolderPcs
  <2> QED BY <1>1, <2>1, <2>2, <2>3
<1>7. CASE SendWaiting(l)
  <2>1. /\ pc[l] = "sigtolwp" /\ UNCHANGED <<evList, lStat, lFlag, op, tgt>>
        /\ Goto(l, "again") /\ trapevf' = [trapevf EXCEPT ![l] = TRUE]
    BY <1>7, SelfPost DEF evVars
  <2>2. pc'[l] = "again" => SigOf(l)'
    BY <1>0, <2>1 DEF SigOf, HolderPcs
  <2> QED BY <1>1, <2>1, <2>2
<1>8. CASE Go(l)
  <2>1. pc[l] = "go" /\ UNCHANGED <<lStat, lFlag, op, tgt, trapevf>>
    BY <1>8 DEF Go, At, callVars, Return
  <2>2. PICK p \in {"unblock", "idle", "sleep"} :
          Goto(l, p) /\ (p = "unblock" => op[l] = "wait_sig")
    BY <1>8 DEF Go, Return
  <2>3. \A k \in Lwps : k # l => (Contains(evList', k) => Contains(evList, k))
    <3>1. evList' = evList \/ evList' = Append(evList, l)
      BY <1>8 DEF Go
    <3>2. evList \in Seq(Lwps)
      BY DEF WakeInv, Attended, Keeps
    <3>3. CASE evList' = Append(evList, l)
      BY <3>2, <3>3, AppendQueue
    <3> QED BY <3>1, <3>3
  <2>4. pc'[l] = p => SigOf(l)'
    BY <1>0, <2>1, <2>2 DEF SigOf, HolderPcs
  <2> QED BY <1>1, <2>1, <2>2, <2>3, <2>4
<1>9. CASE Unblock(l)
  <2>1. /\ pc[l] = "unblock" /\ UNCHANGED <<evList, lStat, lFlag, op, tgt, trapevf>>
        /\ Goto(l, "idle")
    BY <1>9 DEF Unblock, At, Return, lwpVars, evVars
  <2>2. pc'[l] = "idle" => SigOf(l)'
    BY <1>0, <2>1 DEF SigOf, HolderPcs
  <2> QED BY <1>1, <2>1, <2>2
<1>10. CASE Sleep(l)
  <2>1. /\ pc[l] = "sleep" /\ UNCHANGED <<evList, op, tgt, trapevf>> /\ Goto(l, "asleep")
        /\ lStat' = [lStat EXCEPT ![l] = "SSLEEP"]
        /\ lFlag' = [lFlag EXCEPT ![l] = IF op[l] = "wait" THEN @ \union {"L_NWAKE"}
                                         ELSE (@ \ {"L_NWAKE"}) \ {}]
    BY <1>10 DEF Sleep, At, callVars, Block, evVars
  <2>2. op[l] = "wait_sig" => ~trapevf[l]
    BY <1>0, <2>1 DEF SigOf, HolderPcs
  <2>3. pc'[l] = "asleep" /\ "L_SIGWOKE" \notin lFlag[l]
    BY <1>0, <2>1 DEF SigOf, Goto
  <2>4. \A k \in Lwps : k # l => /\ lFlag'[k] = lFlag[k] /\ trapevf'[k] = trapevf[k]
                                 /\ lStat'[k] = lStat[k] /\ op'[k] = op[k]
                                 /\ Contains(evList', k) => Contains(evList, k)
    BY <1>0, <2>1
  <2>5. SigOf(l)'
    BY <1>0, <2>1, <2>3 DEF SigOf, HolderPcs
  <2>6. op[l] = "wait" \/ ~trapevf'[l]
    BY <1>0, <2>1, <2>2
  <2> QED BY <1>0, <2>1, <2>4, <2>5, <2>6, SigStep
<1>11. CASE WakeUp(l)
  <2>1. /\ pc[l] = "asleep" /\ UNCHANGED <<evList, lFlag, op, tgt, trapevf>>
        /\ lStat' = [lStat EXCEPT ![l] = "SONPROC"]
    BY <1>11 DEF WakeUp, At, callVars, Resume, Return, evVars
  <2>2. PICK p \in {"issig2", "idle"} :
          Goto(l, p) /\ (p = "issig2" <=> op[l] = "wait_sig" /\ "L_SIGWOKE" \in lFlag[l])
    BY <1>11 DEF WakeUp, Return
  <2>3. pc'[l] = p /\ lStat'[l] = "SONPROC"
    BY <1>0, <2>1, <2>2 DEF Goto
  <2>4. \A k \in Lwps : k # l => /\ lFlag'[k] = lFlag[k] /\ trapevf'[k] = trapevf[k]
                                 /\ lStat'[k] = lStat[k] /\ op'[k] = op[k]
                                 /\ Contains(evList', k) => Contains(evList, k)
    BY <1>0, <2>1
  <2>5. SigOf(l)'
    BY <1>0, <2>1, <2>2, <2>3 DEF SigOf, HolderPcs
  <2> QED BY <1>0, <2>1, <2>2, <2>3, <2>4, <2>5, SigStep
<1> QED BY <1>2, <1>3, <1>4, <1>5, <1>6, <1>7, <1>8, <1>9, <1>10, <1>11 DEF Waiting
(* A signal is posted: an interruptible sleeper is told of it.             *)
LEMMA SigPost ==
  ASSUME Types, WakeInv, SigInv, NEW c \in Ctxs, NEW t \in Lwps, Post(c, t)
  PROVE  SigInv'
<1> DEFINE n == IF Interruptible(t) THEN "unsleep" ELSE "idle"
<1>0. /\ Lwps \subseteq Ctxs /\ Nobody \notin Ctxs /\ lMutex[t] = Nobody /\ c \notin Lwps
      /\ pc \in [Ctxs -> Pcs] /\ tgt \in [Ctxs -> Lwps \union {Nobody}]
      /\ trapevf \in [Lwps -> BOOLEAN] /\ lFlag \in [Lwps -> SUBSET {"L_NWAKE", "L_SIGWOKE"}]
      /\ op \in [Lwps -> {"wait", "wait_sig"}] /\ pc[c] = "idle"
      /\ UNCHANGED <<lStat, op, evList>>
  BY LwpAssumption DEF Types, LwpTypeOK, Ctxs, Post, PostSignal, MutexFree, At, callVars, evVars
<1>1. /\ \A d \in Ctxs : pc'[d] = IF d = c THEN n ELSE pc[d]
      /\ \A d \in Ctxs : tgt'[d] = IF d # c THEN tgt[d] ELSE
                                   IF Interruptible(t) THEN t ELSE Nobody
      /\ \A k \in Lwps : trapevf'[k] = IF k = t THEN TRUE ELSE trapevf[k]
      /\ \A k \in Lwps : lFlag'[k] = IF k = t /\ Interruptible(t)
                                       THEN lFlag[k] \union {"L_SIGWOKE"} ELSE lFlag[k]
  <2>1. /\ \A d \in Ctxs : pc'[d] = IF d = c THEN n ELSE pc[d]
        /\ \A d \in Ctxs : tgt'[d] = IF d # c THEN tgt[d] ELSE
                                     IF Interruptible(t) THEN t ELSE Nobody
    BY <1>0 DEF Post, Goto
  <2>2. \A k \in Lwps : trapevf'[k] = IF k = t THEN TRUE ELSE trapevf[k]
    BY <1>0 DEF Post, PostSignal
  <2>3. \A k \in Lwps : lFlag'[k] = IF k = t /\ Interruptible(t)
                                       THEN lFlag[k] \union {"L_SIGWOKE"} ELSE lFlag[k]
    BY <1>0 DEF Post, PostSignal
  <2> QED BY <2>1, <2>2, <2>3
<1>2. Interruptible(t) => pc[t] = "asleep" /\ op[t] = "wait_sig"
  <2>1. Interruptible(t) => pc[t] = "asleep"
    BY DEF Interruptible, WakeInv, Attended
  <2>2. pc[t] = "asleep" => ("L_NWAKE" \in lFlag[t] <=> op[t] = "wait")
    BY DEF SigInv, SigOf
  <2> QED BY <1>0, <2>1, <2>2 DEF Interruptible
<1>3. pc[t] \notin HolderPcs
  BY <1>0 DEF WakeInv, Attended
<1> HIDE DEF n
<1>4. ASSUME NEW k \in Lwps PROVE SigOf(k)'
  <2>1. SigOf(k) /\ op' = op /\ pc'[k] = pc[k]
    BY <1>0, <1>1 DEF SigInv
  <2>2. CASE k = t /\ Interruptible(t)
    <3>1. lFlag'[t] = lFlag[t] \union {"L_SIGWOKE"}
      BY <1>1, <2>2
    <3> QED BY <1>2, <1>3, <2>1, <2>2, <3>1 DEF SigOf
  <2>3. CASE ~(k = t /\ Interruptible(t))
    BY <1>1, <1>3, <2>1, <2>3 DEF SigOf
  <2> QED BY <2>2, <2>3
<1>5. ASSUME NEW k \in Lwps, Interruptible(k)', Contains(evList', k), trapevf'[k]
      PROVE  \E d \in Ctxs : pc'[d] = "unsleep" /\ tgt'[d] = k
  <2>1. Interruptible(k) /\ Contains(evList, k)
    BY <1>0, <1>1, <1>5 DEF Interruptible
  <2>2. CASE k = t
    BY <1>1, <2>1, <2>2 DEF n
  <2>3. CASE k # t
    <3>1. PICK d \in Ctxs : pc[d] = "unsleep" /\ tgt[d] = k
      BY <1>1, <1>5, <2>1, <2>3 DEF SigInv, SleeperHearsSignals, At, Queued
    <3> QED BY <1>0, <1>1, <3>1
  <2> QED BY <2>2, <2>3
<1> QED BY <1>4, <1>5 DEF SigInv, SleeperHearsSignals, At, Queued

LEMMA SigOther ==
  ASSUME CountInv, Types, WakeInv, SigInv, NEW c \in Ctxs,
         \/ WakeChain(c) \/ Unsleep(c) \/ EVENT_SIGNAL(c) \/ EVENT_BROADCAST(c) \/ Clear(c)
         \/ (c \in Lwps /\ Call(c)) \/ \E t \in Lwps : Post(c, t)
  PROVE  SigInv'
<1>0. /\ lStat \in [Lwps -> {"SONPROC", "SSLEEP", "SRUN"}] /\ pc \in [Ctxs -> Pcs]
      /\ lFlag \in [Lwps -> SUBSET {"L_NWAKE", "L_SIGWOKE"}] /\ trapevf \in [Lwps -> BOOLEAN]
      /\ op \in [Lwps -> {"wait", "wait_sig"}] /\ Lwps \subseteq Ctxs
      /\ tgt \in [Ctxs -> Lwps \union {Nobody}]
      /\ evList \in Seq(Lwps) /\ IsInjective(evList)
      /\ \A l \in Lwps : SigOf(l) /\ (lStat[l] = "SONPROC" <=> pc[l] # "asleep")
      /\ \A l \in Lwps : pc[l] # "unsleep"
  BY DEF Ctxs, Types, LwpTypeOK, SigInv, WakeInv, Attended, Keeps
<1>1. CASE WakeChain(c)
  <2>1. /\ pc[c] = "wake" /\ UNCHANGED <<evList, tgt, op, trapevf>>
        /\ lMutex[Head(chain[c])] = Nobody
        /\ lStat' = [lStat EXCEPT ![Head(chain[c])] = "SRUN"]
        /\ lFlag' = [lFlag EXCEPT ![Head(chain[c])] = @ \ {"L_SIGWOKE"}]
    BY <1>1 DEF WakeChain, Wakeup, MutexFree, At, callVars, evVars
  <2>2. PICK p \in {"idle", "wake"} : Goto(c, p)
    BY <1>1 DEF WakeChain
  <2>3. PICK w \in Lwps : w = Head(chain[c])
    BY <2>1, AttendedHead DEF WakeInv
  <2>4. /\ \A k \in Lwps : /\ lStat'[k] = IF k = w THEN "SRUN" ELSE lStat[k]
                           /\ lFlag'[k] = IF k = w THEN lFlag[k] \ {"L_SIGWOKE"} ELSE lFlag[k]
        /\ \A d \in Ctxs : pc'[d] = IF d = c THEN p ELSE pc[d]
    BY <1>0, <2>1, <2>2, <2>3 DEF Goto
  <2>5. \A k \in Lwps : SigOf(k)'
    BY <1>0, <2>1, <2>4 DEF SigOf, HolderPcs
  <2>6. \A k \in Lwps : Interruptible(k)' => Interruptible(k)
    BY <2>4 DEF Interruptible
  <2>7. SleeperHearsSignals'
    BY <2>1, <2>4, <2>6 DEF SleeperHearsSignals, At, SigInv, Queued
  <2> QED BY <2>5, <2>7 DEF SigInv
<1>2. CASE Unsleep(c)
  <2>1. /\ pc[c] = "unsleep" /\ UNCHANGED <<op, trapevf, lFlag>> /\ Goto(c, "idle")
        /\ tgt' = [tgt EXCEPT ![c] = Nobody] /\ evList' = slpdeque(evList, tgt[c])
        /\ lStat' = [lStat EXCEPT ![tgt[c]] = IF Contains(evList, tgt[c]) THEN "SRUN" ELSE @]
    BY <1>2 DEF Unsleep, FinishNudge, At, callVars
  <2>2. PICK t \in Lwps : t = tgt[c] /\ pc[t] = "asleep" /\ t # c
    BY <1>0, <2>1 DEF WakeInv, Attended
  <2>3. /\ \A d \in Ctxs : pc'[d] = IF d = c THEN "idle" ELSE pc[d]
        /\ \A d \in Ctxs : d # c => tgt'[d] = tgt[d]
        /\ \A k \in Lwps : k # t => lStat'[k] = lStat[k]
    BY <1>0, <2>1, <2>2 DEF Goto
  <2>4. \A k \in Lwps : SigOf(k)'
    BY <1>0, <2>1, <2>3 DEF SigOf, HolderPcs
  <2>5. \A k \in Lwps : Contains(evList', k) => Contains(evList, k) /\ k # t
    BY <1>0, <2>1, <2>2, SlpdequeQueue
  <2>6. ASSUME NEW k \in Lwps, Interruptible(k)', Contains(evList', k), trapevf'[k]
        PROVE  \E d \in Ctxs : pc'[d] = "unsleep" /\ tgt'[d] = k
    <3>1. k # t /\ Interruptible(k) /\ Contains(evList, k) /\ trapevf[k]
      BY <2>1, <2>3, <2>5, <2>6 DEF Interruptible
    <3>2. PICK d \in Ctxs : pc[d] = "unsleep" /\ tgt[d] = k
      BY <3>1 DEF SigInv, SleeperHearsSignals, At, Queued
    <3> QED BY <2>2, <2>3, <3>1, <3>2
  <2> QED BY <2>4, <2>6 DEF SigInv, SleeperHearsSignals, At, Queued
<1>3. CASE EVENT_SIGNAL(c) \/ EVENT_BROADCAST(c)
  <2>1. pc[c] = "idle" /\ UNCHANGED <<op, trapevf, lFlag, lStat, tgt>>
    BY <1>3, SignalTakes
  <2>2. CASE Posts
    BY <2>1, <2>2 DEF Posts, SigInv, SigOf, SleeperHearsSignals, Interruptible, At, Queued
  <2>3. ASSUME NEW a \in Seq(Lwps), Takes(c, a) PROVE SigInv'
    <3>1. Goto(c, "wake") /\ \A k : Contains(evList', k) => Contains(evList, k)
      BY <2>3 DEF Takes
    <3>2. c \in Lwps => SigOf(c)' /\ lStat'[c] = "SONPROC"
      <4>1. pc'[c] = "wake"
        BY <1>0, <3>1 DEF Goto
      <4> QED BY <1>0, <2>1, <4>1 DEF SigOf, HolderPcs
    <3> QED BY <2>1, <3>1, <3>2, SigStep
  <2> QED BY <1>3, <2>2, <2>3, SignalTakes
<1>4. CASE Clear(c)
  BY <1>4 DEF Clear, lwpVars, callVars, SigInv, SigOf, SleeperHearsSignals, Interruptible, At,
              Queued
<1>5. CASE c \in Lwps /\ Call(c)
  <2>1. /\ pc[c] = "idle" /\ Goto(c, "peek")
        /\ UNCHANGED <<trapevf, lFlag, lStat, tgt, evList>>
        /\ \E o : op' = [op EXCEPT ![c] = o]
    BY <1>5 DEF Call, At, lwpVars, evVars
  <2>2. \A k \in Lwps : k # c => op'[k] = op[k]
    BY <1>0, <2>1
  <2>3. SigOf(c)' /\ lStat'[c] = "SONPROC"
    <3>1. pc'[c] = "peek"
      BY <1>0, <2>1 DEF Goto
    <3> QED BY <1>0, <1>5, <2>1, <3>1 DEF SigOf, HolderPcs
  <2> QED BY <2>1, <2>2, <2>3, SigStep
<1> QED BY <1>1, <1>2, <1>3, <1>4, <1>5, SigPost
-----------------------------------------------------------------------------
(***************************************************************************)
(* The count of blocked LWPs.                                              *)
(***************************************************************************)
LEMMA BlockMove ==
  ASSUME Types, BlockInv, NEW c \in Ctxs, NEW p, Goto(c, p), UNCHANGED niblked,
         \A k \in Lwps : k # c => op'[k] = op[k],
         c \in Lwps => (c \in Counted <=> /\ op'[c] = "wait_sig"
                                          /\ p \in {"go", "unblock", "sleep", "asleep"})
  PROVE  BlockInv'
<1>1. \A k \in Lwps : pc'[k] = IF k = c THEN p ELSE pc[k]
  BY DEF Types, Goto, Ctxs
<1>2. Counted' = Counted
  BY <1>1 DEF Counted
<1> QED BY <1>2 DEF BlockInv

(* An LWP is counted out.                                                  *)
LEMMA BlockLess ==
  ASSUME Types, BlockInv, NEW l \in Counted, NEW p \in {"idle", "issig2"}, Goto(l, p),
         UNCHANGED op, CountAwake(l)
  PROVE  BlockInv'
<1>1. l \in Lwps /\ l \in Ctxs /\ Proc[l] \in Procs
  BY DEF Counted, Ctxs, Procs
<1>2. niblked' = [niblked EXCEPT ![Proc[l]] = @ + -1]
  BY DEF CountAwake, CountBlocked
<1>3. \A k \in Lwps : pc'[k] = IF k = l THEN p ELSE pc[k]
  BY <1>1 DEF Types, Goto, Ctxs
<1>4. Counted' = Counted \ {l} /\ Counted \subseteq Lwps
  BY <1>1, <1>3 DEF Counted
<1>5. CountsOf([niblked EXCEPT ![Proc[l]] = @ + -1], Proc, Procs, Counted \ {l})
  BY <1>1, <1>4, CountsLess DEF BlockInv
<1> QED BY <1>2, <1>4, <1>5 DEF BlockInv

LEMMA BlockWaiting ==
  ASSUME Types, SigInv, BlockInv, NEW l \in Lwps, Waiting(l)
  PROVE  BlockInv'
<1>0. l \in Ctxs /\ Proc[l] \in Procs /\ pc \in [Ctxs -> Pcs] /\ SigOf(l)
  BY DEF Ctxs, Procs, Types, SigInv
<1>1. CASE Peek(l) \/ Consume(l) \/ Mutex(l)
  <2>1. /\ pc[l] \in {"peek", "consume", "mutex"} /\ UNCHANGED <<niblked, op>>
    BY <1>1 DEF Peek, Consume, Mutex, At, callVars, procVars, Return
  <2>2. PICK p \in {"consume", "idle", "again", "mutex", "go"} :
          Goto(l, p) /\ (p = "go" => pc[l] = "mutex")
    BY <1>1 DEF Peek, Consume, Mutex, Return, SlowPc, At
  <2> QED BY <1>0, <2>1, <2>2, BlockMove DEF Counted, SigOf
<1>2. CASE Again(l) \/ IssigReturn(l)
  <2>1. pc[l] \in {"again", "issig", "issig2"} /\ UNCHANGED <<niblked, op>>
    BY <1>2 DEF Again, IssigReturn, At, callVars, procVars, Return
  <2>2. PICK p \in {"issig", "acquire", "again", "idle"} : Goto(l, p)
    BY <1>2 DEF Again, IssigReturn, Return
  <2> QED BY <1>0, <2>1, <2>2, BlockMove DEF Counted
<1>3. CASE Acquire(l)
  <2>1. pc[l] = "acquire" /\ UNCHANGED op /\ op[l] = "wait_sig"
    BY <1>0, <1>3 DEF Acquire, At, callVars, SigOf
  <2>2. CASE Goto(l, "sigtolwp") /\ UNCHANGED niblked
    BY <1>0, <2>1, <2>2, BlockMove DEF Counted
  <2>3. CASE CountBlocked(l, 1) /\ Goto(l, "go")
    <3>1. niblked' = [niblked EXCEPT ![Proc[l]] = @ + 1]
      BY <2>3 DEF CountBlocked
    <3>2. \A k \in Lwps : pc'[k] = IF k = l THEN "go" ELSE pc[k]
      BY <1>0, <2>3 DEF Goto, Ctxs
    <3>3. Counted' = Counted \union {l} /\ l \notin Counted /\ Counted \subseteq Lwps
      BY <2>1, <3>2 DEF Counted
    <3>4. CountsOf([niblked EXCEPT ![Proc[l]] = @ + 1], Proc, Procs, Counted \union {l})
      BY <1>0, <3>3, CountsMore DEF BlockInv
    <3> QED BY <3>1, <3>3, <3>4 DEF BlockInv
  <2> QED BY <1>3, <2>2, <2>3 DEF Acquire
<1>4. CASE SendWaiting(l)
  <2>1. pc[l] = "sigtolwp" /\ UNCHANGED <<niblked, op>> /\ Goto(l, "again")
    BY <1>4 DEF SendWaiting, At, callVars
  <2> QED BY <1>0, <2>1, BlockMove DEF Counted
<1>5. CASE Go(l)
  <2>1. pc[l] = "go" /\ UNCHANGED <<niblked, op>>
    BY <1>5 DEF Go, At, callVars, procVars, Return
  <2>2. PICK p \in {"unblock", "idle", "sleep"} :
          Goto(l, p) /\ (p = "idle" => op[l] # "wait_sig")
    BY <1>5 DEF Go, Return
  <2> QED BY <1>0, <2>1, <2>2, BlockMove DEF Counted
<1>6. CASE Unblock(l)
  <2>1. pc[l] = "unblock" /\ CountAwake(l) /\ UNCHANGED op /\ Goto(l, "idle")
    BY <1>6 DEF Unblock, At, CountAwake, Return
  <2>2. l \in Counted
    BY <1>0, <2>1 DEF SigOf, Counted
  <2> QED BY <2>1, <2>2, BlockLess
<1>7. CASE Sleep(l)
  <2>1. pc[l] = "sleep" /\ UNCHANGED <<niblked, op>> /\ Goto(l, "asleep")
    BY <1>7 DEF Sleep, At, callVars, procVars
  <2> QED BY <1>0, <2>1, BlockMove DEF Counted
<1>8. CASE WakeUp(l)
  <2>1. pc[l] = "asleep" /\ UNCHANGED op /\ Uncount(l)
    BY <1>8 DEF WakeUp, At, Return, callVars
  <2>2. PICK p \in {"issig2", "idle"} : Goto(l, p)
    BY <1>8 DEF WakeUp, Return
  <2>3. CASE op[l] = "wait_sig"
    BY <2>1, <2>2, <2>3, BlockLess DEF Uncount, Counted
  <2>4. CASE op[l] # "wait_sig"
    BY <1>0, <2>1, <2>2, <2>4, BlockMove DEF Uncount, Counted
  <2> QED BY <2>3, <2>4
<1> QED BY <1>1, <1>2, <1>3, <1>4, <1>5, <1>6, <1>7, <1>8 DEF Waiting

LEMMA BlockOther ==
  ASSUME CountInv, Types, WakeInv, BlockInv, NEW c \in Ctxs,
         \/ WakeChain(c) \/ Unsleep(c) \/ EVENT_SIGNAL(c) \/ EVENT_BROADCAST(c) \/ Clear(c)
         \/ (c \in Lwps /\ Call(c)) \/ \E t \in Lwps : Post(c, t)
  PROVE  BlockInv'
<1>1. /\ UNCHANGED niblked /\ \A k \in Lwps : k # c => op'[k] = op[k]
      /\ Clear(c) => UNCHANGED <<pc, op>>
  BY DEF WakeChain, Unsleep, EVENT_SIGNAL, EVENT_BROADCAST, Clear, Call, Post, callVars,
         procVars, Types
<1>2. CASE Clear(c)
  BY <1>1, <1>2 DEF BlockInv, Counted
<1>3. CASE EVENT_SIGNAL(c) \/ EVENT_BROADCAST(c)
  <2>1. pc[c] = "idle" /\ UNCHANGED op
    BY <1>3, SignalTakes
  <2>2. CASE Posts
    BY <1>1, <2>1, <2>2 DEF Posts, BlockInv, Counted
  <2>3. CASE Goto(c, "wake")
    BY <1>1, <2>1, <2>3, BlockMove DEF Counted
  <2> QED BY <1>3, <2>2, <2>3, SignalTakes DEF Takes
<1>4. CASE WakeChain(c) \/ Unsleep(c) \/ (c \in Lwps /\ Call(c)) \/ \E t \in Lwps : Post(c, t)
  <2>1. pc[c] \in {"wake", "unsleep", "idle"}
    BY <1>4 DEF WakeChain, Unsleep, Call, Post, At
  <2>2. PICK p \in {"idle", "wake", "peek", "unsleep"} : Goto(c, p)
    BY <1>4 DEF WakeChain, Unsleep, Call, Post
  <2> QED BY <1>1, <2>1, <2>2, BlockMove DEF Counted
<1> QED BY <1>2, <1>3, <1>4

-----------------------------------------------------------------------------
(***************************************************************************)
(* The theorems.                                                           *)
(***************************************************************************)
LEMMA InvSame ==
  ASSUME Inv, UNCHANGED vars
  PROVE  Inv'
<1>1. UNCHANGED <<lMutex, lStat, lFlag, trapevf, niblked, waitsig, op, ret, evState, evList,
                  pc, tgt, chain, sigs>>
  BY DEF vars, lwpVars, procVars, callVars, evVars
<1>2. CountInv' /\ Types' /\ WakeInv' /\ BlockInv'
  BY <1>1 DEF Inv, CountInv, StateCountsBlocked, Types, LwpTypeOK, WakeInv, BlockInv, Counted
<1>3. SigInv'
  BY <1>1 DEF Inv, SigInv, SigOf, SleeperHearsSignals, Interruptible, At, Queued
<1> QED BY <1>2, <1>3 DEF Inv

LEMMA InvStep ==
  ASSUME Inv, [Next]_vars
  PROVE  Inv'
<1>1. ASSUME NEW l \in Lwps, Waiting(l) PROVE (Types /\ WakeInv /\ SigInv /\ BlockInv)'
  BY <1>1, TypesWaiting, WakeWaiting, SigWaiting, BlockWaiting DEF Inv
<1>2. ASSUME NEW c \in Ctxs,
             \/ WakeChain(c) \/ Unsleep(c) \/ EVENT_SIGNAL(c) \/ EVENT_BROADCAST(c)
             \/ Clear(c) \/ (c \in Lwps /\ Call(c)) \/ \E t \in Lwps : Post(c, t)
      PROVE  (Types /\ WakeInv /\ SigInv /\ BlockInv)'
  BY <1>2, TypesOther, WakeOther, SigOther, BlockOther DEF Inv
<1>3. CASE Next
  <2>1. ASSUME NEW l \in Lwps, Call(l) PROVE (Types /\ WakeInv /\ SigInv /\ BlockInv)'
    BY <1>2, <2>1 DEF Ctxs
  <2>2. CountInv'
    BY CountStep DEF Inv
  <2> QED BY <1>1, <1>2, <1>3, <2>1, <2>2 DEF Next, Step, Choice, Inv
<1> QED BY <1>3, InvSame

(* Every LWP that sleeps on the event, or is about to, is on its queue or  *)
(* in the chain of one waker, and never in two places; a poster holds the  *)
(* l_mutex of the sleeper it takes off the queue.                          *)
THEOREM Invariant == Spec => []Inv
  BY InvInit, InvStep, PTL DEF Spec

LEMMA CountedOfProc ==
  ASSUME NEW p
  PROVE  {m \in Counted : Proc[m] = p} =
         {l \in LwpsOf(p) : op[l] = "wait_sig"
                            /\ pc[l] \in {"go", "unblock", "sleep", "asleep"}}
  BY DEF Counted, LwpsOf

(* The variables keep their types through every step: the queue and the    *)
(* chains hold LWPs only and p_niblked never is negative.                  *)
THEOREM TypeCorrect == Spec => []TypeOK
<1>1. Inv => TypeOK
  <2> SUFFICES ASSUME Inv PROVE TypeOK
    OBVIOUS
  <2>1. niblked \in [Procs -> Nat]
    <3>1. ASSUME NEW p \in Procs PROVE niblked[p] \in Nat
      <4>1. niblked[p] = Cardinality({m \in Counted : Proc[m] = p})
        BY DEF Inv, BlockInv, CountsOf
      <4>2. IsFiniteSet({m \in Counted : Proc[m] = p})
        <5>1. {m \in Counted : Proc[m] = p} \subseteq Lwps
          BY DEF Counted
        <5> QED BY <5>1, LwpAssumption, FS_Subset
      <4> QED BY <4>1, <4>2, FS_CardinalityType
    <3> QED BY <3>1 DEF Inv, BlockInv, CountsOf
  <2>2. evList \in Seq(Lwps) /\ evState \in Int /\ chain \in [Ctxs -> Seq(Lwps)]
    BY DEF Inv, CountInv, WakeInv, Attended, Keeps
  <2> QED BY <2>1, <2>2 DEF Inv, Types, TypeOK, Pcs
<1> QED BY <1>1, Invariant, PTL

(* p_niblked of every process is the number of its LWPs that block in      *)
(* EVENT_WAIT_SIG or are about to, however their waits end.                *)
THEOREM BlockedAreCounted == Spec => []NiblkedBalanced
<1>1. Inv => NiblkedBalanced
  BY CountedOfProc DEF Inv, BlockInv, CountsOf, NiblkedBalanced
<1> QED BY <1>1, Invariant, PTL

(* No LWP sleeps interruptibly with a signal pending that nobody is about  *)
(* to wake it for.                                                         *)
THEOREM SignalsAreHeard == Spec => []SleeperHearsSignals
<1>1. Inv => SleeperHearsSignals
  BY DEF Inv, SigInv
<1> QED BY <1>1, Invariant, PTL
-----------------------------------------------------------------------------
(***************************************************************************)
(* A poster has marked whom it takes off the queue: a wakeup that would    *)
(* take the mark away needs the l_mutex that the poster keeps.             *)
(***************************************************************************)
Marked == \A c \in Ctxs : pc[c] = "unsleep" => "L_SIGWOKE" \in lFlag[tgt[c]]

LEMMA MarkKept ==
  ASSUME Inv, Marked, NEW c \in Ctxs, NEW p, p # "unsleep", Goto(c, p),
         UNCHANGED tgt \/ \E t : tgt' = [tgt EXCEPT ![c] = t],
         \A k \in Lwps : pc[k] = "asleep" /\ lMutex[k] # Nobody /\ "L_SIGWOKE" \in lFlag[k]
                         => "L_SIGWOKE" \in lFlag'[k]
  PROVE  Marked'
<1>1. \A d \in Ctxs : d # c => pc'[d] = pc[d] /\ tgt'[d] = tgt[d]
  BY DEF Inv, Types, Goto
<1>2. pc'[c] # "unsleep"
  BY DEF Inv, Types, Goto
<1>3. \A d \in Ctxs : pc[d] = "unsleep" =>
        tgt[d] \in Lwps /\ lMutex[tgt[d]] # Nobody /\ pc[tgt[d]] = "asleep"
  BY LwpAssumption DEF Inv, WakeInv, Attended, Ctxs
<1> QED BY <1>1, <1>2, <1>3 DEF Marked

LEMMA MarkPost ==
  ASSUME Inv, Marked, NEW c \in Ctxs, NEW t \in Lwps, Post(c, t)
  PROVE  Marked'
<1>1. /\ \A d \in Ctxs : d # c => pc'[d] = pc[d] /\ tgt'[d] = tgt[d]
      /\ pc'[c] = (IF Interruptible(t) THEN "unsleep" ELSE "idle")
      /\ Interruptible(t) => tgt'[c] = t
  BY DEF Inv, Types, Goto, Post
<1>2. /\ \A k \in Lwps : "L_SIGWOKE" \in lFlag[k] => "L_SIGWOKE" \in lFlag'[k]
      /\ Interruptible(t) => "L_SIGWOKE" \in lFlag'[t]
  BY DEF Inv, Types, LwpTypeOK, Post, PostSignal
<1>3. \A d \in Ctxs : pc[d] = "unsleep" => tgt[d] \in Lwps
  BY DEF Inv, WakeInv, Attended
<1> QED BY <1>1, <1>2, <1>3 DEF Marked

LEMMA MarkStep ==
  ASSUME Inv, Marked, [Next]_vars
  PROVE  Marked'
<1>0. /\ lFlag \in [Lwps -> SUBSET {"L_NWAKE", "L_SIGWOKE"}] /\ Lwps \subseteq Ctxs
  BY DEF Inv, Types, LwpTypeOK, Ctxs
<1>1. ASSUME NEW l \in Lwps, Waiting(l) PROVE Marked'
  <2>1. PICK p \in Pcs \ {"unsleep"} : Goto(l, p)
    BY <1>1 DEF Waiting, Peek, Consume, Mutex, Again, IssigReturn, Acquire, SendWaiting, Go,
                Unblock, Sleep, WakeUp, SlowPc, Return, Pcs
  <2>2. UNCHANGED tgt
    BY <1>1 DEF Waiting, Peek, Consume, Mutex, Again, IssigReturn, Acquire, SendWaiting, Go,
                Unblock, Sleep, WakeUp
  <2>3. ASSUME NEW k \in Lwps, pc[k] = "asleep", "L_SIGWOKE" \in lFlag[k]
        PROVE  "L_SIGWOKE" \in lFlag'[k]
    <3>1. CASE Again(l)
      BY <1>0, <2>3, <3>1 DEF Again, At
    <3>2. CASE Sleep(l)
      BY <1>0, <2>3, <3>2 DEF Sleep, Block, At
    <3>3. CASE IssigReturn(l)
      BY <1>0, <2>3, <3>3 DEF IssigReturn, At
    <3>4. CASE SendWaiting(l)
      BY <2>3, <3>4, SelfPost DEF Inv
    <3>5. CASE UNCHANGED lFlag
      BY <2>3, <3>5
    <3>6. Again(l) \/ Sleep(l) \/ IssigReturn(l) \/ SendWaiting(l) \/ UNCHANGED lFlag
      BY <1>1 DEF Waiting, Peek, Consume, Mutex, Acquire, Go, Unblock, WakeUp, Resume, lwpVars
    <3> QED BY <3>1, <3>2, <3>3, <3>4, <3>5, <3>6
  <2> QED BY <1>0, <2>1, <2>2, <2>3, MarkKept
<1>2. ASSUME NEW c \in Ctxs, WakeChain(c) PROVE Marked'
  <2>1. PICK p \in {"idle", "wake"} : Goto(c, p)
    BY <1>2 DEF WakeChain
  <2>2. /\ UNCHANGED tgt /\ lMutex[Head(chain[c])] = Nobody
        /\ lFlag' = [lFlag EXCEPT ![Head(chain[c])] = @ \ {"L_SIGWOKE"}]
    BY <1>2 DEF WakeChain, Wakeup, MutexFree
  <2> QED BY <1>0, <2>1, <2>2, MarkKept
<1>3. ASSUME NEW c \in Ctxs, Unsleep(c) PROVE Marked'
  <2>1. /\ Goto(c, "idle") /\ UNCHANGED lFlag /\ tgt' = [tgt EXCEPT ![c] = Nobody]
    BY <1>3 DEF Unsleep, FinishNudge
  <2> QED BY <2>1, MarkKept
<1>4. ASSUME NEW c \in Ctxs, EVENT_SIGNAL(c) \/ EVENT_BROADCAST(c) \/ Clear(c)
                             \/ (c \in Lwps /\ Call(c))
      PROVE  Marked'
  <2>1. UNCHANGED pc \/ \E p \in {"wake", "peek"} : Goto(c, p)
    BY <1>4 DEF EVENT_SIGNAL, EVENT_BROADCAST, Clear, Call
  <2>2. UNCHANGED <<lFlag, tgt>>
    BY <1>4 DEF EVENT_SIGNAL, EVENT_BROADCAST, Clear, Call, lwpVars
  <2>3. CASE UNCHANGED pc
    BY <2>2, <2>3 DEF Marked
  <2> QED BY <2>1, <2>2, <2>3, MarkKept
<1>5. CASE Next
  BY <1>0, <1>1, <1>2, <1>3, <1>4, <1>5, MarkPost DEF Next, Step, Choice
<1>6. CASE UNCHANGED vars
  BY <1>6 DEF vars, lwpVars, Marked
<1> QED BY <1>5, <1>6
-----------------------------------------------------------------------------
(***************************************************************************)
(* Refinement.                                                             *)
(***************************************************************************)
(* Where a caller neither looks for an event nor has broken off its sleep. *)
LookOutPcs == {"idle", "wake", "unblock", "sleep", "asleep"}

Posted == evState = 1
Blocked == {l \in Lwps : Queued(l)}
Given == {l \in Lwps : At(l, "unblock") \/ (Gone(l) /\ ~Interrupted(l))}
Looking == {l \in Lwps : Interrupted(l) \/ pc[l] \notin LookOutPcs}

AbsStep == [A!Next]_(A!vars)

LEMMA AbsIs ==
  /\ UNCHANGED <<Posted, Looking, Blocked, Given, ret>> => AbsStep
  /\ (\E l \in Lwps : A!Start(l) \/ A!Decide(l) \/ A!Interrupt(l) \/ A!Succeed(l)) => AbsStep
  /\ A!Post \/ A!Clear \/ (\E S \in SUBSET Blocked : A!Give(S)) => AbsStep
  BY DEF A!vars, A!Next, AbsStep, Posted, Looking, Blocked, Given, LookOutPcs

(* A step of c from a point that is not asleep to another: who looks, who  *)
(* blocks and who has got an event.                                        *)
LEMMA AbsMove ==
  ASSUME Inv, NEW c \in Ctxs, NEW p, Goto(c, p), UNCHANGED <<evList, chain>>,
         c \in Lwps => pc[c] \notin {"sleep", "asleep"} /\ p \notin {"sleep", "asleep"},
         \A k \in Lwps : k # c /\ Gone(k) /\ ~InChain(k) =>
           ("L_SIGWOKE" \in lFlag'[k] <=> "L_SIGWOKE" \in lFlag[k])
  PROVE  /\ Blocked' = Blocked
         /\ c \notin Lwps => Given' = Given /\ Looking' = Looking
         /\ c \in Lwps =>
              /\ c \notin Blocked /\ (c \in Given <=> pc[c] = "unblock")
              /\ c \in Looking <=> pc[c] \notin LookOutPcs
              /\ Given' = IF p = "unblock" THEN Given \union {c} ELSE Given \ {c}
              /\ Looking' = IF p \in LookOutPcs THEN Looking \ {c} ELSE Looking \union {c}
<1>1. \A k \in Lwps : pc'[k] = IF k = c THEN p ELSE pc[k]
  BY DEF Inv, Types, Goto, Ctxs
<1>2. \A k \in Lwps : /\ k = c => ~Gone(k) /\ ~Gone(k)'
                      /\ k # c => (Gone(k)' <=> Gone(k))
  BY <1>1 DEF Gone, Queued
<1>3. \A k \in Lwps : (InChain(k)' <=> InChain(k)) /\ (Queued(k)' <=> Queued(k))
  BY DEF InChain, Queued
<1>4. \A k \in Lwps : Interrupted(k)' <=> Interrupted(k)
  BY <1>2, <1>3 DEF Interrupted
<1>5. \A k \in Lwps : k = c => ~Interrupted(k)
  BY <1>2 DEF Interrupted
<1>6. \A k \in Lwps : k = c => ~Queued(k)
  BY DEF Inv, WakeInv, Attended, Keeps, Drowsy, Queued
<1>7. Blocked' = Blocked
  BY <1>3 DEF Blocked
<1>8. /\ \A k \in Lwps : k \in Given' <=> IF k = c THEN p = "unblock" ELSE k \in Given
      /\ Given \subseteq Lwps /\ Given' \subseteq Lwps
  BY <1>1, <1>2, <1>4 DEF Given, At
<1>9. /\ \A k \in Lwps : k \in Looking' <=> IF k = c THEN p \notin LookOutPcs ELSE k \in Looking
      /\ Looking \subseteq Lwps /\ Looking' \subseteq Lwps
  BY <1>1, <1>4, <1>5 DEF Looking
<1>10. \A k \in Lwps : k = c => /\ k \notin Blocked /\ (k \in Given <=> pc[k] = "unblock")
                                /\ k \in Looking <=> pc[k] \notin LookOutPcs
  BY <1>2, <1>5, <1>6 DEF Blocked, Given, Looking, At
<1> QED BY <1>7, <1>8, <1>9, <1>10
(* A caller that looks for an event, from the point where it starts to the *)
(* one where it fails, consumes an event or answers for one.               *)
LEMMA AbsLook ==
  ASSUME Inv, NEW l \in Lwps,
         \/ Call(l) \/ Peek(l) \/ Consume(l) \/ Mutex(l) \/ Again(l) \/ IssigReturn(l)
         \/ Acquire(l) \/ SendWaiting(l) \/ Unblock(l) \/ (Go(l) /\ Posted)
  PROVE  AbsStep
<1>0. /\ l \in Ctxs /\ lFlag \in [Lwps -> SUBSET {"L_NWAKE", "L_SIGWOKE"}]
      /\ SigOf(l)
  BY DEF Ctxs, Inv, Types, LwpTypeOK, SigInv
<1>1. /\ UNCHANGED <<evList, chain>> /\ pc[l] \notin {"sleep", "asleep", "wake"}
      /\ \A k \in Lwps : k # l => lFlag'[k] = lFlag[k]
  <2>1. CASE SendWaiting(l)
    BY <2>1, SelfPost DEF Inv, evVars
  <2>2. CASE Go(l) /\ Posted
    BY <2>2 DEF Go, Posted, At
  <2>3. CASE Again(l) \/ IssigReturn(l)
    BY <1>0, <2>3 DEF Again, IssigReturn, At, evVars
  <2>4. CASE Call(l) \/ Peek(l) \/ Consume(l) \/ Mutex(l) \/ Acquire(l) \/ Unblock(l)
    BY <2>4 DEF Call, Peek, Consume, Mutex, Acquire, Unblock, At, evVars, lwpVars
  <2> QED BY <2>1, <2>2, <2>3, <2>4
<1>2. ASSUME NEW p, Goto(l, p), p \notin {"sleep", "asleep"}
      PROVE  /\ Blocked' = Blocked /\ l \notin Blocked /\ (l \in Given <=> pc[l] = "unblock")
             /\ l \in Looking <=> pc[l] \notin LookOutPcs
             /\ Given' = IF p = "unblock" THEN Given \union {l} ELSE Given \ {l}
             /\ Looking' = IF p \in LookOutPcs THEN Looking \ {l} ELSE Looking \union {l}
  BY <1>0, <1>1, <1>2, AbsMove
<1> USE DEF LookOutPcs
<1>3. CASE Call(l)
  <2>1. pc[l] = "idle" /\ Goto(l, "peek") /\ UNCHANGED <<Posted, ret>>
    BY <1>3 DEF Call, At, evVars, Posted
  <2>2. A!Start(l)
    BY <1>2, <2>1 DEF A!Start, Posted, Blocked, Given, Looking
  <2> QED BY <2>2, AbsIs
<1>4. ASSUME NEW p \in {"consume", "mutex", "again", "issig", "acquire", "sigtolwp", "go"},
             Goto(l, p), UNCHANGED <<Posted, ret>>, pc[l] \notin {"idle", "unblock"}
      PROVE  AbsStep
  <2>1. UNCHANGED <<Posted, Looking, Blocked, Given, ret>>
    BY <1>1, <1>2, <1>4
  <2> QED BY <2>1, AbsIs
<1>5. ASSUME Posted, ~Posted', Return(l, TRUE), pc[l] \notin {"idle", "unblock"}
      PROVE  AbsStep
  <2>1. Goto(l, "idle") /\ ret' = [ret EXCEPT ![l] = TRUE]
    BY <1>5 DEF Return
  <2>2. A!TakeAndReturn(l)
    BY <1>1, <1>2, <1>5, <2>1 DEF A!TakeAndReturn, Posted, Blocked, Given, Looking
  <2> QED BY <2>2, AbsIs DEF A!Decide
<1>6. CASE Peek(l) \/ Mutex(l) \/ Again(l) \/ Acquire(l) \/ SendWaiting(l)
  <2>1. /\ UNCHANGED <<Posted, ret>> /\ pc[l] \notin {"idle", "unblock"}
    BY <1>6 DEF Peek, Mutex, Again, Acquire, SendWaiting, At, Posted, evVars, callVars
  <2>2. \E p \in {"consume", "mutex", "again", "issig", "acquire", "sigtolwp", "go"} : Goto(l, p)
    BY <1>6 DEF Peek, Mutex, Again, Acquire, SendWaiting, SlowPc
  <2> QED BY <1>4, <2>1, <2>2
<1>7. CASE Consume(l)
  <2>1. CASE evState = 1
    BY <1>5, <1>7, <2>1 DEF Consume, Posted, At
  <2>2. CASE evState # 1
    <3>1. /\ UNCHANGED <<Posted, ret>> /\ pc[l] \notin {"idle", "unblock"}
          /\ \E p \in {"mutex", "again"} : Goto(l, p)
      BY <1>7, <2>2 DEF Consume, SlowPc, Posted, At, callVars
    <3> QED BY <1>4, <3>1
  <2> QED BY <2>1, <2>2
<1>8. CASE IssigReturn(l)
  <2>1. UNCHANGED Posted /\ pc[l] \notin {"idle", "unblock"} /\ pc[l] \notin LookOutPcs
    BY <1>8 DEF IssigReturn, Posted, evVars
  <2>2. CASE \E p \in {"acquire", "again"} : Goto(l, p) /\ UNCHANGED callVars
    BY <1>4, <2>1, <2>2 DEF callVars
  <2>3. CASE Return(l, FALSE)
    <3>1. Goto(l, "idle") /\ ret' = [ret EXCEPT ![l] = FALSE]
      BY <2>3 DEF Return
    <3>2. A!Fail(l)
      BY <1>2, <2>1, <3>1 DEF A!Fail, Posted, Blocked, Given, Looking
    <3> QED BY <3>2, AbsIs DEF A!Decide
  <2> QED BY <1>8, <2>2, <2>3 DEF IssigReturn
<1>9. CASE Unblock(l)
  <2>1. pc[l] = "unblock" /\ Goto(l, "idle") /\ ret' = [ret EXCEPT ![l] = TRUE]
        /\ UNCHANGED Posted
    BY <1>9 DEF Unblock, At, Return, Posted, evVars
  <2>2. A!Succeed(l)
    BY <1>2, <2>1 DEF A!Succeed, Posted, Blocked, Given, Looking
  <2> QED BY <2>2, AbsIs
<1>10. CASE Go(l) /\ Posted
  <2>1. pc[l] = "go" /\ evState = 1 /\ evState' = 0
    BY <1>10 DEF Go, At, Posted
  <2>2. CASE op[l] = "wait_sig"
    <3>1. Goto(l, "unblock") /\ UNCHANGED ret
      BY <1>10, <2>1, <2>2 DEF Go, callVars
    <3>2. A!Consume(l)
      BY <1>2, <2>1, <3>1 DEF A!Consume, Posted, Blocked, Given, Looking
    <3> QED BY <3>2, AbsIs DEF A!Decide
  <2>3. CASE op[l] # "wait_sig"
    BY <1>5, <1>10, <2>1, <2>3 DEF Go, Posted
  <2> QED BY <2>2, <2>3
<1> QED BY <1>3, <1>6, <1>7, <1>8, <1>9, <1>10

(* It finds no event, and blocks.                                          *)
LEMMA AbsBlock ==
  ASSUME Inv, NEW l \in Lwps, Go(l), ~Posted
  PROVE  AbsStep
<1>1. evState # 1 /\ evState \in Int /\ evState <= 0
  BY LenProperties DEF Posted, Inv, CountInv, StateCountsBlocked
<1>2. /\ l \in Ctxs /\ pc[l] = "go" /\ Goto(l, "sleep") /\ evList' = Append(evList, l)
      /\ evState' # 1 /\ UNCHANGED <<chain, ret, lFlag>>
  BY <1>1 DEF Ctxs, Go, At, callVars
<1>3. \A k \in Lwps : pc'[k] = IF k = l THEN "sleep" ELSE pc[k]
  BY <1>2 DEF Inv, Types, Goto, Ctxs
<1>4. \A k \in Lwps : Queued(k)' <=> Queued(k) \/ k = l
  BY <1>2, AppendQueue DEF Inv, CountInv, Queued
<1>5. ~Queued(l) /\ ~Gone(l)
  BY <1>2 DEF Inv, WakeInv, Attended, Keeps, Drowsy, Queued, Gone
<1>6. \A k \in Lwps : (Gone(k)' <=> Gone(k)) /\ (InChain(k)' <=> InChain(k))
  BY <1>2, <1>3, <1>4, <1>5 DEF Gone, InChain
<1>7. \A k \in Lwps : Interrupted(k)' <=> Interrupted(k)
  BY <1>2, <1>6 DEF Interrupted
<1>8. Blocked' = Blocked \union {l}
  BY <1>4 DEF Blocked
<1>9. Given' = Given
  BY <1>2, <1>3, <1>6, <1>7 DEF Given, At
<1>10. Looking' = Looking \ {l} /\ l \in Looking
  BY <1>2, <1>3, <1>5, <1>7 DEF Looking, LookOutPcs, Interrupted
<1>11. A!Block(l)
  BY <1>1, <1>2, <1>8, <1>9, <1>10 DEF A!Block, Posted, Blocked, Given, Looking, LookOutPcs
<1> QED BY <1>11, AbsIs DEF A!Decide

(* That it sleeps is no news.                                              *)
LEMMA AbsSleep ==
  ASSUME Inv, NEW l \in Lwps, Sleep(l)
  PROVE  AbsStep
<1>1. /\ l \in Ctxs /\ pc[l] = "sleep" /\ Goto(l, "asleep")
      /\ UNCHANGED <<evState, evList, chain, ret>>
      /\ \A k \in Lwps : k # l => lFlag'[k] = lFlag[k]
  BY DEF Ctxs, Sleep, Block, At, callVars, evVars, Inv, Types, LwpTypeOK
<1>2. l \in Drowsy(pc, lStat)
  BY <1>1 DEF Drowsy
<1>3. ~Queued(l) => InChain(l)
  BY <1>2 DEF Inv, WakeInv, Attended, Keeps, InChain, Queued
<1>4. \A k \in Lwps : pc'[k] = IF k = l THEN "asleep" ELSE pc[k]
  BY <1>1 DEF Inv, Types, Goto, Ctxs
<1>5. \A k \in Lwps : /\ Gone(k)' <=> Gone(k)
                      /\ InChain(k)' <=> InChain(k)
                      /\ Queued(k)' <=> Queued(k)
  BY <1>1, <1>4 DEF Gone, InChain, Queued
<1>6. \A k \in Lwps : Interrupted(k)' <=> Interrupted(k)
  BY <1>1, <1>3, <1>5 DEF Interrupted, Gone
<1>7. UNCHANGED <<Posted, Looking, Blocked, Given, ret>>
  BY <1>1, <1>4, <1>5, <1>6 DEF Posted, Looking, Blocked, Given, LookOutPcs, At
<1> QED BY <1>7, AbsIs

(* swtch() returns: in an LWP that has an event, or that looks for one.    *)
LEMMA AbsWakeUp ==
  ASSUME Inv, NEW l \in Lwps, WakeUp(l)
  PROVE  AbsStep
<1>1. /\ l \in Ctxs /\ pc[l] = "asleep" /\ lStat[l] = "SRUN"
      /\ UNCHANGED <<evState, evList, chain, lFlag>>
      /\ "L_SIGWOKE" \in lFlag[l] => op[l] = "wait_sig"
  BY DEF Ctxs, WakeUp, Resume, At, evVars, Inv, SigInv, SigOf
<1>2. ~Queued(l) /\ ~InChain(l)
  <2>1. l \notin Drowsy(pc, lStat)
    BY <1>1 DEF Drowsy
  <2> QED BY <2>1 DEF InChain, Queued, Inv, WakeInv, Attended, Keeps
<1>3. /\ l \in Given <=> "L_SIGWOKE" \notin lFlag[l]
      /\ l \in Looking <=> "L_SIGWOKE" \in lFlag[l]
  BY <1>1, <1>2 DEF Given, Looking, Gone, Interrupted, LookOutPcs, At
<1>4. ASSUME NEW p \in {"issig2", "idle"}, Goto(l, p)
      PROVE  /\ UNCHANGED <<Posted, Blocked>> /\ Given' = Given \ {l}
             /\ Looking' = IF p = "idle" THEN Looking \ {l} ELSE Looking \union {l}
  <2>1. \A k \in Lwps : pc'[k] = IF k = l THEN p ELSE pc[k]
    BY <1>1, <1>4 DEF Inv, Types, Goto, Ctxs
  <2>2. \A k \in Lwps : /\ InChain(k)' <=> InChain(k)
                        /\ Queued(k)' <=> Queued(k)
                        /\ k # l => (Gone(k)' <=> Gone(k))
    BY <1>1, <2>1 DEF InChain, Gone, Queued
  <2>3. ~Gone(l)'
    BY <2>1 DEF Gone
  <2>4. \A k \in Lwps : Interrupted(k)' <=> Interrupted(k) /\ k # l
    BY <1>1, <2>2, <2>3 DEF Interrupted
  <2>5. Given' = Given \ {l}
    BY <1>1, <2>1, <2>2, <2>3, <2>4 DEF Given, At
  <2>6. Looking' = IF p = "idle" THEN Looking \ {l} ELSE Looking \union {l}
    BY <2>1, <2>4 DEF Looking, LookOutPcs
  <2> QED BY <1>1, <2>2, <2>5, <2>6 DEF Posted, Blocked
<1>5. CASE "L_SIGWOKE" \in lFlag[l]
  <2>1. Goto(l, "issig2") /\ UNCHANGED ret
    BY <1>1, <1>5 DEF WakeUp, callVars
  <2>2. UNCHANGED <<Posted, Looking, Blocked, Given, ret>>
    BY <1>3, <1>4, <1>5, <2>1
  <2> QED BY <2>2, AbsIs
<1>6. CASE "L_SIGWOKE" \notin lFlag[l]
  <2>1. Goto(l, "idle") /\ ret' = [ret EXCEPT ![l] = TRUE]
    BY <1>6 DEF WakeUp, Return
  <2>2. A!Succeed(l)
    BY <1>3, <1>4, <1>6, <2>1 DEF A!Succeed, Posted, Blocked, Given, Looking, LookOutPcs
  <2> QED BY <2>2, AbsIs
<1> QED BY <1>5, <1>6
-----------------------------------------------------------------------------
(* A signaller takes the front of the queue, a, and leaves the rest.       *)
LEMMA AbsTaken ==
  ASSUME Inv, NEW c \in Ctxs, NEW a, pc[c] = "idle", Takes(c, a), UNCHANGED <<ret, lFlag>>
  PROVE  AbsStep
<1> DEFINE S == {l \in Lwps : Contains(a, l)}
<1>1. /\ chain \in [Ctxs -> Seq(Lwps)] /\ chain[c] = <<>>
      /\ \A l \in Lwps : Queued(l) =>
           l \in Drowsy(pc, lStat) /\ \A d \in Ctxs : ~Contains(chain[d], l)
      /\ \A l \in Lwps : lStat[l] = "SONPROC" <=> pc[l] # "asleep"
  BY DEF Inv, WakeInv, Attended, Keeps, Queued
<1>2. \A k \in Lwps : pc'[k] = IF k = c THEN "wake" ELSE pc[k]
  BY DEF Takes, Inv, Types, Goto, Ctxs
<1>3. \A k \in Lwps : Queued(k) <=> (k \in S \/ Queued(k)')
  BY DEF Takes, Queued
<1>4. \A k \in Lwps : ~(k \in S /\ Queued(k)')
  BY DEF Takes, Queued
<1>5. \A k \in Lwps : InChain(k)' <=> (InChain(k) \/ k \in S)
  <2>1. \A d \in Ctxs : chain'[d] = IF d = c THEN a ELSE chain[d]
    BY <1>1 DEF Takes
  <2>2. \A m : ~Contains(chain[c], m)
    BY <1>1, EmptyQueue
  <2> QED BY <2>1, <2>2 DEF InChain
<1>6. \A k \in Lwps : Gone(k)' <=> (Gone(k) \/ k \in S)
  BY <1>1, <1>2, <1>3, <1>4 DEF Gone, Drowsy
<1>7. \A k \in Lwps : k \in S => ~Gone(k)
  BY <1>3 DEF Gone
<1>8. \A k \in Lwps : Interrupted(k)' <=> Interrupted(k)
  BY <1>5, <1>6, <1>7 DEF Interrupted
<1> HIDE DEF S
<1>9. \A k \in Lwps : k \in S => ~Interrupted(k) /\ k \in Blocked
  BY <1>3, <1>7 DEF Interrupted, Blocked
<1>10. Blocked' = Blocked \ S
  BY <1>3, <1>4 DEF Blocked
<1>11. S \in SUBSET Blocked
  BY <1>9 DEF S
<1>12. Given' = Given \union S
  BY <1>2, <1>6, <1>8, <1>9, <1>11 DEF Given, Blocked, At
<1>13. Looking' = Looking
  BY <1>2, <1>8 DEF Looking, LookOutPcs
<1>14. A!Give(S)
  BY <1>10, <1>11, <1>12, <1>13
     DEF A!Give, Takes, Posted, Blocked, Given, Looking, LookOutPcs
<1> QED BY <1>11, <1>14, AbsIs

(* An event is given, or posted; it is cleared with nobody blocked.        *)
LEMMA AbsSignal ==
  ASSUME Inv, NEW c \in Ctxs, EVENT_SIGNAL(c) \/ EVENT_BROADCAST(c) \/ Clear(c)
  PROVE  AbsStep
<1>1. CASE EVENT_SIGNAL(c) \/ EVENT_BROADCAST(c)
  <2>1. pc[c] = "idle" /\ UNCHANGED <<lFlag, ret>>
    BY <1>1, SignalTakes DEF Inv
  <2>2. CASE Posts
    <3>1. UNCHANGED <<Looking, Blocked, Given>>
      BY <2>1, <2>2 DEF Posts, Looking, Blocked, Given, Gone, Interrupted, InChain, Queued, At
    <3>2. Blocked = {} /\ Posted'
      BY <2>2, EmptyQueue DEF Posts, Blocked, Queued, Posted
    <3>3. A!Post
      BY <2>1, <3>1, <3>2 DEF A!Post, Posted, Blocked, Given, Looking, LookOutPcs
    <3> QED BY <3>3, AbsIs
  <2> QED BY <1>1, <2>1, <2>2, SignalTakes, AbsTaken DEF Inv
<1>2. CASE Clear(c)
  <2>1. /\ evList = <<>> /\ evState' = 0
        /\ UNCHANGED <<evList, pc, chain, lFlag, ret>>
    BY <1>2 DEF Clear, lwpVars, callVars
  <2>2. UNCHANGED <<Looking, Blocked, Given>>
    BY <2>1 DEF Looking, Blocked, Given, Gone, Interrupted, InChain, Queued, At
  <2>3. Blocked = {} /\ ~Posted'
    BY <2>1, EmptyQueue DEF Blocked, Queued, Posted
  <2>4. A!Clear
    BY <2>1, <2>2, <2>3 DEF A!Clear, Posted, Blocked, Given, Looking, LookOutPcs
  <2> QED BY <2>4, AbsIs
<1> QED BY <1>1, <1>2

(* To wake the LWPs of a chain, and to post a signal, changes nothing for  *)
(* the abstract event.                                                     *)
LEMMA AbsWakeChain ==
  ASSUME Inv, NEW c \in Ctxs, WakeChain(c)
  PROVE  AbsStep
<1>1. /\ pc[c] = "wake" /\ lMutex[Head(chain[c])] = Nobody
      /\ UNCHANGED <<evState, evList, ret>>
      /\ lFlag' = [lFlag EXCEPT ![Head(chain[c])] = @ \ {"L_SIGWOKE"}]
      /\ chain' = [chain EXCEPT ![c] = Tail(chain[c])]
  BY DEF WakeChain, Wakeup, MutexFree, At, RestOfChain, callVars, evVars
<1>2. PICK p \in {"idle", "wake"} : Goto(c, p)
  BY DEF WakeChain
<1>3. PICK w \in Lwps : /\ w = Head(chain[c]) /\ Contains(chain[c], w) /\ pc[w] = "asleep"
                        /\ \A k \in Lwps : k # w =>
                             (Contains(Tail(chain[c]), k) <=> Contains(chain[c], k))
  <2>1. /\ Head(chain[c]) \in Lwps /\ Contains(chain[c], Head(chain[c]))
        /\ pc[Head(chain[c])] = "asleep"
        /\ \A k \in Lwps : k # Head(chain[c]) =>
             (Contains(Tail(chain[c]), k) <=> Contains(chain[c], k))
    BY <1>1, AttendedHead DEF Inv, WakeInv
  <2> QED BY <2>1
<1>4. \A k \in Lwps : pc'[k] = IF k = c THEN p ELSE pc[k]
  BY <1>2 DEF Inv, Types, Goto, Ctxs
<1>5. /\ lFlag \in [Lwps -> SUBSET {"L_NWAKE", "L_SIGWOKE"}]
      /\ chain \in [Ctxs -> Seq(Lwps)]
  BY DEF Inv, Types, LwpTypeOK, WakeInv, Attended, Keeps
<1>6. \A k \in Lwps : (Gone(k)' <=> Gone(k)) /\ (Queued(k)' <=> Queued(k))
  BY <1>1, <1>4 DEF Gone, Queued
<1>7. /\ \A k \in Lwps : k # w => lFlag'[k] = lFlag[k] /\ (InChain(k)' <=> InChain(k))
      /\ InChain(w) /\ "L_SIGWOKE" \notin lFlag'[w]
  <2>1. \A k \in Lwps : k # w => lFlag'[k] = lFlag[k] /\ (InChain(k)' <=> InChain(k))
    BY <1>1, <1>3, <1>5 DEF InChain
  <2>2. InChain(w) /\ "L_SIGWOKE" \notin lFlag'[w]
    BY <1>1, <1>3, <1>5 DEF InChain
  <2> QED BY <2>1, <2>2
<1>8. \A k \in Lwps : Interrupted(k)' <=> Interrupted(k)
  BY <1>6, <1>7 DEF Interrupted
<1>9. UNCHANGED <<Posted, Looking, Blocked, Given, ret>>
  BY <1>1, <1>4, <1>6, <1>8 DEF Posted, Looking, Blocked, Given, LookOutPcs, At
<1> QED BY <1>9, AbsIs

LEMMA AbsPost ==
  ASSUME Inv, NEW c \in Ctxs, NEW t \in Lwps, Post(c, t)
  PROVE  AbsStep
<1>1. /\ c \notin Lwps /\ UNCHANGED <<evState, evList, chain, ret>> /\ PostSignal(t, c)
      /\ \E p : Goto(c, p)
  BY LwpAssumption DEF Post, evVars, callVars
<1>2. ASSUME NEW k \in Lwps, Gone(k), ~InChain(k)
      PROVE  "L_SIGWOKE" \in lFlag'[k] <=> "L_SIGWOKE" \in lFlag[k]
  <2>1. k \notin Drowsy(pc, lStat)
    BY <1>2 DEF Inv, WakeInv, Attended, Keeps, Gone, Queued, InChain
  <2>2. ~Interruptible(k)
    BY <2>1 DEF Drowsy, Interruptible
  <2> QED BY <1>1, <2>2 DEF PostSignal, Inv, Types, LwpTypeOK
<1>3. UNCHANGED <<Posted, Looking, Blocked, Given, ret>>
  BY <1>1, <1>2, AbsMove DEF Posted
<1> QED BY <1>3, AbsIs

(* A poster takes a blocked LWP off the queue, or finds it gone.           *)
LEMMA AbsUnsleep ==
  ASSUME Inv, Marked, NEW c \in Ctxs, Unsleep(c)
  PROVE  AbsStep
<1>1. /\ pc[c] = "unsleep" /\ UNCHANGED <<ret, chain, lFlag>> /\ Goto(c, "idle")
      /\ evList' = slpdeque(evList, tgt[c])
      /\ evState' = IF Contains(evList, tgt[c]) THEN evState + 1 ELSE evState
  BY DEF Unsleep, OneWaiterLess, FinishNudge, At, callVars
<1>2. PICK t \in Lwps : t = tgt[c] /\ pc[t] = "asleep" /\ "L_SIGWOKE" \in lFlag[t]
  BY <1>1 DEF Inv, WakeInv, Attended, Marked
<1>3. /\ evList \in Seq(Lwps) /\ IsInjective(evList)
      /\ Queued(t) => ~InChain(t)
  BY DEF Inv, WakeInv, Attended, Keeps, InChain, Queued
<1>4. \A k \in Lwps : pc'[k] = IF k = c THEN "idle" ELSE pc[k]
  BY <1>1 DEF Inv, Types, Goto, Ctxs
<1>5. c \notin Lwps
  BY <1>1 DEF Inv, Types
<1>6. \A k \in Lwps : /\ Queued(k)' <=> Queued(k) /\ k # t
                      /\ InChain(k)' <=> InChain(k)
  <2>1. \A k : Contains(evList', k) <=> Contains(evList, k) /\ k # t
    BY <1>1, <1>2, <1>3, SlpdequeQueue
  <2>2. \A k \in Lwps : InChain(k)' <=> InChain(k)
    BY <1>1 DEF InChain
  <2> QED BY <2>1, <2>2 DEF Queued
<1>7. Posted' = Posted
  <2>1. CASE Queued(t)
    <3>1. evState \in Int /\ evState <= 0 /\ evState # 0
      <4>1. evList # <<>> /\ evState = -Len(evList) /\ Len(evList) \in Nat
        BY <2>1, EmptyQueue, <1>3, LenProperties
           DEF Queued, Inv, CountInv, StateCountsBlocked
      <4>2. Len(evList) # 0
        BY <1>3, <4>1, EmptySeq
      <4> QED BY <4>1, <4>2
    <3> QED BY <1>1, <1>2, <2>1, <3>1 DEF Queued, Posted
  <2>2. CASE ~Queued(t)
    BY <1>1, <1>2, <2>2 DEF Queued, Posted
  <2> QED BY <2>1, <2>2
<1>8. CASE Queued(t)
  <2>1. /\ \A k \in Lwps : k # t => (Gone(k)' <=> Gone(k))
        /\ ~Gone(t) /\ Interrupted(t)'
    <3>1. (\A k \in Lwps : k # t => (Gone(k)' <=> Gone(k))) /\ ~Gone(t) /\ Gone(t)'
      BY <1>2, <1>4, <1>5, <1>6, <1>8 DEF Gone
    <3> QED BY <1>1, <1>2, <1>3, <1>6, <1>8, <3>1 DEF Interrupted
  <2>2. \A k \in Lwps : Interrupted(k)' <=> Interrupted(k) \/ k = t
    BY <1>1, <1>6, <2>1 DEF Interrupted
  <2>3. Blocked' = Blocked \ {t} /\ t \in Blocked
    BY <1>6, <1>8 DEF Blocked
  <2>4. Given' = Given
    BY <1>2, <1>4, <1>5, <2>1, <2>2 DEF Given, At
  <2>5. Looking' = Looking \union {t}
    BY <1>4, <1>5, <2>2 DEF Looking
  <2>6. A!Interrupt(t)
    BY <1>1, <1>7, <2>3, <2>4, <2>5
       DEF A!Interrupt, Posted, Blocked, Given, Looking, LookOutPcs
  <2> QED BY <2>6, AbsIs
<1>9. CASE ~Queued(t)
  <2>1. \A k \in Lwps : /\ Queued(k)' <=> Queued(k)
                        /\ Gone(k)' <=> Gone(k)
                        /\ pc'[k] = pc[k]
    BY <1>4, <1>5, <1>6, <1>9 DEF Gone
  <2>2. \A k \in Lwps : Interrupted(k)' <=> Interrupted(k)
    BY <1>1, <1>6, <2>1 DEF Interrupted
  <2>3. UNCHANGED <<Posted, Looking, Blocked, Given, ret>>
    BY <1>1, <1>7, <2>1, <2>2 DEF Looking, Blocked, Given, At
  <2> QED BY <2>3, AbsIs
<1> QED BY <1>8, <1>9

(* event.c is an event: one that is signalled is posted when nobody is     *)
(* blocked and given to somebody blocked otherwise, never both and never   *)
(* to two callers; a caller returns B_TRUE when it was given an event or   *)
(* consumed one, and one that a signal interrupts was given none.          *)
THEOREM Refinement == Spec => A!Spec
<1>1. Init => A!Init /\ Marked
  <2> SUFFICES ASSUME Init PROVE A!Init /\ Marked
    OBVIOUS
  <2>1. (\A c \in Ctxs : pc[c] = "idle") /\ \A l \in Lwps : l \in Ctxs
    BY DEF Init, Ctxs
  <2>2. \A l \in Lwps : ~Queued(l)
    BY EmptyQueue DEF Init, Queued
  <2>3. ~Posted /\ Looking = {} /\ Blocked = {} /\ Given = {}
    BY <2>1, <2>2
       DEF Posted, Looking, Blocked, Given, LookOutPcs, Gone, Interrupted, At, Init
  <2> QED BY <2>1, <2>3
          DEF A!Init, Posted, Looking, Blocked, Given, LookOutPcs, Init, Marked
<1>2. Inv /\ Marked /\ [Next]_vars => AbsStep
  <2> SUFFICES ASSUME Inv, Marked, [Next]_vars PROVE AbsStep
    OBVIOUS
  <2>1. CASE UNCHANGED vars
    <3>1. UNCHANGED <<pc, evState, evList, chain, lFlag, ret>>
      BY <2>1 DEF vars, lwpVars, callVars, evVars
    <3>2. UNCHANGED <<Posted, Looking, Blocked, Given, ret>>
      BY <3>1 DEF Posted, Looking, Blocked, Given, Gone, Interrupted, InChain, Queued, At
    <3> QED BY <3>2, AbsIs
  <2>2. CASE Next
    <3>1. \A l \in Lwps : Waiting(l) => AbsStep
      BY AbsLook, AbsBlock, AbsSleep, AbsWakeUp DEF Waiting
    <3> QED BY <2>2, <3>1, AbsLook, AbsSignal, AbsWakeChain, AbsPost, AbsUnsleep
            DEF Next, Step, Choice
  <2> QED BY <2>1, <2>2
<1>3. Inv /\ Marked /\ [Next]_vars => Marked'
  BY MarkStep
<1> QED BY <1>1, <1>2, <1>3, Invariant, PTL DEF Spec, A!Spec, AbsStep
=============================================================================
