------------------------------- MODULE Event --------------------------------
(***************************************************************************)
(* The event of the kernel (event.c): EVENT_WAIT, EVENT_WAIT_SIG,          *)
(* EVENT_SIGNAL, EVENT_BROADCAST, EVENT_CLEAR and EVENT_UNSLEEP, with the  *)
(* LWPs that wait, the contexts that signal, and the posters of Unix       *)
(* signals.                                                                *)
(*                                                                         *)
(* ev_list is only looked at under ev_lock, which is held for one short    *)
(* section at a time, so each section is one step; ev_state is also peeked *)
(* at without it.                                                          *)
(***************************************************************************)
EXTENDS ProcState, FiniteSets

CONSTANTS Ops,       \* the entry points in use
          MaxSigs    \* bound: signals posted from outside

ASSUME EventAssumption == Ops \subseteq {"wait", "wait_sig"} /\ MaxSigs \in Nat

VARIABLES
  evState,   \* 1: posted; 0; < 0: minus the number of blocked LWPs
  evList,    \* the sleep queue of the event_t
  pc, op, ret,
  tgt,       \* tgt[c]: the LWP that c, posting a signal, takes off the queue
  chain,     \* chain[c]: the LWPs c has dequeued and has to wake
  sigs

evVars == <<evState, evList>>
callVars == <<op, ret>>
vars == <<lwpVars, procVars, evVars, callVars, pc, tgt, chain, sigs>>

TypeOK ==
  /\ LwpTypeOK
  /\ evState \in Int /\ evList \in Seq(Lwps)
  /\ niblked \in [Procs -> Nat] /\ waitsig \in [Lwps -> BOOLEAN]
  /\ pc \in [Ctxs -> {"idle", "peek", "consume", "mutex", "again", "issig", "acquire",
                      "sigtolwp", "go", "unblock", "sleep", "asleep", "issig2",
                      "unsleep", "wake"}]
  /\ op \in [Lwps -> {"wait", "wait_sig"}] /\ ret \in [Lwps -> BOOLEAN]
  /\ tgt \in [Ctxs -> Lwps \union {Nobody}] /\ chain \in [Ctxs -> Seq(Lwps)]
  /\ sigs \in Nat

Init ==
  /\ LwpInit
  /\ evState = 0 /\ evList = <<>>
  /\ niblked = [p \in Procs |-> 0] /\ waitsig = [l \in Lwps |-> FALSE]
  /\ pc = [c \in Ctxs |-> "idle"] /\ op = [l \in Lwps |-> "wait"]
  /\ ret = [l \in Lwps |-> TRUE] /\ tgt = [c \in Ctxs |-> Nobody]
  /\ chain = [c \in Ctxs |-> <<>>] /\ sigs = 0

At(c, p) == pc[c] = p
Goto(c, p) == pc' = [pc EXCEPT ![c] = p]
Return(l, r) == Goto(l, "idle") /\ ret' = [ret EXCEPT ![l] = r] /\ UNCHANGED op
LwpsOf(p) == {l \in Lwps : Proc[l] = p}

(***************************************************************************)
(* EVENT_WAIT and EVENT_WAIT_SIG.  A posted event is consumed first of     *)
(* all, "without checking for pending signals".                            *)
(***************************************************************************)
Call(l) ==
  /\ At(l, "idle")
  /\ \E o \in Ops : op' = [op EXCEPT ![l] = o]
  /\ Goto(l, "peek")
  /\ UNCHANGED <<lwpVars, procVars, evVars, ret, tgt, chain, sigs>>

SlowPc(l) == IF op[l] = "wait_sig" THEN "again" ELSE "mutex"

Peek(l) ==
  /\ At(l, "peek")
  /\ Goto(l, IF evState > 0 THEN "consume" ELSE SlowPc(l))
  /\ UNCHANGED <<lwpVars, procVars, evVars, callVars, tgt, chain, sigs>>

ConsumeUnchecked(l) ==      \* variant: the peek is trusted
  /\ At(l, "consume") /\ evState' = evState - 1 /\ Return(l, TRUE)
  /\ UNCHANGED <<lwpVars, procVars, evList, tgt, chain, sigs>>
Consume(l) ==
  /\ At(l, "consume")
  /\ IF evState = 1
       THEN evState' = evState - 1 /\ Return(l, TRUE)
       ELSE Goto(l, SlowPc(l)) /\ UNCHANGED <<evState, callVars>>
  /\ UNCHANGED <<lwpVars, procVars, evList, tgt, chain, sigs>>

Mutex(l) ==
  /\ At(l, "mutex") /\ LockMutex(l, l)
  /\ Goto(l, "go")
  /\ UNCHANGED <<lStat, lFlag, trapevf, procVars, evVars, callVars, tgt, chain, sigs>>

SignalUnseen(l) == FALSE       \* variant: the test is left out
SignalSeen(l) == trapevf[l]

Again(l) ==
  /\ At(l, "again") /\ MutexFree(l)
  /\ lFlag' = [lFlag EXCEPT ![l] = @ \ {"L_SIGWOKE"}]
  /\ IF SignalSeen(l) THEN Goto(l, "issig") /\ UNCHANGED lMutex
                      ELSE Goto(l, "acquire") /\ LockMutex(l, l)
  /\ UNCHANGED <<lStat, trapevf, procVars, evVars, callVars, tgt, chain, sigs>>

(* Both calls of issig(): a signal to handle ends the call, an LWP that    *)
(* was stopped goes for the event again.                                   *)
IssigReturn(l) ==
  /\ pc[l] \in {"issig", "issig2"}
  /\ \E r \in IssigReturns :
       /\ TakeIssig(l, r)
       /\ lFlag' = IF At(l, "issig2") /\ r # "ISSIG_STOPPED"
                     THEN [lFlag EXCEPT ![l] = @ \ {"L_SIGWOKE"}] ELSE lFlag
       /\ \/ r = "ISSIG_NONE" /\ Goto(l, "acquire") /\ UNCHANGED callVars
          \/ r = "ISSIG_STOPPED" /\ Goto(l, "again") /\ UNCHANGED callVars
          \/ r = "ISSIG_SIGNALLED" /\ Return(l, FALSE)
  /\ UNCHANGED <<lStat, niblked, evVars, tgt, chain, sigs>>

(* The last LWP of its process to block sends itself SIGWAITING, whether   *)
(* or not one is pending, and starts again.                                *)
Acquire(l) ==
  /\ At(l, "acquire")
  /\ IF LastToBlock(l, Cardinality(LwpsOf(Proc[l])))
       THEN UnlockMutex(l) /\ Goto(l, "sigtolwp") /\ UNCHANGED niblked
       ELSE CountBlocked(l, 1) /\ Goto(l, "go") /\ UNCHANGED lMutex
  /\ UNCHANGED <<lStat, lFlag, trapevf, waitsig, evVars, callVars, tgt, chain, sigs>>

SendWaiting(l) ==
  /\ At(l, "sigtolwp")
  /\ PostWaiting(l, l)
  /\ Goto(l, "again")
  /\ UNCHANGED <<niblked, evVars, callVars, tgt, chain, sigs>>

(* --ev_state tells in one whether the event was posted meanwhile and, if  *)
(* not, that there is one more blocked LWP.                                *)
Go(l) ==
  /\ At(l, "go")
  /\ evState' = evState - 1
  /\ IF evState' = 0
       THEN /\ UnlockMutex(l) /\ UNCHANGED evList
            /\ IF op[l] = "wait_sig" THEN Goto(l, "unblock") /\ UNCHANGED callVars
                                     ELSE Return(l, TRUE)
       ELSE /\ evList' = Append(evList, l) /\ Goto(l, "sleep")
            /\ UNCHANGED <<lMutex, callVars>>
  /\ UNCHANGED <<lStat, lFlag, trapevf, procVars, tgt, chain, sigs>>

Unblock(l) ==
  /\ At(l, "unblock") /\ CountBlocked(l, -1) /\ Return(l, TRUE)
  /\ UNCHANGED <<lwpVars, waitsig, evVars, tgt, chain, sigs>>

Sleep(l) ==
  /\ At(l, "sleep") /\ Block(l, op[l] = "wait", {})
  /\ Goto(l, "asleep")
  /\ UNCHANGED <<procVars, evVars, callVars, tgt, chain, sigs>>

UncountAny(l) == CountAwake(l)      \* variant: counted in or not
Uncount(l) == IF op[l] = "wait_sig" THEN CountAwake(l) ELSE UNCHANGED niblked

(* swtch() returns.                                                        *)
WakeUp(l) ==
  /\ At(l, "asleep") /\ Resume(l) /\ Uncount(l)
  /\ IF op[l] = "wait_sig" /\ "L_SIGWOKE" \in lFlag[l]
       THEN Goto(l, "issig2") /\ UNCHANGED callVars
       ELSE Return(l, TRUE)
  /\ UNCHANGED <<waitsig, evVars, tgt, chain, sigs>>

(***************************************************************************)
(* EVENT_SIGNAL, EVENT_BROADCAST and EVENT_CLEAR.                          *)
(***************************************************************************)
(* An event that is posted already is left alone.  Without a blocked LWP   *)
(* it is posted; else the first blocked LWP gets it, or all of them.       *)
EVENT_SIGNAL(c) ==
  /\ At(c, "idle") /\ evState # 1
  /\ evState' = evState + 1
  /\ \/ evState = 0 /\ UNCHANGED <<evList, chain, pc>>
     \/ /\ evState # 0 /\ evList' = Tail(evList)
        /\ chain' = [chain EXCEPT ![c] = <<Head(evList)>>] /\ Goto(c, "wake")
  /\ UNCHANGED <<lwpVars, procVars, callVars, tgt, sigs>>

EVENT_BROADCAST(c) ==
  /\ At(c, "idle") /\ evState # 1
  /\ \/ evState = 0 /\ evState' = 1 /\ UNCHANGED <<evList, chain, pc>>
     \/ /\ evState # 0 /\ evState' = 0 /\ evList' = <<>>
        /\ chain' = [chain EXCEPT ![c] = evList] /\ Goto(c, "wake")
  /\ UNCHANGED <<lwpVars, procVars, callVars, tgt, sigs>>

(* l_flink is read before the LWP is made runnable.                        *)
RestOfChain(c) == Tail(chain[c])

WakeChain(c) ==
  /\ At(c, "wake") /\ Wakeup(Head(chain[c]))
  /\ chain' = [chain EXCEPT ![c] = RestOfChain(c)]
  /\ Goto(c, IF RestOfChain(c) = <<>> THEN "idle" ELSE "wake")
  /\ UNCHANGED <<procVars, evVars, callVars, tgt, sigs>>

(* "active event structure being cleared" panics: callers know of no       *)
(* blocked LWP.                                                            *)
Clear(c) ==
  /\ At(c, "idle") /\ evList = <<>>
  /\ evState' = 0
  /\ UNCHANGED <<lwpVars, procVars, evList, callVars, pc, tgt, chain, sigs>>

(***************************************************************************)
(* Signals from outside: setrun() and EVENT_UNSLEEP.                       *)
(***************************************************************************)
Post(c, t) ==
  /\ c \in Intrs /\ At(c, "idle") /\ sigs < MaxSigs
  /\ PostSignal(t, c)
  /\ sigs' = sigs + 1
  /\ tgt' = [tgt EXCEPT ![c] = IF Interruptible(t) THEN t ELSE Nobody]
  /\ Goto(c, IF Interruptible(t) THEN "unsleep" ELSE "idle")
  /\ UNCHANGED <<procVars, evVars, callVars, chain>>

OneWaiterLessAlways(l) == evState' = evState + 1    \* variant: queued or not
OneWaiterLess(l) == evState' = IF Contains(evList, l) THEN evState + 1 ELSE evState

Unsleep(c) ==
  /\ At(c, "unsleep")
  /\ FinishNudge(tgt[c], Contains(evList, tgt[c]))
  /\ OneWaiterLess(tgt[c]) /\ evList' = slpdeque(evList, tgt[c])
  /\ tgt' = [tgt EXCEPT ![c] = Nobody]
  /\ Goto(c, "idle")
  /\ UNCHANGED <<procVars, callVars, chain, sigs>>

(***************************************************************************)
(* The system.  To call, to signal, to clear and to post are choices;      *)
(* whatever has begun goes on.                                             *)
(***************************************************************************)
Waiting(l) ==
  \/ Peek(l) \/ Consume(l) \/ Mutex(l) \/ Again(l) \/ IssigReturn(l) \/ Acquire(l)
  \/ SendWaiting(l) \/ Go(l) \/ Unblock(l) \/ Sleep(l) \/ WakeUp(l)

Step(c) == WakeChain(c) \/ Unsleep(c) \/ (c \in Lwps /\ Waiting(c))

Choice ==
  \/ \E l \in Lwps : Call(l)
  \/ \E c \in Ctxs : EVENT_SIGNAL(c) \/ EVENT_BROADCAST(c) \/ Clear(c)
                     \/ \E t \in Lwps : Post(c, t)

Next == (\E c \in Ctxs : Step(c)) \/ Choice

Spec == Init /\ [][Next]_vars
FairSpec == Spec /\ \A c \in Ctxs : WF_vars(Step(c))

(***************************************************************************)
(* Properties.                                                             *)
(***************************************************************************)
InChain(l) == \E c \in Ctxs : Contains(chain[c], l)
Queued(l) == Contains(evList, l)
Gone(l) == pc[l] \in {"sleep", "asleep"} /\ ~Queued(l)
(* A poster took l off the queue, no signaller did.                        *)
Interrupted(l) == Gone(l) /\ ~InChain(l) /\ "L_SIGWOKE" \in lFlag[l]

(* "1: event occurred; if ev_state < 0, then |ev_state| is the number of   *)
(* blocked lwps": the count that decides whether a caller blocks and where *)
(* an event goes stays that of the queue, through waits that begin, are    *)
(* woken and are interrupted at the same time.                             *)
StateCountsBlocked == IF evState = 1 THEN evList = <<>> ELSE evState = -Len(evList)

(* p_niblked is the number of LWPs that are blocked interruptibly, or      *)
(* about to be: nothing stays in it whatever way a wait ends.              *)
NiblkedBalanced ==
  \A p \in Procs : niblked[p] =
    Cardinality({l \in LwpsOf(p) : /\ op[l] = "wait_sig"
                                   /\ pc[l] \in {"go", "unblock", "sleep", "asleep"}})

(* An interruptible sleeper has no signal pending that nobody is telling   *)
(* it: EVENT_WAIT_SIG tests for signals under the lock that posters take.  *)
SleeperHearsSignals ==
  \A l \in Lwps : (Interruptible(l) /\ Queued(l) /\ trapevf[l])
                  => \E c \in Ctxs : At(c, "unsleep") /\ tgt[c] = l

(* It implements the abstract event: none is lost in an LWP that returns   *)
(* B_FALSE or given twice.                                                 *)
A == INSTANCE AbstractEvent WITH
       posted <- evState = 1,
       blocked <- {l \in Lwps : Queued(l)},
       given <- {l \in Lwps : At(l, "unblock") \/ (Gone(l) /\ ~Interrupted(l))},
       looking <- {l \in Lwps : \/ Interrupted(l)
                                \/ pc[l] \notin {"idle", "wake", "unblock", "sleep",
                                                 "asleep"}}
ImplementsEvent == A!FairSpec
=============================================================================
