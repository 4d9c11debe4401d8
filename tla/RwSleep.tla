------------------------------ MODULE RwSleep -------------------------------
(***************************************************************************)
(* The reader-writer sleep lock of the kernel (rwsleep.c): rdlock, wrlock, *)
(* their _rellock forms, tryrdlock, trywrlock and unlock.  rw_avail, taken *)
(* by an exchange, decides who is the writer or the first reader; later    *)
(* readers join by rw_read, under rw_fspin; the last one out gives         *)
(* rw_avail back.  Which reader is the last is decided without rw_fspin    *)
(* where possible, hence the tests that are made twice.                    *)
(*                                                                         *)
(* A step is what one LWP does between two points where another one can    *)
(* see or change what it works on.  The model is of the kernel without     *)
(* DEBUG: an ASSERT of the code is a property, and does not stop it.       *)
(***************************************************************************)
EXTENDS LwpState, FiniteSets

CONSTANTS Ops,        \* the entry points in use
          MaxCalls    \* bound: calls the LWPs make

RdOps == {"rdlock", "rdlock_rellock", "tryrdlock"}
WrOps == {"wrlock", "wrlock_rellock", "trywrlock"}
TryOps == {"tryrdlock", "trywrlock"}
RellockOps == {"rdlock_rellock", "wrlock_rellock"}

ASSUME RwAssumption == Ops \subseteq RdOps \union WrOps /\ MaxCalls \in Nat

VARIABLES
  rwAvail, rwFspin, rwMode, rwRead, rwPend, rwList,   \* the rwsleep_t
  lStype,     \* lStype[l]: l_stype, what l says it is blocked on
  lkp,        \* the basic lock that callers of the _rellock forms hold
  ipl,        \* ipl[l]: the priority level l runs at; PLHI masks the interrupts
  pc, op, nsleeps,
  chain,      \* chain[l]: the wakeup_chain l builds and walks
  swappedin,  \* swappedin[l]: local of rwsleep_dequeue
  calls       \* calls so far

rwVars == <<rwAvail, rwFspin, rwMode, rwRead, rwPend, rwList>>
deqVars == <<chain, swappedin>>
callVars == <<op, nsleeps, calls>>
entryVars == <<lkp, ipl>>
vars == <<lwpVars, rwVars, deqVars, callVars, lStype, entryVars, pc>>

Acquiring == {"take", "rd_mode", "j_fspin", "j_avail", "j_mode", "relk",
              "q_mutex", "q_fspin", "q_take", "q_mode", "q_avail", "q_mode2",
              "q_enq", "q_sleep", "q_asleep"}
Acquired == {"got", "q_got", "settle", "settling", "j_in", "hold"}
LastTest == {"u_fspin", "u_read", "u_mode", "v_fspin", "v_read", "v_mode", "s_fspin",
             "s_held", "s_dec"}
Releasing == {"l_fspin", "l_list", "l_avail", "d_fspin", "d_loop", "d_type", "d_rel"}
Released == {"m_fspin", "m_list", "m_take", "m_done", "d_done", "d_wake"}

TypeOK ==
  /\ LwpTypeOK
  /\ rwAvail \in BOOLEAN /\ rwFspin \in Lwps \union {Nobody}
  /\ rwMode \in {"RWS_READ", "RWS_WRITE", "RWS_UNLOCKED", "RWS_BUSY"}
  /\ rwRead \in Nat /\ rwPend \in Nat /\ rwList \in Seq(Lwps)
  /\ lStype \in [Lwps -> {"ST_NONE", "ST_RDLOCK", "ST_WRLOCK"}]
  /\ lkp \in Lwps \union {Nobody} /\ ipl \in [Lwps -> {"PLBASE", "PLHI"}]
  /\ pc \in [Lwps -> {"idle"} \union Acquiring \union Acquired \union LastTest
                      \union Releasing \union Released]
  /\ op \in [Lwps -> RdOps \union WrOps] /\ nsleeps \in [Lwps -> Nat]
  /\ chain \in [Lwps -> Seq(Lwps)] /\ swappedin \in [Lwps -> BOOLEAN]
  /\ calls \in Nat

Init ==
  /\ LwpInit
  /\ rwAvail = TRUE /\ rwFspin = Nobody /\ rwMode = "RWS_UNLOCKED"
  /\ rwRead = 0 /\ rwPend = 0 /\ rwList = <<>>
  /\ lStype = [l \in Lwps |-> "ST_NONE"] /\ lkp = Nobody
  /\ ipl = [l \in Lwps |-> "PLBASE"]
  /\ pc = [l \in Lwps |-> "idle"] /\ op = [l \in Lwps |-> "rdlock"]
  /\ nsleeps = [l \in Lwps |-> 0] /\ chain = [l \in Lwps |-> <<>>]
  /\ swappedin = [l \in Lwps |-> FALSE] /\ calls = 0

At(l, p) == pc[l] = p
Goto(l, p) == pc' = [pc EXCEPT ![l] = p]
Reader(l) == op[l] \in RdOps
FspinFree == rwFspin = Nobody
FspinLock(l) == FspinFree /\ rwFspin' = l
ReleaseEntryLock(l) == lkp' = IF op[l] \in RellockOps THEN Nobody ELSE lkp

SetIpl(l, pl) == ipl' = [ipl EXCEPT ![l] = pl]

(* The call returns with the lock, "at PL0".                               *)
Hold(l) == Goto(l, "hold") /\ ReleaseEntryLock(l) /\ SetIpl(l, "PLBASE")
           /\ nsleeps' = [nsleeps EXCEPT ![l] = 0]

(***************************************************************************)
(* Entry, and the exchange on rw_avail that every form begins with.        *)
(***************************************************************************)
Call(l) ==
  /\ At(l, "idle") /\ calls < MaxCalls
  /\ \E o \in Ops : /\ op' = [op EXCEPT ![l] = o]
                    /\ IF o \in RellockOps
                         THEN lkp = Nobody /\ lkp' = l /\ SetIpl(l, "PLHI")
                         ELSE UNCHANGED entryVars
  /\ Goto(l, "take") /\ calls' = calls + 1
  /\ UNCHANGED <<lwpVars, rwVars, deqVars, nsleeps, lStype>>

rwsleep_take == rwAvail /\ rwAvail' = FALSE

Take(l) ==
  /\ At(l, "take")
  /\ \/ rwsleep_take /\ Goto(l, "got")
     \/ /\ ~rwAvail /\ UNCHANGED rwAvail
        /\ Goto(l, CASE Reader(l) -> "rd_mode" [] op[l] = "trywrlock" -> "idle"
                     [] OTHER -> "q_mutex")
  /\ UNCHANGED <<lwpVars, rwFspin, rwMode, rwRead, rwPend, rwList, deqVars, callVars,
                 lStype, entryVars>>

(* Wait for the previous holder to be done with rw_mode, then set it.  A   *)
(* reader that slept settles its wakeups under rw_fspin, a writer at once. *)
Got(l) ==
  /\ At(l, "got") /\ rwMode # "RWS_BUSY"
  /\ IF Reader(l)
       THEN /\ rwMode' = "RWS_READ" /\ UNCHANGED rwPend
            /\ IF nsleeps[l] > 0 THEN Goto(l, "settle") /\ UNCHANGED <<entryVars, nsleeps>>
                                 ELSE Hold(l)
       ELSE rwMode' = "RWS_WRITE" /\ rwPend' = rwPend - nsleeps[l] /\ Hold(l)
  /\ UNCHANGED <<lwpVars, rwAvail, rwFspin, rwRead, rwList, deqVars, op, calls, lStype>>

SettleBare(l) ==       \* variant: without rw_fspin
  /\ At(l, "settle") /\ rwPend' = rwPend - nsleeps[l] /\ Hold(l)
  /\ UNCHANGED <<lwpVars, rwAvail, rwFspin, rwMode, rwRead, rwList, deqVars, op, calls,
                 lStype>>
Settle(l) ==
  /\ \/ /\ At(l, "settle") /\ FspinLock(l) /\ Goto(l, "settling")
        /\ UNCHANGED <<rwPend, entryVars, nsleeps>>
     \/ /\ At(l, "settling") /\ rwFspin' = Nobody
        /\ rwPend' = rwPend - nsleeps[l] /\ Hold(l)
  /\ UNCHANGED <<lwpVars, rwAvail, rwMode, rwRead, rwList, deqVars, op, calls, lStype>>

(***************************************************************************)
(* Joining a lock that is held in read mode: count first, then look again. *)
(***************************************************************************)
RdMode(l) ==
  /\ At(l, "rd_mode")
  /\ Goto(l, IF rwMode = "RWS_READ" THEN "j_fspin"
             ELSE IF op[l] = "tryrdlock" THEN "idle" ELSE "q_mutex")
  /\ UNCHANGED <<lwpVars, rwVars, deqVars, callVars, lStype, entryVars>>

JoinCount(l) ==
  /\ At(l, "j_fspin") /\ FspinLock(l)
  /\ rwRead' = rwRead + 1
  /\ Goto(l, "j_avail")
  /\ UNCHANGED <<lwpVars, rwAvail, rwMode, rwPend, rwList, deqVars, callVars, lStype,
                 entryVars>>

(* Make sure it is still held in read mode: !rw_avail && rw_mode ==        *)
(* RWS_READ, two reads, under rw_fspin.  If not, the count is taken back.  *)
JoinTestUnchecked(l) ==       \* variant: still in read mode, it is assumed
  /\ pc[l] \in {"j_avail", "q_avail", "j_mode", "q_mode2"}
  /\ Goto(l, "j_in")
  /\ UNCHANGED <<lwpVars, rwVars, deqVars, callVars, lStype, entryVars>>
JoinTest(l) ==
  /\ pc[l] \in {"j_avail", "q_avail", "j_mode", "q_mode2"}
  /\ IF IF pc[l] \in {"j_avail", "q_avail"} THEN ~rwAvail ELSE rwMode = "RWS_READ"
       THEN /\ Goto(l, CASE At(l, "j_avail") -> "j_mode" [] At(l, "q_avail") -> "q_mode2"
                         [] OTHER -> "j_in")
            /\ UNCHANGED <<rwRead, rwFspin>>
       ELSE /\ rwRead' = rwRead - 1
            /\ IF pc[l] \in {"q_avail", "q_mode2"}
                 THEN Goto(l, "q_enq") /\ UNCHANGED rwFspin
                 ELSE /\ rwFspin' = Nobody
                      /\ Goto(l, IF op[l] = "tryrdlock" THEN "idle" ELSE "q_mutex")
  /\ UNCHANGED <<lwpVars, rwAvail, rwMode, rwPend, rwList, deqVars, callVars, lStype,
                 entryVars>>

JoinIn(l) ==
  /\ At(l, "j_in")
  /\ rwPend' = rwPend - nsleeps[l] /\ rwFspin' = Nobody
  /\ lMutex' = [lMutex EXCEPT ![l] = IF @ = l THEN Nobody ELSE @]
  /\ Hold(l)
  /\ UNCHANGED <<lStat, lFlag, trapevf, rwAvail, rwMode, rwRead, rwList, deqVars, op,
                 calls, lStype>>

(***************************************************************************)
(* Going to sleep.                                                         *)
(***************************************************************************)
SlowMutex(l) ==
  /\ At(l, "q_mutex")
  /\ LockMutex(l, l) /\ SetIpl(l, "PLHI") /\ Goto(l, "q_fspin")
  /\ UNCHANGED <<lStat, lFlag, trapevf, rwVars, deqVars, callVars, lStype, lkp>>

QueueFspin(l) ==
  /\ At(l, "q_fspin") /\ FspinLock(l)
  /\ Goto(l, "q_take")
  /\ UNCHANGED <<lwpVars, rwAvail, rwMode, rwRead, rwPend, rwList, deqVars, callVars,
                 lStype, entryVars>>

(* "Check to see if the LWP raced with an unlock before actually putting   *)
(* it to sleep": take the lock after all or, for a reader, join it.  Both  *)
(* write forms drop l_mutex to PLBASE.                                     *)
QueueTake(l) ==
  /\ At(l, "q_take")
  /\ \/ /\ rwsleep_take
        /\ IF Reader(l)
             THEN Goto(l, "q_got") /\ UNCHANGED <<rwFspin, lMutex, ipl>>
             ELSE /\ rwFspin' = Nobody /\ UnlockMutex(l) /\ SetIpl(l, "PLBASE")
                  /\ Goto(l, "got")
     \/ /\ ~rwAvail
        /\ Goto(l, IF Reader(l) THEN "q_mode" ELSE "q_enq")
        /\ UNCHANGED <<rwAvail, rwFspin, lMutex, ipl>>
  /\ UNCHANGED <<lStat, lFlag, trapevf, rwMode, rwRead, rwPend, rwList, deqVars,
                 callVars, lStype, lkp>>

QueueGot(l) ==
  /\ At(l, "q_got") /\ rwMode # "RWS_BUSY"
  /\ rwMode' = "RWS_READ" /\ rwPend' = rwPend - nsleeps[l]
  /\ rwFspin' = Nobody /\ UnlockMutex(l)
  /\ Hold(l)
  /\ UNCHANGED <<lStat, lFlag, trapevf, rwAvail, rwRead, rwList, deqVars, op, calls,
                 lStype>>

QueueMode(l) ==
  /\ At(l, "q_mode")
  /\ rwRead' = IF rwMode = "RWS_READ" THEN rwRead + 1 ELSE rwRead
  /\ Goto(l, IF rwMode = "RWS_READ" THEN "q_avail" ELSE "q_enq")
  /\ UNCHANGED <<lwpVars, rwAvail, rwFspin, rwMode, rwPend, rwList, deqVars, callVars,
                 lStype, entryVars>>

Enqueue(l) ==
  /\ At(l, "q_enq")
  /\ rwList' = IF nsleeps[l] = 0 THEN Append(rwList, l) ELSE <<l>> \o rwList
  /\ rwFspin' = Nobody
  /\ Goto(l, "q_sleep")
  /\ UNCHANGED <<lwpVars, rwAvail, rwMode, rwRead, rwPend, deqVars, callVars, lStype,
                 entryVars>>

(* Only now, with rw_fspin dropped, does the LWP say what it waits for.    *)
Sleep(l) ==
  /\ At(l, "q_sleep")
  /\ lStype' = [lStype EXCEPT ![l] = IF Reader(l) THEN "ST_RDLOCK" ELSE "ST_WRLOCK"]
  /\ Block(l, TRUE, {})
  /\ nsleeps' = [nsleeps EXCEPT ![l] = @ + 1]
  /\ ReleaseEntryLock(l)
  /\ Goto(l, "q_asleep")
  /\ UNCHANGED <<rwVars, deqVars, op, calls, ipl>>

WakeUp(l) ==
  /\ At(l, "q_asleep") /\ Resume(l) /\ SetIpl(l, "PLBASE")
  /\ Goto(l, IF op[l] \in RellockOps THEN "relk" ELSE "take")
  /\ UNCHANGED <<rwVars, deqVars, callVars, lStype, lkp>>

RelockEntry(l) ==
  /\ At(l, "relk") /\ lkp = Nobody
  /\ lkp' = l /\ SetIpl(l, "PLHI")
  /\ Goto(l, "take")
  /\ UNCHANGED <<lwpVars, rwVars, deqVars, callVars, lStype>>

(***************************************************************************)
(* rwsleep_unlock.  "We must check the fspin lock before checking the read *)
(* count": a reader raises the count before it lets rw_fspin go.           *)
(***************************************************************************)
Unlock(l) ==
  /\ At(l, "hold")
  /\ Goto(l, IF rwMode = "RWS_WRITE" THEN "l_fspin" ELSE "u_fspin")
  /\ UNCHANGED <<lwpVars, rwVars, deqVars, callVars, lStype, entryVars>>

(* The last reader finds itself alone, sets RWS_UNLOCKED, and looks again; *)
(* whatever it finds else makes it a shared unlock under rw_fspin.         *)
LastReaderOnce(l) ==       \* variant: nobody joins between test and store
  \/ /\ pc[l] \in {"u_fspin", "u_read"}
     /\ Goto(l, IF IF At(l, "u_fspin") THEN FspinFree ELSE rwRead = 0
                  THEN IF At(l, "u_fspin") THEN "u_read" ELSE "u_mode" ELSE "s_fspin")
     /\ UNCHANGED <<lwpVars, rwVars, deqVars, callVars, lStype, entryVars>>
  \/ /\ At(l, "u_mode") /\ rwMode' = "RWS_UNLOCKED" /\ Goto(l, "l_fspin")
     /\ UNCHANGED <<lwpVars, rwAvail, rwFspin, rwRead, rwPend, rwList, deqVars,
                    callVars, lStype, entryVars>>
AloneNow(l) == CASE pc[l] \in {"u_fspin", "v_fspin"} -> FspinFree
                 [] pc[l] \in {"u_read", "v_read"} -> rwRead = 0
                 [] OTHER -> rwMode = "RWS_UNLOCKED"
LastReader(l) ==
  \/ /\ pc[l] \in {"u_fspin", "u_read", "v_fspin", "v_read", "v_mode"}
     /\ Goto(l, IF ~AloneNow(l) THEN "s_fspin"
                ELSE CASE At(l, "u_fspin") -> "u_read" [] At(l, "u_read") -> "u_mode"
                       [] At(l, "v_fspin") -> "v_read" [] At(l, "v_read") -> "v_mode"
                       [] At(l, "v_mode") -> "l_fspin")
     /\ UNCHANGED <<lwpVars, rwVars, deqVars, callVars, lStype, entryVars>>
  \/ /\ At(l, "u_mode") /\ rwMode' = "RWS_UNLOCKED" /\ Goto(l, "v_fspin")
     /\ UNCHANGED <<lwpVars, rwAvail, rwFspin, rwRead, rwPend, rwList, deqVars,
                    callVars, lStype, entryVars>>

SharedFspin(l) ==
  /\ At(l, "s_fspin") /\ FspinLock(l)
  /\ Goto(l, "s_held")
  /\ UNCHANGED <<lwpVars, rwAvail, rwMode, rwRead, rwPend, rwList, deqVars, callVars,
                 lStype, entryVars>>

(* Others still read: put the mode back, then leave the count.             *)
SharedUnlock(l) ==
  /\ \/ /\ At(l, "s_held") /\ rwRead > 0
        /\ rwMode' = "RWS_READ" /\ Goto(l, "s_dec") /\ UNCHANGED <<rwRead, rwFspin>>
     \/ /\ At(l, "s_held") /\ rwRead = 0
        /\ rwMode' = "RWS_UNLOCKED" /\ rwFspin' = Nobody
        /\ Goto(l, "l_fspin") /\ UNCHANGED rwRead
     \/ /\ At(l, "s_dec")
        /\ rwRead' = rwRead - 1 /\ rwFspin' = Nobody
        /\ Goto(l, "idle") /\ UNCHANGED rwMode
  /\ UNCHANGED <<lwpVars, rwAvail, rwPend, rwList, deqVars, callVars, lStype, entryVars>>

(* L1: nobody in sight, so give the lock back without rw_fspin, then look  *)
(* for a sleeper that missed it: first rw_fspin, then the queue.           *)
Release(l) ==
  \/ /\ pc[l] \in {"l_fspin", "l_list"}
     /\ Goto(l, IF IF At(l, "l_fspin") THEN FspinFree ELSE rwList = <<>>
                  THEN IF At(l, "l_fspin") THEN "l_list" ELSE "l_avail" ELSE "d_fspin")
     /\ UNCHANGED <<lwpVars, rwVars, deqVars, callVars, lStype, entryVars>>
  \/ /\ At(l, "l_avail")
     /\ rwMode' = "RWS_BUSY" /\ rwAvail' = TRUE
     /\ Goto(l, "m_fspin")
     /\ UNCHANGED <<lwpVars, rwFspin, rwRead, rwPend, rwList, deqVars, callVars,
                    lStype, entryVars>>

RecheckNothing(l) ==       \* variant: whoever is queued missed the lock
  /\ At(l, "m_fspin") /\ Goto(l, "m_done")
  /\ UNCHANGED <<lwpVars, rwVars, deqVars, callVars, lStype, entryVars>>
Recheck(l) ==
  /\ pc[l] \in {"m_fspin", "m_list"}
  /\ Goto(l, IF IF At(l, "m_fspin") THEN FspinFree ELSE rwList = <<>>
               THEN IF At(l, "m_fspin") THEN "m_list" ELSE "m_done" ELSE "m_take")
  /\ UNCHANGED <<lwpVars, rwVars, deqVars, callVars, lStype, entryVars>>

Retake(l) ==
  /\ At(l, "m_take")
  /\ \/ rwsleep_take /\ Goto(l, "d_fspin")
     \/ ~rwAvail /\ UNCHANGED rwAvail /\ Goto(l, "m_done")
  /\ UNCHANGED <<lwpVars, rwFspin, rwMode, rwRead, rwPend, rwList, deqVars, callVars,
                 lStype, entryVars>>

(* Not busy any more: after m_done nobody is left to wake.                 *)
NotBusy(l) ==
  /\ pc[l] \in {"m_done", "d_done"}
  /\ rwMode' = "RWS_UNLOCKED"
  /\ Goto(l, IF At(l, "d_done") /\ chain[l] # <<>> THEN "d_wake" ELSE "idle")
  /\ UNCHANGED <<lwpVars, rwAvail, rwFspin, rwRead, rwPend, rwList, deqVars, callVars,
                 lStype, entryVars>>

(***************************************************************************)
(* rwsleep_dequeue, under rw_fspin.  l_stype is read twice, and neither    *)
(* time under the l_mutex of the LWP that sets it.                         *)
(***************************************************************************)
DequeueFspin(l) ==
  /\ At(l, "d_fspin") /\ FspinLock(l)
  /\ Goto(l, "d_loop") /\ swappedin' = [swappedin EXCEPT ![l] = FALSE]
  /\ UNCHANGED <<lwpVars, rwAvail, rwMode, rwRead, rwPend, rwList, chain, callVars,
                 lStype, entryVars>>

CountWokenOnce == rwPend' = IF rwPend = 0 THEN 1 ELSE rwPend    \* variant: a flag
CountWoken == rwPend' = rwPend + 1

EndOfReaders(l) == lStype[Head(rwList)] = "ST_WRLOCK" /\ swappedin[l]

DequeueNext(l) ==
  /\ At(l, "d_loop")
  /\ IF rwList = <<>> \/ EndOfReaders(l)
       THEN Goto(l, "d_rel") /\ UNCHANGED <<rwPend, rwList, chain>>
       ELSE /\ CountWoken /\ rwList' = Tail(rwList)
            /\ chain' = [chain EXCEPT ![l] = <<Head(rwList)>> \o @]
            /\ Goto(l, "d_type")
  /\ UNCHANGED <<lwpVars, rwAvail, rwFspin, rwMode, rwRead, swappedin, callVars,
                 lStype, entryVars>>

(* An LWP that is not asleep yet is LWP_LOADED; a sleeper may be swapped   *)
(* out.                                                                    *)
DequeueType(l) ==
  /\ At(l, "d_type")
  /\ LET w == Head(chain[l]) IN \E loaded \in BOOLEAN :
       /\ lStat[w] # "SSLEEP" => loaded
       /\ \/ ~loaded /\ Goto(l, "d_loop") /\ UNCHANGED swappedin
          \/ /\ loaded /\ lStype[w] = "ST_WRLOCK"
             /\ Goto(l, "d_rel") /\ UNCHANGED swappedin
          \/ /\ loaded /\ lStype[w] # "ST_WRLOCK"
             /\ swappedin' = [swappedin EXCEPT ![l] = TRUE] /\ Goto(l, "d_loop")
  /\ UNCHANGED <<lwpVars, rwVars, chain, callVars, lStype, entryVars>>

MarkFree == rwMode' = "RWS_UNLOCKED" /\ rwAvail' = TRUE   \* variant: not busy
MarkReleased == rwMode' = "RWS_BUSY" /\ rwAvail' = TRUE

DequeueRelease(l) ==
  /\ At(l, "d_rel")
  /\ MarkReleased /\ rwFspin' = Nobody
  /\ Goto(l, "d_done")
  /\ UNCHANGED <<lwpVars, rwRead, rwPend, rwList, deqVars, callVars, lStype, entryVars>>

(* l_flink is read before the LWP is made runnable.                        *)
RestOfChain(l) == Tail(chain[l])

WakeChain(l) ==
  /\ At(l, "d_wake")
  /\ LET w == Head(chain[l]) IN
       Wakeup(w) /\ lStype' = [lStype EXCEPT ![w] = "ST_NONE"]
  /\ chain' = [chain EXCEPT ![l] = RestOfChain(l)]
  /\ Goto(l, IF RestOfChain(l) = <<>> THEN "idle" ELSE "d_wake")
  /\ UNCHANGED <<rwVars, swappedin, callVars, entryVars>>

(***************************************************************************)
(* The system.  To call is a choice; what a call does next, unlocking      *)
(* included, it does eventually.                                           *)
(***************************************************************************)
Taking(l) == Take(l) \/ Got(l) \/ Settle(l)
Joining(l) == RdMode(l) \/ JoinCount(l) \/ JoinTest(l) \/ JoinIn(l)
Queueing(l) == SlowMutex(l) \/ QueueFspin(l) \/ QueueTake(l) \/ QueueGot(l)
               \/ QueueMode(l) \/ Enqueue(l)
Sleeping(l) == Sleep(l) \/ WakeUp(l) \/ RelockEntry(l)
Locking(l) == Taking(l) \/ Joining(l) \/ Queueing(l) \/ Sleeping(l)

Unlocking(l) ==
  \/ Unlock(l) \/ LastReader(l) \/ SharedFspin(l) \/ SharedUnlock(l) \/ Release(l)
  \/ Recheck(l) \/ Retake(l) \/ NotBusy(l) \/ DequeueFspin(l) \/ DequeueNext(l)
  \/ DequeueType(l) \/ DequeueRelease(l) \/ WakeChain(l)

Step(l) == Locking(l) \/ Unlocking(l)

Quiet == (\A l \in Lwps : At(l, "idle")) /\ UNCHANGED vars

Next == (\E l \in Lwps : Step(l) \/ Call(l)) \/ Quiet

Spec == Init /\ [][Next]_vars
FairSpec == Spec /\ \A l \in Lwps : WF_vars(Step(l))

(***************************************************************************)
(* Properties.                                                             *)
(***************************************************************************)
(* An LWP has the lock from the step that got it in until the step that    *)
(* gives rw_avail, or its share of rw_read, back.                          *)
HasLock(l) == pc[l] \in Acquired \union LastTest \union Releasing
Readers == {l \in Lwps : HasLock(l) /\ Reader(l)}
Writers == {l \in Lwps : HasLock(l) /\ ~Reader(l)}

(* A writer has the lock to itself, and rw_avail says whether anybody has  *)
(* it: no reader that counted itself in on a stale look at rw_avail and    *)
(* rw_mode stays in after the last reader has left.                        *)
RwExclusion ==
  /\ Writers # {} => Cardinality(Writers) = 1 /\ Readers = {}
  /\ rwAvail <=> Writers \union Readers = {}

(* rw_read counts the readers but one, and those that are looking whether  *)
(* they may join.                                                          *)
Looking == {l \in Lwps : pc[l] \in {"j_avail", "j_mode", "q_avail", "q_mode2"}}
ReadersCounted ==
  rwRead = Cardinality(Looking)
             + (IF Readers = {} THEN 0 ELSE Cardinality(Readers) - 1)

(* The ASSERTs on return: the mode of a held lock is the one of its        *)
(* holders, but for a last reader that is unlocking.                       *)
ModeOfHolders ==
  \A l \in Lwps : At(l, "hold") =>
    IF Reader(l) THEN rwMode \in {"RWS_READ", "RWS_UNLOCKED"} ELSE rwMode = "RWS_WRITE"

(* rw_pend counts exactly the wakeups given and not yet settled.           *)
Credit(l) == nsleeps[l] + (IF At(l, "q_sleep") THEN 1 ELSE 0)
                        - (IF Contains(rwList, l) THEN 1 ELSE 0)
Unsettled ==
  [l \in Lwps |-> IF pc[l] \in Acquiring \union Acquired THEN Credit(l) ELSE 0]
PendAccounting ==
  /\ \A l \in Lwps : Unsettled[l] >= 0
  /\ rwPend = Cardinality(Units(Unsettled))

(* "The rw_pend field may be modified by an LWP only if it holds the lock  *)
(* in write mode, or if the LWP holds the lock in read mode and holds the  *)
(* fspin lock": whoever changes it has the lock, and a reader rw_fspin.    *)
PendRule == [][rwPend' # rwPend =>
  \E l \in Lwps : /\ pc[l] # pc'[l] /\ HasLock(l)
                  /\ Writers = {l} \/ rwFspin = l]_vars

(* "min_ipl is the minimum ipl value at which this lock may be held": as   *)
(* long as a caller has its entry lock, interrupts stay masked.            *)
EntryLockMasked == \A l \in Lwps : lkp = l => ipl[l] = "PLHI"

(* Nobody is left asleep at a free lock: as long as one is queued, an      *)
(* unlocker will look at the queue again, a waker has an LWP to wake, or   *)
(* an LWP that was woken, or that came new, will try the lock before it    *)
(* sleeps or returns.                                                      *)
LookPcs == {"take", "relk", "q_mutex", "q_fspin", "q_take", "m_fspin", "m_list", "m_take"}
SomebodyLooks == \E l \in Lwps : \/ pc[l] \in LookPcs \/ chain[l] # <<>>
                                 \/ At(l, "q_asleep") /\ lStat[l] = "SRUN"
NobodyStranded == rwAvail /\ rwList # <<>> => SomebodyLooks

(* The lock implements the abstract reader-writer lock; no wakeup is lost. *)
Waiters == {l \in Lwps : pc[l] \in Acquiring /\ op[l] \notin TryOps}
A == INSTANCE AbstractRwLock WITH readers <- Readers, writers <- Writers,
                                  waiting <- Waiters
ImplementsFairRwLock == A!FairSpec
=============================================================================
