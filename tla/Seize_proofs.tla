---------------------------- MODULE Seize_proofs ----------------------------
(***************************************************************************)
(* Theorems about Seize, for any number of LWPs, agents and processors:    *)
(* the accounts of the barrier, that a seized process is stopped unless    *)
(* its agent was misled, and that Seize implements AbstractSeize, fairness *)
(* apart.                                                                  *)
(***************************************************************************)
EXTENDS Seize, FiniteSetTheorems, TLAPS

(***************************************************************************)
(* The inductive invariant.                                                *)
(***************************************************************************)
LwpPc(p) == p = "run" \/ p = "link" \/ p = "fork" \/ p = "leave" \/ p = "honor" \/ p = "relvm"
AgentPc(p) == \/ p = "idle" \/ p = "flag" \/ p = "dequeue" \/ p = "wait"
              \/ p = "blocked" \/ p = "has" \/ p = "unflag"

LwpStat(st) == \/ st = "NONE" \/ st = "SIDL" \/ st = "SRUN" \/ st = "SONPROC"
               \/ st = "SSLEEP"

SetsType ==
  /\ pLwpp \subseteq Lwps /\ trapSeize \subseteq Lwps /\ runq \subseteq Lwps
  /\ todo \subseteq Lwps
  /\ cur \in Lwps \union {Nobody} /\ pMutex \in Ctxs \union {Nobody}
BoolType == pSeize \in BOOLEAN /\ pNoSeize \in BOOLEAN /\ pSeized \in BOOLEAN
PcType ==
  /\ DOMAIN pc = Ctxs /\ pc = [c \in Ctxs |-> pc[c]]
  /\ \A l \in Lwps : LwpPc(pc[l])
  /\ \A s \in Agents : AgentPc(pc[s])
StatType ==
  /\ DOMAIN lStat = Lwps /\ lStat = [l \in Lwps |-> lStat[l]]
  /\ \A l \in Lwps : LwpStat(lStat[l])
ChildType == child \in [Lwps -> Lwps \union {Nobody}]
Typed == SetsType /\ BoolType /\ PcType /\ StatType /\ ChildType

(* p_mutex is held just by the context that is in a section under it.      *)
HasMutex(c) == pc[c] = "link" \/ pc[c] = "leave" \/ pc[c] = "flag" \/ pc[c] = "dequeue" \/ pc[c] = "unflag"
MutexInv == \A c \in Ctxs : pMutex = c <=> HasMutex(c)

(* One agent at a time is between P_SEIZE set and cleared.                 *)
AgentInv == \A s \in Agents : pc[s] # "idle" => pSeize /\ \A t \in Agents : pc[t] # "idle" => t = s

(* Which LWPs are on the list: all that there are, but for one that leaves *)
(* and one that is being created.                                          *)
Creating(l) == pc[l] = "link" \/ pc[l] = "fork"
ListInv ==
  /\ \A l \in pLwpp : lStat[l] # "NONE" /\ pc[l] # "leave"
  /\ \A l \in Lwps : pc[l] = "leave" \/ pc[l] = "link" => lStat[l] = "SONPROC"
  /\ \A l \in Lwps : lStat[l] # "NONE" /\ l \notin pLwpp
       => pc[l] = "leave" \/ \E m \in Lwps : pc[m] = "link" /\ child[m] = l
ChildInv ==
  /\ \A l \in Lwps : Creating(l) => child[l] \in Lwps /\ lStat[child[l]] = "SIDL"
  /\ \A l, m \in Lwps : Creating(l) /\ Creating(m) /\ child[l] = child[m] => l = m
  /\ \A l \in Lwps : pc[l] = "link" => child[l] \notin pLwpp
  /\ \A l \in Lwps : pc[l] = "fork" => child[l] \in pLwpp

(* Which LWPs have the flag, in each phase of the agent.                   *)
FlagInv ==
  /\ \A l \in Lwps : lStat[l] = "NONE" => l \notin trapSeize
  /\ \A l \in Lwps : pc[l] = "link" /\ l \in trapSeize => child[l] \in trapSeize
  /\ (\A s \in Agents : pc[s] = "idle") => trapSeize = {}
  /\ \A s \in Agents : pc[s] = "wait" \/ pc[s] = "blocked" \/ pc[s] = "has" => pLwpp \subseteq trapSeize
  /\ \A s \in Agents : pc[s] = "unflag" => trapSeize \subseteq todo
LoopInv ==
  /\ \A s \in Agents : pc[s] = "flag" \/ pc[s] = "dequeue" =>
       /\ todo \subseteq pLwpp /\ pLwpp \subseteq todo \union trapSeize
       /\ \A l \in todo : l \in trapSeize => l = cur
  /\ \A s \in Agents : pc[s] = "dequeue" =>
       cur \in todo /\ cur \in trapSeize /\ (lStat[cur] = "SRUN" \/ lStat[cur] = "SONPROC")
  /\ cur # Nobody => \E s \in Agents : pc[s] = "dequeue"

(* A run queue has the runnable LWPs that are not seized.                  *)
QueueInv == \A l \in Lwps : l \in runq <=> lStat[l] = "SRUN" /\ (l \notin trapSeize \/ l = cur)

(* The two counts that the barrier compares.                               *)
Off == {l \in trapSeize : lStat[l] # "SONPROC" /\ l # cur}
OnCpu == {l \in trapSeize : lStat[l] = "SONPROC"}
Unflagging == \E s \in Agents : pc[s] = "unflag"
CountInv ==
  /\ pNlwp = Cardinality(pLwpp) /\ pNlwp > 0
  /\ pNseized \in Nat
  /\ ~Unflagging => pNseized = Cardinality(Off)
  /\ Unflagging => pNseized <= Cardinality(Lwps \ OnCpu)

StateInv == MutexInv /\ AgentInv /\ ListInv /\ ChildInv /\ FlagInv /\ LoopInv /\ QueueInv
Inv == Typed /\ StateInv /\ CountInv

(* While the agent is not misled: once the event is posted, or about to    *)
(* be, and once an agent has the process, all of its LWPs are stopped.     *)
Stopped == \A l \in pLwpp : l \in trapSeize /\ lStat[l] # "SONPROC" /\ l # cur
StopInv == ~misled => \A s \in Agents :
  pc[s] = "has" \/ (Asking(s) /\ (pSeized \/ posting > 0)) => Stopped

(* The processors that are about to post.                                  *)
PostType == posting \in Nat /\ late \in Nat /\ misled \in BOOLEAN

(***************************************************************************)
(* Functions changed at one place.                                         *)
(***************************************************************************)
(* A context moves on.                                                     *)
LEMMA PcGoto ==
  ASSUME PcType, NEW c \in Ctxs, NEW p, Goto(c, p),
         c \in Lwps => LwpPc(p), c \in Agents => AgentPc(p)
  PROVE  PcType' /\ \A d \in Ctxs : pc'[d] = IF d = c THEN p ELSE pc[d]
<1>1. \A d \in Ctxs : pc'[d] = IF d = c THEN p ELSE pc[d]
  BY DEF PcType, Goto
<1>2. DOMAIN pc' = Ctxs /\ pc' = [d \in Ctxs |-> pc'[d]]
  BY DEF PcType, Goto
<1> QED BY <1>1, <1>2 DEF PcType, Ctxs

(* An LWP changes its state.                                               *)
LEMMA StatSet ==
  ASSUME StatType, NEW l \in Lwps, NEW st, LwpStat(st), SetStat(l, st)
  PROVE  StatType' /\ \A m \in Lwps : lStat'[m] = IF m = l THEN st ELSE lStat[m]
<1>1. \A m \in Lwps : lStat'[m] = IF m = l THEN st ELSE lStat[m]
  BY DEF StatType, SetStat
<1>2. DOMAIN lStat' = Lwps /\ lStat' = [m \in Lwps |-> lStat'[m]]
  BY DEF StatType, SetStat
<1> QED BY <1>1, <1>2 DEF StatType

(* EVENT_SIGNAL moves the agent that is blocked as well.                   *)
LEMMA PcSignal ==
  ASSUME PcType, NEW c \in Lwps, NEW p, SignalSeized([pc EXCEPT ![c] = p]), LwpPc(p), BoolType
  PROVE  /\ PcType' /\ pSeized' \in BOOLEAN
         /\ \A l \in Lwps : pc'[l] = IF l = c THEN p ELSE pc[l]
         /\ \A s \in Agents : pc'[s] = IF pc[s] = "blocked" THEN "has" ELSE pc[s]
<1>1. \A d \in Ctxs : pc'[d] = IF pc[d] = "blocked" THEN "has" ELSE IF d = c THEN p ELSE pc[d]
  BY DEF SignalSeized, At, PcType
<1>2. DOMAIN pc' = Ctxs /\ pc' = [d \in Ctxs |-> pc'[d]]
  BY DEF SignalSeized
<1>3. \A l \in Lwps : pc'[l] = IF l = c THEN p ELSE pc[l]
  BY <1>1 DEF PcType, LwpPc, Ctxs
<1>4. \A s \in Agents : pc'[s] = IF pc[s] = "blocked" THEN "has" ELSE pc[s]
  BY <1>1, SeizeAssumption DEF Ctxs
<1>5. pSeized' \in BOOLEAN
  BY DEF SignalSeized, BoolType
<1> QED BY <1>2, <1>3, <1>4, <1>5 DEF PcType, AgentPc

(* From a processor that runs none of them, it moves nobody else.          *)
LEMMA PcPost ==
  ASSUME PcType, BoolType, Posting
  PROVE  /\ PcType' /\ pSeized' \in BOOLEAN /\ \A l \in Lwps : pc'[l] = pc[l]
         /\ \A s \in Agents : pc'[s] = IF pc[s] = "blocked" THEN "has" ELSE pc[s]
<1>1. SignalSeized(pc)
  BY DEF Posting, SwtchSeized, SwtchSeizedLate
<1>2. PICK l \in Lwps : TRUE
  BY SeizeAssumption
<1>3. [pc EXCEPT ![l] = pc[l]] = pc
  BY DEF PcType
<1>4. LwpPc(pc[l])
  BY DEF PcType
<1> QED BY <1>1, <1>3, <1>4, PcSignal

(***************************************************************************)
(* The counts.                                                             *)
(***************************************************************************)
(* Finiteness and the bounds that follow from subsets.                     *)
LEMMA OffFinite ==
  ASSUME SetsType
  PROVE  /\ IsFiniteSet(pLwpp) /\ Cardinality(pLwpp) \in Nat
         /\ IsFiniteSet(Off) /\ Cardinality(Off) \in Nat
         /\ IsFiniteSet(Lwps \ OnCpu) /\ Cardinality(Lwps \ OnCpu) \in Nat
         /\ Cardinality(pLwpp) <= Cardinality(Lwps) /\ Cardinality(Off) <= Cardinality(Lwps)
         /\ Cardinality(Lwps \ OnCpu) <= Cardinality(Lwps)
         /\ Cardinality(Off) <= Cardinality(Lwps \ OnCpu)
<1>1. IsFiniteSet(Lwps)
  BY SeizeAssumption
<1>2. pLwpp \in SUBSET Lwps /\ Off \in SUBSET Lwps /\ Lwps \ OnCpu \in SUBSET Lwps
  BY DEF SetsType, Off, OnCpu
<1>3. IsFiniteSet(pLwpp) /\ Cardinality(pLwpp) <= Cardinality(Lwps)
  BY <1>1, <1>2, FS_Subset
<1>4. IsFiniteSet(Off) /\ Cardinality(Off) <= Cardinality(Lwps)
  BY <1>1, <1>2, FS_Subset
<1>5. IsFiniteSet(Lwps \ OnCpu) /\ Cardinality(Lwps \ OnCpu) <= Cardinality(Lwps)
  BY <1>1, <1>2, FS_Subset
<1>6. Off \in SUBSET (Lwps \ OnCpu)
  BY DEF SetsType, Off, OnCpu
<1>7. Cardinality(Off) <= Cardinality(Lwps \ OnCpu)
  BY <1>5, <1>6, FS_Subset
<1> QED BY <1>3, <1>4, <1>5, <1>7, FS_CardinalityType

(* A step that leaves the LWPs that are off alone.                         *)
LEMMA CountStays ==
  ASSUME SetsType, SetsType', CountInv, UNCHANGED <<pLwpp, pNlwp, pNseized>>, Off' = Off,
         Unflagging' => Unflagging /\ OnCpu' \subseteq OnCpu,
         Unflagging => Unflagging'
  PROVE  CountInv'
<1>1. ~Unflagging' => pNseized' = Cardinality(Off')
  BY DEF CountInv
<1>2. Unflagging' => pNseized' <= Cardinality(Lwps \ OnCpu')
  <2> SUFFICES ASSUME Unflagging' PROVE pNseized' <= Cardinality(Lwps \ OnCpu')
    OBVIOUS
  <2>1. pNseized <= Cardinality(Lwps \ OnCpu) /\ pNseized' = pNseized /\ pNseized \in Nat
    BY DEF CountInv
  <2>2. Lwps \ OnCpu \in SUBSET (Lwps \ OnCpu')
    OBVIOUS
  <2>3. IsFiniteSet(Lwps \ OnCpu') /\ Cardinality(Lwps \ OnCpu') \in Nat
    BY SeizeAssumption, FS_Subset, FS_CardinalityType
  <2>4. Cardinality(Lwps \ OnCpu) <= Cardinality(Lwps \ OnCpu')
    BY <2>2, <2>3, FS_Subset
  <2> QED BY <2>1, <2>3, <2>4, OffFinite
<1> QED BY <1>1, <1>2 DEF CountInv

(* A step that takes one more off.                                         *)
LEMMA CountOneMore ==
  ASSUME SetsType, SetsType', CountInv, NEW l \in Lwps, UNCHANGED <<pLwpp, pNlwp>>,
         pNseized' = pNseized + 1, l \notin Off, Unflagging' <=> Unflagging,
         ~Unflagging => Off' = Off \union {l},
         Unflagging => l \in OnCpu /\ OnCpu' = OnCpu \ {l}
  PROVE  CountInv'
<1>1. ~Unflagging' => pNseized' = Cardinality(Off')
  <2>1. Cardinality(Off \union {l}) = Cardinality(Off) + 1
    BY OffFinite, FS_AddElement
  <2> QED BY <2>1 DEF CountInv
<1>2. Unflagging' => pNseized' <= Cardinality(Lwps \ OnCpu')
  <2> SUFFICES ASSUME Unflagging' PROVE pNseized' <= Cardinality(Lwps \ OnCpu')
    OBVIOUS
  <2> DEFINE N == Lwps \ OnCpu
  <2>1. Lwps \ OnCpu' = N \union {l} /\ l \notin N
    OBVIOUS
  <2>2. IsFiniteSet(N) /\ Cardinality(N) \in Nat /\ pNseized <= Cardinality(N) /\ pNseized \in Nat
    BY OffFinite DEF CountInv
  <2> HIDE DEF N
  <2>3. Cardinality(N \union {l}) = Cardinality(N) + 1
    BY <2>1, <2>2, FS_AddElement
  <2> QED BY <2>1, <2>2, <2>3
<1> QED BY <1>1, <1>2 DEF CountInv

(***************************************************************************)
(* The steps of the dispatcher.                                            *)
(***************************************************************************)

(* An LWP leaves its processor; its pc may move on within the exit.        *)
LEMMA SwitchedOut ==
  ASSUME Inv, NEW l \in Lwps, NEW st, st = "SRUN" \/ st = "SSLEEP",
         Running(l), MutexFree(l), SwitchOut(l, st), pMutex # l,
         pc' = pc \/ (At(l, "honor") /\ Goto(l, "relvm")),
         UNCHANGED <<pMutex, countVars, flagVars, pSeized, trapSeize, loopVars, child>>
  PROVE  Inv'
<1> USE SeizeAssumption DEF Ctxs, At, MutexFree, Running
<1>1. /\ lStat[l] = "SONPROC" /\ cur # l
      /\ UNCHANGED <<pMutex, pLwpp, pNlwp, pSeize, pNoSeize, pSeized, trapSeize, todo, cur, child>>
  BY DEF countVars, flagVars, loopVars
<1>2. StatType' /\ \A m \in Lwps : lStat'[m] = IF m = l THEN st ELSE lStat[m]
  BY StatSet DEF Inv, Typed, SwitchOut, LwpStat
<1>3. PcType' /\ \A c \in Ctxs : pc'[c] = pc[c] \/ (c = l /\ pc[c] = "honor" /\ pc'[c] = "relvm")
  <2>1. CASE pc' = pc
    BY <2>1 DEF Inv, Typed, PcType
  <2>2. CASE At(l, "honor") /\ Goto(l, "relvm")
    BY <2>2, PcGoto DEF Inv, Typed, LwpPc
  <2> QED BY <2>1, <2>2
<1>4. runq' = IF st = "SRUN" /\ l \notin trapSeize THEN runq \union {l} ELSE runq
  BY DEF SwitchOut, BecomeSeized, MakeRunnable
<1>5. pNseized' = IF l \in trapSeize THEN pNseized + 1 ELSE pNseized
  BY DEF SwitchOut, BecomeSeized
<1>6. SetsType'
  BY <1>1, <1>4, <1>5 DEF Inv, Typed, SetsType
<1>7. Typed'
  BY <1>1, <1>2, <1>3, <1>6 DEF Inv, Typed, BoolType, ChildType
<1>8. \A s \in Agents : pc'[s] = pc[s]
  BY <1>3
<1>9. MutexInv' /\ AgentInv'
  BY <1>1, <1>3, <1>8 DEF Inv, StateInv, MutexInv, HasMutex, AgentInv
<1>10. ListInv'
  <2>1. pc[l] # "link" /\ pc[l] # "leave"
    BY DEF Inv, StateInv, MutexInv, HasMutex
  <2> QED BY <1>1, <1>2, <1>3, <2>1 DEF Inv, Typed, SetsType, StateInv, ListInv
<1>11. ChildInv'
  BY <1>1, <1>2, <1>3 DEF Inv, StateInv, ChildInv, Creating
<1>12. FlagInv'
  BY <1>1, <1>2, <1>3, <1>8 DEF Inv, StateInv, FlagInv
<1>13. LoopInv'
  BY <1>1, <1>2, <1>8 DEF Inv, Typed, SetsType, StateInv, LoopInv
<1>14. QueueInv'
  BY <1>1, <1>2, <1>4 DEF Inv, Typed, SetsType, StateInv, QueueInv
<1>15. CountInv'
  <2>1. Unflagging' <=> Unflagging
    BY <1>8 DEF Unflagging
  <2>2. CASE l \in trapSeize
    <3>1. Off' = Off \union {l} /\ l \notin Off /\ l \in OnCpu /\ OnCpu' = OnCpu \ {l}
      BY <1>1, <1>2, <2>2 DEF Inv, Typed, SetsType, Off, OnCpu
    <3>2. pNseized' = pNseized + 1
      BY <1>5, <2>2
    <3> QED BY <1>1, <1>6, <2>1, <3>1, <3>2, CountOneMore DEF Inv, Typed
  <2>3. CASE l \notin trapSeize
    <3>1. Off' = Off /\ OnCpu' = OnCpu
      BY <1>1, <1>2, <2>3 DEF Inv, Typed, SetsType, Off, OnCpu
    <3>2. pNseized' = pNseized
      BY <1>5, <2>3
    <3> QED BY <1>1, <1>6, <2>1, <3>1, <3>2, CountStays DEF Inv, Typed
  <2> QED BY <2>2, <2>3
<1> QED BY <1>7, <1>9, <1>10, <1>11, <1>12, <1>13, <1>14, <1>15 DEF Inv, StateInv

(* Preempt and Block.                                                      *)
LEMMA InvSwitchOut ==
  ASSUME Inv, NEW l \in Lwps, Preempt(l) \/ Block(l)
  PROVE  Inv'
<1>1. CASE Preempt(l)
  BY <1>1, SwitchedOut DEF Preempt, Goto
<1>2. CASE Block(l)
  <2>1. pMutex # l
    BY <1>2 DEF Block, Inv, StateInv, MutexInv, HasMutex, Ctxs
  <2> QED BY <1>2, <2>1, SwitchedOut DEF Block
<1> QED BY <1>1, <1>2

(* An LWP becomes runnable, or a processor takes it off its queue.         *)
LEMMA InvWakeup ==
  ASSUME Inv, NEW l \in Lwps, Wakeup(l) \/ Dispatch(l)
  PROVE  Inv'
<1> USE SeizeAssumption DEF Ctxs
<1> DEFINE st == IF Wakeup(l) THEN "SRUN" ELSE "SONPROC"
<1>1. /\ UNCHANGED <<pMutex, pLwpp, pNlwp, pNseized, pSeize, pNoSeize, pSeized, trapSeize,
                     pc, todo, cur, child>>
  BY DEF Wakeup, Dispatch, countVars, flagVars, loopVars
<1>2. /\ lStat[l] = "SSLEEP" /\ l # cur /\ st = "SRUN"
      /\ runq' = IF l \in trapSeize THEN runq ELSE runq \union {l}
   \/ /\ lStat[l] = "SRUN" /\ (l \notin trapSeize \/ l = cur) /\ st = "SONPROC"
      /\ runq' = runq \ {l}
  BY DEF Wakeup, Dispatch, MakeRunnable, MutexFree, Inv, StateInv, QueueInv
<1>3. StatType' /\ \A m \in Lwps : lStat'[m] = IF m = l THEN st ELSE lStat[m]
  <2>1. SetStat(l, st)
    BY DEF Wakeup, Dispatch
  <2>2. LwpStat(st)
    BY DEF LwpStat
  <2> HIDE DEF st
  <2> QED BY <2>1, <2>2, StatSet DEF Inv, Typed
<1> HIDE DEF st
<1>4. Typed'
  BY <1>1, <1>2, <1>3 DEF Inv, Typed, SetsType, BoolType, PcType, ChildType
<1>5. MutexInv' /\ AgentInv'
  BY <1>1 DEF Inv, StateInv, MutexInv, HasMutex, AgentInv
<1>6. ListInv'
  BY <1>1, <1>2, <1>3 DEF Inv, Typed, SetsType, StateInv, ListInv
<1>7. ChildInv'
  BY <1>1, <1>2, <1>3 DEF Inv, StateInv, ChildInv, Creating
<1>8. FlagInv'
  BY <1>1, <1>2, <1>3 DEF Inv, StateInv, FlagInv
<1>9. LoopInv'
  BY <1>1, <1>2, <1>3 DEF Inv, Typed, SetsType, StateInv, LoopInv
<1>10. QueueInv'
  BY <1>1, <1>2, <1>3 DEF Inv, StateInv, QueueInv
<1>11. CountInv'
  <2>1. Off' = Off
    BY <1>1, <1>2, <1>3 DEF Inv, Typed, SetsType, Off
  <2>2. Unflagging' <=> Unflagging
    BY <1>1 DEF Unflagging
  <2>3. Unflagging => OnCpu' \subseteq OnCpu
    <3>1. Unflagging => cur = Nobody
      BY DEF Unflagging, Inv, StateInv, AgentInv, LoopInv
    <3> QED BY <1>1, <1>2, <1>3, <3>1 DEF Inv, Typed, SetsType, OnCpu
  <2> QED BY <1>1, <1>4, <2>1, <2>2, <2>3, CountStays DEF Inv, Typed
<1> QED BY <1>4, <1>5, <1>6, <1>7, <1>8, <1>9, <1>10, <1>11 DEF Inv, StateInv

(* The post from a processor's private stack.                              *)
LEMMA InvPosting ==
  ASSUME Inv, Posting
  PROVE  Inv'
<1> USE SeizeAssumption DEF Ctxs
<1>1. UNCHANGED <<pMutex, pLwpp, pNlwp, pNseized, pSeize, pNoSeize, lStat, trapSeize, runq,
                  todo, cur, child>>
  BY DEF Posting, SwtchSeized, SwtchSeizedLate, countVars, flagVars, lwpVars, loopVars
<1>2. /\ PcType' /\ pSeized' \in BOOLEAN /\ \A m \in Lwps : pc'[m] = pc[m]
      /\ \A s \in Agents : pc'[s] = IF pc[s] = "blocked" THEN "has" ELSE pc[s]
  BY PcPost DEF Inv, Typed
<1>3. Typed'
  BY <1>1, <1>2 DEF Inv, Typed, SetsType, BoolType, StatType, ChildType
<1>4. MutexInv' /\ AgentInv'
  BY <1>1, <1>2 DEF Inv, StateInv, MutexInv, HasMutex, AgentInv
<1>5. ListInv' /\ ChildInv' /\ QueueInv'
  BY <1>1, <1>2 DEF Inv, Typed, SetsType, StateInv, ListInv, ChildInv, Creating, QueueInv
<1>6. FlagInv'
  BY <1>1, <1>2 DEF Inv, StateInv, FlagInv
<1>7. LoopInv'
  BY <1>1, <1>2 DEF Inv, StateInv, LoopInv
<1>8. CountInv'
  <2>1. Off' = Off /\ OnCpu' = OnCpu
    BY <1>1 DEF Off, OnCpu
  <2>2. Unflagging' <=> Unflagging
    BY <1>2 DEF Unflagging
  <2> QED BY <1>1, <1>3, <2>1, <2>2, CountStays DEF Inv, Typed
<1> QED BY <1>3, <1>4, <1>5, <1>6, <1>7, <1>8 DEF Inv, StateInv

(***************************************************************************)
(* The steps of the LWPs.                                                  *)
(***************************************************************************)

(* Who runs code outside of the sections under p_mutex is on the list, and *)
(* so is the creator of an LWP.                                            *)
LEMMA RunningListed ==
  ASSUME Inv, NEW l \in Lwps, Running(l), pc[l] # "leave"
  PROVE  l \in pLwpp
  BY DEF Inv, StateInv, ListInv, ChildInv, Creating, Running

(* While no LWP is in a section under p_mutex, the list has all there are. *)
LEMMA AllListed ==
  ASSUME Inv, NEW l \in Lwps, lStat[l] # "NONE", \A m \in Lwps : pc[m] # "link" /\ pc[m] # "leave"
  PROVE  l \in pLwpp
  BY DEF Inv, StateInv, ListInv

(* The LWP that leaves runs, so it is on the list and counted.             *)
LEMMA InvLeaveProcess ==
  ASSUME Inv, NEW l \in Lwps, LeaveProcess(l)
  PROVE  Inv'
<1> USE SeizeAssumption DEF Ctxs
<1>1. /\ UNCHANGED <<pNseized, pSeize, pNoSeize, pSeized, lStat, trapSeize, runq, todo,
                     cur, child>>
      /\ pMutex = Nobody /\ pMutex' = l /\ lStat[l] = "SONPROC" /\ pc[l] = "run"
      /\ pNlwp > 1 /\ pLwpp' = pLwpp \ {l} /\ pNlwp' = pNlwp - 1
  BY DEF LeaveProcess, Free, OtherLwps, flagVars, lwpVars, loopVars, Running, At
<1>2. PcType' /\ \A c \in Ctxs : pc'[c] = IF c = l THEN "leave" ELSE pc[c]
  BY PcGoto DEF Inv, Typed, LwpPc, LeaveProcess
<1>3. l \in pLwpp
  BY <1>1, RunningListed DEF Running
<1>4. \A s \in Agents : pc'[s] = pc[s] /\ pc[s] # "flag" /\ pc[s] # "dequeue" /\ pc[s] # "unflag"
  BY <1>1, <1>2 DEF Inv, StateInv, MutexInv, HasMutex
<1>5. \A m \in Lwps : pc[m] # "link" /\ pc[m] # "leave"
  BY <1>1 DEF Inv, StateInv, MutexInv, HasMutex
<1>6. Typed'
  BY <1>1, <1>2 DEF Inv, Typed, SetsType, BoolType, StatType, ChildType
<1>7. MutexInv' /\ AgentInv'
  BY <1>1, <1>2, <1>4, <1>5 DEF Inv, StateInv, MutexInv, HasMutex, AgentInv
<1>8. ListInv'
  BY <1>1, <1>2, <1>5 DEF Inv, Typed, SetsType, StateInv, ListInv
<1>9. ChildInv'
  <2>1. \A m \in Lwps : pc'[m] = "fork" <=> pc[m] = "fork"
    BY <1>1, <1>2
  <2>2. \A m \in Lwps : pc[m] = "fork" => child[m] # l
    BY <1>1 DEF Inv, StateInv, ChildInv, Creating
  <2>3. \A m \in Lwps : pc'[m] # "link"
    BY <1>2, <1>5
  <2> QED BY <1>1, <2>1, <2>2, <2>3 DEF Inv, StateInv, ChildInv, Creating
<1>10. FlagInv'
  BY <1>1, <1>2, <1>4 DEF Inv, StateInv, FlagInv
<1>11. LoopInv'
  BY <1>1, <1>4 DEF Inv, StateInv, LoopInv
<1>12. QueueInv'
  BY <1>1 DEF Inv, StateInv, QueueInv
<1>13. CountInv'
  <2>1. Off' = Off /\ ~Unflagging' /\ ~Unflagging
    BY <1>1, <1>4 DEF Off, Unflagging
  <2>2. Cardinality(pLwpp') = Cardinality(pLwpp) - 1
    BY <1>1, <1>3, OffFinite, FS_RemoveElement DEF Inv, Typed
  <2>3. Cardinality(pLwpp) \in Nat
    BY OffFinite DEF Inv, Typed
  <2> QED BY <1>1, <2>1, <2>2, <2>3 DEF Inv, CountInv
<1> QED BY <1>6, <1>7, <1>8, <1>9, <1>10, <1>11, <1>12, <1>13 DEF Inv, StateInv

(* It is off the list already; the report may let the agent go on.         *)
LEMMA InvExit ==
  ASSUME Inv, NEW l \in Lwps, Exit(l)
  PROVE  Inv'
<1> USE SeizeAssumption DEF Ctxs
<1>1. /\ UNCHANGED <<pLwpp, pNlwp, pNseized, pSeize, pNoSeize, runq, todo, cur, child>>
      /\ pMutex' = Nobody /\ pc[l] = "leave" /\ trapSeize' = trapSeize \ {l}
  BY DEF Exit, countVars, flagVars, loopVars, At
<1>2. lStat[l] = "SONPROC" /\ l \notin pLwpp
  BY <1>1 DEF Inv, StateInv, ListInv
<1>3. StatType' /\ \A m \in Lwps : lStat'[m] = IF m = l THEN "NONE" ELSE lStat[m]
  BY StatSet DEF Inv, Typed, Exit, LwpStat
<1>4. /\ PcType' /\ pSeized' \in BOOLEAN
      /\ \A m \in Lwps : pc'[m] = IF m = l THEN "run" ELSE pc[m]
      /\ \A s \in Agents : pc'[s] = pc[s] \/ (pc[s] = "blocked" /\ pc'[s] = "has")
  <2> LwpPc("run") /\ PcType /\ BoolType
    BY DEF LwpPc, Inv, Typed
  <2>1. CASE SignalSeized([pc EXCEPT ![l] = "run"])
    BY <2>1, PcSignal
  <2>2. CASE Goto(l, "run") /\ UNCHANGED pSeized
    <3>1. PcType' /\ \A c \in Ctxs : pc'[c] = IF c = l THEN "run" ELSE pc[c]
      BY <2>2, PcGoto
    <3> QED BY <2>2, <3>1 DEF BoolType
  <2> QED BY <2>1, <2>2 DEF Exit, ReportExit
<1>5. \A c \in Ctxs : pMutex = c <=> c = l
  BY <1>1 DEF Inv, StateInv, MutexInv, HasMutex
<1>6. /\ \A m \in Lwps : m # l => pc[m] # "link" /\ pc[m] # "leave"
      /\ \A s \in Agents : pc[s] # "flag" /\ pc[s] # "dequeue" /\ pc[s] # "unflag"
  BY <1>5 DEF Inv, StateInv, MutexInv, HasMutex
<1>7. Typed'
  BY <1>1, <1>3, <1>4 DEF Inv, Typed, SetsType, BoolType, ChildType
<1>8. MutexInv'
  BY <1>1, <1>4, <1>5 DEF Inv, StateInv, MutexInv, HasMutex
<1>9. AgentInv'
  BY <1>1, <1>4 DEF Inv, StateInv, AgentInv
<1>10. ListInv'
  BY <1>1, <1>2, <1>3, <1>4, <1>6 DEF Inv, Typed, SetsType, StateInv, ListInv
<1>11. ChildInv'
  BY <1>1, <1>2, <1>3, <1>4 DEF Inv, StateInv, ChildInv, Creating
<1>12. FlagInv'
  BY <1>1, <1>2, <1>3, <1>4, <1>6 DEF Inv, Typed, SetsType, StateInv, FlagInv
<1>13. LoopInv'
  BY <1>1, <1>4, <1>6 DEF Inv, StateInv, LoopInv
<1>14. QueueInv'
  BY <1>1, <1>2, <1>3 DEF Inv, StateInv, QueueInv
<1>15. CountInv'
  <2>1. Off' = Off
    BY <1>1, <1>2, <1>3 DEF Inv, Typed, SetsType, Off
  <2>2. ~Unflagging /\ ~Unflagging'
    BY <1>4, <1>6 DEF Unflagging
  <2> QED BY <1>1, <1>7, <2>1, <2>2, CountStays DEF Inv, Typed
<1> QED BY <1>7, <1>8, <1>9, <1>10, <1>11, <1>12, <1>13, <1>14, <1>15 DEF Inv, StateInv

(* Only pc and P_NOSEIZE.                                                  *)
LEMMA InvExitProcess ==
  ASSUME Inv, NEW l \in Lwps, ExitProcess(l)
  PROVE  Inv'
<1> USE SeizeAssumption DEF Ctxs
<1>1. /\ UNCHANGED <<pMutex, pLwpp, pNlwp, pNseized, pSeize, pSeized, lStat, trapSeize, runq,
                     todo, cur, child>>
      /\ pNoSeize' \in BOOLEAN /\ pc[l] = "run"
  BY DEF ExitProcess, Free, countVars, lwpVars, loopVars, At
<1>2. PICK p : (p = "honor" \/ p = "relvm") /\ Goto(l, p)
  BY DEF ExitProcess
<1>3. PcType' /\ \A c \in Ctxs : pc'[c] = IF c = l THEN p ELSE pc[c]
  BY <1>2, PcGoto DEF Inv, Typed, LwpPc
<1>4. Typed'
  BY <1>1, <1>3 DEF Inv, Typed, SetsType, BoolType, StatType, ChildType
<1>5. \A s \in Agents : pc'[s] = pc[s]
  BY <1>3
<1>6. MutexInv' /\ AgentInv'
  BY <1>1, <1>2, <1>3, <1>5 DEF Inv, StateInv, MutexInv, HasMutex, AgentInv
<1>7. ListInv' /\ ChildInv' /\ QueueInv'
  BY <1>1, <1>2, <1>3 DEF Inv, Typed, SetsType, StateInv, ListInv, ChildInv, Creating, QueueInv
<1>8. FlagInv' /\ LoopInv'
  BY <1>1, <1>2, <1>3, <1>5 DEF Inv, StateInv, FlagInv, LoopInv
<1>9. CountInv'
  <2>1. Off' = Off /\ OnCpu' = OnCpu
    BY <1>1 DEF Off, OnCpu
  <2>2. Unflagging' <=> Unflagging
    BY <1>5 DEF Unflagging
  <2> QED BY <1>1, <1>4, <2>1, <2>2, CountStays DEF Inv, Typed
<1> QED BY <1>4, <1>6, <1>7, <1>8, <1>9 DEF Inv, StateInv

(* The new LWP is in no set yet, so its flag adds one to Off.              *)
LEMMA InvNewLwp ==
  ASSUME Inv, NEW l \in Lwps, NewLwp(l)
  PROVE  Inv'
<1> USE SeizeAssumption DEF Ctxs
<1>1. PICK n \in Lwps :
        /\ lStat[n] = "NONE" /\ SetStat(n, "SIDL")
        /\ trapSeize' = IF l \in trapSeize THEN trapSeize \union {n} ELSE trapSeize
        /\ pNseized' = IF l \in trapSeize THEN pNseized + 1 ELSE pNseized
        /\ child' = [child EXCEPT ![l] = n]
  BY DEF NewLwp
<1>2. /\ UNCHANGED <<pLwpp, pNlwp, pSeize, pNoSeize, pSeized, runq, todo, cur>>
      /\ pMutex = Nobody /\ pMutex' = l /\ pc[l] = "run" /\ lStat[l] = "SONPROC" /\ cur # l
  BY DEF NewLwp, Free, countVars, flagVars, loopVars, Running, MutexFree, At
<1>3. StatType' /\ \A m \in Lwps : lStat'[m] = IF m = n THEN "SIDL" ELSE lStat[m]
  BY <1>1, StatSet DEF Inv, Typed, LwpStat
<1>4. PcType' /\ \A c \in Ctxs : pc'[c] = IF c = l THEN "link" ELSE pc[c]
  BY PcGoto DEF Inv, Typed, LwpPc, NewLwp
<1>5. ChildType' /\ \A m \in Lwps : child'[m] = IF m = l THEN n ELSE child[m]
  BY <1>1 DEF Inv, Typed, ChildType
<1>6. /\ \A m \in Lwps : pc[m] # "link" /\ pc[m] # "leave"
      /\ \A s \in Agents : pc'[s] = pc[s] /\ pc[s] # "flag" /\ pc[s] # "dequeue" /\ pc[s] # "unflag"
  BY <1>2, <1>4 DEF Inv, StateInv, MutexInv, HasMutex
<1>7. n \notin pLwpp /\ n \notin trapSeize /\ cur = Nobody /\ n # l
  BY <1>1, <1>2, <1>6 DEF Inv, StateInv, ListInv, FlagInv, LoopInv
<1>8. l \in pLwpp
  BY <1>2, RunningListed DEF Running
<1>9. Typed'
  BY <1>1, <1>2, <1>3, <1>4, <1>5 DEF Inv, Typed, SetsType, BoolType
<1>10. MutexInv'
  BY <1>2, <1>4, <1>6 DEF Inv, StateInv, MutexInv, HasMutex
<1>11. AgentInv'
  BY <1>2, <1>6 DEF Inv, StateInv, AgentInv
<1>12. ListInv'
  BY <1>1, <1>2, <1>3, <1>4, <1>5, <1>6, <1>7 DEF Inv, Typed, SetsType, StateInv, ListInv
<1>13. ChildInv'
  <2>1. \A m \in Lwps : Creating(m)' <=> (Creating(m) \/ m = l)
    BY <1>2, <1>4 DEF Creating
  <2>2. \A m \in Lwps : Creating(m) => child[m] # n /\ m # l
    BY <1>1, <1>2 DEF Inv, StateInv, ChildInv, Creating
  <2>3. \A m \in Lwps : Creating(m)' => child'[m] \in Lwps /\ lStat'[child'[m]] = "SIDL"
    BY <1>3, <1>5, <2>1 DEF Inv, StateInv, ChildInv
  <2>4. \A k, m \in Lwps : Creating(k)' /\ Creating(m)' /\ child'[k] = child'[m] => k = m
    BY <1>5, <2>1, <2>2 DEF Inv, StateInv, ChildInv
  <2>5. \A m \in Lwps : pc'[m] = "link" => child'[m] \notin pLwpp'
    BY <1>2, <1>4, <1>5, <1>6, <1>7
  <2>6. \A m \in Lwps : pc'[m] = "fork" => child'[m] \in pLwpp'
    BY <1>2, <1>4, <1>5 DEF Inv, StateInv, ChildInv
  <2> QED BY <2>3, <2>4, <2>5, <2>6 DEF ChildInv, Creating
<1>14. FlagInv'
  <2>1. \A m \in Lwps : lStat'[m] = "NONE" => m \notin trapSeize'
    BY <1>1, <1>3 DEF Inv, StateInv, FlagInv
  <2>2. \A m \in Lwps : pc'[m] = "link" /\ m \in trapSeize' => child'[m] \in trapSeize'
    BY <1>1, <1>4, <1>5, <1>6, <1>7
  <2>3. (\A s \in Agents : pc'[s] = "idle") => trapSeize' = {}
    BY <1>1, <1>6 DEF Inv, StateInv, FlagInv
  <2>4. pLwpp \subseteq trapSeize => pLwpp' \subseteq trapSeize'
    BY <1>1, <1>2
  <2> QED BY <1>6, <2>1, <2>2, <2>3, <2>4 DEF Inv, StateInv, FlagInv
<1>15. LoopInv'
  BY <1>2, <1>6, <1>7 DEF Inv, StateInv, LoopInv
<1>16. QueueInv'
  BY <1>1, <1>2, <1>3, <1>7 DEF Inv, Typed, SetsType, StateInv, QueueInv
<1>17. CountInv'
  <2>1. ~Unflagging /\ ~Unflagging'
    BY <1>6 DEF Unflagging
  <2>2. CASE l \in trapSeize
    <3>1. n \notin Off /\ Off' = Off \union {n}
      BY <1>1, <1>2, <1>3, <1>7, <2>2 DEF Inv, Typed, SetsType, Off
    <3>2. pNseized' = pNseized + 1
      BY <1>1, <2>2
    <3> QED BY <1>2, <1>9, <2>1, <3>1, <3>2, CountOneMore DEF Inv, Typed
  <2>3. CASE l \notin trapSeize
    <3>1. Off' = Off /\ pNseized' = pNseized
      BY <1>1, <1>2, <1>3, <1>7, <2>3 DEF Inv, Typed, SetsType, Off
    <3> QED BY <1>2, <1>9, <2>1, <3>1, CountStays DEF Inv, Typed
  <2> QED BY <2>2, <2>3
<1> QED BY <1>9, <1>10, <1>11, <1>12, <1>13, <1>14, <1>15, <1>16, <1>17 DEF Inv, StateInv

(* It is counted as seized already if its creator has the flag.            *)
LEMMA InvLinkLwp ==
  ASSUME Inv, NEW l \in Lwps, LinkLwp(l)
  PROVE  Inv'
<1> USE SeizeAssumption DEF Ctxs
<1> DEFINE n == child[l]
<1>1. /\ UNCHANGED <<pNseized, pSeize, pNoSeize, pSeized, lStat, trapSeize, runq, todo,
                     cur, child>>
      /\ pMutex' = Nobody /\ pc[l] = "link"
      /\ pLwpp' = pLwpp \union {n} /\ pNlwp' = pNlwp + 1
  BY DEF LinkLwp, flagVars, lwpVars, loopVars, At
<1>2. PcType' /\ \A c \in Ctxs : pc'[c] = IF c = l THEN "fork" ELSE pc[c]
  BY PcGoto DEF Inv, Typed, LwpPc, LinkLwp
<1>3. /\ n \in Lwps /\ lStat[n] = "SIDL" /\ n \notin pLwpp /\ pc[n] # "leave"
      /\ l \in trapSeize => n \in trapSeize
  BY <1>1 DEF Inv, StateInv, ChildInv, ListInv, Creating, FlagInv
<1> HIDE DEF n
<1>4. l \in pLwpp
  BY <1>1, RunningListed DEF Inv, StateInv, ListInv, Running
<1>5. \A c \in Ctxs : pMutex = c <=> c = l
  BY <1>1 DEF Inv, StateInv, MutexInv, HasMutex
<1>6. /\ \A m \in Lwps : m # l => pc[m] # "link" /\ pc[m] # "leave"
      /\ \A s \in Agents : pc'[s] = pc[s] /\ pc[s] # "flag" /\ pc[s] # "dequeue" /\ pc[s] # "unflag"
  BY <1>2, <1>5 DEF Inv, StateInv, MutexInv, HasMutex
<1>7. Typed'
  BY <1>1, <1>2, <1>3 DEF Inv, Typed, SetsType, BoolType, StatType, ChildType
<1>8. MutexInv'
  BY <1>1, <1>2, <1>5 DEF Inv, StateInv, MutexInv, HasMutex
<1>9. AgentInv'
  BY <1>1, <1>6 DEF Inv, StateInv, AgentInv
<1>10. ListInv'
  BY <1>1, <1>2, <1>3, <1>6 DEF Inv, Typed, SetsType, StateInv, ListInv, n
<1>11. ChildInv'
  <2>1. \A m \in Lwps : Creating(m)' <=> Creating(m)
    BY <1>1, <1>2 DEF Creating
  <2>2. \A m \in Lwps : pc'[m] # "link"
    BY <1>2, <1>6
  <2>3. \A m \in Lwps : pc'[m] = "fork" => child[m] \in pLwpp \/ child[m] = n
    BY <1>2 DEF Inv, StateInv, ChildInv, n
  <2> QED BY <1>1, <2>1, <2>2, <2>3 DEF Inv, StateInv, ChildInv, Creating
<1>12. FlagInv'
  <2>1. pLwpp \subseteq trapSeize => pLwpp' \subseteq trapSeize
    BY <1>1, <1>3, <1>4
  <2>2. \A m \in Lwps : pc'[m] # "link"
    BY <1>2, <1>6
  <2> QED BY <1>1, <1>6, <2>1, <2>2 DEF Inv, StateInv, FlagInv
<1>13. LoopInv'
  BY <1>1, <1>6 DEF Inv, StateInv, LoopInv
<1>14. QueueInv'
  BY <1>1 DEF Inv, StateInv, QueueInv
<1>15. CountInv'
  <2>1. Off' = Off /\ ~Unflagging' /\ ~Unflagging
    BY <1>1, <1>6 DEF Off, Unflagging
  <2>2. Cardinality(pLwpp') = Cardinality(pLwpp) + 1
    BY <1>1, <1>3, OffFinite, FS_AddElement DEF Inv, Typed
  <2>3. Cardinality(pLwpp) \in Nat
    BY OffFinite DEF Inv, Typed
  <2> QED BY <1>1, <2>1, <2>2, <2>3 DEF Inv, CountInv
<1> QED BY <1>7, <1>8, <1>9, <1>10, <1>11, <1>12, <1>13, <1>14, <1>15 DEF Inv, StateInv

(* Runnable, and on a run queue unless it is seized.                       *)
LEMMA InvFork ==
  ASSUME Inv, NEW l \in Lwps, Fork(l)
  PROVE  Inv'
<1> USE SeizeAssumption DEF Ctxs
<1> DEFINE n == child[l]
<1>1. /\ UNCHANGED <<pMutex, pLwpp, pNlwp, pNseized, pSeize, pNoSeize, pSeized, trapSeize,
                     todo, cur>>
      /\ pc[l] = "fork" /\ lStat[l] = "SONPROC" /\ cur # l /\ cur # n
      /\ runq' = IF n \in trapSeize THEN runq ELSE runq \union {n}
  BY DEF Fork, MakeRunnable, countVars, flagVars, loopVars, At, Running, MutexFree
<1>2. n \in Lwps /\ lStat[n] = "SIDL" /\ n \in pLwpp
  BY <1>1 DEF Inv, StateInv, ChildInv, Creating
<1>3. PcType' /\ \A c \in Ctxs : pc'[c] = IF c = l THEN "run" ELSE pc[c]
  BY PcGoto DEF Inv, Typed, LwpPc, Fork
<1>4. ChildType' /\ \A m \in Lwps : m # l => child'[m] = child[m]
  BY DEF Inv, Typed, ChildType, Fork
<1>5. \A m \in Lwps : m # l /\ Creating(m) => child[m] # n
  BY <1>1 DEF Inv, StateInv, ChildInv, Creating
<1>6. SetStat(n, "SRUN")
  BY DEF Fork
<1> HIDE DEF n
<1>7. StatType' /\ \A m \in Lwps : lStat'[m] = IF m = n THEN "SRUN" ELSE lStat[m]
  BY <1>2, <1>6, StatSet DEF Inv, Typed, LwpStat
<1>8. Typed'
  BY <1>1, <1>2, <1>3, <1>4, <1>7 DEF Inv, Typed, SetsType, BoolType
<1>9. \A s \in Agents : pc'[s] = pc[s]
  BY <1>3
<1>10. MutexInv' /\ AgentInv'
  BY <1>1, <1>3, <1>9 DEF Inv, StateInv, MutexInv, HasMutex, AgentInv
<1>11. ListInv'
  BY <1>1, <1>2, <1>3, <1>4, <1>7 DEF Inv, Typed, SetsType, StateInv, ListInv
<1>12. ChildInv'
  BY <1>1, <1>3, <1>4, <1>5, <1>7 DEF Inv, StateInv, ChildInv, Creating
<1>13. FlagInv'
  BY <1>1, <1>2, <1>3, <1>4, <1>7, <1>9 DEF Inv, StateInv, FlagInv
<1>14. LoopInv'
  BY <1>1, <1>7, <1>9 DEF Inv, Typed, SetsType, StateInv, LoopInv
<1>15. QueueInv'
  BY <1>1, <1>2, <1>7 DEF Inv, StateInv, QueueInv
<1>16. CountInv'
  <2>1. Off' = Off /\ OnCpu' = OnCpu
    BY <1>1, <1>2, <1>7 DEF Inv, Typed, SetsType, Off, OnCpu
  <2>2. Unflagging' <=> Unflagging
    BY <1>9 DEF Unflagging
  <2> QED BY <1>1, <1>8, <2>1, <2>2, CountStays DEF Inv, Typed
<1> QED BY <1>8, <1>10, <1>11, <1>12, <1>13, <1>14, <1>15, <1>16 DEF Inv, StateInv

(***************************************************************************)
(* The steps of the agents.                                                *)
(***************************************************************************)

(* While the agent s is between P_SEIZE set and cleared, the others idle.  *)
LEMMA OneAgent ==
  ASSUME Inv, NEW s \in Agents, pc[s] # "idle"
  PROVE  pSeize /\ \A t \in Agents : t # s => pc[t] = "idle"
  BY DEF Inv, StateInv, AgentInv

(* A section under p_mutex excludes all others.                            *)
LEMMA OneSection ==
  ASSUME Inv, NEW c \in Ctxs, HasMutex(c)
  PROVE  pMutex = c /\ \A d \in Ctxs : d # c => ~HasMutex(d)
  BY SeizeAssumption DEF Inv, StateInv, MutexInv

(* Nobody has the flag when a seize starts.                                *)
LEMMA InvVmSeize ==
  ASSUME Inv, NEW s \in Agents, VmSeize(s)
  PROVE  Inv'
<1> USE SeizeAssumption DEF Ctxs
<1>1. /\ UNCHANGED <<pLwpp, pNlwp, pNseized, pNoSeize, lStat, trapSeize, runq, cur, child>>
      /\ pMutex = Nobody /\ pMutex' = s /\ ~pSeize /\ pSeize' /\ ~pSeized' /\ todo' = pLwpp
      /\ pSeize' \in BOOLEAN /\ pSeized' \in BOOLEAN
  BY DEF VmSeize, ClearSeized, countVars, lwpVars
<1>2. PcType' /\ \A c \in Ctxs : pc'[c] = IF c = s THEN "flag" ELSE pc[c]
  BY PcGoto DEF Inv, Typed, AgentPc, VmSeize
<1>3. \A t \in Agents : pc[t] = "idle"
  BY <1>1 DEF Inv, StateInv, AgentInv
<1>4. trapSeize = {} /\ cur = Nobody
  BY <1>3 DEF Inv, StateInv, FlagInv, LoopInv
<1>5. \A m \in Lwps : pc'[m] = pc[m]
  BY <1>2
<1>6. Typed'
  BY <1>1, <1>2 DEF Inv, Typed, SetsType, BoolType, StatType, ChildType
<1>7. MutexInv' /\ AgentInv'
  BY <1>1, <1>2, <1>3 DEF Inv, StateInv, MutexInv, HasMutex, AgentInv
<1>8. ListInv' /\ ChildInv' /\ QueueInv'
  BY <1>1, <1>5 DEF Inv, Typed, SetsType, StateInv, ListInv, ChildInv, Creating, QueueInv
<1>9. FlagInv'
  BY <1>1, <1>2, <1>3, <1>4 DEF FlagInv
<1>10. LoopInv'
  BY <1>1, <1>2, <1>3, <1>4 DEF LoopInv
<1>11. CountInv'
  <2>1. Off' = Off /\ ~Unflagging /\ ~Unflagging'
    BY <1>1, <1>2, <1>3 DEF Off, Unflagging
  <2> QED BY <1>1, <1>6, <2>1, CountStays DEF Inv, Typed
<1> QED BY <1>6, <1>7, <1>8, <1>9, <1>10, <1>11 DEF Inv, StateInv

(* One LWP gets the flag; it is off unless it runs or may be dispatched.   *)
LEMMA InvSeizeLwp ==
  ASSUME Inv, NEW s \in Agents, SeizeLwp(s)
  PROVE  Inv'
<1> USE SeizeAssumption DEF Ctxs
<1>1. PICK l \in todo :
        /\ trapSeize' = trapSeize \union {l}
        /\ \/ /\ lStat[l] = "SRUN" /\ cur' = l /\ Goto(s, "dequeue")
              /\ todo' = todo /\ pNseized' = pNseized
           \/ /\ lStat[l] # "SRUN" /\ cur' = cur /\ pc' = pc /\ todo' = todo \ {l}
              /\ pNseized' = IF lStat[l] = "SONPROC" THEN pNseized ELSE pNseized + 1
  BY DEF SeizeLwp, CountSeized, Running
<1>2. /\ UNCHANGED <<pMutex, pLwpp, pNlwp, pSeize, pNoSeize, pSeized, lStat, runq, child>>
      /\ pc[s] = "flag"
  BY DEF SeizeLwp, countVars, flagVars, At
<1>3. \A t \in Agents : t # s => pc[t] = "idle"
  BY <1>2, OneAgent
<1>4. \A c \in Ctxs : c # s => ~HasMutex(c)
  BY <1>2, OneSection DEF HasMutex
<1>5. /\ cur = Nobody /\ todo \subseteq pLwpp /\ pLwpp \subseteq todo \union trapSeize
      /\ l \in Lwps /\ l \in pLwpp /\ l \notin trapSeize /\ lStat[l] # "NONE"
      /\ \A m \in todo : m \notin trapSeize
  BY <1>2, <1>3 DEF Inv, Typed, SetsType, StateInv, LoopInv, ListInv
<1>6. PcType' /\ (pc' = pc \/ \A c \in Ctxs : pc'[c] = IF c = s THEN "dequeue" ELSE pc[c])
  BY <1>1, PcGoto DEF Inv, Typed, PcType, AgentPc
<1>7. /\ \A c \in Ctxs : c # s => pc'[c] = pc[c]
      /\ pc'[s] = IF lStat[l] = "SRUN" THEN "dequeue" ELSE "flag"
      /\ cur' = IF lStat[l] = "SRUN" THEN l ELSE Nobody
      /\ todo' = IF lStat[l] = "SRUN" THEN todo ELSE todo \ {l}
      /\ pNseized' = IF lStat[l] = "SRUN" \/ lStat[l] = "SONPROC" THEN pNseized ELSE pNseized + 1
  <2>1. Goto(s, "dequeue") => \A c \in Ctxs : pc'[c] = IF c = s THEN "dequeue" ELSE pc[c]
    BY PcGoto DEF Inv, Typed, AgentPc
  <2> QED BY <1>1, <1>2, <1>5, <2>1
<1>8. \A m \in Lwps : pc'[m] = pc[m] /\ pc[m] # "link" /\ pc[m] # "leave"
  BY <1>4, <1>7 DEF HasMutex
<1>9. Typed'
  BY <1>1, <1>2, <1>5, <1>6, <1>7 DEF Inv, Typed, SetsType, BoolType, StatType, ChildType
<1>10. MutexInv' /\ AgentInv'
  BY <1>2, <1>3, <1>4, <1>7 DEF Inv, StateInv, MutexInv, HasMutex, AgentInv
<1>11. ListInv' /\ ChildInv'
  BY <1>2, <1>8 DEF Inv, Typed, SetsType, StateInv, ListInv, ChildInv, Creating
<1>12. FlagInv'
  BY <1>1, <1>2, <1>3, <1>5, <1>7, <1>8 DEF Inv, StateInv, FlagInv
<1>13. LoopInv'
  BY <1>1, <1>2, <1>3, <1>5, <1>7 DEF LoopInv
<1>14. QueueInv'
  BY <1>1, <1>2, <1>5, <1>7 DEF Inv, StateInv, QueueInv
<1>15. CountInv'
  <2>1. ~Unflagging /\ ~Unflagging'
    BY <1>2, <1>3, <1>7 DEF Unflagging
  <2>2. CASE lStat[l] = "SRUN" \/ lStat[l] = "SONPROC"
    <3>1. Off' = Off /\ pNseized' = pNseized
      BY <1>1, <1>2, <1>5, <1>7, <2>2 DEF Inv, Typed, SetsType, Off
    <3> QED BY <1>2, <1>9, <2>1, <3>1, CountStays DEF Inv, Typed
  <2>3. CASE lStat[l] # "SRUN" /\ lStat[l] # "SONPROC"
    <3>1. l \notin Off /\ Off' = Off \union {l} /\ pNseized' = pNseized + 1
      BY <1>1, <1>2, <1>5, <1>7, <2>3 DEF Inv, Typed, SetsType, Off
    <3> QED BY <1>2, <1>5, <1>9, <2>1, <3>1, CountOneMore DEF Inv, Typed
  <2> QED BY <2>2, <2>3
<1> QED BY <1>9, <1>10, <1>11, <1>12, <1>13, <1>14, <1>15 DEF Inv, StateInv

(* The second look decides whether it is off.                              *)
LEMMA InvDequeue ==
  ASSUME Inv, NEW s \in Agents, Dequeue(s)
  PROVE  Inv'
<1> USE SeizeAssumption DEF Ctxs
<1>1. /\ UNCHANGED <<pMutex, pLwpp, pNlwp, pSeize, pNoSeize, pSeized, lStat, trapSeize,
                     child>>
      /\ pc[s] = "dequeue" /\ todo' = todo \ {cur} /\ cur' = Nobody
      /\ runq' = IF lStat[cur] = "SONPROC" THEN runq ELSE runq \ {cur}
      /\ pNseized' = IF lStat[cur] = "SONPROC" THEN pNseized ELSE pNseized + 1
  BY DEF Dequeue, CountSeized, countVars, flagVars, At, Running
<1>2. PcType' /\ \A c \in Ctxs : pc'[c] = IF c = s THEN "flag" ELSE pc[c]
  BY PcGoto DEF Inv, Typed, AgentPc, Dequeue
<1>3. \A t \in Agents : t # s => pc[t] = "idle"
  BY <1>1, OneAgent
<1>4. /\ todo \subseteq pLwpp /\ pLwpp \subseteq todo \union trapSeize
      /\ \A l \in todo : l \in trapSeize => l = cur
      /\ cur \in todo /\ cur \in trapSeize /\ cur \in Lwps
      /\ lStat[cur] = "SRUN" \/ lStat[cur] = "SONPROC"
  BY <1>1 DEF Inv, Typed, SetsType, StateInv, LoopInv
<1>5. \A m \in Lwps : pc'[m] = pc[m]
  BY <1>2
<1>6. Typed'
  BY <1>1, <1>2 DEF Inv, Typed, SetsType, BoolType, StatType, ChildType
<1>7. MutexInv' /\ AgentInv'
  BY <1>1, <1>2, <1>3 DEF Inv, StateInv, MutexInv, HasMutex, AgentInv
<1>8. ListInv' /\ ChildInv'
  BY <1>1, <1>5 DEF Inv, Typed, SetsType, StateInv, ListInv, ChildInv, Creating
<1>9. FlagInv'
  BY <1>1, <1>2, <1>3, <1>5 DEF Inv, StateInv, FlagInv
<1>10. LoopInv'
  BY <1>1, <1>2, <1>3, <1>4 DEF LoopInv
<1>11. QueueInv'
  BY <1>1, <1>4 DEF Inv, StateInv, QueueInv
<1>12. CountInv'
  <2>1. ~Unflagging /\ ~Unflagging'
    BY <1>1, <1>2, <1>3 DEF Unflagging
  <2>2. CASE lStat[cur] = "SONPROC"
    <3>1. Off' = Off /\ pNseized' = pNseized
      BY <1>1, <1>4, <2>2 DEF Inv, Typed, SetsType, Off
    <3> QED BY <1>1, <1>6, <2>1, <3>1, CountStays DEF Inv, Typed
  <2>3. CASE lStat[cur] # "SONPROC"
    <3>1. cur \notin Off /\ Off' = Off \union {cur} /\ pNseized' = pNseized + 1
      BY <1>1, <1>4, <2>3 DEF Inv, Typed, SetsType, Off
    <3> QED BY <1>1, <1>4, <1>6, <2>1, <3>1, CountOneMore DEF Inv, Typed
  <2> QED BY <2>2, <2>3
<1> QED BY <1>6, <1>7, <1>8, <1>9, <1>10, <1>11, <1>12 DEF Inv, StateInv

(* The end of vm_seize: with the process, or to wait for it.               *)
LEMMA InvAwait ==
  ASSUME Inv, NEW s \in Agents, OptimisticTest(s) \/ EventWait(s)
  PROVE  Inv'
<1> USE SeizeAssumption DEF Ctxs
<1>1. /\ UNCHANGED <<pLwpp, pNlwp, pNseized, pSeize, pNoSeize, lStat, trapSeize, runq, todo,
                     cur, child>>
      /\ pSeized' \in BOOLEAN
      /\ \/ pc[s] = "flag" /\ todo = {} /\ pMutex' = Nobody
         \/ pc[s] = "wait" /\ pMutex' = pMutex
  BY DEF OptimisticTest, EventWait, countVars, flagVars, lwpVars, loopVars, At, Inv, Typed, BoolType
<1>2. PICK p : (p = "wait" \/ p = "blocked" \/ p = "has") /\ Goto(s, p)
  BY DEF OptimisticTest, EventWait
<1>3. PcType' /\ \A c \in Ctxs : pc'[c] = IF c = s THEN p ELSE pc[c]
  BY <1>2, PcGoto DEF Inv, Typed, AgentPc
<1>4. \A t \in Agents : t # s => pc[t] = "idle"
  BY <1>1, OneAgent
<1>5. \A m \in Lwps : pc'[m] = pc[m]
  BY <1>3
<1>6. pLwpp \subseteq trapSeize
  BY <1>1 DEF Inv, StateInv, LoopInv, FlagInv
<1>7. Typed'
  BY <1>1, <1>3 DEF Inv, Typed, SetsType, BoolType, StatType, ChildType
<1>8. MutexInv'
  <2>1. CASE pc[s] = "flag"
    <3>1. pMutex = s /\ \A c \in Ctxs : c # s => ~HasMutex(c)
      BY <2>1, OneSection DEF HasMutex
    <3> QED BY <1>1, <1>2, <1>3, <2>1, <3>1 DEF MutexInv, HasMutex
  <2>2. CASE pc[s] = "wait"
    BY <1>1, <1>2, <1>3, <2>2 DEF Inv, StateInv, MutexInv, HasMutex
  <2> QED BY <1>1, <2>1, <2>2
<1>9. AgentInv'
  BY <1>1, <1>3, <1>4 DEF Inv, StateInv, AgentInv
<1>10. ListInv' /\ ChildInv' /\ QueueInv'
  BY <1>1, <1>5 DEF Inv, Typed, SetsType, StateInv, ListInv, ChildInv, Creating, QueueInv
<1>11. FlagInv'
  BY <1>1, <1>2, <1>3, <1>4, <1>6 DEF Inv, StateInv, FlagInv
<1>12. LoopInv'
  BY <1>1, <1>2, <1>3, <1>4 DEF Inv, StateInv, LoopInv
<1>13. CountInv'
  <2>1. Off' = Off /\ OnCpu' = OnCpu
    BY <1>1 DEF Off, OnCpu
  <2>2. ~Unflagging' /\ ~Unflagging
    BY <1>1, <1>2, <1>3, <1>4 DEF Unflagging
  <2> QED BY <1>1, <1>7, <2>1, <2>2, CountStays DEF Inv, Typed
<1> QED BY <1>7, <1>8, <1>9, <1>10, <1>11, <1>12, <1>13 DEF Inv, StateInv

(* From here on p_nseized is not exact any more.                           *)
LEMMA InvVmUnseize ==
  ASSUME Inv, NEW s \in Agents, VmUnseize(s)
  PROVE  Inv'
<1> USE SeizeAssumption DEF Ctxs
<1>1. /\ UNCHANGED <<pLwpp, pNlwp, pNseized, pSeize, pNoSeize, pSeized, lStat, trapSeize, runq,
                     cur, child>>
      /\ pMutex = Nobody /\ pMutex' = s /\ pc[s] = "has" /\ todo' = pLwpp
  BY DEF VmUnseize, countVars, flagVars, lwpVars, At
<1>2. PcType' /\ \A c \in Ctxs : pc'[c] = IF c = s THEN "unflag" ELSE pc[c]
  BY PcGoto DEF Inv, Typed, AgentPc, VmUnseize
<1>3. \A t \in Agents : t # s => pc[t] = "idle"
  BY <1>1, OneAgent
<1>4. \A m \in Lwps : pc'[m] = pc[m] /\ pc[m] # "link" /\ pc[m] # "leave"
  BY <1>1, <1>2 DEF Inv, StateInv, MutexInv, HasMutex
<1>5. trapSeize \subseteq pLwpp
  BY <1>4, AllListed DEF Inv, Typed, SetsType, StateInv, FlagInv
<1>6. Typed'
  BY <1>1, <1>2 DEF Inv, Typed, SetsType, BoolType, StatType, ChildType
<1>7. MutexInv' /\ AgentInv'
  BY <1>1, <1>2, <1>3 DEF Inv, StateInv, MutexInv, HasMutex, AgentInv
<1>8. ListInv' /\ ChildInv' /\ QueueInv'
  BY <1>1, <1>4 DEF Inv, Typed, SetsType, StateInv, ListInv, ChildInv, Creating, QueueInv
<1>9. FlagInv'
  BY <1>1, <1>2, <1>3, <1>4, <1>5 DEF Inv, StateInv, FlagInv
<1>10. LoopInv'
  BY <1>1, <1>2, <1>3 DEF Inv, StateInv, LoopInv
<1>11. CountInv'
  <2>1. ~Unflagging
    BY <1>1, <1>3 DEF Unflagging
  <2>2. Unflagging'
    BY <1>2 DEF Unflagging
  <2>3. Off' = Off /\ OnCpu' = OnCpu
    BY <1>1 DEF Off, OnCpu
  <2> QED BY <1>1, <2>1, <2>2, <2>3, OffFinite DEF Inv, Typed, CountInv
<1> QED BY <1>6, <1>7, <1>8, <1>9, <1>10, <1>11 DEF Inv, StateInv

(* The bound on p_nseized grows as the flags go.                           *)
LEMMA InvUnseizeLwp ==
  ASSUME Inv, NEW s \in Agents, UnseizeLwp(s)
  PROVE  Inv'
<1> USE SeizeAssumption DEF Ctxs
<1>1. PICK l \in todo : /\ trapSeize' = trapSeize \ {l} /\ todo' = todo \ {l}
                       /\ runq' = IF lStat[l] = "SRUN" THEN runq \union {l} ELSE runq
  BY DEF UnseizeLwp, ReleaseLwp
<1>2. /\ UNCHANGED <<pMutex, pLwpp, pNlwp, pNseized, pSeize, pNoSeize, pSeized, lStat, pc,
                     cur, child>>
      /\ pc[s] = "unflag"
  BY DEF UnseizeLwp, countVars, flagVars, At
<1>3. \A t \in Agents : t # s => pc[t] = "idle"
  BY <1>2, OneAgent
<1>4. \A m \in Lwps : pc[m] # "link" /\ pc[m] # "leave"
  BY <1>2, OneSection DEF HasMutex
<1>5. l \in Lwps /\ cur = Nobody /\ trapSeize \subseteq todo
  BY <1>2, <1>3 DEF Inv, Typed, SetsType, StateInv, FlagInv, LoopInv
<1>6. Typed'
  BY <1>1, <1>2, <1>5 DEF Inv, Typed, SetsType, BoolType, PcType, StatType, ChildType
<1>7. MutexInv' /\ AgentInv'
  BY <1>2 DEF Inv, StateInv, MutexInv, HasMutex, AgentInv
<1>8. ListInv' /\ ChildInv'
  BY <1>2 DEF Inv, StateInv, ListInv, ChildInv, Creating
<1>9. FlagInv'
  BY <1>1, <1>2, <1>3, <1>4, <1>5 DEF Inv, StateInv, FlagInv
<1>10. LoopInv'
  BY <1>2, <1>3, <1>5 DEF LoopInv
<1>11. QueueInv'
  BY <1>1, <1>2, <1>5 DEF Inv, StateInv, QueueInv
<1>12. CountInv'
  <2> DEFINE N == Lwps \ OnCpu
             M == Lwps \ OnCpu'
  <2>1. Unflagging /\ Unflagging'
    BY <1>2 DEF Unflagging
  <2>2. N \in SUBSET M
    BY <1>1, <1>2 DEF OnCpu
  <2>3. IsFiniteSet(M) /\ Cardinality(M) \in Nat
    BY FS_Subset, FS_CardinalityType
  <2>4. Cardinality(N) \in Nat /\ pNseized <= Cardinality(N)
    BY <2>1, OffFinite DEF Inv, Typed, CountInv
  <2> HIDE DEF N, M
  <2>5. Cardinality(N) <= Cardinality(M)
    BY <2>2, <2>3, FS_Subset
  <2>6. pNseized \in Nat /\ pNseized <= Cardinality(M)
    BY <2>3, <2>4, <2>5 DEF Inv, CountInv
  <2> QED BY <1>2, <2>1, <2>6 DEF Inv, CountInv, M
<1> QED BY <1>6, <1>7, <1>8, <1>9, <1>10, <1>11, <1>12 DEF Inv, StateInv

(* No flag is left and p_nseized is 0.                                     *)
LEMMA InvEndUnseize ==
  ASSUME Inv, NEW s \in Agents, EndUnseize(s)
  PROVE  Inv'
<1> USE SeizeAssumption DEF Ctxs
<1>1. /\ UNCHANGED <<pLwpp, pNlwp, pNoSeize, pSeized, lStat, trapSeize, runq, todo, cur,
                     child>>
      /\ pMutex' = Nobody /\ pc[s] = "unflag" /\ todo = {} /\ pSeize' = FALSE /\ pNseized' = 0
  BY DEF EndUnseize, ZeroSeized, countVars, lwpVars, loopVars, At
<1>2. PcType' /\ \A c \in Ctxs : pc'[c] = IF c = s THEN "idle" ELSE pc[c]
  BY PcGoto DEF Inv, Typed, AgentPc, EndUnseize
<1>3. \A t \in Agents : pc'[t] = "idle"
  BY <1>1, <1>2, OneAgent
<1>4. \A c \in Ctxs : c # s => ~HasMutex(c)
  BY <1>1, OneSection DEF HasMutex
<1>5. trapSeize = {} /\ cur = Nobody
  <2>1. cur # Nobody => \E t \in Agents : pc[t] = "dequeue"
    BY DEF Inv, StateInv, LoopInv
  <2>2. \A t \in Agents : pc[t] # "dequeue"
    BY <1>1, OneAgent
  <2> QED BY <1>1, <2>1, <2>2 DEF Inv, StateInv, FlagInv
<1>6. Typed'
  BY <1>1, <1>2 DEF Inv, Typed, SetsType, BoolType, StatType, ChildType
<1>7. MutexInv' /\ AgentInv'
  BY <1>1, <1>2, <1>3, <1>4 DEF MutexInv, HasMutex, AgentInv
<1>8. ListInv' /\ ChildInv' /\ QueueInv'
  BY <1>1, <1>2 DEF Inv, Typed, SetsType, StateInv, ListInv, ChildInv, Creating, QueueInv
<1>9. FlagInv' /\ LoopInv'
  BY <1>1, <1>3, <1>5 DEF FlagInv, LoopInv
<1>10. CountInv'
  <2>1. Off' = {} /\ ~Unflagging'
    BY <1>1, <1>3, <1>5 DEF Off, Unflagging
  <2> QED BY <1>1, <2>1, FS_EmptySet DEF Inv, CountInv
<1> QED BY <1>6, <1>7, <1>8, <1>9, <1>10 DEF Inv, StateInv

(***************************************************************************)
(* The theorems about the accounts.                                        *)
(***************************************************************************)
(* One LWP, running, and no seize.                                         *)
LEMMA InvInit == Init => Inv
<1> SUFFICES ASSUME Init PROVE Inv
  OBVIOUS
<1> USE SeizeAssumption DEF Init, Ctxs
<1>1. /\ \A l \in Lwps : pc[l] = "run" /\ lStat[l] = IF l = FirstLwp THEN "SONPROC" ELSE "NONE"
      /\ \A s \in Agents : pc[s] = "idle"
  OBVIOUS
<1>2. Typed
  <2>1. SetsType /\ BoolType /\ ChildType
    BY DEF SetsType, BoolType, ChildType
  <2>2. PcType /\ StatType
    BY <1>1 DEF PcType, LwpPc, AgentPc, StatType, LwpStat
  <2> QED BY <2>1, <2>2 DEF Typed
<1>3. StateInv
  BY <1>1 DEF StateInv, MutexInv, HasMutex, AgentInv, ListInv, ChildInv, Creating, FlagInv,
    LoopInv, QueueInv
<1>4. CountInv
  <2>1. Off = {} /\ ~Unflagging
    BY <1>1 DEF Off, Unflagging
  <2>2. Cardinality({FirstLwp}) = 1 /\ Cardinality({}) = 0
    BY FS_EmptySet, FS_Singleton
  <2> QED BY <2>1, <2>2 DEF CountInv
<1> QED BY <1>2, <1>3, <1>4 DEF Inv

(* All steps.                                                              *)
LEMMA InvStep == Inv /\ [Next]_vars => Inv'
<1> SUFFICES ASSUME Inv, [Next]_vars PROVE Inv'
  OBVIOUS
<1>1. ASSUME NEW l \in Lwps, LwpCode(l) PROVE Inv'
  BY <1>1, InvLeaveProcess, InvExit, InvExitProcess, InvNewLwp, InvLinkLwp, InvFork DEF LwpCode
<1>2. ASSUME NEW l \in Lwps, Scheduling(l) PROVE Inv'
  BY <1>2, InvSwitchOut, InvWakeup DEF Scheduling
<1>3. ASSUME NEW s \in Agents, Seizing(s) PROVE Inv'
  BY <1>3, InvVmSeize, InvSeizeLwp, InvDequeue, InvAwait DEF Seizing
<1>4. ASSUME NEW s \in Agents, Unseizing(s) PROVE Inv'
  BY <1>4, InvVmUnseize, InvUnseizeLwp, InvEndUnseize DEF Unseizing
<1>5. CASE UNCHANGED vars
  <2>1. UNCHANGED <<pMutex, pLwpp, pNlwp, pNseized, pSeize, pNoSeize, pSeized, lStat, trapSeize, runq,
                    pc, todo, cur, child>>
    BY <1>5 DEF vars, countVars, flagVars, lwpVars, loopVars
  <2>2. Typed'
    BY <2>1 DEF Inv, Typed, SetsType, BoolType, PcType, StatType, ChildType
  <2>3. MutexInv' /\ AgentInv' /\ ListInv' /\ ChildInv'
    BY <2>1 DEF Inv, StateInv, MutexInv, HasMutex, AgentInv, ListInv, ChildInv, Creating
  <2>4. FlagInv' /\ LoopInv' /\ QueueInv'
    BY <2>1 DEF Inv, StateInv, FlagInv, LoopInv, QueueInv
  <2>5. CountInv'
    BY <2>1 DEF Inv, CountInv, Unflagging, Off, OnCpu
  <2> QED BY <2>2, <2>3, <2>4, <2>5 DEF Inv, StateInv
<1> QED BY <1>1, <1>2, <1>3, <1>4, <1>5, InvPosting DEF Next

(* The invariant holds always.                                             *)
LEMMA SpecInv == Spec => []Inv
BY InvInit, InvStep, PTL DEF Spec

(* What is noted is TRUE or FALSE.                                         *)
LEMMA MisledIs ==
  ASSUME NEW how, Misled(how)
  PROVE  misled' \in BOOLEAN /\ (misled => misled')
BY DEF Misled

(* An LWP that switches out may leave one more processor to post.          *)
LEMMA SwitchPosts ==
  ASSUME PostType, NEW l, NEW st, SwitchOut(l, st)
  PROVE  PostType'
<1>1. /\ posting' = posting \/ posting' = posting + 1
      /\ late' = late /\ (misled' = misled \/ \E how : Misled(how))
  BY DEF SwitchOut, BecomeSeized, postVars
<1> QED BY <1>1, MisledIs DEF PostType

(* Posts come and go one at a time, and become late together.              *)
LEMMA PostStep == PostType /\ [Next]_vars => PostType'
<1> SUFFICES ASSUME PostType, [Next]_vars PROVE PostType'
  OBVIOUS
<1> USE DEF PostType, postVars
<1>1. ASSUME NEW l \in Lwps, LwpCode(l) PROVE PostType'
  BY <1>1 DEF LwpCode, LeaveProcess, Exit, ExitProcess, NewLwp, LinkLwp, Fork
<1>2. ASSUME NEW l \in Lwps, Scheduling(l) PROVE PostType'
  BY <1>2, SwitchPosts DEF Scheduling, Preempt, Block, Wakeup, Dispatch
<1>3. ASSUME NEW s \in Agents, Seizing(s) PROVE PostType'
  <2>1. CASE VmSeize(s)
    <3>1. late' = late + posting /\ posting' = 0
      BY <2>1 DEF VmSeize
    <3>2. posting' \in Nat /\ late' \in Nat
      BY <3>1
    <3>3. misled' \in BOOLEAN
      BY <2>1 DEF VmSeize
    <3> QED BY <3>2, <3>3
  <2>2. CASE OptimisticTest(s)
    <3>1. misled' = (misled /\ pNseized # pNlwp) /\ UNCHANGED <<posting, late>>
      BY <2>2 DEF OptimisticTest
    <3>2. misled' \in BOOLEAN
      BY <3>1
    <3> QED BY <3>1, <3>2
  <2>3. CASE SeizeLwp(s) \/ Dequeue(s) \/ EventWait(s)
    BY <2>3 DEF SeizeLwp, Dequeue, EventWait
  <2> QED BY <1>3, <2>1, <2>2, <2>3 DEF Seizing
<1>4. ASSUME NEW s \in Agents, Unseizing(s) PROVE PostType'
  BY <1>4 DEF Unseizing, VmUnseize, UnseizeLwp, EndUnseize
<1>5. CASE SwtchSeized
  BY <1>5 DEF SwtchSeized
<1>6. CASE SwtchSeizedLate
  <2>1. late > 0 /\ late' = late - 1 /\ posting' = posting
    BY <1>6 DEF SwtchSeizedLate
  <2>2. posting' \in Nat /\ late' \in Nat
    BY <2>1
  <2>3. misled' \in BOOLEAN
    BY <1>6 DEF SwtchSeizedLate, Misled
  <2> QED BY <2>2, <2>3
<1>7. CASE UNCHANGED vars
  BY <1>7 DEF vars
<1> QED BY <1>1, <1>2, <1>3, <1>4, <1>5, <1>6, <1>7 DEF Next, Posting

(* So it is always.                                                        *)
LEMMA SpecPost == Spec => []PostType
<1>1. Init => PostType
  <2> SUFFICES ASSUME Init PROVE PostType
    OBVIOUS
  <2>1. posting = 0 /\ late = 0 /\ misled = FALSE
    BY DEF Init
  <2> QED BY <2>1 DEF PostType
<1> QED BY <1>1, PostStep, PTL DEF Spec

(* Types, and the two counts within the number of LWPs.                    *)
THEOREM SeizeTypeOK == Spec => []TypeOK
<1>1. Inv /\ PostType => TypeOK
  <2> SUFFICES ASSUME Inv, PostType PROVE TypeOK
    OBVIOUS
  <2>1. pNlwp \in 1 .. Cardinality(Lwps) /\ pNseized \in 0 .. Cardinality(Lwps)
    <3>1. Cardinality(Lwps) \in Nat
      BY SeizeAssumption, FS_CardinalityType
    <3> QED BY <3>1, OffFinite DEF Inv, Typed, CountInv
  <2>2. lStat \in [Lwps -> {"NONE", "SIDL", "SRUN", "SONPROC", "SSLEEP"}]
    BY DEF Inv, Typed, StatType, LwpStat
  <2>3. pc \in [Ctxs -> {"run", "link", "fork", "leave", "honor", "relvm",
                         "idle", "flag", "dequeue", "wait", "blocked", "has", "unflag"}]
    BY DEF Inv, Typed, PcType, LwpPc, AgentPc, Ctxs
  <2> QED BY <2>1, <2>2, <2>3 DEF TypeOK, Inv, Typed, SetsType, BoolType, ChildType, PostType
<1> QED BY <1>1, SpecInv, SpecPost, PTL

(* p_nseized counts the LWPs that have the flag and are off the processors. *)
THEOREM CountIsExact == Spec => []SeizedCount
<1>1. Inv => SeizedCount
  <2>1. Off = {l \in trapSeize : ~Running(l) /\ l # cur}
    BY DEF Off, Running
  <2> QED BY <2>1 DEF Inv, CountInv, Unflagging, SeizedCount, At
<1> QED BY <1>1, SpecInv, PTL

(* A runnable LWP that is not seized is on a run queue, and no LWP has the *)
(* flag of a seize that is over.                                           *)
THEOREM NoneIsLeftBehind == Spec => []NobodyLeftBehind
<1>1. Inv => NobodyLeftBehind
  <2> SUFFICES ASSUME Inv PROVE NobodyLeftBehind
    OBVIOUS
  <2>1. trapSeize # {} => pSeize
    BY DEF Inv, StateInv, FlagInv, AgentInv
  <2> QED BY <2>1 DEF Inv, StateInv, QueueInv, NobodyLeftBehind
<1> QED BY <1>1, SpecInv, PTL

(***************************************************************************)
(* No report is lost.                                                      *)
(***************************************************************************)
Awaits(s) == pc[s] = "wait" \/ pc[s] = "blocked"
Complete == pNseized = pNlwp /\ \A l \in Lwps : pc[l] # "link"
Comes(s) == \/ posting > 0 \/ (pc[s] = "wait" /\ pSeized)
            \/ \E l \in trapSeize : pc[l] = "leave"
ReportInv == Complete => \A s \in Agents : Awaits(s) => Comes(s)

(* The agents at rest, a step that completes no barrier and takes no report *)
(* back changes nothing.                                                   *)
LEMMA ReportStays ==
  ASSUME ReportInv, \A s \in Agents : pc'[s] = pc[s], Complete' => Complete,
         \A s \in Agents : Awaits(s) /\ Comes(s) => Comes(s)'
  PROVE  ReportInv'
BY DEF ReportInv, Awaits

(* Whoever posts the event reports to the agent that waits.                *)
LEMMA ReportSignal ==
  ASSUME Inv, NEW pcs, SignalSeized(pcs),
         \A s \in Agents : pc'[s] = IF pc[s] = "blocked" THEN "has" ELSE pc[s]
  PROVE  ReportInv'
<1> SUFFICES ASSUME NEW s \in Agents, Awaits(s)' PROVE Comes(s)'
  BY DEF ReportInv
<1>1. pc'[s] = IF pc[s] = "blocked" THEN "has" ELSE pc[s]
  OBVIOUS
<1>2. pc[s] = "wait" /\ pc'[s] = "wait"
  BY <1>1 DEF Awaits
<1>3. \A t \in Agents : pc[t] # "blocked"
  BY <1>2, OneAgent
<1>4. pSeized' = TRUE
  BY <1>3 DEF SignalSeized, At
<1> QED BY <1>2, <1>4 DEF Comes

(* The LWP that sees its report complete the barrier is going to post.     *)
LEMMA ReportScheduling ==
  ASSUME Inv, PostType, ReportInv, NEW l \in Lwps, Scheduling(l)
  PROVE  ReportInv'
<1> USE SeizeAssumption DEF Ctxs
<1>1. CASE Preempt(l) \/ Block(l)
  <2>1. PICK st \in {"SRUN", "SSLEEP"} : SwitchOut(l, st)
    BY <1>1 DEF Preempt, Block
  <2>2. /\ UNCHANGED <<pNlwp, pSeized, trapSeize>>
        /\ pc' = pc \/ (pc[l] = "honor" /\ Goto(l, "relvm"))
    BY <1>1 DEF Preempt, Block, countVars, At, Goto
  <2>3. \A c \in Ctxs : pc'[c] = pc[c] \/ (c = l /\ pc[c] = "honor" /\ pc'[c] = "relvm")
    BY <2>2, PcGoto DEF Inv, Typed, LwpPc
  <2>4. \A s \in Agents : pc'[s] = pc[s]
    BY <2>3
  <2>5. \A m \in Lwps : (pc'[m] = "link" <=> pc[m] = "link") /\ (pc'[m] = "leave" <=> pc[m] = "leave")
    BY <2>3
  <2>6. trapSeize \subseteq Lwps
    BY DEF Inv, Typed, SetsType
  <2>7. CASE l \in trapSeize /\ pNseized + 1 = pNlwp
    <3>1. posting' > 0
      BY <2>1, <2>2, <2>7 DEF SwitchOut, BecomeSeized, PostType
    <3> QED BY <3>1 DEF ReportInv, Comes
  <2>8. CASE l \in trapSeize /\ pNseized + 1 # pNlwp
    <3>1. pNseized' # pNlwp'
      BY <2>1, <2>2, <2>8 DEF SwitchOut, BecomeSeized
    <3> QED BY <3>1 DEF ReportInv, Complete
  <2>9. CASE l \notin trapSeize
    <3>1. pNseized' = pNseized /\ posting' = posting
      BY <2>1, <2>9 DEF SwitchOut, postVars
    <3>2. Complete' => Complete
      BY <2>2, <2>5, <3>1 DEF Complete
    <3>3. \A s \in Agents : Comes(s) => Comes(s)'
      BY <2>2, <2>4, <2>5, <2>6, <3>1 DEF Comes
    <3> QED BY <2>4, <3>2, <3>3, ReportStays
  <2> QED BY <2>7, <2>8, <2>9
<1>2. CASE Wakeup(l) \/ Dispatch(l)
  <2>1. UNCHANGED <<pNlwp, pNseized, pSeized, trapSeize, posting, pc>>
    BY <1>2 DEF Wakeup, Dispatch, countVars, postVars
  <2> QED BY <2>1 DEF ReportInv, Complete, Awaits, Comes
<1> QED BY <1>1, <1>2 DEF Scheduling

(* Who creates an LWP runs, so with the new LWP the barrier is open.       *)
LEMMA LinkOpens ==
  ASSUME Inv, NEW l \in Lwps, LinkLwp(l)
  PROVE  ~Unflagging => pNseized' # pNlwp'
<1>1. /\ UNCHANGED <<pNseized, trapSeize, lStat, cur>> /\ pc[l] = "link"
      /\ pLwpp' = pLwpp \union {child[l]} /\ pNlwp' = pNlwp + 1
  BY DEF LinkLwp, lwpVars, loopVars, At
<1>2. child[l] \in Lwps /\ child[l] \notin pLwpp
  BY <1>1 DEF Inv, StateInv, ChildInv, Creating
<1>3. lStat[l] = "SONPROC" /\ l \in pLwpp
  BY <1>1, RunningListed DEF Inv, StateInv, ListInv, Running
<1>4. \A m \in Lwps : m # l => pc[m] # "link" /\ pc[m] # "leave"
  BY <1>1, OneSection DEF HasMutex, Ctxs
<1> DEFINE S == pLwpp \union {child[l]}
<1>5. Off \subseteq S \ {l}
  <2> SUFFICES ASSUME NEW m \in Off PROVE m \in S \ {l}
    OBVIOUS
  <2>1. m \in Lwps /\ lStat[m] # "NONE" /\ m # l
    BY <1>3 DEF Off, Inv, Typed, SetsType, StateInv, FlagInv
  <2>2. m \in pLwpp \/ \E k \in Lwps : pc[k] = "link" /\ child[k] = m
    BY <1>4, <2>1 DEF Inv, StateInv, ListInv
  <2> QED BY <1>4, <2>1, <2>2
<1>6. IsFiniteSet(pLwpp) /\ Cardinality(pLwpp) = pNlwp /\ pNlwp \in Nat
  BY OffFinite DEF Inv, Typed, CountInv
<1>7. IsFiniteSet(S) /\ Cardinality(S) = pNlwp + 1
  BY <1>2, <1>6, FS_AddElement
<1>8. l \in S
  BY <1>3
<1> HIDE DEF S
<1>9. IsFiniteSet(S \ {l}) /\ Cardinality(S \ {l}) = pNlwp
  <2>1. IsFiniteSet(S \ {l}) /\ Cardinality(S \ {l}) = Cardinality(S) - 1
    BY <1>7, <1>8, FS_RemoveElement
  <2> QED BY <1>6, <1>7, <2>1
<1>10. Cardinality(Off) <= pNlwp /\ Cardinality(Off) \in Nat
  BY <1>5, <1>9, FS_Subset, OffFinite DEF Inv, Typed
<1> QED BY <1>1, <1>6, <1>10 DEF Inv, CountInv

(* An LWP that exits reports if the barrier waited for it only.            *)
LEMMA ReportLwpCode ==
  ASSUME Inv, ReportInv, NEW l \in Lwps, LwpCode(l)
  PROVE  ReportInv'
<1> USE SeizeAssumption DEF Ctxs
<1>0. trapSeize \subseteq Lwps
  BY DEF Inv, Typed, SetsType
<1>g. ASSUME NEW p, LwpPc(p), Goto(l, p)
      PROVE  \A c \in Ctxs : pc'[c] = IF c = l THEN p ELSE pc[c]
  BY <1>g, PcGoto DEF Inv, Typed
<1>1. CASE LeaveProcess(l)
  <2>1. Goto(l, "leave") /\ UNCHANGED trapSeize /\ Running(l) /\ pc[l] = "run"
    BY <1>1 DEF LeaveProcess, lwpVars, Free, At
  <2>2. \A c \in Ctxs : pc'[c] = IF c = l THEN "leave" ELSE pc[c]
    BY <1>g, <2>1 DEF LwpPc
  <2>3. l \in pLwpp
    BY <2>1, RunningListed
  <2>4. \A s \in Agents : Awaits(s)' => l \in trapSeize'
    BY <2>1, <2>2, <2>3 DEF Awaits, Inv, StateInv, FlagInv
  <2> QED BY <2>2, <2>4 DEF ReportInv, Comes
<1>2. CASE Exit(l)
  <2>1. /\ UNCHANGED <<pNlwp, pNseized, posting>> /\ trapSeize' = trapSeize \ {l}
        /\ pc[l] = "leave" /\ ReportExit(l)
    BY <1>2 DEF Exit, countVars, postVars, At
  <2>2. CASE l \in trapSeize /\ pNseized = pNlwp
    <3>1. SignalSeized([pc EXCEPT ![l] = "run"])
      BY <2>1, <2>2 DEF ReportExit
    <3>2. \A s \in Agents : pc'[s] = IF pc[s] = "blocked" THEN "has" ELSE pc[s]
      BY <3>1, PcSignal DEF LwpPc, Inv, Typed
    <3> QED BY <3>1, <3>2, ReportSignal
  <2>3. CASE pNseized # pNlwp
    BY <2>1, <2>3 DEF ReportInv, Complete
  <2>4. CASE l \notin trapSeize
    <3>1. Goto(l, "run") /\ UNCHANGED pSeized
      BY <2>1, <2>4 DEF ReportExit
    <3>2. \A c \in Ctxs : pc'[c] = IF c = l THEN "run" ELSE pc[c]
      BY <1>g, <3>1 DEF LwpPc
    <3>3. Complete' => Complete
      BY <2>1, <3>2 DEF Complete
    <3>4. \A s \in Agents : Comes(s) => Comes(s)'
      BY <1>0, <2>1, <2>4, <3>1, <3>2 DEF Comes
    <3> QED BY <3>2, <3>3, <3>4, ReportStays
  <2> QED BY <2>2, <2>3, <2>4
<1>3. CASE ExitProcess(l) \/ Fork(l)
  <2>1. /\ UNCHANGED <<pNlwp, pNseized, posting, trapSeize, pSeized>>
        /\ pc[l] = "run" \/ pc[l] = "fork"
        /\ Goto(l, "honor") \/ Goto(l, "relvm") \/ Goto(l, "run")
    BY <1>3 DEF ExitProcess, Fork, countVars, lwpVars, postVars, Free, At
  <2>2. PICK p : (p = "honor" \/ p = "relvm" \/ p = "run") /\ Goto(l, p)
    BY <2>1
  <2>3. \A c \in Ctxs : pc'[c] = IF c = l THEN p ELSE pc[c]
    BY <1>g, <2>2 DEF LwpPc
  <2>4. Complete' => Complete
    BY <2>1, <2>3 DEF Complete
  <2>5. \A s \in Agents : Comes(s) => Comes(s)'
    BY <1>0, <2>1, <2>3 DEF Comes
  <2> QED BY <2>3, <2>4, <2>5, ReportStays
<1>4. CASE NewLwp(l)
  <2>1. Goto(l, "link")
    BY <1>4 DEF NewLwp
  <2>2. pc'[l] = "link"
    BY <1>g, <2>1 DEF LwpPc
  <2> QED BY <2>2 DEF ReportInv, Complete
<1>5. CASE LinkLwp(l)
  <2>1. \A c \in Ctxs : pc'[c] = IF c = l THEN "fork" ELSE pc[c]
    BY <1>5, <1>g DEF LinkLwp, LwpPc
  <2>2. ASSUME NEW s \in Agents, Awaits(s)' PROVE ~Unflagging
    BY <2>1, <2>2, OneAgent DEF Awaits, Unflagging
  <2> QED BY <1>5, <2>2, LinkOpens DEF ReportInv, Complete
<1> QED BY <1>1, <1>2, <1>3, <1>4, <1>5 DEF LwpCode

(* An agent that does not wait, and the others are idle.                   *)
LEMMA ReportIdle ==
  ASSUME Inv, NEW s \in Agents, NEW p, AgentPc(p), Goto(s, p), p # "wait", p # "blocked",
         \A t \in Agents : t # s => pc[t] = "idle"
  PROVE  ReportInv'
<1>1. \A t \in Agents : pc'[t] = IF t = s THEN p ELSE pc[t]
  BY PcGoto, SeizeAssumption DEF Inv, Typed, Ctxs
<1> QED BY <1>1 DEF ReportInv, Awaits

(* vm_seize() waits if the barrier is open, or for an event that comes.    *)
LEMMA ReportAgents ==
  ASSUME Inv, ReportInv, NEW s \in Agents, Seizing(s) \/ Unseizing(s)
  PROVE  ReportInv'
<1> USE SeizeAssumption DEF Ctxs
<1>1. \A t \in Agents : t # s => pc[t] = "idle"
  <2>1. CASE VmSeize(s)
    BY <2>1 DEF VmSeize, Inv, StateInv, AgentInv
  <2>2. CASE ~VmSeize(s)
    <3>1. pc[s] # "idle"
      BY <2>2 DEF Seizing, Unseizing, SeizeLwp, Dequeue, OptimisticTest, EventWait, VmUnseize,
        UnseizeLwp, EndUnseize, At
    <3> QED BY <3>1, OneAgent
  <2> QED BY <2>1, <2>2
<1>2. CASE VmSeize(s) \/ Dequeue(s) \/ VmUnseize(s) \/ EndUnseize(s)
  <2>1. Goto(s, "flag") \/ Goto(s, "unflag") \/ Goto(s, "idle")
    BY <1>2 DEF VmSeize, Dequeue, VmUnseize, EndUnseize
  <2> QED BY <1>1, <2>1, ReportIdle DEF AgentPc
<1>3. CASE SeizeLwp(s) \/ UnseizeLwp(s)
  <2>1. (pc[s] = "flag" \/ pc[s] = "unflag") /\ (pc' = pc \/ Goto(s, "dequeue"))
    BY <1>3 DEF SeizeLwp, UnseizeLwp, At
  <2>2. CASE pc' = pc
    BY <1>1, <2>1, <2>2 DEF ReportInv, Awaits
  <2>3. CASE Goto(s, "dequeue")
    BY <1>1, <2>3, ReportIdle DEF AgentPc
  <2> QED BY <2>1, <2>2, <2>3
<1>4. CASE OptimisticTest(s)
  <2>1. /\ UNCHANGED <<pNlwp, pNseized>>
        /\ Goto(s, IF pNseized = pNlwp THEN "has" ELSE "wait")
    BY <1>4 DEF OptimisticTest, countVars
  <2>2. CASE pNseized = pNlwp
    BY <1>1, <2>1, <2>2, ReportIdle DEF AgentPc
  <2>3. CASE pNseized # pNlwp
    BY <2>1, <2>3 DEF ReportInv, Complete
  <2> QED BY <2>2, <2>3
<1>5. CASE EventWait(s)
  <2>1. /\ UNCHANGED <<pNlwp, pNseized, posting, trapSeize>> /\ pc[s] = "wait"
        /\ Goto(s, IF pSeized THEN "has" ELSE "blocked")
    BY <1>5 DEF EventWait, countVars, lwpVars, postVars, At
  <2>2. CASE pSeized
    BY <1>1, <2>1, <2>2, ReportIdle DEF AgentPc
  <2>3. CASE ~pSeized
    <3>1. \A c \in Ctxs : pc'[c] = IF c = s THEN "blocked" ELSE pc[c]
      BY <2>1, <2>3, PcGoto DEF Inv, Typed, AgentPc
    <3>2. Complete' => Complete
      BY <2>1, <3>1 DEF Complete
    <3>3. Comes(s) => Comes(s)'
      BY <2>1, <2>3, <3>1 DEF Comes, Inv, Typed, SetsType
    <3>4. \A t \in Agents : Awaits(t)' => t = s
      BY <1>1, <3>1 DEF Awaits
    <3> QED BY <2>1, <3>2, <3>3, <3>4 DEF ReportInv, Awaits
  <2> QED BY <2>2, <2>3
<1> QED BY <1>1, <1>2, <1>3, <1>4, <1>5 DEF Seizing, Unseizing

(* An agent that waits for a complete barrier is told: by whoever completed *)
(* it, a report, an exit or vm_seize() itself, also when LWPs are created  *)
(* meanwhile.                                                              *)
THEOREM ReportsArrive == Spec => []NoReportLost
<1>1. Init => ReportInv
  BY SeizeAssumption DEF Init, ReportInv, Awaits, Ctxs
<1>2. Inv /\ PostType /\ ReportInv /\ [Next]_vars => ReportInv'
  <2> SUFFICES ASSUME Inv, PostType, ReportInv, [Next]_vars PROVE ReportInv'
    OBVIOUS
  <2>1. CASE Posting
    BY <2>1, PcPost, ReportSignal DEF Posting, SwtchSeized, SwtchSeizedLate, Inv, Typed
  <2>2. CASE Next /\ ~Posting
    BY <2>2, ReportScheduling, ReportLwpCode, ReportAgents DEF Next
  <2>3. CASE UNCHANGED vars
    BY <2>3 DEF vars, countVars, lwpVars, postVars, ReportInv, Complete, Awaits, Comes
  <2> QED BY <2>1, <2>2, <2>3
<1>3. ReportInv => NoReportLost
  BY DEF ReportInv, NoReportLost, Complete, Awaits, Comes, ReportComes, At
<1> QED BY <1>1, <1>2, <1>3, SpecInv, SpecPost, PTL DEF Spec

(***************************************************************************)
(* Unless its agent was misled, a seized process is stopped.               *)
(***************************************************************************)
Demand(s) == pc[s] = "has" \/ (Asking(s) /\ (pSeized \/ posting > 0))

(* The two counts are equal just when all LWPs on the list are off.        *)
LEMMA EqualCounts ==
  ASSUME Inv, NEW T \in SUBSET pLwpp, Cardinality(T) = pNlwp
  PROVE  T = pLwpp
<1>1. IsFiniteSet(pLwpp)
  BY OffFinite DEF Inv, Typed
<1> QED BY <1>1, FS_Subset DEF Inv, CountInv

(* An LWP that is off is on the list, but for one that is being linked.    *)
LEMMA OffListed ==
  ASSUME Inv, \A m \in Lwps : pc[m] # "link"
  PROVE  Off \subseteq pLwpp
<1> SUFFICES ASSUME NEW l \in Off PROVE l \in pLwpp
  OBVIOUS
<1>1. l \in Lwps /\ lStat[l] # "NONE" /\ lStat[l] # "SONPROC"
  BY DEF Off, Inv, Typed, SetsType, StateInv, FlagInv
<1>2. pc[l] # "leave"
  BY <1>1 DEF Inv, StateInv, ListInv
<1> QED BY <1>1, <1>2 DEF Inv, StateInv, ListInv

(* So the test of the barrier means that all are stopped.                  *)
LEMMA CountsStop ==
  ASSUME Inv, \A m \in Lwps : pc[m] # "link", ~Unflagging, pNseized = pNlwp
  PROVE  Stopped
<1>1. Off = pLwpp
  BY OffListed, EqualCounts DEF Inv, CountInv
<1> QED BY <1>1 DEF Stopped, Off

(* While all are stopped no LWP of the process runs, or is about to.       *)
LEMMA NoneRuns ==
  ASSUME Inv, Stopped, NEW l \in Lwps
  PROVE  /\ Running(l) => pc[l] = "leave"
         /\ l \notin runq /\ cur \notin pLwpp
<1>1. Running(l) => pc[l] = "leave"
  BY RunningListed DEF Stopped, Running
<1>2. ASSUME lStat[l] = "SRUN" PROVE l \in pLwpp
  BY <1>2 DEF Inv, StateInv, ListInv, ChildInv, Creating
<1>3. cur \notin pLwpp
  BY DEF Stopped
<1>4. l \notin runq
  BY <1>2 DEF Stopped, Inv, StateInv, QueueInv
<1> QED BY <1>1, <1>3, <1>4

(* A step that causes no new demand and starts no LWP of the process.      *)
LEMMA StopStays ==
  ASSUME StopInv, misled => misled', \A s \in Agents : Demand(s)' => Demand(s), Stopped => Stopped'
  PROVE  StopInv'
BY DEF StopInv, Demand, Asking

(* The last report: with its LWP, all LWPs on the list are off.            *)
LEMMA StopSwitchOut ==
  ASSUME PostType, Inv, StopInv, NEW l \in Lwps, Preempt(l) \/ Block(l)
  PROVE  StopInv'
<1> USE SeizeAssumption DEF Ctxs
<1>1. PICK st \in {"SRUN", "SSLEEP"} : SwitchOut(l, st)
  BY DEF Preempt, Block
<1>2. /\ UNCHANGED <<pLwpp, pNlwp, pSeized, trapSeize, cur>>
      /\ lStat[l] = "SONPROC" /\ l # cur
      /\ pc[l] # "leave"
      /\ pc' = pc \/ (pc[l] = "honor" /\ Goto(l, "relvm"))
  <2>1. pMutex # l \/ pc[l] \in {"run", "relvm"}
    BY DEF Preempt, Block
  <2> QED BY <2>1 DEF Preempt, Block, countVars, loopVars, Running, MutexFree, At, Goto, Inv,
      StateInv, MutexInv, HasMutex
<1>3. \A s \in Agents : pc'[s] = pc[s]
  BY <1>2, PcGoto DEF Inv, Typed, LwpPc
<1>4. \A m \in Lwps : m # l => lStat'[m] = lStat[m]
  BY <1>1, StatSet DEF SwitchOut, LwpStat, Inv, Typed
<1>5. lStat'[l] # "SONPROC"
  BY <1>1, StatSet DEF SwitchOut, LwpStat, Inv, Typed
<1>6. ~Stopped
  BY <1>2, RunningListed DEF Stopped, Running
<1>0. misled => misled'
  BY <1>1 DEF SwitchOut, BecomeSeized, Misled, postVars
<1>7. CASE posting' = posting
  <2>1. \A s \in Agents : Demand(s)' => Demand(s)
    BY <1>2, <1>3, <1>7 DEF Demand, Asking
  <2> QED BY <1>0, <1>6, <2>1, StopStays
<1>8. CASE posting' # posting
  <2> SUFFICES ASSUME ~misled', NEW s \in Agents, Demand(s)' PROVE Stopped'
    BY DEF StopInv, Demand, Asking
  <2>1. ~misled /\ Asking(s)
    BY <1>0, <1>3, <1>6 DEF StopInv, Demand, Asking
  <2>2. /\ l \in trapSeize /\ pNseized + 1 = pNlwp
        /\ \A m \in Lwps : pc[m] # "link"
    BY <1>1, <1>2, <1>8, <2>1 DEF SwitchOut, BecomeSeized, Misled, At, postVars
  <2>3. ~Unflagging
    BY <2>1 DEF Asking, Unflagging, Inv, StateInv, AgentInv
  <2>4. Off \union {l} \subseteq pLwpp
    BY <1>2, <2>2, OffListed, RunningListed DEF Running
  <2>5. l \notin Off /\ IsFiniteSet(Off) /\ Cardinality(Off) = pNseized
    BY <1>2, <2>3, OffFinite DEF Off, Inv, Typed, CountInv
  <2>6. Cardinality(Off \union {l}) = pNlwp
    BY <2>2, <2>5, FS_AddElement
  <2>7. Off \union {l} = pLwpp
    BY <2>4, <2>6, EqualCounts
  <2> QED BY <1>2, <1>4, <1>5, <2>2, <2>7 DEF Stopped, Off, Inv, Typed, SetsType
<1> QED BY <1>7, <1>8

(* Neither a wakeup nor a processor starts a stopped LWP.                  *)
LEMMA StopScheduling ==
  ASSUME PostType, Inv, StopInv, NEW l \in Lwps, Scheduling(l)
  PROVE  StopInv'
<1> USE SeizeAssumption DEF Ctxs
<1>1. CASE Preempt(l) \/ Block(l)
  BY <1>1, StopSwitchOut
<1>2. CASE Wakeup(l)
  <2>1. UNCHANGED <<pLwpp, trapSeize, cur, pc, posting, misled, pSeized>> /\ SetStat(l, "SRUN")
    BY <1>2 DEF Wakeup, countVars, loopVars, postVars
  <2>2. \A m \in Lwps : lStat'[m] = IF m = l THEN "SRUN" ELSE lStat[m]
    BY <2>1, StatSet DEF LwpStat, Inv, Typed
  <2>3. Stopped => Stopped'
    BY <2>1, <2>2 DEF Stopped, Inv, Typed, SetsType
  <2> QED BY <2>1, <2>3, StopStays DEF Demand, Asking
<1>3. CASE Dispatch(l)
  <2>1. UNCHANGED <<pc, posting, misled, pSeized>> /\ l \in runq
    BY <1>3 DEF Dispatch, postVars
  <2>2. ~Stopped
    BY <2>1, NoneRuns
  <2> QED BY <2>1, <2>2, StopStays DEF Demand, Asking
<1> QED BY <1>1, <1>2, <1>3 DEF Scheduling

(* A post that is not late is made for an agent that may have the process; *)
(* one that is misleads an agent that asks, and disturbs no other.         *)
LEMMA StopPosting ==
  ASSUME PostType, Inv, StopInv, Posting
  PROVE  StopInv'
<1>1. UNCHANGED <<pLwpp, lStat, trapSeize, cur>> /\ (misled => misled')
  <2>1. UNCHANGED <<pLwpp, lStat, trapSeize, cur>>
    BY DEF Posting, SwtchSeized, SwtchSeizedLate, countVars, lwpVars, loopVars
  <2>2. SwtchSeized => misled' = misled
    BY DEF SwtchSeized
  <2>3. SwtchSeizedLate => (misled => misled')
    BY DEF SwtchSeizedLate, Misled
  <2> QED BY <2>1, <2>2, <2>3 DEF Posting
<1>2. \A s \in Agents : pc'[s] = IF pc[s] = "blocked" THEN "has" ELSE pc[s]
  BY PcPost DEF Inv, Typed
<1>3. Stopped => Stopped'
  BY <1>1 DEF Stopped
<1>4. CASE SwtchSeized
  <2>1. \A s \in Agents : Demand(s)' => Demand(s)
    BY <1>2, <1>4 DEF Demand, Asking, SwtchSeized, PostType
  <2> QED BY <1>1, <1>3, <2>1, StopStays
<1>5. CASE SwtchSeizedLate
  <2> SUFFICES ASSUME ~misled', NEW s \in Agents, Demand(s)' PROVE Stopped'
    BY DEF StopInv, Demand, Asking
  <2>1. ~misled /\ ~Asking(s)
    BY <1>5 DEF SwtchSeizedLate, Misled
  <2>2. pc[s] = "has"
    BY <1>2, <2>1 DEF Demand, Asking
  <2> QED BY <1>3, <2>1, <2>2 DEF StopInv
<1> QED BY <1>4, <1>5 DEF Posting

(* The code of an LWP of a stopped process does not run, but for an exit.  *)
LEMMA StopLwpCode ==
  ASSUME Inv, StopInv, NEW l \in Lwps, LwpCode(l)
  PROVE  StopInv'
<1> USE SeizeAssumption DEF Ctxs
<1>1. CASE LeaveProcess(l) \/ ExitProcess(l) \/ NewLwp(l) \/ Fork(l) \/ LinkLwp(l)
  <2>1. UNCHANGED <<posting, misled, pSeized>>
    BY <1>1 DEF LeaveProcess, ExitProcess, NewLwp, Fork, LinkLwp, postVars
  <2>2. Running(l) /\ pc[l] # "leave"
    BY <1>1 DEF LeaveProcess, ExitProcess, NewLwp, Fork, LinkLwp, Free, At, Inv, StateInv, ListInv,
      Running
  <2>3. ~Stopped
    BY <2>2, NoneRuns
  <2>4. PICK p : LwpPc(p) /\ Goto(l, p)
    BY <1>1 DEF LeaveProcess, ExitProcess, NewLwp, Fork, LinkLwp, LwpPc
  <2>5. \A s \in Agents : pc'[s] = pc[s]
    BY <2>4, PcGoto DEF Inv, Typed
  <2> QED BY <2>1, <2>3, <2>5, StopStays DEF Demand, Asking
<1>2. CASE Exit(l)
  <2>1. /\ UNCHANGED <<pLwpp, posting, misled, cur>> /\ trapSeize' = trapSeize \ {l} /\ pc[l] = "leave"
        /\ SetStat(l, "NONE")
    BY <1>2 DEF Exit, countVars, loopVars, postVars, At
  <2>2. \A m \in Lwps : m # l => lStat'[m] = lStat[m]
    BY <2>1, StatSet DEF LwpStat, Inv, Typed
  <2>3. Stopped => Stopped'
    BY <2>1, <2>2 DEF Stopped, Inv, Typed, SetsType, StateInv, ListInv
  <2>4. CASE l \in trapSeize /\ pNseized = pNlwp
    <3>1. /\ \A m \in Lwps : m # l => pc[m] # "link"
          /\ \A s \in Agents : pc[s] # "unflag"
      BY <2>1, OneSection DEF HasMutex
    <3>2. Stopped
      BY <2>1, <2>4, <3>1, CountsStop DEF Unflagging
    <3> QED BY <2>3, <3>2 DEF StopInv
  <2>5. CASE ~(l \in trapSeize /\ pNseized = pNlwp)
    <3>1. Goto(l, "run") /\ pSeized' = pSeized
      BY <1>2, <2>5 DEF Exit, ReportExit
    <3>2. \A s \in Agents : pc'[s] = pc[s]
      BY <3>1, PcGoto DEF Inv, Typed, LwpPc
    <3>3. \A s \in Agents : Demand(s)' => Demand(s)
      BY <2>1, <3>1, <3>2 DEF Demand, Asking
    <3> QED BY <2>1, <2>3, <3>3, StopStays
  <2> QED BY <2>4, <2>5
<1> QED BY <1>1, <1>2 DEF LwpCode

(* Posts that are outstanding are late when a seize starts.                *)
LEMMA StopSeizing ==
  ASSUME Inv, StopInv, NEW s \in Agents, Seizing(s)
  PROVE  StopInv'
<1> USE SeizeAssumption DEF Ctxs
<1>1. CASE VmSeize(s)
  <2>1. /\ ~pSeized' /\ posting' = 0 /\ ~pSeize
        /\ Goto(s, "flag")
    BY <1>1 DEF VmSeize, ClearSeized
  <2>2. \A t \in Agents : pc'[t] = IF t = s THEN "flag" ELSE pc[t]
    BY <2>1, PcGoto DEF Inv, Typed, AgentPc
  <2>3. \A t \in Agents : pc[t] = "idle"
    BY <2>1 DEF Inv, StateInv, AgentInv
  <2> QED BY <2>1, <2>2, <2>3 DEF StopInv, Asking
<1>2. CASE SeizeLwp(s)
  <2>1. PICK l \in todo : pc[s] = "flag" /\ (pc' = pc \/ Goto(s, "dequeue"))
    BY <1>2 DEF SeizeLwp, At
  <2>2. UNCHANGED <<posting, misled, pSeized>>
    BY <1>2 DEF SeizeLwp, postVars
  <2>3. \A t \in Agents : pc'[t] = pc[t] \/ (t = s /\ pc'[t] = "dequeue")
    BY <2>1, PcGoto DEF Inv, Typed, AgentPc
  <2>4. \A t \in Agents : Demand(t)' => Demand(t)
    BY <2>1, <2>2, <2>3 DEF Demand, Asking
  <2>5. ~Stopped
    BY <2>1 DEF Stopped, Inv, StateInv, LoopInv
  <2> QED BY <2>2, <2>4, <2>5, StopStays
<1>3. CASE Dequeue(s)
  <2>1. UNCHANGED <<posting, misled, pSeized>> /\ pc[s] = "dequeue" /\ Goto(s, "flag")
    BY <1>3 DEF Dequeue, postVars, At
  <2>2. \A t \in Agents : pc'[t] = IF t = s THEN "flag" ELSE pc[t]
    BY <2>1, PcGoto DEF Inv, Typed, AgentPc
  <2>3. \A t \in Agents : Demand(t)' => Demand(t)
    BY <2>1, <2>2 DEF Demand, Asking
  <2>4. ~Stopped
    BY <2>1 DEF Stopped, Inv, StateInv, LoopInv
  <2> QED BY <2>1, <2>3, <2>4, StopStays
<1>4. CASE OptimisticTest(s)
  <2>1. /\ UNCHANGED <<posting, pSeized, pLwpp, trapSeize, lStat, cur>> /\ pc[s] = "flag"
        /\ Goto(s, IF pNseized = pNlwp THEN "has" ELSE "wait")
        /\ misled' = (misled /\ pNseized # pNlwp)
    BY <1>4 DEF OptimisticTest, countVars, lwpVars, loopVars, At
  <2>2. Stopped => Stopped'
    BY <2>1 DEF Stopped
  <2>3. CASE pNseized = pNlwp
    <3>1. /\ \A m \in Lwps : pc[m] # "link"
          /\ \A t \in Agents : pc[t] # "unflag"
      BY <2>1, OneSection DEF HasMutex
    <3>2. Stopped
      BY <2>3, <3>1, CountsStop DEF Unflagging
    <3> QED BY <2>2, <3>2 DEF StopInv
  <2>4. CASE pNseized # pNlwp
    <3>1. \A t \in Agents : pc'[t] = IF t = s THEN "wait" ELSE pc[t]
      BY <2>1, <2>4, PcGoto DEF Inv, Typed, AgentPc
    <3>2. \A t \in Agents : Demand(t)' => Demand(t)
      BY <2>1, <3>1 DEF Demand, Asking
    <3> QED BY <2>1, <2>2, <2>4, <3>2, StopStays
  <2> QED BY <2>3, <2>4
<1>5. CASE EventWait(s)
  <2>1. /\ UNCHANGED <<posting, misled, pLwpp, trapSeize, lStat, cur>> /\ pc[s] = "wait" /\ ~pSeized'
        /\ Goto(s, IF pSeized THEN "has" ELSE "blocked")
    BY <1>5 DEF EventWait, countVars, lwpVars, loopVars, postVars, At
  <2>2. \A t \in Agents : pc'[t] = IF t = s THEN IF pSeized THEN "has" ELSE "blocked" ELSE pc[t]
    BY <2>1, PcGoto DEF Inv, Typed, AgentPc
  <2>3. \A t \in Agents : Demand(t)' => Demand(t)
    BY <2>1, <2>2 DEF Demand, Asking
  <2>4. Stopped => Stopped'
    BY <2>1 DEF Stopped
  <2> QED BY <2>1, <2>3, <2>4, StopStays
<1> QED BY <1>1, <1>2, <1>3, <1>4, <1>5 DEF Seizing

(* An agent that lets the process go demands nothing.                      *)
LEMMA StopUnseizing ==
  ASSUME Inv, StopInv, NEW s \in Agents, Unseizing(s)
  PROVE  StopInv'
<1> USE SeizeAssumption DEF Ctxs
<1>1. pc[s] # "idle"
  BY DEF Unseizing, VmUnseize, UnseizeLwp, EndUnseize, At
<1>2. \A t \in Agents : t # s => pc[t] = "idle"
  BY <1>1, OneAgent
<1>3. PICK p : (p = "unflag" \/ p = "idle") /\ (Goto(s, p) \/ (pc' = pc /\ pc[s] = "unflag"))
  BY DEF Unseizing, VmUnseize, UnseizeLwp, EndUnseize, At
<1>4. \A t \in Agents : pc'[t] = "unflag" \/ pc'[t] = "idle"
  <2>1. CASE Goto(s, p)
    BY <1>2, <1>3, <2>1, PcGoto DEF Inv, Typed, AgentPc
  <2>2. CASE pc' = pc /\ pc[s] = "unflag"
    BY <1>2, <2>2
  <2> QED BY <1>3, <2>1, <2>2
<1> QED BY <1>4 DEF StopInv, Asking

(* So the demand is always met.                                            *)
LEMMA StopAlways == Spec => []StopInv
<1>1. Init => StopInv
  BY SeizeAssumption DEF Init, StopInv, Asking, Ctxs
<1>2. Inv /\ PostType /\ StopInv /\ [Next]_vars => StopInv'
  <2> SUFFICES ASSUME Inv, PostType, StopInv, [Next]_vars PROVE StopInv'
    OBVIOUS
  <2>1. CASE Next
    BY <2>1, StopScheduling, StopPosting, StopLwpCode, StopSeizing, StopUnseizing DEF Next
  <2>2. CASE UNCHANGED vars
    BY <2>2 DEF vars, countVars, lwpVars, loopVars, postVars, StopInv, Stopped, Asking
  <2> QED BY <2>1, <2>2
<1> QED BY <1>1, <1>2, SpecInv, SpecPost, PTL DEF Spec

(* An agent that has returned from vm_seize() has all LWPs of the process  *)
(* off the processors and off the run queues, but for the two ways in      *)
(* which it can be woken too early; after the optimistic test, always.     *)
THEOREM SeizedIsStopped == Spec => []SeizedMeansStopped
<1>1. Inv /\ StopInv => SeizedMeansStopped
  <2> SUFFICES ASSUME Inv, StopInv, ~misled, NEW s \in Agents, pc[s] = "has", NEW l \in pLwpp
               PROVE  ~Running(l) /\ l \notin runq
    BY DEF SeizedMeansStopped, At
  <2>1. Stopped /\ l \in Lwps
    BY DEF StopInv, Inv, Typed, SetsType
  <2> QED BY <2>1, NoneRuns DEF Stopped, Running
<1> QED BY <1>1, StopAlways, SpecInv, PTL

(***************************************************************************)
(* Seize implements AbstractSeize without its fairness.                    *)
(***************************************************************************)
Runners == {l \in pLwpp : Running(l)}
Seizer == IF \E s \in Agents : At(s, "has") THEN CHOOSE s \in Agents : At(s, "has") ELSE Nobody
Askers == {s \in Agents : Asking(s)}
AbsStep == [A!Next]_(A!vars)
Sound == Inv /\ PostType /\ StopInv

(* An agent that asks may be misled; nobody else.                          *)
MayMislead == misled' = misled \/ (misled' = TRUE /\ \E s \in Agents : Asking(s))

(* Who has the process is the agent that is back from vm_seize().          *)
SeizerKnown == /\ \A s \in Agents : pc[s] = "has" => Seizer = s
               /\ (\A s \in Agents : pc[s] # "has") => Seizer = Nobody

LEMMA SeizerIs == Inv => SeizerKnown
<1> SUFFICES ASSUME Inv PROVE SeizerKnown
  OBVIOUS
<1>1. ASSUME NEW s \in Agents, pc[s] = "has" PROVE Seizer = s
  <2>1. \A t \in Agents : At(t, "has") => t = s
    BY <1>1 DEF At, Inv, StateInv, AgentInv
  <2> QED BY <1>1, <2>1 DEF Seizer, At
<1> QED BY <1>1 DEF SeizerKnown, Seizer, At

(* And so after a step.                                                    *)
LEMMA SeizerWillBe == Inv' => SeizerKnown'
BY SeizerIs, PTL

(* A step of no agent.                                                     *)
LEMMA AgentsStay ==
  ASSUME Inv, Inv', \A s \in Agents : pc'[s] = pc[s]
  PROVE  Seizer' = Seizer /\ Askers' = Askers
<1>1. Askers' = Askers
  BY DEF Askers, Asking
<1>2. ASSUME NEW s \in Agents, pc[s] = "has" PROVE Seizer' = Seizer
  BY <1>2, SeizerIs, SeizerWillBe DEF SeizerKnown
<1>3. CASE \A s \in Agents : pc[s] # "has"
  BY <1>1, <1>3, SeizerIs, SeizerWillBe DEF SeizerKnown
<1> QED BY <1>1, <1>2, <1>3

(* Such a step starts or stops LWPs, and starts none of a seized process.  *)
LEMMA LwpsStep ==
  ASSUME Inv, Inv', \A s \in Agents : pc'[s] = pc[s], NEW l \in Lwps, MayMislead,
         \/ Runners' = Runners \/ Runners' = Runners \ {l}
         \/ /\ Runners' = Runners \union {l} /\ misled' = misled
            /\ misled \/ \A s \in Agents : pc[s] # "has"
  PROVE  AbsStep
<1>1. Seizer' = Seizer /\ Askers' = Askers
  BY AgentsStay
<1>2. misled' = misled \/ misled' = (misled \/ Askers # {})
  BY DEF MayMislead, Askers
<1>3. A!MayBeMisled
  BY <1>2 DEF A!MayBeMisled, Askers
<1>4. CASE Runners' = Runners
  <2>1. A!Mislead
    BY <1>1, <1>3, <1>4 DEF A!Mislead, Runners, Seizer, Askers
  <2> QED BY <2>1 DEF AbsStep, A!Next
<1>5. CASE Runners' = Runners \ {l}
  <2>1. A!Stop(l)
    BY <1>1, <1>3, <1>5 DEF A!Stop, Runners, Seizer, Askers
  <2> QED BY <2>1 DEF AbsStep, A!Next
<1>6. CASE /\ Runners' = Runners \union {l} /\ misled' = misled
           /\ misled \/ \A s \in Agents : pc[s] # "has"
  <2>1. Seizer = Nobody \/ misled
    BY <1>6, SeizerIs DEF SeizerKnown
  <2>2. A!Run(l)
    BY <1>1, <1>6, <2>1 DEF A!Run, Runners, Seizer, Askers
  <2> QED BY <2>2 DEF AbsStep, A!Next
<1> QED BY <1>4, <1>5, <1>6

(* The agent that asks gets the process, stopped unless it was misled.     *)
LEMMA AgentGets ==
  ASSUME Sound, Sound', NEW s \in Agents, Asking(s), pc'[s] = "has", Runners' = Runners
  PROVE  AbsStep
<1>1. /\ \A t \in Agents \ {s} : pc[t] = "idle"
      /\ \A t \in Agents \ {s} : pc'[t] = "idle"
  BY DEF Sound, Inv, StateInv, AgentInv, Asking
<1>2. Seizer = Nobody /\ Seizer' = s
  BY <1>1, SeizerIs, SeizerWillBe DEF SeizerKnown, Sound, Asking
<1>3. Askers = {s} /\ Askers' = {}
  BY <1>1 DEF Askers, Asking
<1>4. misled' \in BOOLEAN /\ (Runners' = {} \/ misled')
  BY DEF Sound, PostType, StopInv, Stopped, Runners, Running
<1>5. A!Seize(s)
  BY <1>2, <1>3, <1>4 DEF A!Seize, Runners, Seizer, Askers
<1> QED BY <1>5 DEF AbsStep, A!Next

(* EVENT_SIGNAL(p_seized).                                                 *)
LEMMA SignalStep ==
  ASSUME Sound, Sound', MayMislead, Runners' = Runners,
         \A s \in Agents : pc'[s] = IF pc[s] = "blocked" THEN "has" ELSE pc[s]
  PROVE  AbsStep
<1>1. CASE \E s \in Agents : pc[s] = "blocked"
  BY <1>1, AgentGets DEF Asking
<1>2. CASE \A s \in Agents : pc[s] # "blocked"
  BY <1>2, LwpsStep, SeizeAssumption DEF Sound
<1> QED BY <1>1, <1>2

(* A processor posts.                                                      *)
LEMMA PostingStep ==
  ASSUME Sound, Sound', Posting
  PROVE  AbsStep
<1>1. UNCHANGED <<pLwpp, lStat>>
  BY DEF Posting, SwtchSeized, SwtchSeizedLate, countVars, lwpVars
<1>2. Runners' = Runners
  BY <1>1 DEF Runners, Running
<1>3. MayMislead
  BY DEF Posting, SwtchSeized, SwtchSeizedLate, Misled, MayMislead, Sound, PostType
<1> QED BY <1>2, <1>3, SignalStep, PcPost DEF Sound, Inv, Typed

(* LWPs on and off the processors.                                         *)
LEMMA SchedulingStep ==
  ASSUME Sound, Sound', NEW l \in Lwps, Scheduling(l)
  PROVE  AbsStep
<1>0. Inv /\ Inv' /\ Typed
  BY DEF Sound, Inv
<1>m. misled' = misled => MayMislead
  BY DEF MayMislead
<1>1. CASE Preempt(l) \/ Block(l)
  <2>1. PICK st \in {"SRUN", "SSLEEP"} : SetStat(l, st) /\ SwitchOut(l, st)
    BY <1>1 DEF Preempt, Block, SwitchOut
  <2>2. /\ pLwpp' = pLwpp
        /\ pc' = pc \/ (pc[l] = "honor" /\ Goto(l, "relvm"))
    BY <1>1 DEF Preempt, Block, countVars, At, Goto
  <2>3. \A s \in Agents : pc'[s] = pc[s]
    BY <1>0, <2>2, PcGoto, SeizeAssumption DEF Typed, LwpPc, Ctxs
  <2>4. \A m \in Lwps : lStat'[m] = IF m = l THEN st ELSE lStat[m]
    BY <1>0, <2>1, StatSet DEF LwpStat, Typed
  <2>5. Runners' = Runners \ {l}
    BY <1>0, <2>2, <2>4 DEF Runners, Running, Typed, SetsType
  <2>6. MayMislead
    BY <2>1 DEF SwitchOut, BecomeSeized, Misled, MayMislead, Sound, PostType, postVars
  <2> QED BY <1>0, <2>3, <2>5, <2>6, LwpsStep
<1>2. CASE Wakeup(l)
  <2>1. /\ UNCHANGED <<pLwpp, pc, misled>> /\ SetStat(l, "SRUN") /\ lStat[l] = "SSLEEP"
    BY <1>2 DEF Wakeup, countVars, postVars
  <2>2. \A m \in Lwps : lStat'[m] = IF m = l THEN "SRUN" ELSE lStat[m]
    BY <1>0, <2>1, StatSet DEF LwpStat, Typed
  <2>3. Runners' = Runners
    BY <1>0, <2>1, <2>2 DEF Runners, Running, Typed, SetsType
  <2> QED BY <1>0, <1>m, <2>1, <2>3, LwpsStep
<1>3. CASE Dispatch(l)
  <2>1. /\ UNCHANGED <<pLwpp, pc, misled>> /\ SetStat(l, "SONPROC") /\ l \in runq
    BY <1>3 DEF Dispatch, countVars, postVars
  <2>2. \A m \in Lwps : lStat'[m] = IF m = l THEN "SONPROC" ELSE lStat[m]
    BY <1>0, <2>1, StatSet DEF LwpStat, Typed
  <2>3. ~Stopped
    BY <1>0, <2>1, NoneRuns
  <2>4. misled \/ \A s \in Agents : pc[s] # "has"
    BY <2>3 DEF Sound, StopInv
  <2>5. l \in pLwpp
    <3>1. lStat[l] = "SRUN"
      BY <1>0, <2>1 DEF Inv, StateInv, QueueInv
    <3> QED BY <1>0, <3>1 DEF Inv, StateInv, ListInv, ChildInv, Creating
  <2>6. Runners' = Runners \union {l}
    BY <1>0, <2>1, <2>2, <2>5 DEF Runners, Running, Typed, SetsType
  <2> QED BY <1>0, <1>m, <2>1, <2>4, <2>6, LwpsStep
<1> QED BY <1>1, <1>2, <1>3 DEF Scheduling

(* LWPs that exit and that are created.                                    *)
LEMMA LwpCodeStep ==
  ASSUME Sound, Sound', NEW l \in Lwps, LwpCode(l)
  PROVE  AbsStep
<1>0. Inv /\ Inv' /\ Typed /\ pLwpp \subseteq Lwps
  BY DEF Sound, Inv, Typed, SetsType
<1>m. ASSUME NEW p, LwpPc(p), Goto(l, p) PROVE \A s \in Agents : pc'[s] = pc[s]
  BY <1>0, <1>m, PcGoto, SeizeAssumption DEF Typed, Ctxs
<1>p. MayMislead
  BY DEF MayMislead, LwpCode, LeaveProcess, Exit, ExitProcess, NewLwp, LinkLwp, Fork, postVars
<1>1. CASE LeaveProcess(l)
  <2>1. pLwpp' = pLwpp \ {l} /\ lStat' = lStat /\ Goto(l, "leave")
    BY <1>1 DEF LeaveProcess, lwpVars
  <2>2. Runners' = Runners \ {l}
    BY <2>1 DEF Runners, Running
  <2> QED BY <1>0, <1>m, <1>p, <2>1, <2>2, LwpsStep DEF LwpPc
<1>2. CASE Exit(l)
  <2>1. /\ pc[l] = "leave" /\ pLwpp' = pLwpp /\ SetStat(l, "NONE")
        /\ SignalSeized([pc EXCEPT ![l] = "run"]) \/ Goto(l, "run")
    BY <1>2 DEF Exit, countVars, ReportExit, At
  <2>2. l \notin pLwpp
    BY <1>0, <2>1 DEF Inv, StateInv, ListInv
  <2>3. \A m \in Lwps : lStat'[m] = IF m = l THEN "NONE" ELSE lStat[m]
    BY <1>0, <2>1, StatSet DEF LwpStat, Typed
  <2>4. Runners' = Runners
    BY <1>0, <2>1, <2>2, <2>3 DEF Runners, Running
  <2>5. CASE SignalSeized([pc EXCEPT ![l] = "run"])
    <3>1. \A s \in Agents : pc'[s] = IF pc[s] = "blocked" THEN "has" ELSE pc[s]
      BY <1>0, <2>5, PcSignal DEF LwpPc, Typed
    <3> QED BY <1>p, <2>4, <3>1, SignalStep
  <2>6. CASE Goto(l, "run")
    BY <1>0, <1>m, <1>p, <2>4, <2>6, LwpsStep DEF LwpPc
  <2> QED BY <2>1, <2>5, <2>6
<1>3. CASE ExitProcess(l)
  <2>1. UNCHANGED <<pLwpp, lStat>> /\ (Goto(l, "honor") \/ Goto(l, "relvm"))
    BY <1>3 DEF ExitProcess, countVars, lwpVars
  <2>2. Runners' = Runners
    BY <2>1 DEF Runners, Running
  <2> QED BY <1>0, <1>m, <1>p, <2>1, <2>2, LwpsStep DEF LwpPc
<1>4. CASE NewLwp(l)
  <2>1. PICK n \in Lwps : lStat[n] = "NONE" /\ SetStat(n, "SIDL")
    BY <1>4 DEF NewLwp
  <2>2. pLwpp' = pLwpp /\ Goto(l, "link")
    BY <1>4 DEF NewLwp, countVars
  <2>3. \A m \in Lwps : lStat'[m] = IF m = n THEN "SIDL" ELSE lStat[m]
    BY <1>0, <2>1, StatSet DEF LwpStat, Typed
  <2>4. Runners' = Runners
    BY <1>0, <2>1, <2>2, <2>3 DEF Runners, Running
  <2> QED BY <1>0, <1>m, <1>p, <2>2, <2>4, LwpsStep DEF LwpPc
<1>5. CASE LinkLwp(l)
  <2>1. /\ pc[l] = "link" /\ pLwpp' = pLwpp \union {child[l]} /\ lStat' = lStat
        /\ Goto(l, "fork")
    BY <1>5 DEF LinkLwp, lwpVars, At
  <2>2. lStat[child[l]] = "SIDL"
    BY <1>0, <2>1 DEF Inv, StateInv, ChildInv, Creating
  <2>3. Runners' = Runners
    BY <2>1, <2>2 DEF Runners, Running
  <2> QED BY <1>0, <1>m, <1>p, <2>1, <2>3, LwpsStep DEF LwpPc
<1>6. CASE Fork(l)
  <2>1. /\ pc[l] = "fork" /\ pLwpp' = pLwpp /\ SetStat(child[l], "SRUN")
        /\ Goto(l, "run")
    BY <1>6 DEF Fork, countVars, At
  <2>2. child[l] \in Lwps /\ lStat[child[l]] = "SIDL"
    BY <1>0, <2>1 DEF Inv, StateInv, ChildInv, Creating
  <2>3. \A m \in Lwps : lStat'[m] = IF m = child[l] THEN "SRUN" ELSE lStat[m]
    BY <1>0, <2>1, <2>2, StatSet DEF LwpStat, Typed
  <2>4. Runners' = Runners
    BY <1>0, <2>1, <2>2, <2>3 DEF Runners, Running
  <2> QED BY <1>0, <1>m, <1>p, <2>1, <2>4, LwpsStep DEF LwpPc
<1> QED BY <1>1, <1>2, <1>3, <1>4, <1>5, <1>6 DEF LwpCode

(* An agent, other than by getting the process.                            *)
LEMMA AgentStep ==
  ASSUME Sound, Sound', NEW s \in Agents, NEW p, AgentPc(p), Goto(s, p),
         UNCHANGED <<pLwpp, lStat>>,
         pc[s] = "idle" => misled' = FALSE, pc[s] # "idle" /\ p # "has" => misled' = misled,
         \/ pc[s] = "idle" /\ p = "flag"
         \/ Asking(s) /\ (p = "flag" \/ p = "dequeue" \/ p = "wait" \/ p = "blocked" \/ p = "has")
         \/ pc[s] = "has" /\ p = "unflag"
         \/ pc[s] = "unflag" /\ p = "idle"
  PROVE  AbsStep
<1>0. Runners' = Runners /\ Inv /\ Inv'
  BY DEF Runners, Running, Sound
<1>1. \A t \in Agents : pc'[t] = IF t = s THEN p ELSE pc[t]
  BY <1>0, PcGoto, SeizeAssumption DEF Ctxs, Inv, Typed
<1>2. CASE p = "has"
  BY <1>0, <1>1, <1>2, AgentGets
<1>3. \A t \in Agents \ {s} : pc[t] # "has" /\ pc'[t] # "has"
  <2>1. pc[s] # "idle" \/ pc'[s] # "idle"
    BY <1>1 DEF Asking
  <2> QED BY <1>0, <1>1, <2>1 DEF Inv, StateInv, AgentInv
<1>4. s # Nobody
  BY SeizeAssumption
<1>5. CASE pc[s] = "idle" /\ p = "flag"
  <2>1. Seizer = Nobody /\ Seizer' = Nobody
    BY <1>0, <1>1, <1>3, <1>5, SeizerIs, SeizerWillBe DEF SeizerKnown
  <2>2. Askers' = Askers \union {s}
    BY <1>1, <1>5 DEF Askers, Asking
  <2>4. misled' = FALSE
    BY <1>5
  <2>3. A!Ask(s)
    <3>1. Seizer = Nobody /\ Askers' = Askers \union {s} /\ misled' = FALSE
          /\ Runners' = Runners /\ Seizer' = Seizer
      BY <1>0, <2>1, <2>2, <2>4
    <3> QED BY <3>1 DEF A!Ask, Runners, Seizer, Askers
  <2> QED BY <2>3 DEF AbsStep, A!Next
<1>6. CASE Asking(s) /\ p # "has"
  <2>1. Seizer = Nobody /\ Seizer' = Nobody
    BY <1>0, <1>1, <1>3, <1>6, SeizerIs, SeizerWillBe DEF SeizerKnown, Asking
  <2>2. Askers' = Askers
    BY <1>1, <1>6 DEF Askers, Asking
  <2>3. misled' = misled
    BY <1>6 DEF Asking
  <2>4. Runners' = Runners /\ Seizer' = Seizer /\ Askers' = Askers /\ misled' = misled
    BY <1>0, <2>1, <2>2, <2>3
  <2> QED BY <2>4 DEF AbsStep, A!vars, Runners, Seizer, Askers
<1>7. CASE pc[s] = "has" /\ p = "unflag"
  <2>1. Seizer = s /\ Seizer' = Nobody
    BY <1>0, <1>1, <1>3, <1>7, SeizerIs, SeizerWillBe DEF SeizerKnown
  <2>2. Askers' = Askers
    BY <1>1, <1>7 DEF Askers, Asking
  <2>4. misled' = misled
    BY <1>7
  <2>5. /\ Seizer = s /\ Seizer' = Nobody
        /\ Runners' = Runners /\ Askers' = Askers /\ misled' = misled
    BY <1>0, <2>1, <2>2, <2>4
  <2>3. A!Release(s)
    BY <2>5 DEF A!Release, Runners, Seizer, Askers
  <2> QED BY <2>3 DEF AbsStep, A!Next
<1>8. CASE pc[s] = "unflag" /\ p = "idle"
  <2>1. Seizer = Nobody /\ Seizer' = Nobody
    BY <1>0, <1>1, <1>3, <1>8, SeizerIs, SeizerWillBe DEF SeizerKnown
  <2>2. Askers' = Askers
    BY <1>1, <1>8 DEF Askers, Asking
  <2>3. misled' = misled
    BY <1>8
  <2>4. Runners' = Runners /\ Seizer' = Seizer /\ Askers' = Askers /\ misled' = misled
    BY <1>0, <2>1, <2>2, <2>3
  <2> QED BY <2>4 DEF AbsStep, A!vars, Runners, Seizer, Askers
<1> QED BY <1>2, <1>5, <1>6, <1>7, <1>8

(* vm_seize() and vm_unseize().                                            *)
LEMMA AgentsStep ==
  ASSUME Sound, Sound', NEW s \in Agents, Seizing(s) \/ Unseizing(s)
  PROVE  AbsStep
<1> USE DEF At, countVars, lwpVars, loopVars, postVars, Asking, AgentPc
<1>0. misled \in BOOLEAN
  BY DEF Sound, PostType
<1>1. CASE VmSeize(s) \/ OptimisticTest(s) \/ EventWait(s)
  BY <1>0, <1>1, AgentStep DEF VmSeize, OptimisticTest, EventWait
<1>2. CASE VmUnseize(s) \/ EndUnseize(s) \/ Dequeue(s)
  BY <1>2, AgentStep DEF VmUnseize, EndUnseize, Dequeue
<1>3. CASE (SeizeLwp(s) \/ UnseizeLwp(s)) /\ pc' = pc
  <2>1. UNCHANGED <<pLwpp, lStat>> /\ MayMislead
    BY <1>3 DEF SeizeLwp, UnseizeLwp, MayMislead
  <2>2. Runners' = Runners
    BY <2>1 DEF Runners, Running
  <2>3. PICK l \in Lwps : TRUE
    BY SeizeAssumption
  <2> QED BY <1>3, <2>1, <2>2, <2>3, LwpsStep DEF Sound
<1>4. CASE SeizeLwp(s) /\ pc' # pc
  BY <1>4, AgentStep DEF SeizeLwp
<1>5. UnseizeLwp(s) => pc' = pc
  BY DEF UnseizeLwp
<1> QED BY <1>1, <1>2, <1>3, <1>4, <1>5 DEF Seizing, Unseizing

(* Every step of Seize is one of AbstractSeize, or changes nothing there:  *)
(* an agent that is not misled has the process only while none of its LWPs *)
(* runs; an agent gets it only if it asked for it and nobody else has it,  *)
(* and is misled only while it asks.                                       *)
THEOREM SeizeRefinement == Spec => A!Spec
<1>1. Init => A!Init
  <2> SUFFICES ASSUME Init PROVE A!Init
    OBVIOUS
  <2>1. \A s \in Agents : pc[s] = "idle"
    BY SeizeAssumption DEF Init, Ctxs
  <2>2. Seizer = Nobody /\ Askers = {}
    BY <2>1 DEF Seizer, Askers, Asking, At
  <2>3. Runners \in SUBSET Lwps /\ misled = FALSE
    BY SeizeAssumption DEF Init, Runners
  <2> QED BY <2>2, <2>3 DEF A!Init, Runners, Seizer, Askers
<1>2. Sound /\ Sound' /\ [Next]_vars => AbsStep
  <2> SUFFICES ASSUME Sound, Sound', [Next]_vars PROVE AbsStep
    OBVIOUS
  <2>1. CASE Next
    BY <2>1, SchedulingStep, PostingStep, LwpCodeStep, AgentsStep DEF Next
  <2>2. CASE UNCHANGED vars
    BY <2>2 DEF vars, countVars, lwpVars, postVars, AbsStep, A!vars, At, Running, Asking
  <2> QED BY <2>1, <2>2
<1>3. Spec => []StopInv
  BY StopAlways
<1> QED BY <1>1, <1>2, <1>3, SpecInv, SpecPost, PTL DEF Spec, A!Spec, AbsStep, Sound

=============================================================================
