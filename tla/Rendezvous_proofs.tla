-------------------------- MODULE Rendezvous_proofs -------------------------
(***************************************************************************)
(* Theorems about Rendezvous, for any number of LWPs.  Of every behaviour: *)
(* the types, that p_nrendezvoused counts the LWPs blocked in a            *)
(* rendezvous, that whoever has the process at rest has all others there,  *)
(* that at most one LWP destroys the process, that of the conditions that  *)
(* the code panics on all but one cannot hold, and that one only after a   *)
(* mishap.  Until an LWP aborts a rendezvous that it was asked for itself: *)
(* that every request is somebody's, so that an LWP that blocks in a       *)
(* rendezvous does so for one that asked for it, and that a suspended LWP  *)
(* stays out of its user's code; and, until core() gives up early too,     *)
(* that nobody waits for an LWP that was not asked or that is stopped or   *)
(* asleep.  And that Rendezvous implements AbstractRendezvous, fairness    *)
(* apart.                                                                  *)
(***************************************************************************)
EXTENDS Rendezvous, FiniteSetTheorems, TLAPS

(***************************************************************************)
(* The inductive invariant.                                                *)
(***************************************************************************)
Places == /\ list \subseteq Lwps /\ pc \in [Lwps -> Pcs]
          /\ \A l \in Lwps : pc[l] = "none" <=> l \notin list
Flags ==
  /\ rendezv \subseteq list /\ destroy \subseteq list /\ jobstop \subseteq list
  /\ suspend \subseteq list /\ lSuspended \subseteq list
Own == /\ cursig \in [Lwps -> {"none", "kill", "core"}]
       /\ call \in [Lwps -> {"none", "forkall", "exec", "exit"}]
       /\ seen \in [Lwps -> 0 .. Cardinality(Lwps)]
Bools == pDestroy \in BOOLEAN /\ sigjobstop \in BOOLEAN
History == mishaps \subseteq {"own", "core", "test"}
Typed == Flags /\ Own /\ Bools /\ History
Barrier == Places /\ RendezvousedCount /\ StasisMeansStopped
Inv == Typed /\ Barrier

Rdv(p) == p = "rendezvoused" \/ p = "exrendezvoused"
ActivePc(p) == p \in Pcs /\ p # "none" /\ p # "stasis" /\ ~Rdv(p)

(***************************************************************************)
(* Moves of one LWP and of those that it wakes.                            *)
(***************************************************************************)
(* A move of one LWP is one that wakes nobody.                             *)
LEMMA GotoWakesNobody ==
  ASSUME Places, NEW l \in Lwps, NEW p, Goto(l, p)
  PROVE  GoWaking(l, p, {})
BY DEF Places, Goto, GoWaking

(* Who is woken goes on where it slept, and is then neither blocked in a   *)
(* rendezvous nor the one that has the process at rest.                    *)
LEMMA AfterWakeup ==
  ASSUME NEW q \in Pcs, q # "none"
  PROVE  /\ After(q) \in Pcs /\ After(q) # "none" /\ After(q) # "stasis" /\ ~Rdv(After(q))
BY DEF After, Pcs, Rdv, Sleeping, Stopped, Panics

(* The program counters after a move.                                      *)
LEMMA Moved ==
  ASSUME Places, NEW l \in list, NEW p \in Pcs, NEW W \in SUBSET list, GoWaking(l, p, W)
  PROVE  /\ pc' \in [Lwps -> Pcs] /\ pc'[l] = p
         /\ \A m \in Lwps \ (W \union {l}) : pc'[m] = pc[m]
         /\ \A m \in W \ {l} : /\ pc'[m] # "none" /\ pc'[m] # "stasis" /\ ~Rdv(pc'[m])
                               /\ pc'[m] = After(pc[m])
<1>1. \A m \in Lwps : pc'[m] = IF m = l THEN p ELSE IF m \in W THEN After(pc[m]) ELSE pc[m]
  BY DEF GoWaking
<1>2. \A m \in W : After(pc[m]) \in Pcs /\ After(pc[m]) # "none" /\ After(pc[m]) # "stasis"
                   /\ ~Rdv(After(pc[m]))
  BY AfterWakeup DEF Places
<1>3. pc' \in [Lwps -> Pcs]
  <2>1. \A m \in Lwps : (IF m = l THEN p ELSE IF m \in W THEN After(pc[m]) ELSE pc[m]) \in Pcs
    BY <1>2 DEF Places
  <2> QED BY <2>1 DEF GoWaking
<1> QED BY <1>1, <1>2, <1>3 DEF Places

(***************************************************************************)
(* Counting.                                                               *)
(***************************************************************************)
(* Every set of LWPs is finite.                                            *)
LEMMA LwpsFinite ==
  ASSUME NEW S \in SUBSET Lwps
  PROVE  IsFiniteSet(S) /\ Cardinality(S) \in Nat /\ Cardinality(S) <= Cardinality(Lwps)
         /\ Cardinality(Lwps) \in Nat
BY RendezvousAssumption, FS_Subset, FS_CardinalityType

(* The blocked LWPs are on the list.                                       *)
LEMMA RendezvousedIs ==
  /\ Rendezvoused = {m \in list : Rdv(pc[m])}
  /\ Rendezvoused' = {m \in list' : Rdv(pc'[m])}
BY DEF Rendezvoused, AllAt, At, Rdv

(* When all but the caller are counted, all others are blocked.            *)
LEMMA FullCount ==
  ASSUME Places, RendezvousedCount, NEW l \in list, ~Rdv(pc[l]), ~(nrendezvoused + 1 < Nlwp)
  PROVE  Rendezvoused = Others(l)
<1>1. list \subseteq Lwps /\ Rendezvoused \subseteq Others(l) /\ Others(l) \subseteq list
  BY RendezvousedIs DEF Others, Places
<1>2. IsFiniteSet(Others(l)) /\ Cardinality(Others(l)) = Cardinality(list) - 1
      /\ Cardinality(list) \in Nat
  BY <1>1, LwpsFinite, FS_RemoveElement DEF Others
<1>3. IsFiniteSet(Rendezvoused) /\ Cardinality(Rendezvoused) \in Nat
  BY <1>1, LwpsFinite
<1>4. Cardinality(Rendezvoused) <= Cardinality(Others(l))
  BY <1>1, <1>2, FS_Subset
<1>5. Cardinality(Rendezvoused) = Cardinality(Others(l))
  BY <1>2, <1>3, <1>4 DEF RendezvousedCount, Nlwp
<1> QED BY <1>1, <1>2, <1>5, FS_Subset

(* The process is at rest for nobody when some other LWP runs.             *)
LEMMA NobodyAtRest ==
  ASSUME StasisMeansStopped, NEW l \in list, ~Rdv(pc[l])
  PROVE  \A m \in list \ {l} : pc[m] # "stasis"
BY RendezvousedIs DEF StasisMeansStopped, At, Others

(***************************************************************************)
(* The kinds of steps: the barrier survives each.                          *)
(***************************************************************************)
(* One that leaves the blocked ones blocked.                               *)
LEMMA QuietStep ==
  ASSUME Barrier, NEW l \in list, NEW p, ActivePc(p), NEW W \in SUBSET list,
         GoWaking(l, p, W), ~Rdv(pc[l]), \A m \in W : ~Rdv(pc[m]),
         list' = list, nrendezvoused' = nrendezvoused
  PROVE  Barrier'
<1> USE DEF Barrier
<1>1. p \in Pcs /\ p # "none" /\ p # "stasis" /\ ~Rdv(p)
  BY DEF ActivePc
<1>2. /\ pc' \in [Lwps -> Pcs] /\ pc'[l] = p
      /\ \A m \in Lwps \ (W \union {l}) : pc'[m] = pc[m]
      /\ \A m \in W \ {l} : pc'[m] # "none" /\ pc'[m] # "stasis" /\ ~Rdv(pc'[m])
  BY <1>1, Moved
<1>3. Places'
  BY <1>1, <1>2 DEF Places
<1>4. Rendezvoused' = Rendezvoused
  <2>1. \A m \in list : Rdv(pc'[m]) <=> Rdv(pc[m])
    BY <1>1, <1>2 DEF Places
  <2> QED BY <2>1, RendezvousedIs
<1>5. \A m \in list : pc'[m] # "stasis"
  BY <1>1, <1>2, NobodyAtRest DEF Places
<1> QED BY <1>3, <1>4, <1>5 DEF RendezvousedCount, StasisMeansStopped, At

(* One that frees all that are blocked.                                    *)
LEMMA FreeingStep ==
  ASSUME Barrier, NEW l \in list, NEW p, ActivePc(p), NEW W \in SUBSET list,
         GoWaking(l, p, W), ~Rdv(pc[l]), Rendezvoused \subseteq W,
         list' = list, nrendezvoused' = 0
  PROVE  Barrier'
<1> USE DEF Barrier
<1>1. p \in Pcs /\ p # "none" /\ p # "stasis" /\ ~Rdv(p)
  BY DEF ActivePc
<1>2. /\ pc' \in [Lwps -> Pcs] /\ pc'[l] = p
      /\ \A m \in Lwps \ (W \union {l}) : pc'[m] = pc[m]
      /\ \A m \in W \ {l} : pc'[m] # "none" /\ pc'[m] # "stasis" /\ ~Rdv(pc'[m])
  BY <1>1, Moved
<1>3. Places'
  BY <1>1, <1>2 DEF Places
<1>4. Rendezvoused' = {}
  <2>1. \A m \in list : ~Rdv(pc'[m])
    BY <1>1, <1>2, RendezvousedIs DEF Places
  <2> QED BY <2>1, RendezvousedIs
<1>5. \A m \in list : pc'[m] # "stasis"
  BY <1>1, <1>2, NobodyAtRest DEF Places
<1> QED BY <1>3, <1>4, <1>5, FS_EmptySet DEF RendezvousedCount, StasisMeansStopped, At

(* One that blocks its LWP.                                                *)
LEMMA JoiningStep ==
  ASSUME Barrier, NEW l \in list, NEW p, Rdv(p), pc[l] # "stasis", ~Rdv(pc[l]), Rendezvous(l, p),
         list' = list
  PROVE  Barrier'
<1> USE DEF Barrier
<1>1. PICK W \in SUBSET list : GoWaking(l, p, W) /\ \A m \in W : pc[m] = "rvwait"
  BY DEF Rendezvous, OneOf, Initiators, AllAt, At
<1>2. p \in Pcs /\ p # "none" /\ p # "stasis"
  BY DEF Rdv, Pcs, Sleeping
<1>3. /\ pc' \in [Lwps -> Pcs] /\ pc'[l] = p
      /\ \A m \in Lwps \ (W \union {l}) : pc'[m] = pc[m]
      /\ \A m \in W \ {l} : pc'[m] # "none" /\ pc'[m] # "stasis" /\ ~Rdv(pc'[m])
  BY <1>1, <1>2, Moved
<1>4. Places'
  BY <1>2, <1>3 DEF Places
<1>5. Rendezvoused' = Rendezvoused \union {l} /\ l \notin Rendezvoused
  <2>1. \A m \in list \ {l} : Rdv(pc'[m]) <=> Rdv(pc[m])
    BY <1>1, <1>3 DEF Places, Rdv
  <2> QED BY <1>3, <2>1, RendezvousedIs
<1>6. Cardinality(Rendezvoused') = Cardinality(Rendezvoused) + 1
  BY <1>5, LwpsFinite, FS_AddElement, RendezvousedIs DEF Places
<1>7. \A m \in list : pc'[m] # "stasis"
  BY <1>2, <1>3, NobodyAtRest DEF Places
<1> QED BY <1>4, <1>6, <1>7 DEF RendezvousedCount, StasisMeansStopped, At, Rendezvous

(* One that takes its LWP off the list.                                    *)
LEMMA LeavingStep ==
  ASSUME Barrier, NEW l \in list, NEW W \in SUBSET list,
         GoWaking(l, "none", W), ~Rdv(pc[l]), pc[l] # "stasis", \A m \in W : ~Rdv(pc[m]),
         list' = Others(l), nrendezvoused' = nrendezvoused
  PROVE  Barrier'
<1> USE DEF Barrier
<1>1. "none" \in Pcs /\ ~Rdv("none")
  BY DEF Pcs, Rdv
<1>2. /\ pc' \in [Lwps -> Pcs] /\ pc'[l] = "none"
      /\ \A m \in Lwps \ (W \union {l}) : pc'[m] = pc[m]
      /\ \A m \in W \ {l} : pc'[m] # "none" /\ pc'[m] # "stasis" /\ ~Rdv(pc'[m])
  BY <1>1, Moved
<1>3. Places'
  BY <1>2 DEF Places, Others
<1>4. Rendezvoused' = Rendezvoused
  <2>1. \A m \in list \ {l} : Rdv(pc'[m]) <=> Rdv(pc[m])
    BY <1>2 DEF Places
  <2> QED BY <2>1, RendezvousedIs DEF Others
<1>5. \A m \in list' : pc'[m] # "stasis"
  BY <1>2, NobodyAtRest DEF Places, Others
<1> QED BY <1>3, <1>4, <1>5 DEF RendezvousedCount, StasisMeansStopped, At

(* One with which an LWP waits for the others, or has the process at rest. *)
LEMMA WaitingStep ==
  ASSUME Barrier, NEW l \in list, ~Rdv(pc[l]), pc[l] # "stasis", NEW W \in SUBSET list,
         GoWaking(l, WaitOrHave(l), W), \A m \in W : ~Rdv(pc[m]),
         list' = list, nrendezvoused' = nrendezvoused
  PROVE  Barrier'
<1>1. CASE nrendezvoused + 1 < Nlwp
  <2>1. WaitOrHave(l) = "rvwait" /\ ActivePc("rvwait")
    BY <1>1 DEF WaitOrHave, ActivePc, Pcs, Sleeping, Rdv
  <2> QED BY <2>1, QuietStep
<1>2. CASE ~(nrendezvoused + 1 < Nlwp)
  <2> USE DEF Barrier
  <2>1. WaitOrHave(l) = "stasis" /\ "stasis" \in Pcs
    BY <1>2 DEF WaitOrHave, Pcs
  <2>2. Rendezvoused = Others(l)
    BY <1>2, FullCount
  <2>3. \A m \in Lwps \ (W \union {l}) : pc'[m] = pc[m]
    BY <2>1, Moved
  <2>4. W \subseteq {l}
    BY <2>2, RendezvousedIs DEF Others
  <2>5. /\ pc' \in [Lwps -> Pcs] /\ pc'[l] = "stasis"
        /\ \A m \in Lwps \ {l} : pc'[m] = pc[m]
    BY <2>1, <2>3, <2>4, Moved
  <2>6. Places'
    BY <2>5 DEF Places
  <2>7. Rendezvoused' = Rendezvoused
    <3>1. \A m \in list : Rdv(pc'[m]) <=> Rdv(pc[m])
      BY <2>5 DEF Places, Rdv
    <3> QED BY <3>1, RendezvousedIs
  <2>8. \A m \in list : pc'[m] = "stasis" => m = l
    BY <2>5, NobodyAtRest DEF Places
  <2> QED BY <2>2, <2>6, <2>7, <2>8 DEF RendezvousedCount, StasisMeansStopped, At, Others
<1> QED BY <1>1, <1>2

(* One that moves no LWP, or one from where it runs to where it runs.      *)
LEMMA StillStep ==
  ASSUME Barrier, UNCHANGED <<list, nrendezvoused, pc>>
  PROVE  Barrier'
BY DEF Barrier, Places, RendezvousedCount, StasisMeansStopped, Rendezvoused, AllAt, At, Others

(* A move of one LWP alone, between places where it is not at rest.        *)
LEMMA GotoStep ==
  ASSUME Barrier, NEW l \in list, NEW p, ActivePc(p), Goto(l, p), ~Rdv(pc[l]),
         list' = list, nrendezvoused' = nrendezvoused
  PROVE  Barrier'
<1>1. GoWaking(l, p, {})
  BY GotoWakesNobody DEF Barrier, Places
<1> QED BY <1>1, QuietStep

(* An LWP that is somewhere is on the list.                                *)
LEMMA Listed ==
  ASSUME Places, NEW l \in Lwps, pc[l] # "none"
  PROVE  l \in list
BY DEF Places

(***************************************************************************)
(* rendezvous() and release_rendezvous().                                  *)
(***************************************************************************)
(* Posting the request.                                                    *)
LEMMA BarrierBegin ==
  ASSUME Barrier, NEW l \in list, ~Rdv(pc[l]), pc[l] # "stasis", Begin(l),
         list' = list, nrendezvoused' = nrendezvoused
  PROVE  Barrier'
<1>1. CASE Goto(l, WaitOrHave(l))
  <2>1. GoWaking(l, WaitOrHave(l), {})
    BY <1>1, GotoWakesNobody DEF Barrier, Places
  <2> QED BY <2>1, WaitingStep
<1>2. CASE GoWaking(l, WaitOrHave(l), RunForRendezvous(Others(l)))
  <2>1. RunForRendezvous(Others(l)) \subseteq list
        /\ \A m \in RunForRendezvous(Others(l)) : ~Rdv(pc[m])
    BY DEF RunForRendezvous, Others, Stopped, Rdv
  <2> QED BY <1>2, <2>1, WaitingStep
<1> QED BY <1>1, <1>2 DEF Begin

(* forkall().                                                              *)
LEMMA BarrierForkall ==
  ASSUME Barrier, NEW l \in Lwps, Forkall(l)
  PROVE  Barrier'
<1>1. pc[l] = "user" /\ list' = list /\ nrendezvoused' = nrendezvoused
  BY DEF Forkall, At, procVars
<1>2. l \in list
  BY <1>1, Listed DEF Barrier
<1>3. CASE Goto(l, "trap")
  BY <1>1, <1>2, <1>3, GotoStep DEF ActivePc, Pcs, Rdv
<1>4. CASE Begin(l)
  BY <1>1, <1>2, <1>4, BarrierBegin DEF Rdv
<1> QED BY <1>3, <1>4 DEF Forkall

(* core().                                                                 *)
LEMMA BarrierCore ==
  ASSUME Barrier, NEW l \in Lwps, Core(l)
  PROVE  Barrier'
<1>1. pc[l] = "trap" /\ list' = list /\ nrendezvoused' = nrendezvoused
  BY DEF Core, At, procVars
<1>2. l \in list
  BY <1>1, Listed DEF Barrier
<1>3. CASE Goto(l, "no core") \/ Goto(l, "destroy")
  BY <1>1, <1>2, <1>3, GotoStep DEF ActivePc, Pcs, Rdv, Panics
<1>4. CASE Begin(l)
  BY <1>1, <1>2, <1>4, BarrierBegin DEF Rdv
<1> QED BY <1>3, <1>4 DEF Core

(* Awake in rendezvous().                                                  *)
LEMMA BarrierWoken ==
  ASSUME Barrier, NEW l \in Lwps, RendezvousWoken(l)
  PROVE  Barrier'
<1>1. pc[l] = "rvwoken" /\ list' = list /\ nrendezvoused' = nrendezvoused
  BY DEF RendezvousWoken, At, procVars
<1>2. l \in list
  BY <1>1, Listed DEF Barrier
<1>3. CASE Failed(l)
  BY <1>1, <1>2, <1>3, GotoStep DEF ActivePc, Pcs, Rdv, Panics, Failed
<1>4. CASE Goto(l, WaitOrHave(l))
  <2>1. GoWaking(l, WaitOrHave(l), {})
    BY <1>4, GotoWakesNobody DEF Barrier, Places
  <2> QED BY <1>1, <1>2, <2>1, WaitingStep DEF Rdv
<1> QED BY <1>3, <1>4 DEF RendezvousWoken

(* release_rendezvous().                                                   *)
LEMMA BarrierRelease ==
  ASSUME Barrier, NEW l \in Lwps, Release(l)
  PROVE  Barrier'
<1>1. pc[l] = "stasis" /\ list' = list
  BY DEF Release, At, procVars
<1>2. l \in list /\ ~Rdv(pc[l])
  BY <1>1, Listed DEF Barrier, Rdv
<1>3. Rendezvoused = Others(l) /\ Rendezvoused \in SUBSET list
  BY <1>1, <1>2 DEF Barrier, StasisMeansStopped, At, Others
<1>4. ActivePc("partial release") /\ ActivePc("trap") /\ ActivePc("destroy")
  BY DEF ActivePc, Pcs, Rdv, Panics
<1>5. CASE Goto(l, "partial release") /\ nrendezvoused' = nrendezvoused
  BY <1>1, <1>2, <1>4, <1>5, GotoStep
<1>6. CASE GoWaking(l, "trap", Rendezvoused) \/ GoWaking(l, "destroy", Rendezvoused)
  <2>1. CASE Nlwp > 1 /\ nrendezvoused' = 0
    BY <1>1, <1>2, <1>3, <1>4, <1>6, <2>1, FreeingStep
  <2>2. CASE ~(Nlwp > 1) /\ nrendezvoused' = nrendezvoused
    <3>1. Cardinality(list) = Cardinality(Others(l)) + 1
          /\ Cardinality(Others(l)) \in Nat /\ IsFiniteSet(Others(l))
      BY <1>2, LwpsFinite, FS_RemoveElement DEF Others, Barrier, Places
    <3>2. Cardinality(Others(l)) = 0
      BY <2>2, <3>1 DEF Nlwp
    <3>3. Rendezvoused = {}
      BY <1>3, <3>1, <3>2, FS_EmptySet
    <3> QED BY <1>1, <1>2, <1>3, <1>4, <1>6, <2>2, <3>3, QuietStep
  <2> QED BY <1>1, <1>3, <1>6, <2>1, <2>2 DEF Release, Goto, GoWaking
<1> QED BY <1>5, <1>6 DEF Release

(***************************************************************************)
(* Aborting a rendezvous.                                                  *)
(***************************************************************************)
(* post_destroy() frees all that are blocked, or finds nobody to destroy.  *)
LEMMA BarrierPostDestroy ==
  ASSUME Barrier, NEW l \in list, ~Rdv(pc[l]), NEW all, NEW p, ActivePc(p),
         PostDestroy(l, all, p), list' = list
  PROVE  Barrier'
<1>1. CASE Abort(l) /\ GoWaking(l, p, Aborted \union Doomed(l))
  <2>1. Aborted \union Doomed(l) \in SUBSET list
    BY DEF Aborted, Rendezvoused, Initiators, AllAt, Doomed, Others
  <2>2. Rendezvoused \subseteq Aborted \union Doomed(l) /\ nrendezvoused' = 0
    BY <1>1 DEF Aborted, Abort
  <2> QED BY <1>1, <2>1, <2>2, FreeingStep
<1>2. CASE Goto(l, p) /\ nrendezvoused' = nrendezvoused
  BY <1>2, GotoStep
<1> QED BY <1>1, <1>2 DEF PostDestroy

(***************************************************************************)
(* The way out of a trap.                                                  *)
(***************************************************************************)
(* Steps of one LWP that neither blocks in a rendezvous nor wakes anybody. *)
LEMMA BarrierGoto ==
  ASSUME Barrier, NEW l \in Lwps, NEW p, ActivePc(p), Goto(l, p),
         pc[l] # "none", ~Rdv(pc[l]), list' = list, nrendezvoused' = nrendezvoused
  PROVE  Barrier'
BY GotoStep, Listed DEF Barrier

(* Into the kernel and out of it, and from psig() into exit().             *)
LEMMA BarrierTrap ==
  ASSUME Barrier, NEW l \in Lwps, Trap(l) \/ ReturnToUser(l) \/ PsigKill(l)
  PROVE  Barrier'
<1>1. /\ pc[l] # "none" /\ ~Rdv(pc[l]) /\ list' = list /\ nrendezvoused' = nrendezvoused
      /\ Goto(l, "trap") \/ Goto(l, "user") \/ Goto(l, "destroy")
  BY DEF Trap, ReturnToUser, PsigKill, At, procVars, Rdv
<1>2. ActivePc("trap") /\ ActivePc("user") /\ ActivePc("destroy")
  BY DEF ActivePc, Pcs, Rdv
<1> QED BY <1>1, <1>2, BarrierGoto

(* Blocking in psig().                                                     *)
LEMMA BarrierPsigRendezvous ==
  ASSUME Barrier, NEW l \in Lwps, PsigRendezvous(l)
  PROVE  Barrier'
<1>1. pc[l] = "trap" /\ list' = list /\ Rendezvous(l, "rendezvoused")
  BY DEF PsigRendezvous, At, procVars
<1> QED BY <1>1, JoiningStep, Listed DEF Rdv, Barrier

(* Released, or suspended.                                                 *)
LEMMA BarrierSuspended ==
  ASSUME Barrier, NEW l \in Lwps, PsigReleased(l) \/ IssigSuspend(l)
  PROVE  Barrier'
<1>1. /\ pc[l] = "released" \/ pc[l] = "trap"
      /\ list' = list /\ nrendezvoused' = nrendezvoused
      /\ Goto(l, "trap") \/ Goto(l, "suspended")
  BY DEF PsigReleased, IssigSuspend, At, procVars, StopSuspended
<1>2. ActivePc("trap") /\ ActivePc("suspended")
  BY DEF ActivePc, Pcs, Rdv, Stopped
<1> QED BY <1>1, <1>2, BarrierGoto DEF Rdv

(* A job control stop.                                                     *)
LEMMA BarrierJobstop ==
  ASSUME Barrier, NEW l \in Lwps, IssigJobstop(l)
  PROVE  Barrier'
<1>1. pc[l] = "trap" /\ list' = list /\ ActivePc("jobstopped")
  BY DEF IssigJobstop, At, ActivePc, Pcs, Stopped, Rdv
<1>2. l \in list /\ ~Rdv(pc[l])
  BY <1>1, Listed DEF Barrier, Rdv
<1>3. CASE Goto(l, "jobstopped") /\ nrendezvoused' = nrendezvoused
  BY <1>1, <1>2, <1>3, GotoStep
<1>4. CASE Abort(l) /\ GoWaking(l, "jobstopped", Aborted)
  <2>1. Aborted \in SUBSET list /\ Rendezvoused \subseteq Aborted /\ nrendezvoused' = 0
    BY <1>4 DEF Abort, Aborted, Rendezvoused, Initiators, AllAt
  <2> QED BY <1>1, <1>2, <1>4, <2>1, FreeingStep
<1> QED BY <1>3, <1>4 DEF IssigJobstop

(* SIGCONT.                                                                *)
LEMMA BarrierSigcont ==
  ASSUME Barrier, Sigcont
  PROVE  Barrier'
<1>1. \A m \in Lwps : pc'[m] = IF pc[m] = "jobstopped" THEN "trap" ELSE pc[m]
  BY DEF Sigcont, At
<1>2. pc' \in [Lwps -> Pcs] /\ list' = list /\ nrendezvoused' = nrendezvoused
  BY DEF Sigcont, At, Barrier, Places, Pcs
<1>3. Places'
  BY <1>1, <1>2 DEF Barrier, Places
<1>4. \A m \in list : (Rdv(pc'[m]) <=> Rdv(pc[m])) /\ (pc'[m] = "stasis" <=> pc[m] = "stasis")
  BY <1>1 DEF Rdv, Barrier, Places
<1>5. Rendezvoused' = Rendezvoused
  BY <1>2, <1>4, RendezvousedIs
<1> QED BY <1>2, <1>3, <1>4, <1>5
        DEF Barrier, RendezvousedCount, StasisMeansStopped, At, Others

(* A fatal signal.                                                         *)
LEMMA BarrierFatal ==
  ASSUME Barrier, NEW l \in Lwps, IssigKill(l) \/ IssigCore(l)
  PROVE  Barrier'
<1>1. pc[l] = "trap" /\ list' = list
  BY DEF IssigKill, IssigCore, At
<1>2. l \in list /\ ~Rdv(pc[l]) /\ pc[l] # "stasis"
  BY <1>1, Listed DEF Barrier, Rdv
<1>3. ActivePc("destroy in rendezvous") /\ ActivePc("trap")
  BY DEF ActivePc, Pcs, Panics, Rdv
<1>4. CASE Goto(l, "destroy in rendezvous") /\ nrendezvoused' = nrendezvoused
  BY <1>1, <1>2, <1>3, <1>4, GotoStep
<1>5. CASE PostDestroy(l, TRUE, "trap")
  BY <1>1, <1>2, <1>3, <1>5, BarrierPostDestroy
<1>6. CASE IssigCore(l) /\ ~Goto(l, "destroy in rendezvous")
  <2> DEFINE W == Doomed(l) \union IF l \in rendezv THEN Initiators ELSE {}
  <2>1. GoWaking(l, "trap", W) /\ nrendezvoused' = nrendezvoused
    BY <1>6 DEF IssigCore
  <2>2. W \in SUBSET list /\ \A m \in W : ~Rdv(pc[m])
    BY DEF Doomed, Others, Stopped, Initiators, AllAt, At, Rdv
  <2> QED BY <1>1, <1>2, <1>3, <2>1, <2>2, QuietStep
<1>7. CASE IssigCore(l) /\ Goto(l, "destroy in rendezvous")
  <2>1. nrendezvoused' = nrendezvoused
    BY <1>7 DEF IssigCore
  <2> QED BY <1>4, <1>7, <2>1
<1> QED BY <1>4, <1>5, <1>6, <1>7 DEF IssigKill

(***************************************************************************)
(* destroy_proc(), lwp_exit(), and the LWPs that come and go.              *)
(***************************************************************************)
(* The unlocked test, and what comes before the lock.                      *)
LEMMA BarrierDestroyTest ==
  ASSUME Barrier, NEW l \in Lwps, Exit(l) \/ Exec(l) \/ DestroyRead(l) \/ DestroyTest(l)
  PROVE  Barrier'
<1>1. /\ pc[l] = "user" \/ pc[l] = "destroy" \/ pc[l] = "test"
      /\ list' = list /\ nrendezvoused' = nrendezvoused
      /\ \E p \in {"destroy", "dlock", "test", "destroy in rendezvous"} : Goto(l, p)
  BY DEF Exit, Exec, DestroyRead, DestroyTest, At, procVars
<1>2. \A p \in {"destroy", "dlock", "test", "destroy in rendezvous"} : ActivePc(p)
  BY DEF ActivePc, Pcs, Panics, Rdv
<1> QED BY <1>1, <1>2, BarrierGoto DEF Rdv

(* Destroying under p_mutex.                                               *)
LEMMA BarrierDestroyLock ==
  ASSUME Barrier, NEW l \in Lwps, DestroyLock(l)
  PROVE  Barrier'
<1>1. pc[l] = "dlock" /\ list' = list /\ ~Rdv(pc[l]) /\ pc[l] # "none"
  BY DEF DestroyLock, At, Rdv
<1>2. \A p \in {"lwpexit", "trap", "dwoken", "dwait", "destroy in rendezvous"} : ActivePc(p)
  BY DEF ActivePc, Pcs, Panics, Rdv, Sleeping
<1>3. CASE PostDestroy(l, call[l] = "exit", IF Nlwp = 1 THEN "dwoken" ELSE "dwait")
  BY <1>1, <1>2, <1>3, BarrierPostDestroy, Listed DEF Barrier
<1>4. CASE nrendezvoused' = nrendezvoused
           /\ \E p \in {"lwpexit", "trap", "dwoken", "dwait", "destroy in rendezvous"} : Goto(l, p)
  BY <1>1, <1>2, <1>4, BarrierGoto
<1> QED BY <1>3, <1>4 DEF DestroyLock

(* The last LWP leaves, or goes on alone.                                  *)
LEMMA BarrierDestroyDone ==
  ASSUME Barrier, NEW l \in Lwps, DestroyDone(l)
  PROVE  Barrier'
<1>1. pc[l] = "dwoken" /\ nrendezvoused' = nrendezvoused
  BY DEF DestroyDone, At
<1>2. l \in list /\ ~Rdv(pc[l]) /\ pc[l] # "stasis" /\ pc[l] # "none"
  BY <1>1, Listed DEF Barrier, Rdv
<1>3. ActivePc("trap") /\ ActivePc("early wakeup")
  BY DEF ActivePc, Pcs, Panics, Rdv
<1>4. CASE Leave(l) /\ Goto(l, "none")
  <2>1. list' = Others(l) /\ GoWaking(l, "none", {})
    BY <1>4, GotoWakesNobody DEF Leave, Barrier, Places
  <2> QED BY <1>1, <1>2, <2>1, LeavingStep
<1>5. CASE list' = list /\ (Goto(l, "trap") \/ Goto(l, "early wakeup"))
  BY <1>1, <1>2, <1>3, <1>5, BarrierGoto
<1> QED BY <1>4, <1>5 DEF DestroyDone

(* An LWP leaves the list, or is the last one and destroys the process.    *)
LEMMA BarrierLeaveList ==
  ASSUME Barrier, NEW l \in list, ~Rdv(pc[l]), pc[l] # "stasis", LeaveList(l),
         nrendezvoused' = nrendezvoused
  PROVE  Barrier'
<1>1. CASE Goto(l, "destroy") /\ list' = list
  <2>1. ActivePc("destroy")
    BY DEF ActivePc, Pcs, Rdv
  <2> QED BY <1>1, <2>1, GotoStep
<1>2. CASE Nlwp # 1
  <2>1. PICK W1 \in SUBSET Initiators, W2 \in SUBSET AllAt("dwait") :
          GoWaking(l, "none", W1 \union W2)
    BY <1>2 DEF LeaveList, OneOf
  <2>2. W1 \union W2 \in SUBSET list /\ \A m \in W1 \union W2 : ~Rdv(pc[m])
    BY DEF Initiators, AllAt, At, Rdv
  <2>3. list' = Others(l)
    BY <1>2 DEF LeaveList, Leave
  <2> QED BY <2>1, <2>2, <2>3, LeavingStep
<1> QED BY <1>1, <1>2 DEF LeaveList

(* lwp_exit().                                                             *)
LEMMA BarrierLwpExit ==
  ASSUME Barrier, NEW l \in Lwps, LwpExit(l)
  PROVE  Barrier'
<1>1. pc[l] = "user" \/ pc[l] = "lwpexit" \/ pc[l] = "trap"
  BY DEF LwpExit, At
<1>2. l \in list /\ ~Rdv(pc[l]) /\ pc[l] # "stasis"
  BY <1>1, Listed DEF Barrier, Rdv
<1>3. CASE Rendezvous(l, "exrendezvoused") /\ list' = list
  BY <1>2, <1>3, JoiningStep DEF Rdv
<1>4. CASE LeaveList(l) /\ nrendezvoused' = nrendezvoused
  BY <1>2, <1>4, BarrierLeaveList
<1> QED BY <1>3, <1>4 DEF LwpExit

(* Awake in lwp_exit().                                                    *)
LEMMA BarrierLwpExitReleased ==
  ASSUME Barrier, NEW l \in Lwps, LwpExitReleased(l)
  PROVE  Barrier'
<1>1. pc[l] = "exreleased" /\ nrendezvoused' = nrendezvoused
  BY DEF LwpExitReleased, At
<1>2. l \in list /\ ~Rdv(pc[l]) /\ pc[l] # "stasis" /\ ActivePc("improper release")
  BY <1>1, Listed DEF Barrier, Rdv, ActivePc, Pcs, Panics
<1>3. CASE Goto(l, "improper release") /\ list' = list
  BY <1>1, <1>2, <1>3, GotoStep
<1>4. CASE LeaveList(l)
  BY <1>1, <1>2, <1>4, BarrierLeaveList
<1> QED BY <1>3, <1>4 DEF LwpExitReleased

(* A new LWP begins on its way out of a trap.                              *)
LEMMA BarrierNewLwp ==
  ASSUME Barrier, NEW l \in Lwps, NewLwp(l)
  PROVE  Barrier'
<1>1. PICK n \in Lwps \ list : list' = list \union {n} /\ Goto(n, "trap")
  BY DEF NewLwp
<1>2. pc[l] = "user" /\ l \in list /\ ~Rdv(pc[l]) /\ nrendezvoused' = nrendezvoused
  BY Listed DEF NewLwp, At, Barrier, Rdv
<1>3. pc' \in [Lwps -> Pcs] /\ \A m \in Lwps : pc'[m] = IF m = n THEN "trap" ELSE pc[m]
  BY <1>1 DEF Goto, Barrier, Places, Pcs
<1>4. Places'
  BY <1>1, <1>3 DEF Barrier, Places
<1>5. Rendezvoused' = Rendezvoused
  BY <1>1, <1>3, RendezvousedIs DEF Barrier, Places, Rdv
<1>6. \A m \in list' : pc'[m] # "stasis"
  BY <1>1, <1>2, <1>3, NobodyAtRest DEF Barrier, Places
<1> QED BY <1>2, <1>4, <1>5, <1>6 DEF Barrier, RendezvousedCount, StasisMeansStopped, At

(* An LWP suspends another one, or continues it.                           *)
LEMMA BarrierSuspendContinue ==
  ASSUME Barrier, NEW l \in Lwps, LwpSuspend(l) \/ LwpContinue(l)
  PROVE  Barrier'
<1>1. list' = list /\ nrendezvoused' = nrendezvoused
  BY DEF LwpSuspend, LwpContinue, procVars
<1>2. CASE UNCHANGED pc
  BY <1>1, <1>2, StillStep
<1>3. CASE LwpContinue(l) /\ ~UNCHANGED pc
  <2>1. PICK m \in suspend \union lSuspended : Goto(m, "trap") /\ pc[m] \in Stopped
    BY <1>3 DEF LwpContinue
  <2>2. CASE m \in Lwps
    <3>1. pc[m] # "none" /\ ~Rdv(pc[m]) /\ ActivePc("trap")
      BY <2>1 DEF Stopped, Rdv, ActivePc, Pcs
    <3> QED BY <1>1, <2>1, <2>2, <3>1, BarrierGoto
  <2>3. CASE m \notin Lwps
    <3>1. UNCHANGED pc
      BY <2>1, <2>3 DEF Goto, Barrier, Places
    <3> QED BY <1>3, <3>1
  <2> QED BY <2>2, <2>3
<1> QED BY <1>2, <1>3 DEF LwpSuspend

(* Every step keeps the barrier.                                           *)
LEMMA BarrierStep ==
  ASSUME Barrier, [Next]_vars
  PROVE  Barrier'
<1>1. CASE Sigcont
  BY <1>1, BarrierSigcont
<1>2. ASSUME NEW l \in Lwps, Calls(l)
      PROVE  Barrier'
  BY <1>2, BarrierForkall, BarrierDestroyTest, BarrierNewLwp, BarrierSuspendContinue,
     BarrierLwpExit DEF Calls
<1>3. ASSUME NEW l \in Lwps, Trap(l) \/ Signals(l)
      PROVE  Barrier'
  BY <1>3, BarrierTrap, BarrierFatal, BarrierJobstop DEF Signals
<1>4. ASSUME NEW l \in Lwps, InKernel(l)
      PROVE  Barrier'
  BY <1>4, BarrierTrap, BarrierPsigRendezvous, BarrierSuspended, BarrierJobstop, BarrierCore,
     BarrierWoken, BarrierRelease, BarrierDestroyTest, BarrierDestroyLock, BarrierDestroyDone,
     BarrierLwpExit, BarrierLwpExitReleased DEF InKernel
<1>5. CASE UNCHANGED vars
  BY <1>5, StillStep DEF vars, procVars
<1> QED BY <1>1, <1>2, <1>3, <1>4, <1>5 DEF Next

(***************************************************************************)
(* The types.                                                              *)
(***************************************************************************)
(* Every event, flag and stop is one of an LWP that there is.              *)
LEMMA FlagsLeave ==
  ASSUME Flags, NEW l \in Lwps, Leave(l)
  PROVE  Flags'
BY DEF Flags, Leave, Others

(* Posting the request to go.                                              *)
LEMMA FlagsPostDestroy ==
  ASSUME Flags, NEW l \in Lwps, NEW all, NEW p, PostDestroy(l, all, p), list' = list,
         UNCHANGED <<suspend, lSuspended>>
  PROVE  Flags'
BY DEF Flags, PostDestroy, PostDestroyEvent, Abort, Others

(* One lemma for the calls, one for the way out of a trap, one for         *)
(* destroy_proc() and lwp_exit().                                          *)
LEMMA FlagsCalls ==
  ASSUME Flags, Barrier, NEW l \in Lwps,
         \/ Forkall(l) \/ Core(l) \/ RendezvousWoken(l) \/ Release(l)
         \/ NewLwp(l) \/ LwpSuspend(l) \/ LwpContinue(l)
  PROVE  Flags'
<1>1. CASE Forkall(l) \/ Core(l)
  BY <1>1 DEF Forkall, Core, Begin, Flags, procVars, Others
<1>2. CASE RendezvousWoken(l) \/ Release(l)
  BY <1>2 DEF RendezvousWoken, Release, Flags, flagVars, evfVars, procVars, Others
<1>3. CASE NewLwp(l)
  BY <1>3 DEF NewLwp, InheritRequest, Inherit, Flags
<1>4. CASE LwpSuspend(l) \/ LwpContinue(l)
  BY <1>4 DEF LwpSuspend, LwpContinue, Flags, procVars
<1> QED BY <1>1, <1>2, <1>3, <1>4

(* The way out of a trap.                                                  *)
LEMMA FlagsTrap ==
  ASSUME Flags, Barrier, NEW l \in Lwps,
         \/ Trap(l) \/ ReturnToUser(l) \/ PsigRendezvous(l) \/ PsigReleased(l)
         \/ IssigSuspend(l) \/ IssigJobstop(l) \/ IssigKill(l) \/ IssigCore(l) \/ PsigKill(l)
  PROVE  Flags'
<1>1. CASE Trap(l) \/ ReturnToUser(l) \/ PsigRendezvous(l) \/ PsigKill(l)
  BY <1>1 DEF Trap, ReturnToUser, PsigRendezvous, PsigKill, Flags, flagVars, evfVars, procVars
<1>2. CASE PsigReleased(l) \/ IssigSuspend(l)
  <2>1. l \in list
    BY <1>2, Listed DEF PsigReleased, IssigSuspend, At, Barrier
  <2> QED BY <1>2, <2>1 DEF PsigReleased, IssigSuspend, StopSuspended, Flags, procVars
<1>3. CASE IssigJobstop(l)
  BY <1>3 DEF IssigJobstop, Abort, Flags, Others
<1>4. CASE IssigKill(l)
  <2>1. list' = list /\ UNCHANGED <<suspend, lSuspended>>
    BY <1>4 DEF IssigKill
  <2>2. CASE PostDestroy(l, TRUE, "trap")
    BY <2>1, <2>2, FlagsPostDestroy
  <2>3. CASE UNCHANGED <<rendezv, destroy, jobstop>>
    BY <2>1, <2>3 DEF Flags
  <2> QED BY <1>4, <2>2, <2>3 DEF IssigKill
<1>5. CASE IssigCore(l)
  BY <1>5 DEF IssigCore, PostDestroyEvent, TakeOver, Flags, Others
<1> QED BY <1>1, <1>2, <1>3, <1>4, <1>5

(* Destroying, leaving, and new LWPs.                                      *)
LEMMA FlagsDestroy ==
  ASSUME Flags, Barrier, NEW l \in Lwps,
         \/ Exit(l) \/ Exec(l) \/ DestroyRead(l) \/ DestroyTest(l) \/ DestroyLock(l)
         \/ DestroyDone(l) \/ LwpExit(l) \/ LwpExitReleased(l)
  PROVE  Flags'
<1>1. CASE Exit(l) \/ Exec(l) \/ DestroyRead(l) \/ DestroyTest(l)
  BY <1>1 DEF Exit, Exec, DestroyRead, DestroyTest, Flags, flagVars, evfVars, procVars
<1>2. CASE DestroyLock(l)
  <2>1. list' = list /\ UNCHANGED <<suspend, lSuspended>>
    BY <1>2 DEF DestroyLock
  <2>2. CASE PostDestroy(l, call[l] = "exit", IF Nlwp = 1 THEN "dwoken" ELSE "dwait")
    BY <2>1, <2>2, FlagsPostDestroy
  <2>3. CASE UNCHANGED <<rendezv, destroy, jobstop>>
    BY <2>1, <2>3 DEF Flags
  <2> QED BY <1>2, <2>2, <2>3 DEF DestroyLock
<1>3. CASE DestroyDone(l)
  BY <1>3, FlagsLeave DEF DestroyDone, Flags, flagVars, evfVars
<1>4. ASSUME LeaveList(l), UNCHANGED nrendezvoused, pc[l] # "none"
      PROVE  Flags'
  <2>1. l \in list
    BY <1>4, Listed DEF Barrier
  <2> QED BY <1>4, <2>1, FlagsLeave DEF LeaveList, Flags
<1>5. CASE LwpExit(l)
  <2>1. pc[l] # "none" /\ l \in list
    BY <1>5, Listed DEF LwpExit, At, Barrier
  <2>2. CASE LeaveList(l) /\ UNCHANGED nrendezvoused
    BY <1>4, <2>1, <2>2
  <2>3. CASE ~LeaveList(l) \/ ~UNCHANGED nrendezvoused
    BY <1>5, <2>1, <2>3 DEF LwpExit, Flags
  <2> QED BY <2>2, <2>3
<1>6. CASE LwpExitReleased(l)
  <2>1. pc[l] # "none" /\ UNCHANGED nrendezvoused
    BY <1>6 DEF LwpExitReleased, At
  <2>2. CASE LeaveList(l)
    BY <1>4, <2>1, <2>2
  <2>3. CASE UNCHANGED <<list, flagVars>>
    BY <2>3 DEF Flags, flagVars, evfVars
  <2> QED BY <1>6, <2>2, <2>3 DEF LwpExitReleased
<1> QED BY <1>1, <1>2, <1>3, <1>5, <1>6

(* What an LWP keeps for itself, and p_flag and p_sigjobstop.              *)
LEMMA CountType ==
  ASSUME Barrier
  PROVE  nrendezvoused \in 0 .. Cardinality(Lwps)
<1>1. Rendezvoused \in SUBSET Lwps
  BY RendezvousedIs DEF Barrier, Places
<1> QED BY <1>1, LwpsFinite DEF Barrier, RendezvousedCount

(* What an LWP keeps for itself.                                           *)
LEMMA OwnStep ==
  ASSUME Own, Barrier, Next
  PROVE  Own'
<1> USE DEF Own, BeginCall
<1>1. CASE Sigcont
  BY <1>1 DEF Sigcont, ownVars
<1>2. ASSUME NEW l \in Lwps, Calls(l)
      PROVE  Own'
  <2>1. CASE Forkall(l)
    BY <2>1 DEF Forkall
  <2>2. CASE Exit(l) \/ Exec(l)
    BY <2>2 DEF Exit, Exec
  <2>3. CASE NewLwp(l) \/ LwpSuspend(l) \/ LwpContinue(l)
    BY <2>3 DEF NewLwp, LwpSuspend, LwpContinue, ownVars
  <2>4. CASE LwpExit(l)
    BY <2>4 DEF LwpExit, LeaveList, Leave
  <2> QED BY <1>2, <2>1, <2>2, <2>3, <2>4 DEF Calls
<1>3. ASSUME NEW l \in Lwps, Trap(l) \/ Signals(l)
      PROVE  Own'
  BY <1>3 DEF Trap, Signals, IssigKill, IssigCore, IssigJobstop, ownVars
<1>4. ASSUME NEW l \in Lwps, InKernel(l)
      PROVE  Own'
  <2>1. CASE ReturnToUser(l) \/ PsigRendezvous(l) \/ PsigReleased(l) \/ IssigSuspend(l)
    BY <2>1 DEF ReturnToUser, PsigRendezvous, PsigReleased, IssigSuspend, ownVars
  <2>2. CASE PsigKill(l) \/ IssigJobstop(l) \/ RendezvousWoken(l)
    BY <2>2 DEF PsigKill, IssigJobstop, RendezvousWoken, ownVars
  <2>3. CASE Core(l) \/ Release(l)
    BY <2>3 DEF Core, Release
  <2>4. CASE DestroyRead(l) \/ DestroyTest(l)
    <3>1. nrendezvoused \in 0 .. Cardinality(Lwps) /\ 0 \in 0 .. Cardinality(Lwps)
      BY CountType, RendezvousAssumption, FS_CardinalityType
    <3>2. /\ UNCHANGED <<cursig, call>>
          /\ \E n \in 0 .. Cardinality(Lwps) : seen' = [seen EXCEPT ![l] = n]
      BY <2>4, <3>1 DEF DestroyRead, DestroyTest
    <3> QED BY <3>2
  <2>5. CASE DestroyLock(l) \/ DestroyDone(l)
    BY <2>5 DEF DestroyLock, DestroyDone, Leave, ownVars
  <2>6. CASE LwpExit(l) \/ LwpExitReleased(l)
    BY <2>6 DEF LwpExit, LwpExitReleased, LeaveList, Leave
  <2> QED BY <1>4, <2>1, <2>2, <2>3, <2>4, <2>5, <2>6 DEF InKernel
<1> QED BY <1>1, <1>2, <1>3, <1>4 DEF Next

(* What the process keeps.                                                 *)
LEMMA BoolsStep ==
  ASSUME Bools, Next
  PROVE  Bools'
<1> USE DEF Bools
<1>1. CASE Sigcont
  BY <1>1 DEF Sigcont
<1>2. ASSUME NEW l \in Lwps, Calls(l)
      PROVE  Bools'
  BY <1>2 DEF Calls, Forkall, Exit, Exec, NewLwp, LwpSuspend, LwpContinue, LwpExit, procVars
<1>3. ASSUME NEW l \in Lwps, Trap(l) \/ Signals(l)
      PROVE  Bools'
  BY <1>3 DEF Trap, Signals, IssigKill, IssigCore, IssigJobstop, PostDestroy, procVars
<1>4. ASSUME NEW l \in Lwps, InKernel(l)
      PROVE  Bools'
  <2>1. CASE DestroyLock(l)
    <3>1. pDestroy' \in BOOLEAN /\ UNCHANGED sigjobstop
      BY <2>1 DEF DestroyLock, PostDestroy
    <3> QED BY <3>1
  <2>2. CASE ReturnToUser(l) \/ PsigRendezvous(l) \/ PsigReleased(l) \/ IssigSuspend(l)
              \/ PsigKill(l) \/ IssigJobstop(l) \/ RendezvousWoken(l) \/ Core(l) \/ Release(l)
    BY <2>2 DEF ReturnToUser, PsigRendezvous, PsigReleased, IssigSuspend, PsigKill,
                IssigJobstop, RendezvousWoken, Core, Release, procVars
  <2>3. CASE DestroyRead(l) \/ DestroyTest(l) \/ DestroyDone(l) \/ LwpExit(l)
              \/ LwpExitReleased(l)
    BY <2>3 DEF DestroyRead, DestroyTest, DestroyDone, LwpExit, LwpExitReleased, procVars
  <2> QED BY <1>4, <2>1, <2>2, <2>3 DEF InKernel
<1> QED BY <1>1, <1>2, <1>3, <1>4 DEF Next

(* A mishap is never forgotten.                                            *)
OneMore == \/ mishaps' = mishaps \/ mishaps' = mishaps \union {"own"}
           \/ mishaps' = mishaps \union {"core"} \/ mishaps' = mishaps \union {"test"}
LEMMA MishapsStay ==
  ASSUME [Next]_vars
  PROVE  /\ mishaps \subseteq mishaps'
         /\ mishaps' \subseteq mishaps \union {"own", "core", "test"}
<1> SUFFICES OneMore
  BY DEF OneMore
<1> USE DEF Note, OneMore
<1>1. CASE UNCHANGED vars
  BY <1>1 DEF vars
<1>2. CASE Sigcont
  BY <1>2 DEF Sigcont
<1>3. ASSUME NEW l \in Lwps, Trap(l) \/ Calls(l) \/ Signals(l)
      PROVE  OneMore
  <2>1. CASE Trap(l) \/ Calls(l)
    BY <2>1 DEF Trap, Calls, Forkall, Exit, Exec, NewLwp, LwpSuspend, LwpContinue, LwpExit
  <2>2. CASE Signals(l)
    BY <2>2 DEF Signals, IssigKill, IssigCore, IssigJobstop
  <2> QED BY <1>3, <2>1, <2>2
<1>4. ASSUME NEW l \in Lwps, InKernel(l)
      PROVE  OneMore
  <2>1. CASE ReturnToUser(l) \/ PsigRendezvous(l) \/ PsigReleased(l) \/ PsigKill(l)
              \/ IssigSuspend(l) \/ RendezvousWoken(l) \/ Release(l) \/ DestroyRead(l)
              \/ DestroyDone(l) \/ LwpExit(l) \/ LwpExitReleased(l)
    BY <2>1 DEF ReturnToUser, PsigRendezvous, PsigReleased, PsigKill, IssigSuspend,
                RendezvousWoken, Release, DestroyRead, DestroyDone, LwpExit, LwpExitReleased
  <2>2. CASE IssigJobstop(l) \/ Core(l) \/ DestroyTest(l) \/ DestroyLock(l)
    BY <2>2 DEF IssigJobstop, Core, DestroyTest, DestroyLock
  <2> QED BY <1>4, <2>1, <2>2 DEF InKernel
<1> QED BY <1>1, <1>2, <1>3, <1>4 DEF Next

(***************************************************************************)
(* The theorems.                                                           *)
(***************************************************************************)
(* At the start nobody is blocked.                                         *)
LEMMA InvInit == Init => Inv
<1> SUFFICES ASSUME Init PROVE Inv
  OBVIOUS
<1> USE DEF Init
<1>1. Flags /\ Bools /\ History
  BY DEF Flags, Bools, History
<1>2. Own
  <2>1. 0 \in 0 .. Cardinality(Lwps)
    BY RendezvousAssumption, FS_CardinalityType
  <2> QED BY <2>1 DEF Own
<1>3. Places
  BY RendezvousAssumption DEF Places, Pcs
<1>4. \A l \in list : pc[l] = "user"
  BY RendezvousAssumption
<1>5. RendezvousedCount
  <2>1. Rendezvoused = {}
    BY <1>4, RendezvousedIs DEF Rdv
  <2> QED BY <2>1, FS_EmptySet DEF RendezvousedCount
<1>6. StasisMeansStopped
  BY <1>4 DEF StasisMeansStopped, At
<1> QED BY <1>1, <1>2, <1>3, <1>5, <1>6 DEF Inv, Typed, Barrier

(* Every step.                                                             *)
LEMMA InvStep == Inv /\ [Next]_vars => Inv'
<1> SUFFICES ASSUME Inv, [Next]_vars PROVE Inv'
  OBVIOUS
<1>1. Barrier' /\ History'
  BY BarrierStep, MishapsStay DEF Inv, Typed, History
<1>2. CASE UNCHANGED vars
  BY <1>1, <1>2
     DEF Inv, Typed, Flags, Own, Bools, vars, procVars, flagVars, evfVars, ownVars
<1>3. CASE Next
  <2>1. Flags'
    <3>1. CASE Sigcont
      BY <3>1 DEF Sigcont, Inv, Typed, Flags
    <3>2. ASSUME NEW l \in Lwps, Trap(l) \/ Calls(l) \/ Signals(l) \/ InKernel(l)
          PROVE  Flags'
      BY <3>2, FlagsCalls, FlagsTrap, FlagsDestroy DEF Inv, Typed, Calls, Signals, InKernel
    <3> QED BY <1>3, <3>1, <3>2 DEF Next
  <2> QED BY <1>1, <1>3, <2>1, OwnStep, BoolsStep DEF Inv, Typed
<1> QED BY <1>2, <1>3

(* So the invariant holds throughout.                                      *)
LEMMA SpecInv == Spec => []Inv
BY InvInit, InvStep, PTL DEF Spec

(* Every variable has its type in every reachable state: each event that   *)
(* is pending is one of an LWP that there is, and the count is in bounds.  *)
THEOREM RendezvousTypeOK == Spec => []TypeOK
<1>1. Inv => TypeOK
  <2> SUFFICES ASSUME Inv PROVE TypeOK
    OBVIOUS
  <2> QED BY CountType DEF Inv, Typed, Flags, Own, Bools, History, Barrier, Places, TypeOK
<1> QED BY <1>1, SpecInv, PTL

(* p_nrendezvoused is exact, through aborts, takeovers and exits.          *)
THEOREM RendezvousCountIsExact == Spec => []RendezvousedCount
<1>1. Inv => RendezvousedCount
  BY DEF Inv, Barrier
<1> QED BY <1>1, SpecInv, PTL

(* Who has the process at rest has all other LWPs blocked.                 *)
THEOREM RestIsRest == Spec => []StasisMeansStopped
<1>1. Inv => StasisMeansStopped
  BY DEF Inv, Barrier
<1> QED BY <1>1, SpecInv, PTL

(***************************************************************************)
(* Who destroys the process.  At most one LWP is not told to go once the   *)
(* process is to end, and it is on its way to exit(); at most one waits    *)
(* until it is alone.                                                      *)
(***************************************************************************)
DPc(p) == p = "dwait" \/ p = "dwoken"
ExitPc(p) == \/ p = "destroy" \/ p = "test" \/ p = "dlock" \/ p = "dwait" \/ p = "dwoken"
             \/ p = "lwpexit" \/ p = "exrendezvoused" \/ p = "exreleased"
             \/ p = "destroy in rendezvous" \/ p = "improper release"
OthersTold == \A l \in list : DPc(pc[l]) => Others(l) \subseteq destroy
OneNotTold == pDestroy => \A l, m \in list \ destroy : l = m
OnItsWay == pDestroy => \A l \in list \ destroy : cursig[l] # "none" \/ call[l] = "exit"
WokenAlone == \A l \in list : pc[l] = "dwoken" => list = {l}
OneWaits == \A l, m \in list : DPc(pc[l]) /\ DPc(pc[m]) => l = m
InExit == \A l \in Lwps : call[l] = "exit" => ExitPc(pc[l])
InKernelWithSignal == \A l \in list : cursig[l] # "none" => pc[l] # "user"
DestroyInv == /\ OthersTold /\ OneNotTold /\ OnItsWay /\ WokenAlone /\ OneWaits
              /\ InExit /\ InKernelWithSignal

(* What a step of l leaves of the others, unless it ends the wait of the   *)
(* one that destroys the process.                                          *)
Steady(l) == \A m \in Lwps \ {l} :
  /\ DPc(pc'[m]) <=> DPc(pc[m])
  /\ pc'[m] = "dwoken" => pc[m] = "dwoken"
  /\ ExitPc(pc[m]) => ExitPc(pc'[m])
  /\ pc'[m] = "user" => pc[m] = "user"
  /\ call'[m] = call[m] /\ cursig'[m] = cursig[m]

MayWake(q) == \/ q = "rvwait" \/ q = "rendezvoused" \/ q = "exrendezvoused"
              \/ q = "jobstopped" \/ q = "suspended"

(* A move that wakes nobody who waits to destroy the process.              *)
LEMMA SteadyWaking ==
  ASSUME Places, NEW l \in list, NEW p \in Pcs, NEW W \in SUBSET list, GoWaking(l, p, W),
         \A m \in W : MayWake(pc[m]),
         \A m \in Lwps \ {l} : call'[m] = call[m] /\ cursig'[m] = cursig[m]
  PROVE  Steady(l) /\ pc'[l] = p
<1>1. /\ pc'[l] = p
      /\ \A m \in Lwps \ (W \union {l}) : pc'[m] = pc[m]
      /\ \A m \in W \ {l} : pc'[m] = After(pc[m])
  BY Moved
<1>2. \A m \in W \ {l} : /\ ~DPc(pc'[m]) /\ ~DPc(pc[m]) /\ pc'[m] # "user"
                         /\ ExitPc(pc[m]) => ExitPc(pc'[m])
  BY <1>1 DEF MayWake, After, DPc, ExitPc
<1> QED BY <1>1, <1>2 DEF Steady, Places, DPc

(* Steps that tell others to go leave the rest as it is.                   *)
Quiet(l) ==
  /\ l \in list /\ Steady(l) /\ list' = list /\ pDestroy' = pDestroy /\ destroy \subseteq destroy'
  /\ cursig'[l] = cursig[l] /\ (call[l] = "exit" => call'[l] = "exit")
  /\ DPc(pc'[l]) => DPc(pc[l])
  /\ pc'[l] = "dwoken" => pc[l] = "dwoken"
  /\ call'[l] = "exit" => ExitPc(pc'[l])
  /\ pc'[l] = "user" => cursig[l] = "none"

(* They keep what is known of the others.                                  *)
LEMMA QuietDestroyInv ==
  ASSUME Places, DestroyInv, NEW l, Quiet(l)
  PROVE  DestroyInv'
<1> USE DEF DestroyInv, Quiet, Steady, Places
<1>1. OthersTold' /\ WokenAlone' /\ OneWaits'
  BY DEF OthersTold, WokenAlone, OneWaits, Others
<1>2. OneNotTold' /\ OnItsWay'
  BY DEF OneNotTold, OnItsWay
<1>3. InExit' /\ InKernelWithSignal'
  BY DEF InExit, InKernelWithSignal
<1> QED BY <1>1, <1>2, <1>3

(* The one that tells all others is the one that is left.                  *)
LEMMA PostingDestroyInv ==
  ASSUME Places, DestroyInv, NEW l \in list, Steady(l), list' = list,
         destroy' = destroy \union Others(l),
         pDestroy' /\ l \notin destroy => cursig'[l] # "none" \/ call'[l] = "exit",
         call'[l] = "exit" => ExitPc(pc'[l]), pc'[l] # "user",
         pc'[l] = "dwoken" => list = {l},
         DPc(pc'[l]) => \A m \in list \ {l} : ~DPc(pc[m])
  PROVE  DestroyInv'
<1> USE DEF DestroyInv, Steady, Others, Places
<1>1. OthersTold' /\ WokenAlone' /\ OneWaits'
  BY DEF OthersTold, WokenAlone, OneWaits
<1>2. OneNotTold' /\ OnItsWay'
  BY DEF OneNotTold, OnItsWay
<1>3. InExit' /\ InKernelWithSignal'
  BY DEF InExit, InKernelWithSignal
<1> QED BY <1>1, <1>2, <1>3

(* Being alone.                                                            *)
LEMMA Alone ==
  ASSUME Places, NEW l \in list
  PROVE  Nlwp \in Nat /\ Nlwp >= 1 /\ (Nlwp = 1 <=> list = {l})
<1>1. IsFiniteSet(list) /\ IsFiniteSet(list \ {l}) /\ Nlwp \in Nat
      /\ Cardinality(list \ {l}) \in Nat
  BY LwpsFinite DEF Places, Nlwp
<1>2. Cardinality(list \ {l}) = Nlwp - 1
  BY <1>1, FS_RemoveElement DEF Nlwp
<1>3. Cardinality(list \ {l}) = 0 <=> list \ {l} = {}
  BY <1>1, FS_EmptySet
<1> QED BY <1>1, <1>2, <1>3

(* A call that is begun or ended, and one that goes on.                    *)
LEMMA CallOfOne ==
  ASSUME Own, NEW l \in Lwps, NEW c, BeginCall(l, c)
  PROVE  call'[l] = c /\ \A m \in Lwps \ {l} : call'[m] = call[m]
BY DEF Own, BeginCall

(* A move that wakes nobody.                                               *)
LEMMA SteadyGoto ==
  ASSUME Places, NEW l \in list, NEW p \in Pcs, Goto(l, p),
         \A m \in Lwps \ {l} : call'[m] = call[m] /\ cursig'[m] = cursig[m]
  PROVE  Steady(l) /\ pc'[l] = p
<1>1. GoWaking(l, p, {})
  BY GotoWakesNobody DEF Places
<1> QED BY <1>1, SteadyWaking

(* Those whom an abort, a takeover or a rendezvous makes run.              *)
LEMMA WokenSets ==
  ASSUME Places, NEW l \in list
  PROVE  /\ Aborted \in SUBSET list /\ \A m \in Aborted : MayWake(pc[m])
         /\ Doomed(l) \in SUBSET list /\ \A m \in Doomed(l) : MayWake(pc[m])
         /\ Initiators \in SUBSET list /\ \A m \in Initiators : MayWake(pc[m])
         /\ Rendezvoused \in SUBSET list /\ \A m \in Rendezvoused : MayWake(pc[m])
         /\ RunForRendezvous(Others(l)) \in SUBSET list
         /\ \A m \in RunForRendezvous(Others(l)) : MayWake(pc[m])
BY DEF Aborted, Doomed, Initiators, Rendezvoused, AllAt, At, RunForRendezvous, Others, Stopped,
       MayWake

(* Every program counter that a step names is one.                         *)
LEMMA PcNames ==
  /\ "user" \in Pcs /\ "trap" \in Pcs /\ "rvwoken" \in Pcs /\ "stasis" \in Pcs
  /\ "released" \in Pcs /\ "destroy" \in Pcs /\ "test" \in Pcs /\ "dlock" \in Pcs
  /\ "dwoken" \in Pcs /\ "lwpexit" \in Pcs /\ "exreleased" \in Pcs /\ "rvwait" \in Pcs
  /\ "rendezvoused" \in Pcs /\ "exrendezvoused" \in Pcs /\ "dwait" \in Pcs
  /\ "jobstopped" \in Pcs /\ "suspended" \in Pcs /\ "partial release" \in Pcs
  /\ "early wakeup" \in Pcs /\ "no core" \in Pcs /\ "improper release" \in Pcs
  /\ "destroy in rendezvous" \in Pcs /\ "none" \in Pcs
BY DEF Pcs, Sleeping, Stopped, Panics

(***************************************************************************)
(* The steps.                                                              *)
(***************************************************************************)
(* Begin, from forkall() and core().                                       *)
LEMMA SteadyBegin ==
  ASSUME Places, NEW l \in list, Begin(l),
         \A m \in Lwps \ {l} : call'[m] = call[m] /\ cursig'[m] = cursig[m]
  PROVE  Steady(l) /\ (pc'[l] = "rvwait" \/ pc'[l] = "stasis")
<1>1. WaitOrHave(l) \in Pcs /\ (WaitOrHave(l) = "rvwait" \/ WaitOrHave(l) = "stasis")
  BY PcNames DEF WaitOrHave
<1>2. CASE Goto(l, WaitOrHave(l))
  BY <1>1, <1>2, SteadyGoto
<1>3. CASE GoWaking(l, WaitOrHave(l), RunForRendezvous(Others(l)))
  BY <1>1, <1>3, SteadyWaking, WokenSets
<1> QED BY <1>2, <1>3 DEF Begin

(* rendezvous(), from forkall() and from core().                           *)
LEMMA DestroyForkallCore ==
  ASSUME Typed, Places, DestroyInv, NEW l \in Lwps, Forkall(l) \/ Core(l)
  PROVE  DestroyInv'
<1>1. /\ pc[l] = "user" \/ pc[l] = "trap"
      /\ list' = list /\ destroy' = destroy /\ pDestroy' = pDestroy /\ cursig' = cursig
  BY DEF Forkall, Core, At, procVars
<1>2. l \in list
  BY <1>1, Listed
<1>3. call[l] # "exit"
  BY <1>1, <1>2 DEF DestroyInv, InExit, ExitPc
<1>4. PICK c \in {"none", "forkall", "exit"} : BeginCall(l, c) /\ (c = "exit" => Goto(l, "destroy"))
  BY DEF Forkall, Core
<1>5. call'[l] = c /\ \A m \in Lwps \ {l} : call'[m] = call[m] /\ cursig'[m] = cursig[m]
  BY <1>1, <1>4, CallOfOne DEF Typed, Places
<1>6. Steady(l) /\ \/ pc'[l] = "rvwait" \/ pc'[l] = "stasis" \/ pc'[l] = "trap"
                   \/ pc'[l] = "no core" \/ pc'[l] = "destroy"
  <2>1. CASE Goto(l, "trap") \/ Goto(l, "no core") \/ Goto(l, "destroy")
    BY <1>2, <1>5, <2>1, SteadyGoto, PcNames
  <2>2. CASE Begin(l)
    BY <1>2, <1>5, <2>2, SteadyBegin
  <2> QED BY <2>1, <2>2 DEF Forkall, Core
<1>7. c = "exit" => pc'[l] = "destroy"
  BY <1>2, <1>4, <1>5, SteadyGoto, PcNames
<1>8. Quiet(l)
  BY <1>1, <1>2, <1>3, <1>5, <1>6, <1>7 DEF Quiet, DPc, ExitPc
<1> QED BY <1>8, QuietDestroyInv

(* Awake in rendezvous(), and release_rendezvous().                        *)
LEMMA DestroyWokenRelease ==
  ASSUME Typed, Places, DestroyInv, NEW l \in Lwps, RendezvousWoken(l) \/ Release(l)
  PROVE  DestroyInv'
<1>1. /\ pc[l] = "rvwoken" \/ pc[l] = "stasis"
      /\ list' = list /\ destroy' = destroy /\ pDestroy' = pDestroy /\ cursig' = cursig
  BY DEF RendezvousWoken, Release, At, procVars, flagVars, evfVars, ownVars
<1>2. l \in list /\ call[l] # "exit"
  BY <1>1, Listed DEF DestroyInv, InExit, ExitPc
<1>3. CASE RendezvousWoken(l)
  <2>1. call' = call
    BY <1>3 DEF RendezvousWoken, ownVars
  <2>2. \E p \in {"trap", "no core", "rvwait", "stasis"} : Goto(l, p)
    BY <1>3 DEF RendezvousWoken, Failed, WaitOrHave
  <2>3. Steady(l) /\ pc'[l] \in {"trap", "no core", "rvwait", "stasis"}
    BY <1>1, <1>2, <2>1, <2>2, SteadyGoto, PcNames
  <2>4. Quiet(l)
    BY <1>1, <1>2, <2>1, <2>3 DEF Quiet, DPc
  <2> QED BY <2>4, QuietDestroyInv
<1>4. CASE Release(l) /\ call' = call
  <2>1. Goto(l, "partial release") \/ GoWaking(l, "destroy", Rendezvoused)
        \/ GoWaking(l, "trap", Rendezvoused)
    BY <1>4 DEF Release
  <2>2. Steady(l) /\ (pc'[l] = "partial release" \/ pc'[l] = "destroy" \/ pc'[l] = "trap")
    BY <1>1, <1>2, <1>4, <2>1, SteadyGoto, SteadyWaking, WokenSets, PcNames
  <2>3. Quiet(l)
    BY <1>1, <1>2, <1>4, <2>2 DEF Quiet, DPc
  <2> QED BY <2>3, QuietDestroyInv
<1>5. CASE Release(l) /\ call' # call
  <2>1. \/ BeginCall(l, "none") /\ GoWaking(l, "trap", Rendezvoused)
        \/ BeginCall(l, "exit") /\ GoWaking(l, "destroy", Rendezvoused)
    BY <1>5 DEF Release
  <2>2. \A m \in Lwps \ {l} : call'[m] = call[m] /\ cursig'[m] = cursig[m]
    BY <1>1, <2>1, CallOfOne DEF Typed, Places
  <2>3. \/ call'[l] = "none" /\ pc'[l] = "trap" /\ Steady(l)
        \/ call'[l] = "exit" /\ pc'[l] = "destroy" /\ Steady(l)
    BY <1>2, <2>1, <2>2, CallOfOne, SteadyWaking, WokenSets, PcNames DEF Typed
  <2>4. Quiet(l)
    BY <1>1, <1>2, <2>3 DEF Quiet, DPc, ExitPc
  <2> QED BY <2>4, QuietDestroyInv
<1> QED BY <1>3, <1>4, <1>5

(* The steps of one LWP on its way out of a trap, and what they have in    *)
(* common: nobody is told to go.                                           *)
LEMMA DestroyGoto ==
  ASSUME Places, DestroyInv, NEW l \in Lwps, NEW p \in Pcs, Goto(l, p), pc[l] # "none",
         UNCHANGED <<list, pDestroy, destroy, cursig, call>>,
         call[l] = "exit" => ExitPc(p), p = "user" => cursig[l] = "none", ~DPc(p)
  PROVE  DestroyInv'
<1>1. l \in list /\ Steady(l) /\ pc'[l] = p
  BY Listed, SteadyGoto
<1>2. Quiet(l)
  BY <1>1 DEF Quiet, DPc
<1> QED BY <1>2, QuietDestroyInv

(* The way out of a trap that does not block in a rendezvous.              *)
LEMMA DestroyTrap ==
  ASSUME Typed, Places, DestroyInv, NEW l \in Lwps,
         Trap(l) \/ ReturnToUser(l) \/ PsigReleased(l) \/ IssigSuspend(l)
  PROVE  DestroyInv'
<1>1. /\ pc[l] = "user" \/ pc[l] = "trap" \/ pc[l] = "released"
      /\ UNCHANGED <<list, pDestroy, destroy, cursig, call>>
      /\ Goto(l, "trap") \/ Goto(l, "suspended") \/ (Goto(l, "user") /\ cursig[l] = "none")
  BY DEF Trap, ReturnToUser, PsigReleased, IssigSuspend, At, procVars, flagVars, evfVars,
         ownVars, StopSuspended, Pending
<1>2. call[l] # "exit"
  BY <1>1, Listed DEF DestroyInv, InExit, ExitPc
<1> QED BY <1>1, <1>2, DestroyGoto, PcNames DEF DPc

(* The ways into exit() and exec().                                        *)
LEMMA DestroyPsigKill ==
  ASSUME Typed, Places, DestroyInv, NEW l \in Lwps, PsigKill(l) \/ Exit(l) \/ Exec(l)
  PROVE  DestroyInv'
<1>1. /\ pc[l] = "user" \/ pc[l] = "trap"
      /\ UNCHANGED <<list, pDestroy, destroy, cursig>> /\ Goto(l, "destroy")
      /\ BeginCall(l, "exit") \/ BeginCall(l, "exec")
  BY DEF PsigKill, Exit, Exec, At, procVars, flagVars, evfVars
<1>2. l \in list /\ call[l] # "exit"
  BY <1>1, Listed DEF DestroyInv, InExit, ExitPc
<1>3. \A m \in Lwps \ {l} : call'[m] = call[m] /\ cursig'[m] = cursig[m]
  BY <1>1, CallOfOne DEF Typed, Places
<1>4. Steady(l) /\ pc'[l] = "destroy"
  BY <1>1, <1>2, <1>3, SteadyGoto, PcNames
<1>5. Quiet(l)
  BY <1>1, <1>2, <1>4 DEF Quiet, DPc, ExitPc
<1> QED BY <1>5, QuietDestroyInv

(* Blocking in a rendezvous wakes only one that waits for it.              *)
LEMMA SteadyRendezvous ==
  ASSUME Places, NEW l \in list, NEW p \in Pcs, Rendezvous(l, p),
         \A m \in Lwps \ {l} : call'[m] = call[m] /\ cursig'[m] = cursig[m]
  PROVE  Steady(l) /\ pc'[l] = p
<1>1. PICK W \in SUBSET Initiators : GoWaking(l, p, W)
  BY DEF Rendezvous, OneOf
<1>2. W \in SUBSET list /\ \A m \in W : MayWake(pc[m])
  BY WokenSets
<1> QED BY <1>1, <1>2, SteadyWaking

(* Blocking in psig().                                                     *)
LEMMA DestroyPsigRendezvous ==
  ASSUME Typed, Places, DestroyInv, NEW l \in Lwps, PsigRendezvous(l)
  PROVE  DestroyInv'
<1>1. /\ pc[l] = "trap" /\ Rendezvous(l, "rendezvoused")
      /\ UNCHANGED <<list, pDestroy, destroy, cursig, call>>
  BY DEF PsigRendezvous, At, procVars, flagVars, evfVars, ownVars
<1>2. l \in list /\ call[l] # "exit"
  BY <1>1, Listed DEF DestroyInv, InExit, ExitPc
<1>3. Steady(l) /\ pc'[l] = "rendezvoused"
  BY <1>1, <1>2, SteadyRendezvous, PcNames
<1>4. Quiet(l)
  BY <1>1, <1>2, <1>3 DEF Quiet, DPc
<1> QED BY <1>4, QuietDestroyInv

(* A job control stop.                                                     *)
LEMMA DestroyJobstop ==
  ASSUME Typed, Places, DestroyInv, NEW l \in Lwps, IssigJobstop(l)
  PROVE  DestroyInv'
<1>1. /\ pc[l] = "trap" /\ UNCHANGED <<list, pDestroy, destroy, cursig, call>>
      /\ Goto(l, "jobstopped") \/ GoWaking(l, "jobstopped", Aborted)
  BY DEF IssigJobstop, At, ownVars
<1>2. l \in list /\ call[l] # "exit"
  BY <1>1, Listed DEF DestroyInv, InExit, ExitPc
<1>3. Steady(l) /\ pc'[l] = "jobstopped"
  BY <1>1, <1>2, SteadyGoto, SteadyWaking, WokenSets, PcNames
<1>4. Quiet(l)
  BY <1>1, <1>2, <1>3 DEF Quiet, DPc
<1> QED BY <1>4, QuietDestroyInv

(* SIGCONT makes the stopped run.                                          *)
LEMMA DestroySigcont ==
  ASSUME Typed, Places, DestroyInv, Sigcont
  PROVE  DestroyInv'
<1>1. UNCHANGED <<list, pDestroy, destroy, cursig, call>>
  BY DEF Sigcont, ownVars
<1>2. \A m \in Lwps : pc'[m] = IF pc[m] = "jobstopped" THEN "trap" ELSE pc[m]
  BY DEF Sigcont, At, Places
<1>3. \A m \in Lwps : /\ DPc(pc'[m]) <=> DPc(pc[m])
                      /\ pc'[m] = "dwoken" => pc[m] = "dwoken"
                      /\ ExitPc(pc[m]) => ExitPc(pc'[m])
                      /\ pc'[m] = "user" => pc[m] = "user"
  BY <1>2 DEF DPc, ExitPc
<1> QED BY <1>1, <1>3 DEF DestroyInv, OthersTold, OneNotTold, OnItsWay, WokenAlone, OneWaits,
                          InExit, InKernelWithSignal, Others, Places

(* A fatal signal tells all others to go.                                  *)
LEMMA DestroyFatal ==
  ASSUME Typed, Places, DestroyInv, NEW l \in Lwps, IssigKill(l) \/ IssigCore(l)
  PROVE  DestroyInv'
<1>1. pc[l] = "trap" /\ UNCHANGED <<list, call>>
  BY DEF IssigKill, IssigCore, At
<1>2. l \in list /\ call[l] # "exit"
  BY <1>1, Listed DEF DestroyInv, InExit, ExitPc
<1>3. CASE Goto(l, "destroy in rendezvous") /\ UNCHANGED <<pDestroy, destroy, cursig>>
  BY <1>1, <1>2, <1>3, DestroyGoto, PcNames DEF DPc
<1>4. CASE ~Goto(l, "destroy in rendezvous") \/ ~UNCHANGED <<pDestroy, destroy, cursig>>
  <2>1. /\ PostDestroyEvent(l)
        /\ \E s \in {"kill", "core"} : cursig' = [cursig EXCEPT ![l] = s]
        /\ \/ Goto(l, "trap")
           \/ GoWaking(l, "trap", Aborted \union Doomed(l))
           \/ GoWaking(l, "trap", Doomed(l) \union Initiators)
           \/ GoWaking(l, "trap", Doomed(l))
    <3>1. CASE IssigKill(l)
      <4>1. PostDestroy(l, TRUE, "trap") /\ cursig' = [cursig EXCEPT ![l] = "kill"]
        BY <1>4, <3>1 DEF IssigKill
      <4>2. PostDestroyEvent(l) /\ (Goto(l, "trap") \/ GoWaking(l, "trap", Aborted \union Doomed(l)))
        BY <4>1 DEF PostDestroy
      <4>3. \E s \in {"kill", "core"} : cursig' = [cursig EXCEPT ![l] = s]
        BY <4>1
      <4>4. CASE Goto(l, "trap")
        BY <4>2, <4>3, <4>4
      <4>5. CASE GoWaking(l, "trap", Aborted \union Doomed(l))
        BY <4>2, <4>3, <4>5
      <4> QED BY <4>2, <4>4, <4>5
    <3>2. CASE IssigCore(l)
      BY <1>4, <3>2 DEF IssigCore
    <3> QED BY <3>1, <3>2
  <2>2. cursig'[l] # "none" /\ \A m \in Lwps \ {l} : cursig'[m] = cursig[m] /\ call'[m] = call[m]
    BY <1>1, <1>2, <2>1 DEF Typed, Own, Places
  <2>3. Aborted \union Doomed(l) \in SUBSET list /\ Doomed(l) \union Initiators \in SUBSET list
        /\ \A m \in Aborted \union Doomed(l) \union Initiators : MayWake(pc[m])
    BY <1>2, WokenSets
  <2>4. Steady(l) /\ pc'[l] = "trap"
    <3>1. "trap" \in Pcs
      BY PcNames
    <3>2. CASE Goto(l, "trap")
      BY <1>1, <1>2, <2>2, <3>1, <3>2, SteadyGoto
    <3>3. ASSUME NEW W \in SUBSET list, \A m \in W : MayWake(pc[m]), GoWaking(l, "trap", W)
          PROVE  Steady(l) /\ pc'[l] = "trap"
      BY <1>1, <1>2, <2>2, <3>1, <3>3, SteadyWaking
    <3>4. Doomed(l) \in SUBSET list /\ \A m \in Doomed(l) : MayWake(pc[m])
      BY <1>2, WokenSets
    <3> QED BY <2>1, <2>3, <3>2, <3>3, <3>4
  <2> QED BY <1>1, <1>2, <2>1, <2>2, <2>4, PostingDestroyInv DEF PostDestroyEvent, DPc
<1> QED BY <1>3, <1>4

(* The test that destroy_proc() makes without p_mutex.                     *)
LEMMA DestroyTheTest ==
  ASSUME Typed, Places, DestroyInv, NEW l \in Lwps, DestroyRead(l) \/ DestroyTest(l)
  PROVE  DestroyInv'
<1>1. /\ pc[l] = "destroy" \/ pc[l] = "test"
      /\ UNCHANGED <<list, pDestroy, destroy, cursig, call>>
      /\ Goto(l, "dlock") \/ Goto(l, "test") \/ Goto(l, "destroy in rendezvous")
  BY DEF DestroyRead, DestroyTest, At, procVars, flagVars, evfVars
<1> QED BY <1>1, DestroyGoto, PcNames DEF DPc, ExitPc

(* Only one that has not been told to go begins to wait.                   *)
LEMMA DestroyTheLock ==
  ASSUME Typed, Places, DestroyInv, NEW l \in Lwps, DestroyLock(l)
  PROVE  DestroyInv'
<1>1. pc[l] = "dlock" /\ UNCHANGED <<list, cursig, call>>
  BY DEF DestroyLock, At, ownVars
<1>2. l \in list /\ Nlwp \in Nat /\ Nlwp >= 1 /\ (Nlwp = 1 <=> list = {l})
  BY <1>1, Listed, Alone
<1>3. CASE BeingDestroyed(l)
  BY <1>1, <1>3, DestroyGoto, PcNames DEF DestroyLock, DPc, ExitPc
<1>4. CASE ~BeingDestroyed(l) /\ ~pDestroy /\ RendezvousComplete(nrendezvoused)
  BY <1>1, <1>4, DestroyGoto, PcNames DEF DestroyLock, DPc, ExitPc
<1>5. CASE ~BeingDestroyed(l) /\ (pDestroy \/ ~RendezvousComplete(nrendezvoused))
  <2> DEFINE p == IF Nlwp = 1 THEN "dwoken" ELSE "dwait"
  <2>1. p \in Pcs /\ DPc(p) /\ ExitPc(p) /\ (p = "dwoken" => list = {l}) /\ p # "user"
    BY <1>2, PcNames DEF DPc, ExitPc
  <2>2. \A m \in list \ {l} : ~DPc(pc[m])
    <3>1. SUFFICES ASSUME NEW m \in list \ {l}, DPc(pc[m]) PROVE FALSE
      OBVIOUS
    <3>2. l \in destroy /\ Nlwp > 1
      BY <1>2, <3>1 DEF DestroyInv, OthersTold, Others
    <3> QED BY <1>5, <3>2 DEF BeingDestroyed
  <2>3. CASE pDestroy
    <3>1. Goto(l, p) /\ UNCHANGED <<pDestroy, destroy>>
      BY <1>5, <2>3 DEF DestroyLock
    <3>2. Steady(l) /\ pc'[l] = p
      BY <1>1, <1>2, <2>1, <3>1, SteadyGoto
    <3>3. Others(l) \subseteq destroy
      BY <1>2, <1>5, <2>3 DEF BeingDestroyed, DestroyInv, OneNotTold, Others
    <3>4. l \notin destroy => cursig[l] # "none" \/ call[l] = "exit"
      BY <1>2, <2>3 DEF DestroyInv, OnItsWay
    <3>5. destroy' = destroy \union Others(l)
      BY <3>1, <3>3
    <3> QED BY <1>1, <1>2, <2>1, <2>2, <3>2, <3>4, <3>5, PostingDestroyInv
  <2>4. CASE ~pDestroy
    <3>1. PostDestroy(l, call[l] = "exit", p)
      BY <1>5, <2>4 DEF DestroyLock
    <3>2. /\ destroy' = destroy \union Others(l) /\ (pDestroy' => call[l] = "exit")
          /\ Goto(l, p) \/ GoWaking(l, p, Aborted \union Doomed(l))
      BY <2>4, <3>1 DEF PostDestroy, PostDestroyEvent
    <3>3. Aborted \union Doomed(l) \in SUBSET list
          /\ \A m \in Aborted \union Doomed(l) : MayWake(pc[m])
      BY <1>2, WokenSets
    <3>4. Steady(l) /\ pc'[l] = p
      BY <1>1, <1>2, <2>1, <3>2, <3>3, SteadyGoto, SteadyWaking
    <3> QED BY <1>1, <1>2, <2>1, <2>2, <3>2, <3>4, PostingDestroyInv
  <2> QED BY <2>3, <2>4
<1> QED BY <1>3, <1>4, <1>5

(* An LWP that is gone is neither told nor does it wait.                   *)
LEMMA LeavingDestroyInv ==
  ASSUME Typed, Places, DestroyInv, NEW l \in list, Leave(l), UNCHANGED pDestroy,
         \A m \in Lwps \ {l} : /\ DPc(pc'[m]) => DPc(pc[m])
                               /\ pc'[m] = "dwoken" => pc[m] = "dwoken" \/ list \ {l} = {m}
                               /\ ExitPc(pc[m]) => ExitPc(pc'[m])
                               /\ pc'[m] = "user" => pc[m] = "user"
  PROVE  DestroyInv'
<1>1. /\ list' = list \ {l} /\ destroy' = destroy \ {l} /\ pDestroy' = pDestroy
      /\ call'[l] = "none"
      /\ \A m \in Lwps \ {l} : call'[m] = call[m] /\ cursig'[m] = cursig[m]
  BY DEF Leave, BeginCall, Others, Typed, Own, Places
<1> USE DEF DestroyInv, Places
<1>2. OthersTold' /\ WokenAlone' /\ OneWaits'
  BY <1>1 DEF OthersTold, WokenAlone, OneWaits, Others
<1>3. OneNotTold' /\ OnItsWay'
  BY <1>1 DEF OneNotTold, OnItsWay
<1>4. InExit' /\ InKernelWithSignal'
  BY <1>1 DEF InExit, InKernelWithSignal
<1> QED BY <1>2, <1>3, <1>4

(* Alone at last.                                                          *)
LEMMA DestroyTheDone ==
  ASSUME Typed, Places, DestroyInv, NEW l \in Lwps, DestroyDone(l)
  PROVE  DestroyInv'
<1>1. pc[l] = "dwoken" /\ UNCHANGED pDestroy
  BY DEF DestroyDone, At
<1>2. l \in list /\ list = {l} /\ Nlwp = 1
  BY <1>1, Listed, Alone DEF DestroyInv, WokenAlone
<1>3. CASE call[l] = "exit"
  <2>1. Leave(l)
    BY <1>2, <1>3 DEF DestroyDone
  <2>2. \A m \in Lwps \ {l} : pc'[m] = pc[m]
    BY <1>2, <1>3 DEF DestroyDone, Goto, Places
  <2> QED BY <1>1, <1>2, <2>1, <2>2, LeavingDestroyInv
<1>4. CASE call[l] # "exit"
  <2>1. Goto(l, "trap") /\ BeginCall(l, "none") /\ UNCHANGED <<list, destroy, cursig>>
    BY <1>2, <1>4 DEF DestroyDone, flagVars, evfVars
  <2>2. call'[l] = "none" /\ pc'[l] = "trap" /\ Steady(l)
    BY <1>2, <2>1, CallOfOne, SteadyGoto, PcNames DEF Typed
  <2>3. Quiet(l)
    BY <1>1, <1>2, <1>4, <2>1, <2>2 DEF Quiet, DPc
  <2> QED BY <2>3, QuietDestroyInv
<1> QED BY <1>3, <1>4

(* The last but one to leave wakes the one that is left.                   *)
LEMMA DestroyLeaveList ==
  ASSUME Typed, Places, DestroyInv, NEW l \in list, LeaveList(l), UNCHANGED pDestroy, ~DPc(pc[l])
  PROVE  DestroyInv'
<1>1. Nlwp \in Nat /\ Nlwp >= 1 /\ (Nlwp = 1 <=> list = {l})
  BY Alone
<1>2. CASE Nlwp = 1
  <2>1. /\ destroy' = destroy \union {l} /\ BeginCall(l, "exit") /\ Goto(l, "destroy")
        /\ UNCHANGED <<list, cursig>>
    BY <1>2 DEF LeaveList
  <2>2. call'[l] = "exit" /\ pc'[l] = "destroy" /\ Steady(l)
    BY <1>1, <1>2, <2>1, CallOfOne, SteadyGoto, PcNames DEF Typed, Places
  <2>3. Quiet(l)
    BY <2>1, <2>2 DEF Quiet, DPc, ExitPc
  <2> QED BY <2>3, QuietDestroyInv
<1>3. CASE Nlwp # 1
  <2>1. Leave(l)
    BY <1>3 DEF LeaveList
  <2>2. PICK W1 \in IF l \in rendezv /\ nrendezvoused = Nlwp - 2 THEN OneOf(Initiators) ELSE {{}},
             W2 \in IF Nlwp = 2 THEN OneOf(AllAt("dwait")) ELSE {{}} :
          GoWaking(l, "none", W1 \union W2)
    BY <1>3 DEF LeaveList
  <2>3. W1 \in SUBSET Initiators /\ W2 \in SUBSET AllAt("dwait") /\ (Nlwp # 2 => W2 = {})
    BY DEF OneOf
  <2>4. /\ \A m \in Lwps \ (W1 \union W2 \union {l}) : pc'[m] = pc[m]
        /\ \A m \in (W1 \union W2) \ {l} : pc'[m] = After(pc[m])
    <3> DEFINE W == W1 \union W2
    <3>1. W \in SUBSET list /\ GoWaking(l, "none", W)
      BY <2>2, <2>3 DEF Initiators, AllAt
    <3> HIDE DEF W
    <3>2. /\ \A m \in Lwps \ (W \union {l}) : pc'[m] = pc[m]
          /\ \A m \in W \ {l} : pc'[m] = After(pc[m])
      BY <3>1, Moved, PcNames
    <3> QED BY <3>2 DEF W
  <2>5. \A m \in Lwps \ {l} : /\ DPc(pc'[m]) => DPc(pc[m])
                              /\ ExitPc(pc[m]) => ExitPc(pc'[m])
                              /\ pc'[m] = "user" => pc[m] = "user"
                              /\ pc'[m] = "dwoken" => pc[m] = "dwoken" \/ m \in W2
    BY <2>3, <2>4 DEF Places, DPc, ExitPc, After, Initiators, AllAt, At
  <2>6. \A m \in W2 \ {l} : list \ {l} = {m}
    <3>1. SUFFICES ASSUME NEW m \in W2 \ {l} PROVE list \ {l} = {m}
      OBVIOUS
    <3>2. m \in list /\ Cardinality(list) = 2 /\ IsFiniteSet(list) /\ IsFiniteSet(list \ {l})
      BY <2>3, <3>1, LwpsFinite DEF AllAt, Nlwp, Places
    <3>3. Cardinality(list \ {l}) = 1
      BY <3>2, FS_RemoveElement
    <3> QED BY <3>1, <3>2, <3>3, FS_Singleton
  <2> QED BY <2>1, <2>5, <2>6, LeavingDestroyInv
<1> QED BY <1>2, <1>3

(* lwp_exit().                                                             *)
LEMMA DestroyLwpExit ==
  ASSUME Typed, Places, DestroyInv, NEW l \in Lwps, LwpExit(l) \/ LwpExitReleased(l)
  PROVE  DestroyInv'
<1>1. /\ pc[l] = "user" \/ pc[l] = "lwpexit" \/ pc[l] = "trap" \/ pc[l] = "exreleased"
      /\ UNCHANGED pDestroy
  BY DEF LwpExit, LwpExitReleased, At
<1>2. l \in list /\ ~DPc(pc[l])
  BY <1>1, Listed DEF DPc
<1>3. CASE LeaveList(l)
  BY <1>1, <1>2, <1>3, DestroyLeaveList
<1>4. CASE LwpExit(l) /\ ~LeaveList(l)
  <2>1. /\ Rendezvous(l, "exrendezvoused") /\ destroy' = destroy \union {l}
        /\ UNCHANGED <<list, cursig, call>>
    BY <1>4 DEF LwpExit
  <2>2. Steady(l) /\ pc'[l] = "exrendezvoused"
    BY <1>2, <2>1, SteadyRendezvous, PcNames
  <2>3. Quiet(l)
    BY <1>1, <1>2, <2>1, <2>2 DEF Quiet, DPc, ExitPc
  <2> QED BY <2>3, QuietDestroyInv
<1>5. CASE LwpExitReleased(l) /\ ~LeaveList(l)
  <2>1. /\ pc[l] = "exreleased" /\ Goto(l, "improper release")
        /\ UNCHANGED <<list, destroy, cursig, call>>
    BY <1>5 DEF LwpExitReleased, At, flagVars, evfVars
  <2> QED BY <1>1, <2>1, DestroyGoto, PcNames DEF DPc, ExitPc
<1> QED BY <1>3, <1>4, <1>5

(* A new LWP is told to go when the one that creates it is.                *)
LEMMA DestroyNewLwp ==
  ASSUME Typed, Places, DestroyInv, NEW l \in Lwps, NewLwp(l)
  PROVE  DestroyInv'
<1>1. PICK n \in Lwps \ list :
        list' = list \union {n} /\ Goto(n, "trap") /\ destroy' = Inherit(destroy, l, n)
  BY DEF NewLwp
<1>2. pc[l] = "user" /\ l \in list /\ UNCHANGED <<pDestroy, cursig, call>>
  BY Listed DEF NewLwp, At, ownVars
<1>3. \A m \in Lwps : pc'[m] = IF m = n THEN "trap" ELSE pc[m]
  BY <1>1 DEF Goto, Places
<1>4. cursig[l] = "none" /\ call[l] # "exit" /\ ~DPc(pc[l])
  BY <1>2 DEF DestroyInv, InExit, InKernelWithSignal, ExitPc, DPc
<1>5. /\ pDestroy => l \in destroy
      /\ \A m \in list : DPc(pc[m]) => l \in destroy
      /\ \A m \in list : pc[m] # "dwoken"
  <2>1. pDestroy => l \in destroy
    BY <1>2, <1>4 DEF DestroyInv, OnItsWay
  <2>2. \A m \in list : DPc(pc[m]) => l \in destroy
    BY <1>2, <1>4 DEF DestroyInv, OthersTold, Others
  <2>3. \A m \in list : pc[m] # "dwoken"
    BY <1>2 DEF DestroyInv, WokenAlone
  <2> QED BY <2>1, <2>2, <2>3
<1>6. /\ destroy \subseteq destroy' /\ destroy' \subseteq destroy \union {n}
      /\ l \in destroy => n \in destroy'
  BY <1>1 DEF Inherit
<1>7. OthersTold' /\ WokenAlone' /\ OneWaits'
  BY <1>1, <1>3, <1>5, <1>6
     DEF DestroyInv, OthersTold, WokenAlone, OneWaits, Others, DPc, Places
<1>8. OneNotTold' /\ OnItsWay'
  BY <1>1, <1>2, <1>5, <1>6 DEF DestroyInv, OneNotTold, OnItsWay
<1>9. InExit' /\ InKernelWithSignal'
  <2>1. call[n] # "exit"
    BY <1>1 DEF DestroyInv, InExit, ExitPc, Places
  <2> QED BY <1>1, <1>2, <1>3, <2>1 DEF DestroyInv, InExit, InKernelWithSignal, Places
<1> QED BY <1>7, <1>8, <1>9 DEF DestroyInv

(* _lwp_suspend() and _lwp_continue().                                     *)
LEMMA DestroySuspendContinue ==
  ASSUME Typed, Places, DestroyInv, NEW l \in Lwps, LwpSuspend(l) \/ LwpContinue(l)
  PROVE  DestroyInv'
<1>1. UNCHANGED <<list, pDestroy, destroy, cursig, call>>
  BY DEF LwpSuspend, LwpContinue, procVars, ownVars
<1>2. CASE UNCHANGED pc
  BY <1>1, <1>2 DEF DestroyInv, OthersTold, OneNotTold, OnItsWay, WokenAlone, OneWaits,
                    InExit, InKernelWithSignal, Others
<1>3. CASE LwpContinue(l) /\ ~UNCHANGED pc
  <2>1. PICK m \in (suspend \union lSuspended) \ {l} : Goto(m, "trap") /\ pc[m] \in Stopped
    BY <1>3 DEF LwpContinue
  <2>2. m \in list /\ m \in Lwps /\ call[m] # "exit"
    BY <2>1 DEF Typed, Flags, Places, DestroyInv, InExit, ExitPc, Stopped
  <2>3. pc[m] # "none"
    BY <2>1 DEF Stopped
  <2> QED BY <1>1, <2>1, <2>2, <2>3, DestroyGoto, PcNames DEF DPc
<1> QED BY <1>2, <1>3 DEF LwpSuspend

(* Every step.                                                             *)
LEMMA DestroyStep ==
  ASSUME Typed, Places, DestroyInv, [Next]_vars
  PROVE  DestroyInv'
<1>1. CASE Sigcont
  BY <1>1, DestroySigcont
<1>2. ASSUME NEW l \in Lwps, Calls(l)
      PROVE  DestroyInv'
  BY <1>2, DestroyForkallCore, DestroyPsigKill, DestroyNewLwp, DestroySuspendContinue,
     DestroyLwpExit DEF Calls
<1>3. ASSUME NEW l \in Lwps, Trap(l) \/ Signals(l)
      PROVE  DestroyInv'
  BY <1>3, DestroyTrap, DestroyFatal, DestroyJobstop DEF Signals
<1>4. ASSUME NEW l \in Lwps, InKernel(l)
      PROVE  DestroyInv'
  BY <1>4, DestroyTrap, DestroyPsigRendezvous, DestroyPsigKill, DestroyJobstop,
     DestroyForkallCore, DestroyWokenRelease, DestroyTheTest, DestroyTheLock, DestroyTheDone,
     DestroyLwpExit DEF InKernel
<1>5. CASE UNCHANGED vars
  <2>1. UNCHANGED <<list, pDestroy, destroy, cursig, call, pc>>
    BY <1>5 DEF vars, procVars, flagVars, evfVars, ownVars
  <2> QED BY <2>1 DEF DestroyInv, OthersTold, OneNotTold, OnItsWay, WokenAlone, OneWaits,
                      InExit, InKernelWithSignal, Others
<1> QED BY <1>1, <1>2, <1>3, <1>4, <1>5 DEF Next

(* At the start nobody is told to go.                                      *)
LEMMA DestroyInit ==
  ASSUME Init
  PROVE  DestroyInv
<1>1. /\ ~pDestroy /\ list \subseteq Lwps
      /\ \A l \in Lwps : call[l] = "none" /\ cursig[l] = "none"
      /\ \A l \in list : pc[l] = "user"
  BY RendezvousAssumption DEF Init
<1> QED BY <1>1 DEF DestroyInv, OthersTold, OneNotTold, OnItsWay, WokenAlone, OneWaits,
                    InExit, InKernelWithSignal, DPc

(* So it holds throughout.                                                 *)
LEMMA SpecDestroyInv == Spec => []DestroyInv
<1>1. Init => DestroyInv
  BY DestroyInit
<1>2. Inv /\ DestroyInv /\ [Next]_vars => DestroyInv'
  BY DestroyStep DEF Inv, Barrier
<1> QED BY <1>1, <1>2, SpecInv, PTL DEF Spec

(* At most one LWP waits for all others to be destroyed, also when an      *)
(* exit(), an exec() and a fatal signal come together.                     *)
THEOREM OneDestroys == Spec => []OneDestroyer
<1>1. DestroyInv => OneDestroyer
  <2> SUFFICES ASSUME DestroyInv PROVE OneDestroyer
    OBVIOUS
  <2> DEFINE D == {l \in list : pc[l] \in {"dwait", "dwoken"}}
  <2>1. \A l, m \in D : l = m
    BY DEF DestroyInv, OneWaits, DPc
  <2> HIDE DEF D
  <2>2. D = {} \/ \E l \in D : D = {l}
    BY <2>1
  <2>3. Cardinality(D) <= 1
    <3>1. CASE D = {}
      BY <3>1, FS_EmptySet
    <3>2. ASSUME NEW l \in D, D = {l} PROVE Cardinality(D) <= 1
      BY <3>2, FS_Singleton
    <3> QED BY <2>2, <3>1, <3>2
  <2> QED BY <2>3 DEF OneDestroyer, D
<1> QED BY <1>1, SpecDestroyInv, PTL

(***************************************************************************)
(* The panics, but for that of destroy_proc() in a complete rendezvous.    *)
(***************************************************************************)
BadPc(p) == p = "partial release" \/ p = "early wakeup" \/ p = "no core" \/ p = "improper release"
RvPc(p) == p = "rvwait" \/ p = "rvwoken" \/ p = "stasis"
ExPc(p) == p = "exrendezvoused" \/ p = "exreleased"

NoBadPc == \A l \in Lwps : ~BadPc(pc[l])
CoreDooms == \A l \in Lwps : cursig[l] = "core" => pDestroy
(* Whoever asks for a rendezvous does so for forkall(), or for a core      *)
(* image as the one that is not told to go.                                *)
Asks(l) == \/ call[l] = "forkall" /\ cursig[l] = "none"
           \/ call[l] = "none" /\ cursig[l] = "core" /\ l \notin destroy
Initiating == \A l \in list : RvPc(pc[l]) => Asks(l)
RestNotTold == \A l \in list : pc[l] = "stasis" => list = {l} \/ l \notin destroy
(* The LWPs that rendezvous on their way out do so for a core image, and   *)
(* once they are released it is written.                                   *)
ExitsForCore == \A l \in list : ExPc(pc[l]) => pDestroy
Freed == \E l \in list : pc[l] = "exreleased"
FreedOnce == \A l \in list : pc[l] = "exreleased" =>
  l \notin rendezv /\ \A x \in list \ destroy : call[x] = "exit"
PanicInv == /\ NoBadPc /\ CoreDooms /\ Initiating /\ RestNotTold /\ ExitsForCore /\ FreedOnce
Known == Typed /\ Barrier /\ DestroyInv

(* What a step of l leaves of the others.                                  *)
Calm(l) == \A m \in Lwps \ {l} :
  /\ ~BadPc(pc[m]) => ~BadPc(pc'[m])
  /\ RvPc(pc'[m]) => RvPc(pc[m])
  /\ pc'[m] = "stasis" => pc[m] = "stasis"
  /\ ExPc(pc'[m]) => ExPc(pc[m])
  /\ call'[m] = call[m] /\ cursig'[m] = cursig[m]

(* Who is woken neither panics nor has or asks for a rendezvous anew.      *)
LEMMA CalmWaking ==
  ASSUME Places, NEW l \in list, NEW p \in Pcs, NEW W \in SUBSET list, GoWaking(l, p, W),
         \A m \in W : MayWake(pc[m]),
         \A m \in Lwps \ {l} : call'[m] = call[m] /\ cursig'[m] = cursig[m]
  PROVE  /\ Calm(l) /\ pc'[l] = p
         /\ \A m \in Lwps \ {l} : pc'[m] = "exreleased" =>
              pc[m] = "exreleased" \/ (m \in W /\ pc[m] = "exrendezvoused")
<1>1. /\ pc'[l] = p
      /\ \A m \in Lwps \ (W \union {l}) : pc'[m] = pc[m]
      /\ \A m \in W \ {l} : pc'[m] = After(pc[m])
  BY Moved
<1>2. \A m \in W \ {l} :
        /\ ~BadPc(pc'[m]) /\ (RvPc(pc'[m]) => RvPc(pc[m])) /\ pc'[m] # "stasis"
        /\ ExPc(pc'[m]) => ExPc(pc[m])
        /\ pc'[m] = "exreleased" => pc[m] = "exrendezvoused"
  BY <1>1 DEF MayWake, After, BadPc, RvPc, ExPc
<1> QED BY <1>1, <1>2 DEF Calm, Places

(* A move that wakes nobody.                                               *)
LEMMA CalmGoto ==
  ASSUME Places, NEW l \in list, NEW p \in Pcs, Goto(l, p),
         \A m \in Lwps \ {l} : call'[m] = call[m] /\ cursig'[m] = cursig[m]
  PROVE  /\ Calm(l) /\ pc'[l] = p
         /\ \A m \in Lwps \ {l} : pc'[m] = "exreleased" => pc[m] = "exreleased"
<1>1. GoWaking(l, p, {})
  BY GotoWakesNobody DEF Places
<1> QED BY <1>1, CalmWaking

(* A calm step keeps what is known of the others.                          *)
LEMMA CalmStep ==
  ASSUME Places, PanicInv, NEW l \in list, Calm(l), list' = list, pDestroy => pDestroy',
         destroy \subseteq destroy', ~BadPc(pc'[l]), cursig'[l] = "core" => pDestroy',
         RvPc(pc'[l]) => Asks(l)', pc'[l] = "stasis" => list = {l} \/ l \notin destroy',
         ExPc(pc'[l]) => pDestroy',
         \A m \in list \ {l} : m \in destroy' /\ m \notin destroy =>
           pc[m] # "stasis" /\ (RvPc(pc[m]) => call[m] = "forkall"),
         FreedOnce'
  PROVE  PanicInv'
<1> USE DEF PanicInv, Calm, Places
<1>1. NoBadPc' /\ CoreDooms'
  BY DEF NoBadPc, CoreDooms
<1>2. Initiating'
  BY DEF Initiating, Asks
<1>3. RestNotTold' /\ ExitsForCore'
  BY DEF RestNotTold, ExitsForCore
<1> QED BY <1>1, <1>2, <1>3

(* Nobody is released in lwp_exit() by most steps.                         *)
LEMMA FreedStays ==
  ASSUME Places, FreedOnce, NEW l \in list, list' = list, destroy \subseteq destroy',
         rendezv' \subseteq rendezv \/ ~Freed,
         \A m \in list : pc'[m] = "exreleased" => pc[m] = "exreleased",
         \A m \in Lwps \ {l} : call'[m] = call[m], call[l] = "exit" => call'[l] = "exit"
  PROVE  FreedOnce'
BY DEF FreedOnce, Places, Freed

(* Once the process is to end, who runs in its user's code or has no       *)
(* signal is told to go.                                                   *)
LEMMA RunnersAreTold ==
  ASSUME DestroyInv, pDestroy, NEW l \in list, l \in Lwps,
         pc[l] = "user" \/ (pc[l] = "trap" /\ cursig[l] = "none")
  PROVE  l \in destroy
BY DEF DestroyInv, OnItsWay, InExit, InKernelWithSignal, ExitPc

(* Steps of one LWP that tell nobody to go, wake nobody and do not wait.   *)
LEMMA PanicGoto ==
  ASSUME Known, PanicInv, NEW l \in Lwps, NEW p \in Pcs, Goto(l, p), pc[l] # "none",
         ~BadPc(p), ~RvPc(p), ~ExPc(p),
         UNCHANGED <<list, pDestroy, destroy, cursig>>, rendezv' \subseteq rendezv,
         \A m \in Lwps \ {l} : call'[m] = call[m], call[l] = "exit" => call'[l] = "exit"
  PROVE  PanicInv'
<1>1. Places /\ l \in list
  BY Listed DEF Known, Barrier
<1>2. /\ Calm(l) /\ pc'[l] = p
      /\ \A m \in Lwps \ {l} : pc'[m] = "exreleased" => pc[m] = "exreleased"
  BY <1>1, CalmGoto
<1>3. FreedOnce'
  BY <1>1, <1>2, FreedStays DEF PanicInv, Places, ExPc
<1> QED BY <1>1, <1>2, <1>3, CalmStep DEF PanicInv, CoreDooms, RvPc, Places

(* The way out of a trap that does not block in a rendezvous.              *)
LEMMA PanicTrap ==
  ASSUME Known, PanicInv, NEW l \in Lwps,
         Trap(l) \/ ReturnToUser(l) \/ PsigReleased(l) \/ IssigSuspend(l)
  PROVE  PanicInv'
<1>1. /\ pc[l] = "user" \/ pc[l] = "trap" \/ pc[l] = "released"
      /\ UNCHANGED <<list, pDestroy, destroy, cursig, call, rendezv>>
      /\ Goto(l, "trap") \/ Goto(l, "suspended") \/ Goto(l, "user")
  BY DEF Trap, ReturnToUser, PsigReleased, IssigSuspend, At, procVars, flagVars, evfVars,
         ownVars, StopSuspended
<1> QED BY <1>1, PanicGoto, PcNames DEF BadPc, RvPc, ExPc

(* The ways into exit() and exec().                                        *)
LEMMA PanicExit ==
  ASSUME Known, PanicInv, NEW l \in Lwps, PsigKill(l) \/ Exit(l) \/ Exec(l)
  PROVE  PanicInv'
<1>1. /\ pc[l] = "user" \/ pc[l] = "trap"
      /\ UNCHANGED <<list, pDestroy, destroy, cursig, rendezv>> /\ Goto(l, "destroy")
      /\ BeginCall(l, "exit") \/ BeginCall(l, "exec")
  BY DEF PsigKill, Exit, Exec, At, procVars, flagVars, evfVars
<1>2. l \in list /\ call[l] # "exit"
  BY <1>1, Listed DEF Known, Barrier, DestroyInv, InExit, ExitPc
<1>3. \A m \in Lwps \ {l} : call'[m] = call[m]
  BY <1>1, CallOfOne DEF Known, Typed
<1> QED BY <1>1, <1>2, <1>3, PanicGoto, PcNames DEF BadPc, RvPc, ExPc

(* The test that destroy_proc() makes without p_mutex.                     *)
LEMMA PanicDestroyTest ==
  ASSUME Known, PanicInv, NEW l \in Lwps, DestroyRead(l) \/ DestroyTest(l)
  PROVE  PanicInv'
<1>1. /\ pc[l] = "destroy" \/ pc[l] = "test"
      /\ UNCHANGED <<list, pDestroy, destroy, cursig, call, rendezv>>
      /\ Goto(l, "dlock") \/ Goto(l, "test") \/ Goto(l, "destroy in rendezvous")
  BY DEF DestroyRead, DestroyTest, At, procVars, flagVars, evfVars
<1> QED BY <1>1, PanicGoto, PcNames DEF BadPc, RvPc, ExPc

(* The early wakeup.                                                       *)
LEMMA PanicDestroyDone ==
  ASSUME Known, PanicInv, NEW l \in Lwps, DestroyDone(l)
  PROVE  PanicInv'
<1>1. pc[l] = "dwoken" /\ UNCHANGED pDestroy /\ Places
  BY DEF DestroyDone, At, Known, Barrier
<1>2. l \in list /\ list = {l} /\ Nlwp = 1
  BY <1>1, Listed, Alone DEF Known, DestroyInv, WokenAlone
<1>3. CASE call[l] = "exit"
  <2>1. list' = {} /\ Goto(l, "none")
    BY <1>2, <1>3 DEF DestroyDone, Leave, Others
  <2>2. \A m \in Lwps \ {l} : pc'[m] = pc[m]
    BY <2>1 DEF Goto, Known, Barrier, Places
  <2>3. pc'[l] = "none"
    BY <1>1, <2>1 DEF Goto, Places
  <2>4. \A m \in Lwps : cursig'[m] = "core" => pDestroy'
    BY <1>1, <1>2, <1>3 DEF DestroyDone, Leave, Known, Typed, Own, PanicInv, CoreDooms
  <2> QED BY <2>1, <2>2, <2>3, <2>4 DEF PanicInv, NoBadPc, CoreDooms, Initiating, RestNotTold,
                                        ExitsForCore, FreedOnce, BadPc
<1>4. CASE call[l] # "exit"
  <2>1. /\ Goto(l, "trap") /\ BeginCall(l, "none")
        /\ UNCHANGED <<list, destroy, cursig, rendezv>>
    BY <1>2, <1>4 DEF DestroyDone, flagVars, evfVars
  <2>2. \A m \in Lwps \ {l} : call'[m] = call[m]
    BY <2>1, CallOfOne DEF Known, Typed
  <2> QED BY <1>1, <1>4, <2>1, <2>2, PanicGoto, PcNames DEF BadPc, RvPc, ExPc
<1> QED BY <1>3, <1>4

(* _lwp_suspend() and _lwp_continue().                                     *)
LEMMA PanicSuspendContinue ==
  ASSUME Known, PanicInv, NEW l \in Lwps, LwpSuspend(l) \/ LwpContinue(l)
  PROVE  PanicInv'
<1>1. UNCHANGED <<list, pDestroy, destroy, cursig, call, rendezv>>
  BY DEF LwpSuspend, LwpContinue, procVars, ownVars
<1>2. CASE UNCHANGED pc
  BY <1>1, <1>2 DEF PanicInv, NoBadPc, CoreDooms, Initiating, Asks, RestNotTold,
                    ExitsForCore, FreedOnce
<1>3. CASE LwpContinue(l) /\ ~UNCHANGED pc
  <2>1. PICK m \in (suspend \union lSuspended) \ {l} : Goto(m, "trap") /\ pc[m] \in Stopped
    BY <1>3 DEF LwpContinue
  <2>2. m \in Lwps /\ pc[m] # "none"
    BY <2>1 DEF Known, Typed, Flags, Barrier, Places, Stopped
  <2> QED BY <1>1, <2>1, <2>2, PanicGoto, PcNames DEF BadPc, RvPc, ExPc
<1> QED BY <1>2, <1>3 DEF LwpSuspend

(* SIGCONT makes the stopped run.                                          *)
LEMMA PanicSigcont ==
  ASSUME Known, PanicInv, Sigcont
  PROVE  PanicInv'
<1>1. UNCHANGED <<list, pDestroy, destroy, cursig, call, rendezv>>
  BY DEF Sigcont, ownVars
<1>2. \A m \in Lwps : pc'[m] = IF pc[m] = "jobstopped" THEN "trap" ELSE pc[m]
  BY DEF Sigcont, At
<1>3. \A m \in Lwps : /\ BadPc(pc'[m]) => BadPc(pc[m])
                      /\ RvPc(pc'[m]) => RvPc(pc[m])
                      /\ ExPc(pc'[m]) => ExPc(pc[m])
                      /\ pc'[m] = "stasis" => pc[m] = "stasis"
                      /\ pc'[m] = "exreleased" => pc[m] = "exreleased"
  BY <1>2 DEF BadPc, RvPc, ExPc
<1> QED BY <1>1, <1>3 DEF PanicInv, NoBadPc, CoreDooms, Initiating, Asks, RestNotTold,
                          ExitsForCore, FreedOnce, Known, Barrier, Places

(* Blocking in psig() and in lwp_exit().                                   *)
LEMMA CalmRendezvous ==
  ASSUME Places, NEW l \in list, NEW p \in Pcs, Rendezvous(l, p),
         \A m \in Lwps \ {l} : call'[m] = call[m] /\ cursig'[m] = cursig[m]
  PROVE  /\ Calm(l) /\ pc'[l] = p
         /\ \A m \in Lwps \ {l} : pc'[m] = "exreleased" => pc[m] = "exreleased"
<1>1. PICK W \in SUBSET Initiators : GoWaking(l, p, W)
  BY DEF Rendezvous, OneOf
<1>2. /\ W \in SUBSET list
      /\ \A m \in W : MayWake(pc[m]) /\ pc[m] = "rvwait"
  BY WokenSets DEF Initiators, AllAt, At
<1> QED BY <1>1, <1>2, CalmWaking

(* They do so for one that waits.                                          *)
LEMMA PanicRendezvous ==
  ASSUME Known, PanicInv, NEW l \in list, NEW p \in Pcs, Rendezvous(l, p),
         ~BadPc(p), ~RvPc(p), ExPc(p) => pDestroy, p # "exreleased",
         destroy' \in {destroy, destroy \union {l}},
         UNCHANGED <<list, pDestroy, cursig, call, rendezv>>
  PROVE  PanicInv'
<1>1. Places
  BY DEF Known, Barrier
<1>2. /\ Calm(l) /\ pc'[l] = p
      /\ \A m \in Lwps \ {l} : pc'[m] = "exreleased" => pc[m] = "exreleased"
  BY <1>1, CalmRendezvous
<1>3. FreedOnce'
  BY <1>1, <1>2, FreedStays DEF PanicInv, Places
<1> QED BY <1>1, <1>2, <1>3, CalmStep DEF PanicInv, CoreDooms, RvPc, Places

(* Blocking in psig().                                                     *)
LEMMA PanicPsigRendezvous ==
  ASSUME Known, PanicInv, NEW l \in Lwps, PsigRendezvous(l)
  PROVE  PanicInv'
<1>1. /\ pc[l] = "trap" /\ Rendezvous(l, "rendezvoused")
      /\ UNCHANGED <<list, pDestroy, destroy, cursig, call, rendezv>>
  BY DEF PsigRendezvous, At, procVars, flagVars, evfVars, ownVars
<1>2. l \in list
  BY <1>1, Listed DEF Known, Barrier
<1> QED BY <1>1, <1>2, PanicRendezvous, PcNames DEF BadPc, RvPc, ExPc

(* rendezvous() for core() is never refused.                               *)
LEMMA PanicWoken ==
  ASSUME Known, PanicInv, NEW l \in Lwps, RendezvousWoken(l)
  PROVE  PanicInv'
<1>1. pc[l] = "rvwoken" /\ UNCHANGED <<list, pDestroy, destroy, cursig, call, rendezv>>
  BY DEF RendezvousWoken, At, procVars, flagVars, evfVars, ownVars
<1>2. l \in list /\ Places
  BY <1>1, Listed DEF Known, Barrier
<1>3. Asks(l)
  BY <1>1, <1>2 DEF PanicInv, Initiating, RvPc
<1>4. CASE call[l] # "forkall" /\ Refused(l)
  BY <1>2, <1>3, <1>4 DEF PanicInv, CoreDooms, Asks, Refused
<1>5. CASE call[l] = "forkall" /\ Refused(l)
  BY <1>1, <1>5, PanicGoto, PcNames DEF RendezvousWoken, Failed, BadPc, RvPc, ExPc
<1>6. CASE ~Refused(l)
  <2>1. /\ Goto(l, WaitOrHave(l)) /\ l \notin destroy
        /\ WaitOrHave(l) = "rvwait" \/ WaitOrHave(l) = "stasis"
    BY <1>6 DEF RendezvousWoken, WaitOrHave, Refused
  <2>2. /\ Calm(l) /\ (pc'[l] = "rvwait" \/ pc'[l] = "stasis")
        /\ \A m \in Lwps \ {l} : pc'[m] = "exreleased" => pc[m] = "exreleased"
    BY <1>1, <1>2, <2>1, CalmGoto, PcNames
  <2>3. FreedOnce'
    BY <1>1, <1>2, <2>2, FreedStays DEF PanicInv, Places
  <2>4. Asks(l)'
    BY <1>1, <1>3 DEF Asks
  <2> QED BY <1>1, <1>2, <2>1, <2>2, <2>3, <2>4, CalmStep
          DEF PanicInv, CoreDooms, BadPc, ExPc
<1> QED BY <1>4, <1>5, <1>6

(* Posting the request, from forkall() or core().                          *)
LEMMA PanicBegin ==
  ASSUME Known, PanicInv, NEW l \in list, Begin(l), ~Freed, pc[l] # "exreleased",
         Asks(l)', list = {l} \/ l \notin destroy, cursig[l] = "core" => pDestroy,
         UNCHANGED <<list, pDestroy, destroy, cursig>>,
         \A m \in Lwps \ {l} : call'[m] = call[m]
  PROVE  PanicInv'
<1>1. Places
  BY DEF Known, Barrier
<1>2. WaitOrHave(l) \in Pcs /\ (WaitOrHave(l) = "rvwait" \/ WaitOrHave(l) = "stasis")
  BY PcNames DEF WaitOrHave
<1>3. /\ RunForRendezvous(Others(l)) \in SUBSET list
      /\ \A m \in RunForRendezvous(Others(l)) : MayWake(pc[m]) /\ pc[m] # "exrendezvoused"
  BY <1>1, WokenSets DEF RunForRendezvous, Stopped
<1>4. /\ Calm(l) /\ (pc'[l] = "rvwait" \/ pc'[l] = "stasis")
      /\ \A m \in Lwps \ {l} : pc'[m] = "exreleased" => pc[m] = "exreleased"
  <2>1. CASE Goto(l, WaitOrHave(l))
    BY <1>1, <1>2, <2>1, CalmGoto
  <2>2. CASE GoWaking(l, WaitOrHave(l), RunForRendezvous(Others(l)))
    BY <1>1, <1>2, <1>3, <2>2, CalmWaking
  <2> QED BY <2>1, <2>2 DEF Begin
<1>5. FreedOnce'
  BY <1>1, <1>4 DEF FreedOnce, Freed, Places
<1> QED BY <1>1, <1>4, <1>5, CalmStep DEF BadPc, ExPc

(* forkall() does not begin when it is told to go.                         *)
LEMMA PanicForkall ==
  ASSUME Known, PanicInv, NEW l \in Lwps, Forkall(l)
  PROVE  PanicInv'
<1>1. /\ pc[l] = "user" /\ UNCHANGED <<list, pDestroy, destroy, cursig>>
      /\ BeginCall(l, "forkall")
  BY DEF Forkall, At, procVars
<1>2. l \in list /\ Places /\ call[l] # "exit" /\ cursig[l] = "none"
  BY <1>1, Listed DEF Known, Barrier, DestroyInv, InExit, InKernelWithSignal, ExitPc
<1>3. call'[l] = "forkall" /\ \A m \in Lwps \ {l} : call'[m] = call[m]
  BY <1>1, CallOfOne DEF Known, Typed
<1>4. CASE RefusedAtOnce(l)
  <2>1. Goto(l, "trap") /\ UNCHANGED rendezv
    BY <1>4 DEF Forkall
  <2> QED BY <1>1, <1>2, <1>3, <2>1, PanicGoto, PcNames DEF BadPc, RvPc, ExPc
<1>5. CASE ~RefusedAtOnce(l)
  <2>1. Begin(l)
    BY <1>5 DEF Forkall
  <2>2. list = {l} \/ l \notin destroy
    BY <1>2, <1>5, Alone DEF RefusedAtOnce, Refused
  <2>3. ~Freed
    <3>1. SUFFICES ASSUME NEW m \in list, pc[m] = "exreleased" PROVE FALSE
      BY DEF Freed
    <3>2. pDestroy
      BY <3>1 DEF PanicInv, ExitsForCore, ExPc
    <3>3. l \in destroy /\ list # {l}
      BY <1>1, <1>2, <3>1, <3>2, RunnersAreTold DEF Known
    <3> QED BY <2>2, <3>3
  <2>4. Asks(l)'
    BY <1>1, <1>2, <1>3 DEF Asks
  <2> QED BY <1>1, <1>2, <1>3, <2>1, <2>2, <2>3, <2>4, PanicBegin
<1> QED BY <1>4, <1>5

(* core() begins when the process is to end, and is not refused.           *)
LEMMA PanicCore ==
  ASSUME Known, PanicInv, NEW l \in Lwps, Core(l)
  PROVE  PanicInv'
<1>1. /\ pc[l] = "trap" /\ UNCHANGED <<list, pDestroy, destroy, cursig>>
      /\ cursig[l] = "core" /\ l \notin destroy /\ l \notin rendezv
  BY DEF Core, At, procVars
<1>2. l \in list /\ Places /\ call[l] # "exit"
  BY <1>1, Listed DEF Known, Barrier, DestroyInv, InExit, ExitPc
<1>3. pDestroy
  BY <1>1, <1>2 DEF PanicInv, CoreDooms
<1>4. CASE BeginCall(l, "exit") /\ Goto(l, "destroy") /\ UNCHANGED rendezv
  <2>1. \A m \in Lwps \ {l} : call'[m] = call[m]
    BY <1>4, CallOfOne DEF Known, Typed
  <2> QED BY <1>1, <1>2, <1>4, <2>1, PanicGoto, PcNames DEF BadPc, RvPc, ExPc
<1>5. CASE BeginCall(l, "none") /\ IF RefusedAtOnce(l) THEN Goto(l, "no core") /\ UNCHANGED rendezv
                                                       ELSE Begin(l)
  <2>1. Begin(l)
    BY <1>1, <1>3, <1>5 DEF RefusedAtOnce, Refused
  <2>2. call'[l] = "none" /\ \A m \in Lwps \ {l} : call'[m] = call[m]
    BY <1>5, CallOfOne DEF Known, Typed
  <2>3. ~Freed
    BY <1>1, <1>2 DEF PanicInv, FreedOnce, Freed
  <2>4. Asks(l)'
    BY <1>1, <2>2 DEF Asks
  <2> QED BY <1>1, <1>2, <1>3, <2>1, <2>2, <2>3, <2>4, PanicBegin
<1> QED BY <1>4, <1>5 DEF Core

(* The release: it is not partial, and who was to be part of a core image  *)
(* is released by the LWP that goes on to exit().                          *)
LEMMA NotPartial ==
  ASSUME Barrier, NEW l \in list, pc[l] = "stasis"
  PROVE  nrendezvoused + 1 = Nlwp
<1>1. Rendezvoused = list \ {l}
  BY DEF Barrier, StasisMeansStopped, At, Others
<1>2. Cardinality(list \ {l}) = Cardinality(list) - 1 /\ Cardinality(list) \in Nat
  BY LwpsFinite, FS_RemoveElement DEF Barrier, Places
<1> QED BY <1>1, <1>2 DEF Barrier, RendezvousedCount, Nlwp

(* release_rendezvous().                                                   *)
LEMMA PanicRelease ==
  ASSUME Known, PanicInv, NEW l \in Lwps, Release(l)
  PROVE  PanicInv'
<1>1. pc[l] = "stasis" /\ UNCHANGED <<list, pDestroy, destroy, cursig>>
  BY DEF Release, At, procVars
<1>2. l \in list /\ Places /\ Asks(l) /\ call[l] # "exit"
  BY <1>1, Listed DEF Known, Barrier, PanicInv, Initiating, RvPc, Asks
<1>3. Rendezvoused = list \ {l}
  BY <1>1, <1>2 DEF Known, Barrier, StasisMeansStopped, At, Others
<1>4. rendezv' \subseteq rendezv \ (list \ {l})
  <2>1. CASE Nlwp > 1
    BY <1>1, <1>2, <2>1, NotPartial DEF Release, Known, Others
  <2>2. CASE ~(Nlwp > 1)
    <3>1. list = {l}
      BY <1>2, <2>2, Alone
    <3>2. UNCHANGED rendezv
      BY <2>2 DEF Release
    <3> QED BY <3>1, <3>2
  <2> QED BY <2>1, <2>2
<1>5. \/ call[l] = "forkall" /\ BeginCall(l, "none") /\ GoWaking(l, "trap", Rendezvoused)
      \/ call[l] # "forkall" /\ BeginCall(l, "exit") /\ GoWaking(l, "destroy", Rendezvoused)
  BY <1>1, <1>2, NotPartial DEF Release, Known
<1>6. \A m \in Lwps \ {l} : call'[m] = call[m]
  BY <1>5, CallOfOne DEF Known, Typed
<1>7. /\ Calm(l)
      /\ \A m \in Lwps \ {l} : pc'[m] = "exreleased" => m \in list /\ ExPc(pc[m])
      /\ \/ call[l] = "forkall" /\ pc'[l] = "trap"
         \/ call[l] # "forkall" /\ pc'[l] = "destroy" /\ call'[l] = "exit"
  <2>1. /\ Rendezvoused \in SUBSET list
        /\ \A m \in Rendezvoused : MayWake(pc[m])
    BY <1>2, WokenSets
  <2>2. PICK p \in {"trap", "destroy"} :
          /\ GoWaking(l, p, Rendezvoused) /\ (call[l] = "forkall" => p = "trap")
          /\ call[l] # "forkall" => p = "destroy" /\ BeginCall(l, "exit")
    BY <1>5
  <2>3. \A m \in Lwps \ {l} : call'[m] = call[m] /\ cursig'[m] = cursig[m]
    BY <1>1, <1>6
  <2>4. /\ Calm(l) /\ pc'[l] = p
        /\ \A m \in Lwps \ {l} : pc'[m] = "exreleased" =>
             pc[m] = "exreleased" \/ (m \in Rendezvoused /\ pc[m] = "exrendezvoused")
    <3>1. p \in Pcs /\ GoWaking(l, p, Rendezvoused)
      BY <2>2, PcNames
    <3> QED BY <1>2, <2>1, <2>3, <3>1, CalmWaking
  <2>5. \A m \in Lwps \ {l} : pc'[m] = "exreleased" => m \in list /\ ExPc(pc[m])
    BY <1>2, <2>4 DEF ExPc, Places
  <2>6. call[l] # "forkall" => call'[l] = "exit"
    BY <1>2, <2>2, CallOfOne DEF Known, Typed, Places
  <2> QED BY <2>2, <2>4, <2>5, <2>6
<1>8. FreedOnce'
  <2>1. SUFFICES ASSUME NEW m \in list, pc'[m] = "exreleased"
                 PROVE  m \notin rendezv' /\ \A x \in list \ destroy : call'[x] = "exit"
    BY <1>1 DEF FreedOnce
  <2>2. m # l /\ ExPc(pc[m]) /\ pDestroy /\ list # {l}
    BY <1>1, <1>2, <1>7, <2>1 DEF PanicInv, ExitsForCore, Places
  <2>3. l \notin destroy
    BY <1>1, <1>2, <2>2 DEF PanicInv, RestNotTold
  <2>4. cursig[l] # "none"
    BY <1>2, <2>2, <2>3 DEF Known, DestroyInv, OnItsWay
  <2>5. call'[l] = "exit"
    BY <1>2, <1>7, <2>4 DEF Asks
  <2>6. \A x \in list \ destroy : x = l
    BY <1>2, <2>2, <2>3 DEF Known, DestroyInv, OneNotTold
  <2> QED BY <1>4, <2>2, <2>5, <2>6
<1> QED BY <1>1, <1>2, <1>7, <1>8, CalmStep DEF PanicInv, CoreDooms, BadPc, RvPc, ExPc

(***************************************************************************)
(* Aborts: never once the process is to end.                               *)
(***************************************************************************)
(* Nobody has the process at rest or a core image to write.                *)
LEMMA PanicAbort ==
  ASSUME Known, PanicInv, ~pDestroy, NEW l \in list, pc[l] = "trap" \/ pc[l] = "dlock",
         NEW p \in Pcs, ~BadPc(p), ~RvPc(p), ~ExPc(p),
         NEW W \in SUBSET list, GoWaking(l, p, W), \A m \in W : MayWake(pc[m]),
         list' = list, destroy \subseteq destroy', cursig'[l] = "core" => pDestroy',
         \A m \in Lwps \ {l} : call'[m] = call[m] /\ cursig'[m] = cursig[m]
  PROVE  PanicInv'
<1>1. Places
  BY DEF Known, Barrier
<1>2. /\ Calm(l) /\ pc'[l] = p
      /\ \A m \in Lwps \ {l} : pc'[m] = "exreleased" => ExPc(pc[m])
  BY <1>1, CalmWaking DEF ExPc
<1>3. \A m \in list : ~ExPc(pc[m]) /\ cursig[m] # "core"
  BY <1>1 DEF PanicInv, ExitsForCore, CoreDooms, Places
<1>4. FreedOnce'
  BY <1>1, <1>2, <1>3 DEF FreedOnce, Places, ExPc
<1>5. \A m \in list \ {l} : pc[m] # "stasis" /\ (RvPc(pc[m]) => call[m] = "forkall")
  <2>1. \A m \in list \ {l} : pc[m] # "stasis"
    BY NobodyAtRest DEF Known, Barrier, Rdv
  <2>2. \A m \in list : RvPc(pc[m]) => call[m] = "forkall"
    BY <1>3 DEF PanicInv, Initiating, Asks
  <2> QED BY <2>1, <2>2
<1> QED BY <1>1, <1>2, <1>4, <1>5, CalmStep DEF RvPc

(* A fatal signal comes before the process is to end.                      *)
LEMMA PanicFatal ==
  ASSUME Known, PanicInv, NEW l \in Lwps, IssigKill(l) \/ IssigCore(l)
  PROVE  PanicInv'
<1>1. /\ pc[l] = "trap" /\ cursig[l] = "none" /\ l \notin destroy /\ UNCHANGED <<list, call>>
  BY DEF IssigKill, IssigCore, At
<1>2. l \in list /\ Places
  BY <1>1, Listed DEF Known, Barrier
<1>3. ~pDestroy
  BY <1>1, <1>2, RunnersAreTold DEF Known
<1>4. CASE Goto(l, "destroy in rendezvous") /\ UNCHANGED <<pDestroy, destroy, cursig, rendezv>>
  BY <1>1, <1>4, PanicGoto, PcNames DEF BadPc, RvPc, ExPc
<1>5. CASE ~Goto(l, "destroy in rendezvous")
           \/ ~UNCHANGED <<pDestroy, destroy, cursig, rendezv>>
  <2>1. /\ destroy \subseteq destroy' /\ (cursig'[l] = "core" => pDestroy')
        /\ \E s \in {"kill", "core"} : cursig' = [cursig EXCEPT ![l] = s]
        /\ \/ Goto(l, "trap")
           \/ GoWaking(l, "trap", Aborted \union Doomed(l))
           \/ GoWaking(l, "trap", Doomed(l) \union Initiators)
           \/ GoWaking(l, "trap", Doomed(l))
    <3>1. CASE IssigKill(l)
      <4>1. cursig' = [cursig EXCEPT ![l] = "kill"] /\ PostDestroy(l, TRUE, "trap")
        BY <1>5, <3>1 DEF IssigKill
      <4>2. cursig'[l] = "kill"
        BY <4>1 DEF Known, Typed, Own
      <4> QED BY <4>1, <4>2 DEF PostDestroy, PostDestroyEvent
    <3>2. CASE IssigCore(l)
      BY <1>5, <3>2 DEF IssigCore, PostDestroyEvent
    <3> QED BY <3>1, <3>2
  <2>2. \A m \in Lwps \ {l} : cursig'[m] = cursig[m] /\ call'[m] = call[m]
    BY <1>1, <2>1 DEF Known, Typed, Own
  <2>3. /\ Aborted \union Doomed(l) \in SUBSET list /\ Doomed(l) \union Initiators \in SUBSET list
        /\ \A m \in Aborted \union Doomed(l) \union Initiators : MayWake(pc[m])
    BY <1>2, WokenSets
  <2>4. PICK W \in SUBSET list : GoWaking(l, "trap", W) /\ \A m \in W : MayWake(pc[m])
    BY <1>2, <2>1, <2>3, GotoWakesNobody
  <2> QED BY <1>1, <1>2, <1>3, <2>1, <2>2, <2>4, PanicAbort, PcNames DEF BadPc, RvPc, ExPc
<1> QED BY <1>4, <1>5

(* So does a job control stop.                                             *)
LEMMA PanicJobstop ==
  ASSUME Known, PanicInv, NEW l \in Lwps, IssigJobstop(l)
  PROVE  PanicInv'
<1>1. /\ pc[l] = "trap" /\ cursig[l] = "none" /\ l \notin destroy
      /\ UNCHANGED <<list, pDestroy, destroy, cursig, call>>
  BY DEF IssigJobstop, At, ownVars
<1>2. l \in list /\ Places
  BY <1>1, Listed DEF Known, Barrier
<1>3. ~pDestroy
  BY <1>1, <1>2, RunnersAreTold DEF Known
<1>4. CASE Goto(l, "jobstopped") /\ UNCHANGED rendezv
  BY <1>1, <1>4, PanicGoto, PcNames DEF BadPc, RvPc, ExPc
<1>5. CASE GoWaking(l, "jobstopped", Aborted)
  <2>1. Aborted \in SUBSET list /\ \A m \in Aborted : MayWake(pc[m])
    BY <1>2, WokenSets
  <2>2. cursig'[l] = "core" => pDestroy'
    BY <1>1
  <2> QED BY <1>1, <1>2, <1>3, <1>5, <2>1, <2>2, PanicAbort, PcNames DEF BadPc, RvPc, ExPc
<1> QED BY <1>4, <1>5 DEF IssigJobstop

(* destroy_proc() does, or it waits.                                       *)
LEMMA PanicDestroyLock ==
  ASSUME Known, PanicInv, NEW l \in Lwps, DestroyLock(l)
  PROVE  PanicInv'
<1>1. pc[l] = "dlock" /\ UNCHANGED <<list, cursig, call>>
  BY DEF DestroyLock, At, ownVars
<1>2. l \in list /\ Places
  BY <1>1, Listed DEF Known, Barrier
<1>3. CASE UNCHANGED <<pDestroy, rendezv, destroy>>
           /\ \E p \in {"lwpexit", "trap", "dwoken", "dwait", "destroy in rendezvous"} : Goto(l, p)
  BY <1>1, <1>3, PanicGoto, PcNames DEF BadPc, RvPc, ExPc
<1>4. CASE ~pDestroy
           /\ PostDestroy(l, call[l] = "exit", IF Nlwp = 1 THEN "dwoken" ELSE "dwait")
  <2> DEFINE p == IF Nlwp = 1 THEN "dwoken" ELSE "dwait"
  <2>1. p \in Pcs /\ ~BadPc(p) /\ ~RvPc(p) /\ ~ExPc(p)
    BY PcNames DEF BadPc, RvPc, ExPc
  <2>2. /\ destroy \subseteq destroy'
        /\ Goto(l, p) \/ GoWaking(l, p, Aborted \union Doomed(l))
    BY <1>4 DEF PostDestroy, PostDestroyEvent
  <2>3. /\ Aborted \union Doomed(l) \in SUBSET list
        /\ \A m \in Aborted \union Doomed(l) : MayWake(pc[m])
    BY <1>2, WokenSets
  <2>4. PICK W \in SUBSET list : GoWaking(l, p, W) /\ \A m \in W : MayWake(pc[m])
    BY <1>2, <2>2, <2>3, GotoWakesNobody
  <2>5. cursig'[l] # "core"
    BY <1>1, <1>2, <1>4 DEF PanicInv, CoreDooms
  <2> HIDE DEF p
  <2> QED BY <1>1, <1>2, <1>4, <2>1, <2>2, <2>4, <2>5, PanicAbort
<1> QED BY <1>3, <1>4 DEF DestroyLock

(***************************************************************************)
(* Leaving, and new LWPs.                                                  *)
(***************************************************************************)
(* An LWP that is gone is missed by nobody: the process was at rest for    *)
(* nobody, and who is woken wakes where it waited.                         *)
LEMMA LeavingPanicInv ==
  ASSUME Known, PanicInv, NEW l \in list, Leave(l), UNCHANGED pDestroy, ~Rdv(pc[l]),
         pc'[l] = "none",
         \A m \in Lwps \ {l} : /\ ~BadPc(pc[m]) => ~BadPc(pc'[m])
                               /\ RvPc(pc'[m]) => RvPc(pc[m])
                               /\ pc'[m] = "stasis" => pc[m] = "stasis"
                               /\ ExPc(pc'[m]) => ExPc(pc[m])
                               /\ pc'[m] = "exreleased" => pc[m] = "exreleased"
  PROVE  PanicInv'
<1>1. /\ list' = list \ {l} /\ destroy' = destroy \ {l} /\ rendezv' = rendezv \ {l}
      /\ cursig'[l] = "none"
      /\ \A m \in Lwps \ {l} : call'[m] = call[m] /\ cursig'[m] = cursig[m]
  BY DEF Leave, BeginCall, Others, Known, Typed, Own, Barrier, Places
<1>2. list \subseteq Lwps /\ \A m \in list \ {l} : pc[m] # "stasis"
  BY NobodyAtRest DEF Known, Barrier, Places
<1> USE DEF PanicInv
<1>3. NoBadPc' /\ CoreDooms'
  BY <1>1 DEF NoBadPc, CoreDooms, BadPc
<1>4. Initiating' /\ RestNotTold'
  BY <1>1, <1>2 DEF Initiating, Asks, RestNotTold
<1>5. ExitsForCore' /\ FreedOnce'
  BY <1>1, <1>2 DEF ExitsForCore, FreedOnce
<1> QED BY <1>3, <1>4, <1>5

(* From lwp_exit().                                                        *)
LEMMA PanicLeaveList ==
  ASSUME Known, PanicInv, NEW l \in list, LeaveList(l), UNCHANGED pDestroy, ~Rdv(pc[l]),
         pc[l] # "none"
  PROVE  PanicInv'
<1>1. Places /\ l \in Lwps
  BY DEF Known, Barrier, Places
<1>2. CASE Nlwp = 1
  <2>1. /\ destroy' = destroy \union {l} /\ BeginCall(l, "exit") /\ Goto(l, "destroy")
        /\ UNCHANGED <<list, cursig, rendezv>>
    BY <1>2 DEF LeaveList
  <2>2. list = {l}
    BY <1>1, <1>2, Alone
  <2>3. call'[l] = "exit" /\ \A m \in Lwps \ {l} : call'[m] = call[m]
    BY <1>1, <2>1, CallOfOne DEF Known, Typed
  <2>4. Calm(l) /\ pc'[l] = "destroy"
    BY <1>1, <2>1, <2>3, CalmGoto, PcNames
  <2>5. FreedOnce'
    BY <2>1, <2>2, <2>4 DEF FreedOnce
  <2>6. cursig'[l] = "core" => pDestroy'
    BY <1>1, <2>1 DEF PanicInv, CoreDooms
  <2> QED BY <1>1, <2>1, <2>2, <2>4, <2>5, <2>6, CalmStep DEF BadPc, RvPc, ExPc
<1>3. CASE Nlwp # 1
  <2>1. Leave(l)
    BY <1>3 DEF LeaveList
  <2>2. PICK W1 \in SUBSET Initiators, W2 \in SUBSET AllAt("dwait") :
          GoWaking(l, "none", W1 \union W2)
    BY <1>3 DEF LeaveList, OneOf
  <2>3. /\ pc'[l] = "none"
        /\ \A m \in Lwps \ (W1 \union W2 \union {l}) : pc'[m] = pc[m]
        /\ \A m \in (W1 \union W2) \ {l} : pc'[m] = After(pc[m])
    <3> DEFINE W == W1 \union W2
    <3>1. W \in SUBSET list /\ GoWaking(l, "none", W)
      BY <2>2 DEF Initiators, AllAt
    <3> HIDE DEF W
    <3>2. /\ pc'[l] = "none"
          /\ \A m \in Lwps \ (W \union {l}) : pc'[m] = pc[m]
          /\ \A m \in W \ {l} : pc'[m] = After(pc[m])
      <4>1. "none" \in Pcs
        BY PcNames
      <4> QED BY <1>1, <3>1, <4>1, Moved
    <3> QED BY <3>2 DEF W
  <2>4. \A m \in (W1 \union W2) \ {l} :
          \/ pc[m] = "rvwait" /\ pc'[m] = "rvwoken"
          \/ pc[m] = "dwait" /\ pc'[m] = "dwoken"
    BY <2>3 DEF Initiators, AllAt, At, After
  <2>5. \A m \in Lwps \ {l} : /\ ~BadPc(pc[m]) => ~BadPc(pc'[m])
                              /\ RvPc(pc'[m]) => RvPc(pc[m])
                              /\ pc'[m] = "stasis" => pc[m] = "stasis"
                              /\ ExPc(pc'[m]) => ExPc(pc[m])
                              /\ pc'[m] = "exreleased" => pc[m] = "exreleased"
    BY <2>3, <2>4 DEF BadPc, RvPc, ExPc
  <2> QED BY <2>1, <2>3, <2>5, LeavingPanicInv
<1> QED BY <1>2, <1>3

(* lwp_exit(): the release of an LWP in it is a proper one.                *)
LEMMA PanicLwpExit ==
  ASSUME Known, PanicInv, NEW l \in Lwps, LwpExit(l) \/ LwpExitReleased(l)
  PROVE  PanicInv'
<1>1. /\ pc[l] = "user" \/ pc[l] = "lwpexit" \/ pc[l] = "trap" \/ pc[l] = "exreleased"
      /\ UNCHANGED pDestroy
  BY DEF LwpExit, LwpExitReleased, At
<1>2. l \in list /\ ~Rdv(pc[l])
  BY <1>1, Listed DEF Rdv, Known, Barrier
<1>3. CASE LeaveList(l)
  BY <1>1, <1>2, <1>3, PanicLeaveList
<1>4. CASE LwpExit(l) /\ ~LeaveList(l)
  <2>1. /\ Rendezvous(l, "exrendezvoused") /\ pDestroy /\ destroy' = destroy \union {l}
        /\ UNCHANGED <<list, pDestroy, cursig, call, rendezv>>
    BY <1>1, <1>4 DEF LwpExit
  <2> QED BY <1>2, <2>1, PanicRendezvous, PcNames DEF BadPc, RvPc
<1>5. CASE LwpExitReleased(l) /\ ~LeaveList(l)
  <2>1. pc[l] = "exreleased" /\ l \in rendezv
    BY <1>5 DEF LwpExitReleased, At
  <2> QED BY <1>2, <2>1 DEF PanicInv, FreedOnce
<1> QED BY <1>3, <1>4, <1>5

(* A new LWP is told to go when the one that creates it is.                *)
LEMMA PanicNewLwp ==
  ASSUME Known, PanicInv, NEW l \in Lwps, NewLwp(l)
  PROVE  PanicInv'
<1>1. PICK n \in Lwps \ list :
        /\ list' = list \union {n} /\ Goto(n, "trap") /\ destroy' = Inherit(destroy, l, n)
        /\ InheritRequest(l, n)
  BY DEF NewLwp
<1>2. pc[l] = "user" /\ l \in list /\ UNCHANGED <<pDestroy, cursig, call>> /\ Places
  BY Listed DEF NewLwp, At, ownVars, Known, Barrier
<1>3. \A m \in Lwps : pc'[m] = IF m = n THEN "trap" ELSE pc[m]
  BY <1>1, <1>2 DEF Goto, Places
<1>4. \A m \in list : pc[m] # "stasis"
  BY <1>2, NobodyAtRest DEF Known, Barrier, Rdv
<1>5. pDestroy => l \in destroy
  BY <1>2, RunnersAreTold DEF Known
<1>6. /\ \A m \in list : m \in destroy' <=> m \in destroy
      /\ \A m \in list : m \in rendezv' <=> m \in rendezv
      /\ l \in destroy => n \in destroy'
  BY <1>1 DEF Inherit, InheritRequest
<1>7. NoBadPc' /\ CoreDooms'
  BY <1>2, <1>3 DEF PanicInv, NoBadPc, CoreDooms, BadPc
<1>8. Initiating' /\ RestNotTold'
  BY <1>1, <1>2, <1>3, <1>4, <1>6 DEF PanicInv, Initiating, Asks, RestNotTold, RvPc, Places
<1>9. ExitsForCore' /\ FreedOnce'
  <2>1. ExitsForCore'
    BY <1>1, <1>2, <1>3 DEF PanicInv, ExitsForCore, ExPc, Places
  <2>2. SUFFICES ASSUME NEW m \in list', pc'[m] = "exreleased"
                 PROVE  m \notin rendezv' /\ \A x \in list' \ destroy' : call'[x] = "exit"
    BY <2>1 DEF FreedOnce
  <2>3. m \in list /\ pc[m] = "exreleased"
    BY <1>1, <1>2, <1>3, <2>2 DEF Places
  <2>4. n \in destroy'
    BY <1>5, <1>6, <2>3 DEF PanicInv, ExitsForCore, ExPc
  <2> QED BY <1>1, <1>2, <1>6, <2>3, <2>4 DEF PanicInv, FreedOnce
<1> QED BY <1>7, <1>8, <1>9 DEF PanicInv

(***************************************************************************)
(* Every step, and the theorem.                                            *)
(***************************************************************************)
(* Every step keeps the panics away.                                       *)
LEMMA PanicStep ==
  ASSUME Known, PanicInv, [Next]_vars
  PROVE  PanicInv'
<1>1. CASE Sigcont
  BY <1>1, PanicSigcont
<1>2. ASSUME NEW l \in Lwps, Calls(l)
      PROVE  PanicInv'
  BY <1>2, PanicForkall, PanicExit, PanicNewLwp, PanicSuspendContinue, PanicLwpExit DEF Calls
<1>3. ASSUME NEW l \in Lwps, Trap(l) \/ Signals(l)
      PROVE  PanicInv'
  BY <1>3, PanicTrap, PanicFatal, PanicJobstop DEF Signals
<1>4. ASSUME NEW l \in Lwps, InKernel(l)
      PROVE  PanicInv'
  BY <1>4, PanicTrap, PanicPsigRendezvous, PanicExit, PanicJobstop, PanicCore, PanicWoken,
     PanicRelease, PanicDestroyTest, PanicDestroyLock, PanicDestroyDone, PanicLwpExit
     DEF InKernel
<1>5. CASE UNCHANGED vars
  <2>1. UNCHANGED <<list, pDestroy, destroy, rendezv, cursig, call, pc>>
    BY <1>5 DEF vars, procVars, flagVars, evfVars, ownVars
  <2> QED BY <2>1 DEF PanicInv, NoBadPc, CoreDooms, Initiating, Asks, RestNotTold,
                      ExitsForCore, FreedOnce
<1> QED BY <1>1, <1>2, <1>3, <1>4, <1>5 DEF Next

(* All LWPs begin in their user's code, with nothing pending.              *)
LEMMA PanicInit ==
  ASSUME Init
  PROVE  PanicInv
<1>1. /\ \A l \in Lwps : cursig[l] = "none" /\ (pc[l] = "user" \/ pc[l] = "none")
  BY DEF Init
<1>2. list \subseteq Lwps
  BY RendezvousAssumption DEF Init
<1> QED BY <1>1, <1>2 DEF PanicInv, NoBadPc, CoreDooms, Initiating, RestNotTold, ExitsForCore,
                          FreedOnce, BadPc, RvPc, ExPc

(* The panics, at every moment.                                            *)
LEMMA SpecPanicInv == Spec => []PanicInv
<1>1. Init => PanicInv
  BY PanicInit
<1>2. Inv /\ DestroyInv /\ PanicInv /\ [Next]_vars => PanicInv'
  BY PanicStep DEF Inv, Known
<1> QED BY <1>1, <1>2, SpecInv, SpecDestroyInv, PTL DEF Spec

(* Of the conditions that the code panics on, only that of destroy_proc()  *)
(* in a complete rendezvous can ever hold: a release is never partial, the *)
(* LWP that destroys the process is not woken early, core() is never       *)
(* refused, and an LWP released in lwp_exit() is no longer requested.      *)
THEOREM NoOtherPanics == Spec => []OnlyDestroyMayPanic
<1>1. PanicInv => OnlyDestroyMayPanic
  BY DEF PanicInv, NoBadPc, BadPc, OnlyDestroyMayPanic, Panics
<1> QED BY <1>1, SpecPanicInv, PTL

(***************************************************************************)
(* Requests.  As long as no LWP that was asked to rendezvous aborts the    *)
(* rendezvous ("own" is not in mishaps) a request is always one that       *)
(* somebody made of all others and still waits for, has, or is going to    *)
(* repeat from core(), or it is what is left to the LWP that goes on to    *)
(* destroy all others.  So nobody is in a rendezvous for nobody, and a     *)
(* suspended LWP that was made to run for one comes back to stop().        *)
(***************************************************************************)
ToDestroy(p) == p = "destroy" \/ p = "test" \/ p = "dlock" \/ DPc(p)
Out(p) == ExPc(p) \/ p = "lwpexit"

(* A suspended LWP is out of its user's code, and while it runs something  *)
(* that is pending keeps it from going back.                               *)
Pended(m) == m \in suspend \/ m \in rendezv \/ m \in destroy \/ cursig[m] # "none"
Held(m) == /\ pc[m] # "user"
           /\ pc[m] = "trap" \/ pc[m] = "jobstopped" => Pended(m)
           /\ ToDestroy(pc[m]) => call[m] # "exec"
           /\ RvPc(pc[m]) => call[m] # "forkall"

(* What is true of each LWP.                                               *)
Proper(m) ==
  /\ cursig[m] = "core" => m \notin destroy \/ list = {m}
  /\ Out(pc[m]) => m \in destroy
  /\ ToDestroy(pc[m]) => call[m] = "exit" \/ call[m] = "exec"
  /\ Rdv(pc[m]) => m \in rendezv
  /\ m \in lSuspended => Held(m)

(* Whose the request is.                                                   *)
AskPc(m) == \/ RvPc(pc[m]) /\ ~Refused(m)
            \/ cursig[m] = "core" /\ (pc[m] = "trap" \/ "core" \in mishaps)
Asker(m) == rendezv = Others(m) /\ AskPc(m)
Left(m) == rendezv = {m} /\ DPc(pc[m]) /\ call[m] = "exit"
Asked == rendezv = {} \/ \E m \in list : Asker(m) \/ Left(m)
NothingLeft == \A m \in Lwps \ list : cursig[m] = "none" /\ call[m] = "none"
RequestInv == (\A m \in list : Proper(m)) /\ NothingLeft /\ Asked

(* A step forgets no mishap.                                               *)
Lasting == mishaps \subseteq mishaps'

(* What a step of l leaves of another LWP: it is where it was, or woken    *)
(* where it slept.                                                         *)
Spared(l) == \A m \in Lwps \ {l} :
  /\ call'[m] = call[m] /\ cursig'[m] = cursig[m]
  /\ Rdv(pc'[m]) => Rdv(pc[m])
  /\ RvPc(pc'[m]) <=> RvPc(pc[m])
  /\ DPc(pc'[m]) <=> DPc(pc[m])
  /\ ToDestroy(pc'[m]) <=> ToDestroy(pc[m])
  /\ Out(pc'[m]) => Out(pc[m])
  /\ pc[m] = "trap" => pc'[m] = "trap"
  /\ pc'[m] = "user" => pc[m] = "user"
  /\ pc'[m] = "trap" => pc[m] = "trap" \/ pc[m] = "jobstopped" \/ pc[m] = "suspended"
  /\ pc'[m] = "jobstopped" => pc[m] = "jobstopped"

(* A move of one LWP and of those that it wakes where they sleep.          *)
LEMMA SparedWaking ==
  ASSUME Places, NEW l \in list, NEW p \in Pcs, NEW W \in SUBSET list, GoWaking(l, p, W),
         \A m \in W : MayWake(pc[m]) \/ pc[m] = "dwait",
         \A m \in Lwps \ {l} : call'[m] = call[m] /\ cursig'[m] = cursig[m]
  PROVE  Spared(l) /\ pc'[l] = p /\ \A m \in W \ {l} : ~Rdv(pc'[m])
<1>1. /\ pc'[l] = p
      /\ \A m \in Lwps \ (W \union {l}) : pc'[m] = pc[m]
      /\ \A m \in W \ {l} : pc'[m] = After(pc[m])
  BY Moved
<1>2. \A m \in W \ {l} :
        \/ pc[m] = "rvwait" /\ pc'[m] = "rvwoken"
        \/ pc[m] = "rendezvoused" /\ pc'[m] = "released"
        \/ pc[m] = "exrendezvoused" /\ pc'[m] = "exreleased"
        \/ pc[m] = "dwait" /\ pc'[m] = "dwoken"
        \/ (pc[m] = "jobstopped" \/ pc[m] = "suspended") /\ pc'[m] = "trap"
  BY <1>1 DEF MayWake, After
<1>3. \A m \in Lwps \ {l} : pc'[m] = pc[m] \/ m \in W \ {l}
  BY <1>1
<1>4. \A m \in W \ {l} : ~Rdv(pc'[m])
  BY <1>2 DEF Rdv
<1> QED BY <1>1, <1>2, <1>3, <1>4 DEF Spared, Rdv, RvPc, DPc, ToDestroy, Out, ExPc

(* A move that wakes nobody.                                               *)
LEMMA SparedGoto ==
  ASSUME Places, NEW l \in list, NEW p \in Pcs, Goto(l, p),
         \A m \in Lwps \ {l} : call'[m] = call[m] /\ cursig'[m] = cursig[m]
  PROVE  Spared(l) /\ pc'[l] = p
<1>1. GoWaking(l, p, {})
  BY GotoWakesNobody DEF Places
<1> QED BY <1>1, SparedWaking

(* The request that is left alone stays somebody's.                        *)
LEMMA AskedStays ==
  ASSUME Known, Asked, Lasting, NEW l \in list, Spared(l), UNCHANGED <<list, rendezv>>,
         rendezv # {} /\ AskPc(l) /\ l \notin rendezv => AskPc(l)',
         ~DPc(pc[l]) \/ (DPc(pc'[l]) /\ call'[l] = call[l]),
         \A m \in list \ {l} : Refused(m)' => Refused(m)
  PROVE  Asked'
<1>1. list \subseteq Lwps
  BY DEF Known, Barrier, Places
<1>2. ASSUME NEW m \in list, AskPc(m), m \notin rendezv, rendezv # {} PROVE AskPc(m)'
  BY <1>1, <1>2 DEF Spared, AskPc, Lasting
<1>3. ASSUME NEW m \in list, Asker(m), rendezv # {} PROVE Asker(m)'
  BY <1>2, <1>3 DEF Asker, Others
<1>4. ASSUME NEW m \in list, Left(m) PROVE Left(m)'
  BY <1>1, <1>4 DEF Spared, Left
<1> QED BY <1>3, <1>4 DEF Asked

(* What one step keeps of all LWPs.                                        *)
LEMMA RequestStep ==
  ASSUME Known, PanicInv, RequestInv, Lasting, NEW l \in list, Spared(l), list' = list,
         destroy \subseteq destroy',
         \A m \in list \ {l} : m \in destroy' /\ m \notin destroy => ~pDestroy,
         \A m \in list \ {l} : Rdv(pc'[m]) /\ m \in rendezv => m \in rendezv',
         lSuspended' \ {l} \subseteq lSuspended,
         \A m \in lSuspended \ {l} : Pended(m) /\ (pc'[m] = "trap" \/ pc'[m] = "jobstopped")
                                     => Pended(m)',
         \A m \in lSuspended \ {l} : pc[m] = "suspended" /\ pc'[m] = "trap" => Pended(m)',
         Proper(l)', Asked'
  PROVE  RequestInv'
<1>1. list \subseteq Lwps /\ lSuspended \subseteq list
  BY DEF Known, Barrier, Places, Typed, Flags
<1>2. NothingLeft'
  BY <1>1 DEF RequestInv, NothingLeft, Spared
<1>3. ASSUME NEW m \in list \ {l} PROVE Proper(m)'
  <2>1. Proper(m) /\ m \in Lwps
    BY <1>1 DEF RequestInv
  <2>2. cursig'[m] = "core" => m \notin destroy' \/ list = {m}
    BY <2>1 DEF Proper, Spared, PanicInv, CoreDooms
  <2>3. m \in lSuspended' => Held(m)'
    <3> SUFFICES ASSUME m \in lSuspended' PROVE Held(m)'
      OBVIOUS
    <3>1. Held(m)
      BY <2>1 DEF Proper
    <3>2. pc'[m] # "user"
      BY <2>1, <3>1 DEF Held, Spared
    <3>3. (ToDestroy(pc'[m]) => call'[m] # "exec") /\ (RvPc(pc'[m]) => call'[m] # "forkall")
      BY <2>1, <3>1 DEF Held, Spared
    <3>4. pc'[m] = "trap" \/ pc'[m] = "jobstopped" => Pended(m)'
      BY <2>1, <3>1 DEF Held, Spared
    <3> QED BY <3>2, <3>3, <3>4 DEF Held
  <2>4. (Out(pc'[m]) => m \in destroy') /\ (Rdv(pc'[m]) => m \in rendezv')
    BY <2>1 DEF Proper, Spared
  <2>5. ToDestroy(pc'[m]) => call'[m] = "exit" \/ call'[m] = "exec"
    BY <2>1 DEF Proper, Spared
  <2> QED BY <2>2, <2>3, <2>4, <2>5 DEF Proper
<1> QED BY <1>2, <1>3 DEF RequestInv

(***************************************************************************)
(* The steps.                                                              *)
(***************************************************************************)
(* Those of one LWP that leave all requests as they are.                   *)
LEMMA RequestGoto ==
  ASSUME Known, PanicInv, RequestInv, Lasting, NEW l \in Lwps, NEW p \in Pcs, Goto(l, p),
         pc[l] # "none", ~DPc(pc[l]),
         UNCHANGED <<list, pDestroy, destroy, rendezv, cursig>>, jobstop' \subseteq jobstop,
         \A m \in Lwps \ {l} : /\ call'[m] = call[m]
                               /\ m \in suspend' <=> m \in suspend
                               /\ m \in lSuspended' <=> m \in lSuspended,
         lSuspended' \subseteq Lwps, rendezv # {} /\ AskPc(l) => AskPc(l)', Proper(l)'
  PROVE  RequestInv'
<1>1. Places /\ l \in list /\ lSuspended \subseteq Lwps
  BY Listed DEF Known, Barrier, Places, Typed, Flags
<1>2. Spared(l) /\ \A m \in Lwps \ {l} : pc'[m] = pc[m]
  BY <1>1, SparedGoto DEF Goto, Places
<1>3. Asked'
  BY <1>1, <1>2, AskedStays DEF RequestInv, Refused
<1>4. /\ lSuspended' \ {l} \subseteq lSuspended
      /\ \A m \in lSuspended \ {l} : Pended(m) => Pended(m)'
  BY <1>1 DEF Pended
<1> QED BY <1>1, <1>2, <1>3, <1>4, RequestStep

(* The way out of a trap that does not block in a rendezvous.              *)
LEMMA RequestTrap ==
  ASSUME Known, PanicInv, RequestInv, Lasting, NEW l \in Lwps,
         Trap(l) \/ ReturnToUser(l) \/ PsigReleased(l) \/ IssigSuspend(l)
  PROVE  RequestInv'
<1>1. /\ pc[l] = "user" \/ pc[l] = "trap" \/ pc[l] = "released"
      /\ UNCHANGED <<list, pDestroy, destroy, cursig, call, rendezv, jobstop>>
      /\ \A m \in Lwps \ {l} : /\ m \in suspend' <=> m \in suspend
                               /\ m \in lSuspended' <=> m \in lSuspended
      /\ lSuspended' \subseteq lSuspended \union {l}
  BY DEF Trap, ReturnToUser, PsigReleased, IssigSuspend, At, procVars, flagVars, evfVars,
         ownVars, StopSuspended
<1>2. /\ Places /\ l \in list /\ Proper(l) /\ lSuspended \subseteq Lwps
      /\ pc[l] = "user" => cursig[l] = "none"
  BY <1>1, Listed DEF Known, Barrier, RequestInv, Typed, Flags, Places, DestroyInv,
                      InKernelWithSignal
<1>3. PICK p \in {"trap", "suspended", "user"} : Goto(l, p)
  BY DEF Trap, ReturnToUser, PsigReleased, IssigSuspend, StopSuspended
<1>4. pc'[l] = p /\ p \in Pcs
  BY <1>2, <1>3, PcNames DEF Goto, Places
<1>5. l \in lSuspended' => Held(l)'
  <2> SUFFICES ASSUME l \in lSuspended' PROVE Held(l)'
    OBVIOUS
  <2>1. ~Trap(l)
    BY <1>2, <2>1 DEF Trap, At, Proper, Held, flagVars
  <2>2. ~ReturnToUser(l)
    BY <1>2 DEF ReturnToUser, At, Proper, Held, flagVars, Pending, Pended
  <2>3. CASE PsigReleased(l)
    <3>1. pc'[l] = "trap" => l \in suspend' \/ l \in rendezv' \/ l \in destroy'
      BY <1>1, <1>2, <1>4, <2>3, PcNames DEF PsigReleased, StopSuspended, Goto, Places
    <3>2. pc'[l] = "trap" \/ pc'[l] = "suspended"
      BY <1>2, <2>3, PcNames DEF PsigReleased, StopSuspended, Goto, Places
    <3> QED BY <3>1, <3>2 DEF Held, Pended, ToDestroy, DPc, RvPc
  <2>4. CASE IssigSuspend(l)
    <3>1. pc'[l] = "suspended"
      BY <1>2, <2>4, PcNames DEF IssigSuspend, StopSuspended, Goto, Places
    <3> QED BY <3>1 DEF Held, ToDestroy, DPc, RvPc
  <2> QED BY <2>1, <2>2, <2>3, <2>4
<1>6. Proper(l)'
  BY <1>1, <1>2, <1>4, <1>5 DEF Proper, Out, ExPc, ToDestroy, DPc, Rdv
<1>7. AskPc(l) => AskPc(l)'
  <2>1. IssigSuspend(l) => cursig[l] = "none"
    BY DEF IssigSuspend
  <2>2. ReturnToUser(l) => cursig[l] = "none"
    BY DEF ReturnToUser, Pending
  <2>3. PsigReleased(l) => pc[l] = "released"
    BY DEF PsigReleased, At
  <2>4. Trap(l) => pc[l] = "user"
    BY DEF Trap, At
  <2> QED BY <1>1, <1>2, <2>1, <2>2, <2>3, <2>4 DEF AskPc, RvPc, Lasting
<1> QED BY <1>1, <1>2, <1>3, <1>4, <1>6, <1>7, RequestGoto DEF DPc

(* The ways into exit() and exec().                                        *)
LEMMA RequestExit ==
  ASSUME Known, PanicInv, RequestInv, Lasting, NEW l \in Lwps,
         PsigKill(l) \/ Exit(l) \/ Exec(l)
  PROVE  RequestInv'
<1>1. /\ pc[l] = "user" \/ (pc[l] = "trap" /\ cursig[l] = "kill")
      /\ UNCHANGED <<list, pDestroy, destroy, cursig, rendezv, jobstop, suspend, lSuspended>>
      /\ Goto(l, "destroy")
      /\ \/ BeginCall(l, "exit")
         \/ BeginCall(l, "exec") /\ pc[l] = "user"
  BY DEF PsigKill, Exit, Exec, At, procVars, flagVars, evfVars
<1>2. /\ Places /\ l \in list /\ Proper(l) /\ lSuspended \subseteq Lwps
      /\ pc[l] = "user" => cursig[l] = "none"
  BY <1>1, Listed DEF Known, Barrier, RequestInv, Typed, Flags, Places, DestroyInv,
                      InKernelWithSignal
<1>3. /\ \A m \in Lwps \ {l} : call'[m] = call[m]
      /\ call'[l] = "exit" \/ (call'[l] = "exec" /\ pc[l] = "user")
  BY <1>1, CallOfOne DEF Known, Typed
<1>4. pc'[l] = "destroy"
  BY <1>1, <1>2 DEF Goto, Places
<1>5. Proper(l)'
  BY <1>1, <1>2, <1>3, <1>4 DEF Proper, Held, Out, ExPc, ToDestroy, DPc, RvPc, Rdv
<1>6. ~AskPc(l)
  BY <1>1, <1>2 DEF AskPc, RvPc
<1> QED BY <1>1, <1>2, <1>3, <1>5, <1>6, RequestGoto, PcNames DEF DPc

(* The test that destroy_proc() makes without p_mutex.                     *)
LEMMA RequestDestroyTest ==
  ASSUME Known, PanicInv, RequestInv, Lasting, NEW l \in Lwps, DestroyRead(l) \/ DestroyTest(l)
  PROVE  RequestInv'
<1>1. /\ pc[l] = "destroy" \/ pc[l] = "test"
      /\ UNCHANGED <<list, pDestroy, destroy, cursig, call, rendezv, jobstop, suspend, lSuspended>>
  BY DEF DestroyRead, DestroyTest, At, procVars, flagVars, evfVars
<1>2. /\ Places /\ l \in list /\ Proper(l) /\ lSuspended \subseteq Lwps
  BY <1>1, Listed DEF Known, Barrier, RequestInv, Typed, Flags, Places
<1>3. PICK p \in {"dlock", "test", "destroy in rendezvous"} : Goto(l, p)
  BY DEF DestroyRead, DestroyTest
<1>4. pc'[l] = p /\ p \in Pcs
  BY <1>2, <1>3, PcNames DEF Goto, Places
<1>5. Proper(l)'
  BY <1>1, <1>2, <1>4 DEF Proper, Held, Out, ExPc, ToDestroy, DPc, RvPc, Rdv
<1>6. AskPc(l) => AskPc(l)'
  BY <1>1 DEF AskPc, RvPc, Lasting
<1> QED BY <1>1, <1>2, <1>3, <1>4, <1>5, <1>6, RequestGoto DEF DPc

(* One LWP that has neither been asked nor asks itself, nor is told to go, *)
(* shows that there is no request.                                         *)
LEMMA NoRequest ==
  ASSUME Known, RequestInv, NEW l \in list, l \notin rendezv, ~AskPc(l), ~DPc(pc[l]),
         l \notin destroy \/ list = {l}
  PROVE  rendezv = {}
<1>1. ASSUME NEW m \in list, Asker(m) PROVE rendezv = {}
  BY <1>1 DEF Asker, Others
<1>2. ASSUME NEW m \in list, Left(m) PROVE FALSE
  BY <1>2 DEF Left, Known, DestroyInv, OthersTold, Others
<1> QED BY <1>1, <1>2 DEF RequestInv, Asked

(* Awake in rendezvous().                                                  *)
LEMMA RequestWoken ==
  ASSUME Known, PanicInv, RequestInv, Lasting, NEW l \in Lwps, RendezvousWoken(l)
  PROVE  RequestInv'
<1>1. /\ pc[l] = "rvwoken"
      /\ UNCHANGED <<list, pDestroy, destroy, cursig, call, rendezv, jobstop, suspend, lSuspended>>
  BY DEF RendezvousWoken, At, procVars, flagVars, evfVars, ownVars
<1>2. /\ Places /\ l \in list /\ Proper(l) /\ lSuspended \subseteq Lwps /\ Asks(l)
  BY <1>1, Listed DEF Known, Barrier, RequestInv, Typed, Flags, Places, PanicInv, Initiating, RvPc
<1>3. \E p \in {"trap", "rvwait", "stasis"} :
        Goto(l, p) /\ IF p = "trap" THEN Refused(l) /\ call[l] = "forkall" ELSE ~Refused(l)
  <2>1. CASE Refused(l)
    <3>1. call[l] = "forkall"
      BY <1>2, <2>1 DEF PanicInv, CoreDooms, Asks, Refused
    <3> QED BY <2>1, <3>1 DEF RendezvousWoken, Failed
  <2>2. CASE ~Refused(l)
    <3>1. Goto(l, WaitOrHave(l))
      BY <2>2 DEF RendezvousWoken
    <3>2. WaitOrHave(l) = "rvwait" \/ WaitOrHave(l) = "stasis"
      BY DEF WaitOrHave
    <3> QED BY <2>2, <3>1, <3>2
  <2> QED BY <2>1, <2>2
<1>4. PICK p \in {"trap", "rvwait", "stasis"} :
        Goto(l, p) /\ IF p = "trap" THEN Refused(l) /\ call[l] = "forkall" ELSE ~Refused(l)
  BY <1>3
<1>5. pc'[l] = p /\ p \in Pcs
  BY <1>2, <1>4, PcNames DEF Goto, Places
<1>6. Refused(l)' <=> Refused(l)
  BY <1>1 DEF Refused
<1>7. Proper(l)'
  BY <1>1, <1>2, <1>4, <1>5 DEF Proper, Held, Out, ExPc, ToDestroy, DPc, RvPc, Rdv
<1>8. AskPc(l) => AskPc(l)'
  BY <1>1, <1>4, <1>5, <1>6 DEF AskPc, RvPc, Lasting
<1> QED BY <1>1, <1>2, <1>4, <1>5, <1>7, <1>8, RequestGoto DEF DPc

(* Blocking in psig() and in lwp_exit().                                   *)
LEMMA RequestRendezvous ==
  ASSUME Known, PanicInv, RequestInv, Lasting, NEW l \in list, NEW p \in Pcs, Rendezvous(l, p), Rdv(p),
         l \in rendezv, ~DPc(pc[l]),
         UNCHANGED <<list, pDestroy, cursig, call, rendezv, jobstop, suspend, lSuspended>>,
         \/ p = "rendezvoused" /\ destroy' = destroy
         \/ /\ p = "exrendezvoused" /\ destroy' = destroy \union {l}
            /\ cursig[l] = "core" => l \in destroy
  PROVE  RequestInv'
<1>1. Places /\ l \in Lwps /\ Proper(l) /\ lSuspended \subseteq list
  BY DEF Known, Barrier, Places, RequestInv, Typed, Flags
<1>2. PICK W \in SUBSET Initiators : GoWaking(l, p, W)
  BY DEF Rendezvous, OneOf
<1>3. W \in SUBSET list /\ \A m \in W : MayWake(pc[m])
  BY <1>1, <1>2, WokenSets
<1>4. Spared(l) /\ pc'[l] = p
  BY <1>1, <1>2, <1>3, SparedWaking
<1>5. Asked'
  BY <1>1, <1>4, AskedStays DEF RequestInv, Refused
<1>6. Proper(l)'
  BY <1>1, <1>4 DEF Proper, Held, Out, ExPc, ToDestroy, DPc, RvPc, Rdv
<1>7. \A m \in lSuspended \ {l} : /\ Pended(m) => Pended(m)'
                                  /\ pc[m] = "suspended" => pc'[m] # "trap"
  <2>1. \A m \in lSuspended \ {l} : Pended(m) => Pended(m)'
    BY DEF Pended
  <2>2. \A m \in Lwps \ {l} : pc[m] = "suspended" => pc'[m] = "suspended"
    BY <1>2, <1>3 DEF GoWaking, Initiators, AllAt, At, Places
  <2> QED BY <1>1, <2>1, <2>2 DEF Places
<1> QED BY <1>1, <1>4, <1>5, <1>6, <1>7, RequestStep


(* Blocking in psig().                                                     *)
LEMMA RequestPsigRendezvous ==
  ASSUME Known, PanicInv, RequestInv, Lasting, NEW l \in Lwps, PsigRendezvous(l)
  PROVE  RequestInv'
<1>1. /\ pc[l] = "trap" /\ l \in rendezv /\ Rendezvous(l, "rendezvoused")
      /\ UNCHANGED <<list, pDestroy, destroy, cursig, call, rendezv, jobstop, suspend, lSuspended>>
  BY DEF PsigRendezvous, At, procVars, flagVars, evfVars, ownVars
<1>2. l \in list
  BY <1>1, Listed DEF Known, Barrier
<1> QED BY <1>1, <1>2, RequestRendezvous, PcNames DEF Rdv, DPc

(* Posting the request, from forkall() or core(): it is the only one.      *)
LEMMA RequestBegin ==
  ASSUME Known, PanicInv, RequestInv, Lasting, NEW l \in list, Begin(l), pc[l] # "dwait", pc[l] # "dwoken",
         l \notin rendezv \/ list = {l}, ~Refused(l) \/ list = {l},
         UNCHANGED <<list, pDestroy, destroy, cursig, jobstop, suspend, lSuspended>>,
         \A m \in Lwps \ {l} : call'[m] = call[m],
         l \in lSuspended => call'[l] # "forkall", cursig[l] = "core" => l \notin destroy,
         call'[l] # "exec"
  PROVE  RequestInv'
<1>1. Places /\ l \in Lwps /\ lSuspended \subseteq list
  BY DEF Known, Barrier, Places, Typed, Flags
<1>2. PICK p \in {"rvwait", "stasis"} : p = WaitOrHave(l)
  BY DEF WaitOrHave
<1>3. PICK W \in SUBSET RunForRendezvous(Others(l)) :
        /\ GoWaking(l, p, W)
        /\ \/ W = {} /\ rendezv' = rendezv
           \/ rendezv' = rendezv \union Others(l)
  <2>1. CASE Goto(l, WaitOrHave(l)) /\ UNCHANGED rendezv
    BY <1>1, <1>2, <2>1, GotoWakesNobody
  <2>2. CASE ~(Goto(l, WaitOrHave(l)) /\ UNCHANGED rendezv)
    BY <1>2, <2>2 DEF Begin
  <2> QED BY <2>1, <2>2
<1>4. /\ W \in SUBSET list
      /\ \A m \in W : MayWake(pc[m]) /\ m \in Others(l)
  BY <1>1, WokenSets DEF RunForRendezvous
<1>5. p \in Pcs
  BY PcNames
<1>6. Spared(l) /\ pc'[l] = p
  BY <1>1, <1>3, <1>4, <1>5, SparedWaking
<1>7. Asked'
  <2>1. ~Refused(l) => AskPc(l)'
    BY <1>1, <1>6 DEF AskPc, RvPc, Refused
  <2>2. rendezv = {} => Asked'
    <3> SUFFICES ASSUME rendezv = {} PROVE Asked'
      OBVIOUS
    <3>1. rendezv' = {} \/ rendezv' = Others(l)
      BY <1>3
    <3>2. CASE list = {l}
      BY <3>1, <3>2 DEF Others, Asked
    <3>3. CASE list # {l}
      BY <2>1, <3>1, <3>3 DEF Asked, Asker, Others
    <3> QED BY <3>2, <3>3
  <2>3. CASE list = {l} /\ l \in rendezv
    BY <2>3 DEF RequestInv, Asked, Asker, Left, DPc, Others
  <2>4. CASE l \notin rendezv /\ rendezv # {}
    <3>1. CASE rendezv' = rendezv
      <4>1. list # {l} => ~Refused(l)
        OBVIOUS
      <4>2. list # {l}
        BY <2>4, <1>1 DEF Known, Typed, Flags
      <4> QED BY <1>6, <2>1, <3>1, <4>1, <4>2, AskedStays DEF RequestInv, Refused, DPc
    <3>2. CASE rendezv' = rendezv \union Others(l)
      <4>1. rendezv' = Others(l) /\ list # {l}
        BY <2>4, <3>2 DEF Known, Typed, Flags, Others
      <4> QED BY <2>1, <4>1 DEF Asked, Asker, Others
    <3> QED BY <1>3, <3>1, <3>2
  <2> QED BY <2>2, <2>3, <2>4
<1>8. Proper(l)'
  BY <1>1, <1>6 DEF RequestInv, Proper, Held, Out, ExPc, ToDestroy, DPc, RvPc, Rdv
<1>9. \A m \in lSuspended \ {l} : /\ Pended(m) => Pended(m)'
                                  /\ pc[m] = "suspended" /\ pc'[m] = "trap" => Pended(m)'
  <2>1. rendezv \subseteq rendezv'
    BY <1>3
  <2>2. \A m \in lSuspended \ {l} : Pended(m) => Pended(m)'
    BY <2>1 DEF Pended
  <2>3. \A m \in lSuspended \ {l} : pc[m] = "suspended" /\ pc'[m] = "trap" => m \in W
    BY <1>1, <1>3, <1>4 DEF GoWaking, Places
  <2>4. \A m \in W : m \in rendezv'
    BY <1>3, <1>4
  <2> QED BY <2>2, <2>3, <2>4 DEF Pended
<1> QED BY <1>1, <1>3, <1>6, <1>7, <1>8, <1>9, RequestStep

(* forkall().                                                              *)
LEMMA RequestForkall ==
  ASSUME Known, PanicInv, RequestInv, Lasting, NEW l \in Lwps, Forkall(l)
  PROVE  RequestInv'
<1>1. /\ pc[l] = "user" /\ BeginCall(l, "forkall")
      /\ UNCHANGED <<list, pDestroy, destroy, cursig, jobstop, suspend, lSuspended>>
  BY DEF Forkall, At, procVars
<1>2. /\ Places /\ l \in list /\ Proper(l) /\ lSuspended \subseteq Lwps /\ cursig[l] = "none"
      /\ l \notin lSuspended
  BY <1>1, Listed DEF Known, Barrier, RequestInv, Typed, Flags, Places, DestroyInv,
                      InKernelWithSignal, Proper, Held
<1>3. call'[l] = "forkall" /\ \A m \in Lwps \ {l} : call'[m] = call[m]
  BY <1>1, CallOfOne DEF Known, Typed
<1>4. CASE RefusedAtOnce(l)
  <2>1. Goto(l, "trap") /\ UNCHANGED rendezv
    BY <1>4 DEF Forkall
  <2>2. pc'[l] = "trap"
    BY <1>2, <2>1 DEF Goto, Places
  <2>3. Proper(l)'
    BY <1>1, <1>2, <1>3, <2>1, <2>2 DEF Proper, Out, ExPc, ToDestroy, DPc, Rdv
  <2>4. ~AskPc(l)
    BY <1>1, <1>2 DEF AskPc, RvPc
  <2> QED BY <1>1, <1>2, <1>3, <2>1, <2>3, <2>4, RequestGoto, PcNames DEF DPc
<1>5. CASE ~RefusedAtOnce(l)
  <2>1. Begin(l)
    BY <1>5 DEF Forkall
  <2>2. pDestroy => l \in destroy
    BY <1>1, <1>2, RunnersAreTold DEF Known
  <2>3. list = {l} \/ (l \notin rendezv /\ ~Refused(l))
    BY <1>2, <1>5, <2>2, Alone DEF RefusedAtOnce, Refused
  <2> QED BY <1>1, <1>2, <1>3, <2>1, <2>3, RequestBegin DEF Others
<1> QED BY <1>4, <1>5

(* core().                                                                 *)
LEMMA RequestCore ==
  ASSUME Known, PanicInv, RequestInv, Lasting, NEW l \in Lwps, Core(l)
  PROVE  RequestInv'
<1>1. /\ pc[l] = "trap" /\ cursig[l] = "core" /\ l \notin destroy /\ l \notin rendezv
      /\ UNCHANGED <<list, pDestroy, destroy, cursig, jobstop, suspend, lSuspended>>
  BY DEF Core, At, procVars
<1>2. /\ Places /\ l \in list /\ Proper(l) /\ lSuspended \subseteq Lwps /\ pDestroy
  BY <1>1, Listed DEF Known, Barrier, RequestInv, Typed, Flags, Places, PanicInv, CoreDooms
<1>3. CASE BeginCall(l, "exit") /\ Note("core", Nlwp > 1) /\ Goto(l, "destroy") /\ UNCHANGED rendezv
  <2>1. call'[l] = "exit" /\ \A m \in Lwps \ {l} : call'[m] = call[m]
    BY <1>3, CallOfOne DEF Known, Typed
  <2>2. pc'[l] = "destroy"
    BY <1>2, <1>3 DEF Goto, Places
  <2>3. Proper(l)'
    BY <1>1, <1>2, <1>3, <2>1, <2>2 DEF Proper, Held, Out, ExPc, ToDestroy, DPc, RvPc, Rdv
  <2>4. rendezv # {} => AskPc(l)'
    <3>1. Nlwp > 1 => "core" \in mishaps'
      BY <1>3 DEF Note
    <3>2. ~(Nlwp > 1) => list = {l}
      BY <1>2, Alone DEF Nlwp
    <3>3. rendezv \subseteq list
      BY DEF Known, Typed, Flags
    <3> QED BY <1>1, <3>1, <3>2, <3>3 DEF AskPc
  <2> QED BY <1>1, <1>2, <1>3, <2>1, <2>3, <2>4, RequestGoto, PcNames DEF DPc
<1>4. CASE BeginCall(l, "none") /\ IF RefusedAtOnce(l) THEN Goto(l, "no core") /\ UNCHANGED rendezv
                                                       ELSE Begin(l)
  <2>1. Begin(l) /\ ~Refused(l)
    BY <1>1, <1>2, <1>4 DEF RefusedAtOnce, Refused
  <2>2. call'[l] = "none" /\ \A m \in Lwps \ {l} : call'[m] = call[m]
    BY <1>4, CallOfOne DEF Known, Typed
  <2>3. \A m \in list \ {l} : m \in destroy
    BY <1>1, <1>2 DEF Known, DestroyInv, OneNotTold
  <2> QED BY <1>1, <1>2, <2>1, <2>2, <2>3, RequestBegin
<1> QED BY <1>3, <1>4 DEF Core

(* release_rendezvous(): the request is gone.                              *)
LEMMA RequestRelease ==
  ASSUME Known, PanicInv, RequestInv, Lasting, NEW l \in Lwps, Release(l)
  PROVE  RequestInv'
<1>1. /\ pc[l] = "stasis"
      /\ UNCHANGED <<list, pDestroy, destroy, cursig, jobstop, suspend, lSuspended>>
  BY DEF Release, At, procVars
<1>2. /\ Places /\ l \in list /\ Proper(l) /\ lSuspended \subseteq list /\ Asks(l)
      /\ list \subseteq Lwps
  BY <1>1, Listed DEF Known, Barrier, RequestInv, Typed, Flags, Places, PanicInv, Initiating, RvPc
<1>3. Rendezvoused = list \ {l} /\ \A m \in list \ {l} : Rdv(pc[m]) /\ m \in rendezv
  <2>1. Rendezvoused = list \ {l}
    BY <1>1, <1>2 DEF Known, Barrier, StasisMeansStopped, At, Others
  <2>2. \A m \in list \ {l} : Rdv(pc[m])
    BY <2>1, RendezvousedIs
  <2> QED BY <2>1, <2>2 DEF RequestInv, Proper
<1>4. rendezv' = {}
  <2>1. CASE Nlwp > 1
    <3>1. rendezv' = rendezv \ Others(l)
      BY <1>1, <1>2, <2>1, NotPartial DEF Release, Known
    <3>2. PICK m \in list : m # l
      BY <1>2, <2>1, Alone
    <3>3. \A k \in list : Asker(k) => k = l
      BY <1>3 DEF Asker, Others
    <3>4. \A k \in list : ~Left(k)
      BY <1>1, <1>3, <3>2 DEF Left, DPc, Rdv
    <3>5. rendezv = {} \/ rendezv = Others(l)
      BY <3>3, <3>4 DEF RequestInv, Asked, Asker
    <3> QED BY <3>1, <3>5
  <2>2. CASE ~(Nlwp > 1)
    <3>1. list = {l}
      BY <1>2, <2>2, Alone
    <3>2. UNCHANGED rendezv
      BY <2>2 DEF Release
    <3>3. rendezv = {}
      BY <1>1, <3>1 DEF RequestInv, Asked, Asker, Left, DPc, Others
    <3> QED BY <3>2, <3>3
  <2> QED BY <2>1, <2>2
<1>5. PICK p \in {"trap", "destroy"} :
        /\ GoWaking(l, p, Rendezvoused)
        /\ p = "trap" => BeginCall(l, "none") /\ call[l] = "forkall"
        /\ p = "destroy" => BeginCall(l, "exit")
  BY <1>1, <1>2, NotPartial DEF Release, Known
<1>6. /\ \A m \in Lwps \ {l} : call'[m] = call[m]
      /\ p = "trap" => call'[l] = "none"
      /\ p = "destroy" => call'[l] = "exit"
  BY <1>5, CallOfOne DEF Known, Typed
<1>7. Rendezvoused \in SUBSET list /\ \A m \in Rendezvoused : MayWake(pc[m])
  BY <1>2, WokenSets
<1>8. Spared(l) /\ pc'[l] = p /\ \A m \in Rendezvoused \ {l} : ~Rdv(pc'[m])
  <2>1. p \in Pcs
    BY PcNames
  <2> QED BY <1>1, <1>2, <1>5, <1>6, <1>7, <2>1, SparedWaking
<1>9. Proper(l)'
  BY <1>1, <1>2, <1>4, <1>5, <1>6, <1>8
  DEF Proper, Held, Out, ExPc, ToDestroy, DPc, RvPc, Rdv, Asks
<1>10. \A m \in list \ {l} : pc'[m] # "trap" /\ pc'[m] # "jobstopped" /\ ~Rdv(pc'[m])
  BY <1>2, <1>3, <1>8 DEF Spared, Rdv
<1>11. Asked'
  BY <1>4 DEF Asked
<1> QED BY <1>1, <1>2, <1>4, <1>8, <1>9, <1>10, <1>11, RequestStep

(* An abort when there is no request, and the destruction of the others:   *)
(* a request that is left is that of an LWP on its way to exit().          *)
LEMMA RequestAbort ==
  ASSUME Known, PanicInv, RequestInv, Lasting, ~pDestroy, NEW l \in list, pc[l] = "trap" \/ pc[l] = "dlock",
         NEW p \in Pcs, NEW W \in SUBSET list, GoWaking(l, p, W), \A m \in W : MayWake(pc[m]),
         list' = list, rendezv' \subseteq rendezv, destroy \subseteq destroy',
         UNCHANGED <<call, suspend, lSuspended>>,
         \A m \in Lwps \ {l} : cursig'[m] = cursig[m],
         rendezv = {} \/ Others(l) \subseteq destroy',
         rendezv # {} => Aborted \subseteq W,
         \A m \in W : pc[m] = "suspended" => m \in destroy',
         Proper(l)', Asked'
  PROVE  RequestInv'
<1>1. Places /\ l \in Lwps /\ lSuspended \subseteq list /\ list \subseteq Lwps
  BY DEF Known, Barrier, Places, Typed, Flags
<1>2. Spared(l) /\ pc'[l] = p /\ \A m \in W \ {l} : ~Rdv(pc'[m])
  BY <1>1, SparedWaking
<1>3. \A m \in list \ {l} : Rdv(pc'[m]) /\ m \in rendezv => m \in rendezv'
  <2>1. \A m \in list : Rdv(pc[m]) => m \in Aborted
    BY RendezvousedIs DEF Aborted
  <2> QED BY <1>1, <1>2, <2>1 DEF Spared
<1>4. \A m \in lSuspended \ {l} : /\ Pended(m) => Pended(m)'
                                  /\ pc[m] = "suspended" /\ pc'[m] = "trap" => Pended(m)'
  <2>1. \A m \in lSuspended \ {l} : Pended(m) => Pended(m)'
    BY <1>1 DEF Pended, Others
  <2>2. \A m \in lSuspended \ {l} : pc[m] = "suspended" /\ pc'[m] = "trap" => m \in W
    BY <1>1 DEF GoWaking, Places
  <2> QED BY <2>1, <2>2 DEF Pended
<1> QED BY <1>1, <1>2, <1>3, <1>4, RequestStep

(* Who is alone is asked for nothing, unless it waits to be alone.         *)
LEMMA NotAskedAlone ==
  ASSUME RequestInv, NEW l, list = {l}, ~DPc(pc[l])
  PROVE  rendezv = {}
BY DEF RequestInv, Asked, Asker, Left, Others

(* Who aborts a rendezvous without a mishap has not been asked for it.     *)
LEMMA AbortsForeign ==
  ASSUME Known, RequestInv, "own" \notin mishaps', NEW l \in list, ~DPc(pc[l]),
         Note("own", AbortsOwn(l))
  PROVE  l \notin rendezv
<1>1. Nlwp > 1 => l \notin rendezv
  BY DEF Note, AbortsOwn
<1>2. ~(Nlwp > 1) => rendezv = {}
  BY Alone, NotAskedAlone DEF Known, Barrier
<1> QED BY <1>1, <1>2

(* A job control stop.                                                     *)
LEMMA RequestJobstop ==
  ASSUME Known, PanicInv, RequestInv, Lasting, "own" \notin mishaps', NEW l \in Lwps, IssigJobstop(l)
  PROVE  RequestInv'
<1>1. /\ pc[l] = "trap" /\ cursig[l] = "none" /\ l \notin destroy /\ l \notin suspend
      /\ UNCHANGED <<list, pDestroy, destroy, cursig, call, suspend, lSuspended>>
  BY DEF IssigJobstop, At, ownVars
<1>2. /\ Places /\ l \in list /\ Proper(l) /\ lSuspended \subseteq list
      /\ list \subseteq Lwps
  BY <1>1, Listed DEF Known, Barrier, RequestInv, Typed, Flags, Places
<1>3. ~pDestroy
  BY <1>1, <1>2, RunnersAreTold DEF Known
<1>4. ~AskPc(l)
  BY <1>1 DEF AskPc, RvPc, Lasting
<1>5. CASE Goto(l, "jobstopped") /\ UNCHANGED rendezv /\ jobstop' = jobstop \ {l}
  <2>1. pc'[l] = "jobstopped"
    BY <1>2, <1>5 DEF Goto, Places
  <2>2. Proper(l)'
    BY <1>1, <1>2, <1>5, <2>1
    DEF Proper, Held, Pended, Out, ExPc, ToDestroy, DPc, RvPc, Rdv
  <2> QED BY <1>1, <1>2, <1>4, <1>5, <2>2, RequestGoto, PcNames DEF DPc
<1>6. CASE Abort(l) /\ GoWaking(l, "jobstopped", Aborted) /\ l \notin rendezv
  <2>1. rendezv = {} /\ rendezv' = {}
    BY <1>1, <1>2, <1>4, <1>6, NoRequest DEF Abort, DPc
  <2>2. Aborted \in SUBSET list /\ \A m \in Aborted : MayWake(pc[m]) /\ pc[m] # "suspended"
    BY <1>2, WokenSets DEF Aborted, Rendezvoused, Initiators, AllAt, At
  <2>3. pc'[l] = "jobstopped"
    BY <1>2, <1>6, <2>2, PcNames, Moved
  <2>4. Proper(l)'
    BY <1>1, <1>2, <2>1, <2>3
    DEF Proper, Held, Pended, Out, ExPc, ToDestroy, DPc, RvPc, Rdv
  <2>5. Asked'
    BY <2>1 DEF Asked
  <2> QED BY <1>1, <1>2, <1>3, <1>6, <2>1, <2>2, <2>4, <2>5, RequestAbort, PcNames
<1>7. ~sigjobstop => l \notin rendezv
  BY <1>1, <1>2, AbortsForeign DEF IssigJobstop, DPc
<1> QED BY <1>5, <1>6, <1>7 DEF IssigJobstop

(* post_destroy().                                                         *)
LEMMA RequestPostDestroy ==
  ASSUME Known, PanicInv, RequestInv, Lasting, ~pDestroy, NEW l \in list, NEW all, NEW p \in Pcs,
         pc[l] = "trap" \/ pc[l] = "dlock", PostDestroy(l, all, p), p # "user",
         UNCHANGED <<list, call, suspend, lSuspended>>,
         \A m \in Lwps \ {l} : cursig'[m] = cursig[m],
         pc'[l] = p => Proper(l)',
         pc'[l] = p /\ l \in rendezv => DPc(p) /\ call[l] = "exit",
         l \notin rendezv => rendezv = {} \/ pc[l] = "dlock"
  PROVE  RequestInv'
<1>1. /\ Places /\ l \in Lwps /\ list \subseteq Lwps
      /\ rendezv \subseteq list
  BY DEF Known, Barrier, Places, Typed, Flags
<1>2. destroy' = destroy \union Others(l)
  BY DEF PostDestroy, PostDestroyEvent
<1>3. PICK W \in SUBSET list :
        /\ GoWaking(l, p, W) /\ \A m \in W : MayWake(pc[m]) /\ m \in Aborted \union Doomed(l)
        /\ Nlwp > 1 => Aborted \subseteq W /\ rendezv' = rendezv \ Others(l)
        /\ ~(Nlwp > 1) => W = {} /\ rendezv' = rendezv
  <2>1. CASE Nlwp > 1
    <3>1. /\ GoWaking(l, p, Aborted \union Doomed(l))
          /\ rendezv' = rendezv \ Others(l)
      <4>1. Nlwp # 1
        BY <2>1, <1>1, Alone
      <4> QED BY <2>1, <4>1 DEF PostDestroy, Abort, Neighbours
    <3>2. /\ Aborted \union Doomed(l) \in SUBSET list
          /\ \A m \in Aborted \union Doomed(l) : MayWake(pc[m])
      BY <1>1, WokenSets
    <3> QED BY <2>1, <3>1, <3>2
  <2>2. CASE ~(Nlwp > 1)
    BY <1>1, <2>2, GotoWakesNobody DEF PostDestroy
  <2> QED BY <2>1, <2>2
<1>4. pc'[l] = p
  BY <1>1, <1>3, Moved
<1>5. ~(Nlwp > 1) => rendezv = {}
  <2> SUFFICES ASSUME ~(Nlwp > 1) PROVE rendezv = {}
    OBVIOUS
  <2>1. list = {l}
    BY <1>1, Alone
  <2> QED BY <2>1, NotAskedAlone DEF DPc
<1>6. Asked'
  <2>1. rendezv' = {} \/ (rendezv' = {l} /\ l \in rendezv)
    BY <1>1, <1>3, <1>5 DEF Others
  <2> QED BY <1>4, <2>1 DEF Asked, Left
<1>7. \A m \in W : pc[m] = "suspended" => m \in destroy'
  BY <1>2, <1>3 DEF Aborted, Rendezvoused, Initiators, AllAt, At, Doomed
<1>8. rendezv' \subseteq rendezv /\ (rendezv # {} => Aborted \subseteq W)
  BY <1>3, <1>5
<1> QED BY <1>1, <1>2, <1>3, <1>4, <1>6, <1>7, <1>8, RequestAbort

(* A fatal signal without a core image.                                    *)
LEMMA RequestKill ==
  ASSUME Known, PanicInv, RequestInv, Lasting, "own" \notin mishaps', NEW l \in Lwps, IssigKill(l)
  PROVE  RequestInv'
<1>1. /\ pc[l] = "trap" /\ cursig[l] = "none" /\ l \notin destroy
      /\ UNCHANGED <<list, call, suspend, lSuspended>>
  BY DEF IssigKill, At
<1>2. /\ Places /\ l \in list /\ Proper(l) /\ lSuspended \subseteq list
      /\ list \subseteq Lwps
  BY <1>1, Listed DEF Known, Barrier, RequestInv, Typed, Flags, Places
<1>3. ~pDestroy /\ ~AskPc(l)
  BY <1>1, <1>2, RunnersAreTold DEF Known, AskPc, RvPc
<1>5. CASE /\ Goto(l, "destroy in rendezvous")
           /\ UNCHANGED <<pDestroy, rendezv, destroy, jobstop, cursig>>
  <2>1. pc'[l] = "destroy in rendezvous"
    BY <1>2, <1>5 DEF Goto, Places
  <2>2. Proper(l)'
    BY <1>1, <1>2, <1>5, <2>1 DEF Proper, Held, Out, ExPc, ToDestroy, DPc, RvPc, Rdv
  <2> QED BY <1>1, <1>2, <1>3, <1>5, <2>2, RequestGoto, PcNames DEF DPc
<1>6. CASE /\ cursig' = [cursig EXCEPT ![l] = "kill"] /\ PostDestroy(l, TRUE, "trap")
           /\ Note("own", AbortsOwn(l))
  <2>0. l \notin rendezv
    BY <1>1, <1>2, <1>6, AbortsForeign DEF DPc
  <2>1. cursig'[l] = "kill" /\ \A m \in Lwps \ {l} : cursig'[m] = cursig[m]
    BY <1>6 DEF Known, Typed, Own
  <2>5. rendezv = {}
    BY <1>1, <1>2, <1>3, <2>0, NoRequest DEF DPc
  <2>2. destroy' = destroy \union Others(l) /\ rendezv' = {}
    BY <1>6, <2>5 DEF PostDestroy, PostDestroyEvent, Abort
  <2>3. pc'[l] = "trap" => Proper(l)'
    BY <1>1, <1>2, <2>1, <2>2
    DEF Proper, Held, Pended, Out, ExPc, ToDestroy, DPc, RvPc, Rdv
  <2>4. "trap" \in Pcs
    BY PcNames
  <2> QED BY <1>1, <1>2, <1>3, <1>6, <2>0, <2>1, <2>3, <2>4, <2>5, RequestPostDestroy
<1> QED BY <1>5, <1>6 DEF IssigKill

(* One that calls for one: the request is now that of the LWP that dumps.  *)
LEMMA RequestDump ==
  ASSUME Known, PanicInv, RequestInv, Lasting, NEW l \in Lwps, IssigCore(l)
  PROVE  RequestInv'
<1>1. /\ pc[l] = "trap" /\ cursig[l] = "none" /\ l \notin destroy
      /\ UNCHANGED <<list, call, suspend, lSuspended>>
  BY DEF IssigCore, At
<1>2. /\ Places /\ l \in list /\ Proper(l) /\ lSuspended \subseteq list
      /\ list \subseteq Lwps
  BY <1>1, Listed DEF Known, Barrier, RequestInv, Typed, Flags, Places
<1>3. ~pDestroy /\ ~AskPc(l)
  BY <1>1, <1>2, RunnersAreTold DEF Known, AskPc, RvPc
<1>4. CASE /\ Goto(l, "destroy in rendezvous")
           /\ UNCHANGED <<pDestroy, rendezv, destroy, jobstop, cursig>>
  <2>1. pc'[l] = "destroy in rendezvous"
    BY <1>2, <1>4 DEF Goto, Places
  <2>2. Proper(l)'
    BY <1>1, <1>2, <1>4, <2>1 DEF Proper, Held, Out, ExPc, ToDestroy, DPc, RvPc, Rdv
  <2> QED BY <1>1, <1>2, <1>3, <1>4, <2>2, RequestGoto, PcNames DEF DPc
<1>5. CASE /\ cursig' = [cursig EXCEPT ![l] = "core"]
           /\ PostDestroyEvent(l) /\ TakeOver(l)
           /\ GoWaking(l, "trap", Doomed(l) \union IF l \in rendezv THEN Initiators ELSE {})
  <2>1. cursig'[l] = "core" /\ \A m \in Lwps \ {l} : cursig'[m] = cursig[m]
    BY <1>5 DEF Known, Typed, Own
  <2>2. destroy' = destroy \union Others(l) /\ rendezv' = Others(l)
    <3>1. ~(Nlwp > 1) => rendezv = {} /\ Others(l) = {}
      BY <1>1, <1>2, Alone, NotAskedAlone DEF DPc, Others
    <3> QED BY <1>5, <3>1 DEF PostDestroyEvent, TakeOver
  <2>3. PICK W \in SUBSET list : GoWaking(l, "trap", W) /\ \A m \in W : MayWake(pc[m])
    BY <1>2, <1>5, WokenSets
  <2>4. Spared(l) /\ pc'[l] = "trap"
    <3>1. "trap" \in Pcs
      BY PcNames
    <3> QED BY <1>1, <1>2, <2>1, <2>3, <3>1, SparedWaking
  <2>5. Proper(l)'
    BY <1>1, <1>2, <2>1, <2>2, <2>4
    DEF Proper, Held, Pended, Out, ExPc, ToDestroy, DPc, RvPc, Rdv, Others
  <2>6. Asked'
    BY <1>1, <1>2, <2>1, <2>2, <2>4 DEF Asked, Asker, AskPc, Others
  <2>7. \A m \in list \ {l} : m \in rendezv' /\ m \in destroy' /\ Pended(m)'
    BY <2>2 DEF Others, Pended
  <2> QED BY <1>1, <1>2, <1>3, <2>2, <2>4, <2>5, <2>6, <2>7, RequestStep
<1> QED BY <1>4, <1>5 DEF IssigCore

(* destroy_proc().                                                         *)
LEMMA RequestDestroyLock ==
  ASSUME Known, PanicInv, RequestInv, Lasting, "own" \notin mishaps', NEW l \in Lwps, DestroyLock(l)
  PROVE  RequestInv'
<1>1. /\ pc[l] = "dlock"
      /\ UNCHANGED <<list, cursig, call, suspend, lSuspended>>
  BY DEF DestroyLock, At, ownVars
<1>2. /\ Places /\ l \in list /\ Proper(l) /\ lSuspended \subseteq list
      /\ list \subseteq Lwps
  BY <1>1, Listed DEF Known, Barrier, RequestInv, Typed, Flags, Places
<1>3. CASE /\ UNCHANGED <<pDestroy, rendezv, destroy, jobstop>>
           /\ \E p \in {"lwpexit", "trap", "dwoken", "dwait", "destroy in rendezvous"} :
                Goto(l, p) /\ (p = "lwpexit" => l \in destroy) /\ (p = "trap" => call[l] # "exit")
  <2>1. PICK p \in {"lwpexit", "trap", "dwoken", "dwait", "destroy in rendezvous"} :
          Goto(l, p) /\ (p = "lwpexit" => l \in destroy) /\ (p = "trap" => call[l] # "exit")
    BY <1>3
  <2>2. pc'[l] = p /\ p \in Pcs
    BY <1>2, <2>1, PcNames DEF Goto, Places
  <2>3. Proper(l)'
    BY <1>1, <1>2, <1>3, <2>1, <2>2 DEF Proper, Held, Out, ExPc, ToDestroy, DPc, RvPc, Rdv
  <2>4. AskPc(l) => AskPc(l)'
    BY <1>1 DEF AskPc, RvPc, Lasting
  <2> QED BY <1>1, <1>2, <1>3, <2>1, <2>2, <2>3, <2>4, RequestGoto DEF DPc
<1>4. CASE /\ ~pDestroy /\ ~BeingDestroyed(l)
           /\ PostDestroy(l, call[l] = "exit", IF Nlwp = 1 THEN "dwoken" ELSE "dwait")
           /\ Note("own", call[l] = "exec" /\ AbortsOwn(l))
  <2> DEFINE p == IF Nlwp = 1 THEN "dwoken" ELSE "dwait"
  <2>1. p \in Pcs /\ DPc(p) /\ p # "user"
    BY PcNames DEF DPc
  <2>2. destroy' = destroy \union Others(l) /\ PostDestroy(l, call[l] = "exit", p)
    BY <1>4 DEF PostDestroy, PostDestroyEvent
  <2> HIDE DEF p
  <2>3. rendezv' \subseteq rendezv
    BY <2>2 DEF PostDestroy, Abort
  <2>4. pc'[l] = p => Proper(l)'
    BY <1>1, <1>2, <2>1, <2>2, <2>3
    DEF Proper, Held, Pended, Out, ExPc, ToDestroy, DPc, RvPc, Rdv, Others
  <2>5. l \in rendezv => call[l] = "exit"
    <3> SUFFICES ASSUME call[l] # "exit" PROVE l \notin rendezv
      OBVIOUS
    <3>1. call[l] = "exec"
      BY <1>1, <1>2 DEF Proper, ToDestroy
    <3>2. Note("own", AbortsOwn(l))
      BY <1>4, <3>1 DEF Note
    <3> QED BY <1>1, <1>2, <3>2, AbortsForeign DEF DPc
  <2> QED BY <1>1, <1>2, <1>4, <2>1, <2>2, <2>4, <2>5, RequestPostDestroy
<1> QED BY <1>3, <1>4 DEF DestroyLock, BeingDestroyed

(* SIGCONT makes the stopped run.                                          *)
LEMMA RequestSigcont ==
  ASSUME Known, PanicInv, RequestInv, Lasting, Sigcont
  PROVE  RequestInv'
<1>1. UNCHANGED <<list, pDestroy, destroy, cursig, call, rendezv, suspend, lSuspended>>
      /\ jobstop' = {}
  BY DEF Sigcont, ownVars
<1>2. \A m \in Lwps : pc'[m] = IF pc[m] = "jobstopped" THEN "trap" ELSE pc[m]
  BY DEF Sigcont, At
<1>3. list \subseteq Lwps
  BY DEF Known, Barrier, Places
<1>4. ASSUME NEW m \in list PROVE Proper(m)'
  <2>1. Proper(m)
    BY DEF RequestInv
  <2> QED BY <1>1, <1>2, <1>3, <2>1
          DEF Proper, Held, Pended, Out, ExPc, ToDestroy, DPc, RvPc, Rdv
<1>5. NothingLeft'
  BY <1>1 DEF RequestInv, NothingLeft
<1>6. ASSUME NEW m \in list, Asker(m) PROVE Asker(m)'
  BY <1>1, <1>2, <1>3, <1>6 DEF Asker, AskPc, Refused, RvPc, Others, Lasting
<1>7. ASSUME NEW m \in list, Left(m) PROVE Left(m)'
  BY <1>1, <1>2, <1>3, <1>7 DEF Left, DPc
<1> QED BY <1>1, <1>4, <1>5, <1>6, <1>7 DEF RequestInv, Asked

(* _lwp_suspend() and _lwp_continue().                                     *)
LEMMA RequestSuspendContinue ==
  ASSUME Known, PanicInv, RequestInv, Lasting, NEW l \in Lwps, LwpSuspend(l) \/ LwpContinue(l)
  PROVE  RequestInv'
<1>1. UNCHANGED <<list, pDestroy, destroy, cursig, call, rendezv, jobstop>>
  BY DEF LwpSuspend, LwpContinue, procVars, ownVars
<1>2. list \subseteq Lwps /\ lSuspended \subseteq list /\ suspend \subseteq list /\ Places
  BY DEF Known, Barrier, Places, Typed, Flags
<1>3. CASE /\ UNCHANGED pc
           /\ \/ suspend \subseteq suspend' /\ lSuspended' = lSuspended
              \/ LwpContinue(l)
  <2>1. /\ lSuspended' \subseteq lSuspended
        /\ \A m \in lSuspended' : m \in suspend => m \in suspend'
    BY <1>3 DEF LwpContinue
  <2>2. ASSUME NEW m \in list PROVE Proper(m)'
    <3>1. Proper(m)
      BY DEF RequestInv
    <3> QED BY <1>1, <1>3, <2>1, <3>1 DEF Proper, Held, Pended
  <2> QED BY <1>1, <1>3, <2>2 DEF RequestInv, NothingLeft, Asked, Asker, AskPc, Refused, Left,
                                  Others, Lasting
<1>4. CASE LwpContinue(l) /\ ~UNCHANGED pc
  <2>1. PICK m \in (suspend \union lSuspended) \ {l} :
          /\ Goto(m, "trap") /\ pc[m] \in Stopped
          /\ suspend' = suspend \ {m} /\ lSuspended' = lSuspended \ {m}
    BY <1>4 DEF LwpContinue
  <2>2. m \in Lwps /\ m \in list /\ Proper(m) /\ m \notin lSuspended'
    BY <1>2, <2>1 DEF RequestInv
  <2>3. pc'[m] = "trap" /\ (pc[m] = "jobstopped" \/ pc[m] = "suspended")
    BY <1>2, <2>1, <2>2 DEF Goto, Places, Stopped
  <2>4. Proper(m)' /\ (AskPc(m) => AskPc(m)')
    BY <1>1, <2>2, <2>3 DEF Proper, Out, ExPc, ToDestroy, DPc, RvPc, Rdv, AskPc, Lasting
  <2>5. /\ lSuspended' \subseteq Lwps
        /\ \A k \in Lwps \ {m} : /\ call'[k] = call[k]
                                 /\ k \in suspend' <=> k \in suspend
                                 /\ k \in lSuspended' <=> k \in lSuspended
    BY <1>1, <1>2, <2>1
  <2>6. pc[m] # "none" /\ ~DPc(pc[m])
    BY <2>3 DEF DPc
  <2> QED BY <1>1, <2>1, <2>2, <2>4, <2>5, <2>6, RequestGoto, PcNames
<1> QED BY <1>3, <1>4 DEF LwpSuspend

(* Alone: the process ends, or goes on with a new image.                   *)
LEMMA RequestDestroyDone ==
  ASSUME Known, PanicInv, RequestInv, Lasting, NEW l \in Lwps, DestroyDone(l)
  PROVE  RequestInv'
<1>1. pc[l] = "dwoken" /\ Places /\ UNCHANGED pDestroy
  BY DEF DestroyDone, At, Known, Barrier
<1>2. l \in list /\ list = {l} /\ Nlwp = 1 /\ Proper(l)
  BY <1>1, Listed, Alone DEF Known, DestroyInv, WokenAlone, RequestInv
<1>3. CASE call[l] = "exit"
  <2>1. Leave(l)
    BY <1>2, <1>3 DEF DestroyDone
  <2>2. list' = {} /\ cursig'[l] = "none" /\ call'[l] = "none"
        /\ \A m \in Lwps \ {l} : cursig'[m] = cursig[m] /\ call'[m] = call[m]
    BY <1>2, <2>1, CallOfOne DEF Leave, Others, Known, Typed, Own
  <2>3. rendezv' = {}
    BY <1>2, <2>1 DEF Leave, Known, Typed, Flags
  <2> QED BY <1>2, <2>2, <2>3 DEF RequestInv, NothingLeft, Asked
<1>4. CASE call[l] # "exit"
  <2>1. /\ Goto(l, "trap") /\ BeginCall(l, "none")
        /\ UNCHANGED <<list, destroy, cursig, rendezv, jobstop, suspend, lSuspended>>
    BY <1>2, <1>4 DEF DestroyDone, flagVars, evfVars
  <2>2. call'[l] = "none" /\ \A m \in Lwps \ {l} : call'[m] = call[m]
    BY <2>1, CallOfOne DEF Known, Typed
  <2>3. Spared(l) /\ pc'[l] = "trap"
    BY <1>1, <1>2, <2>1, <2>2, SparedGoto, PcNames
  <2>4. rendezv = {}
    BY <1>2, <1>4 DEF RequestInv, Asked, Asker, Left, Others
  <2>5. Proper(l)' /\ Asked'
    BY <1>1, <1>2, <1>4, <2>1, <2>2, <2>3, <2>4
    DEF Proper, Held, Out, ExPc, ToDestroy, DPc, RvPc, Rdv, Asked
  <2>6. lSuspended \ {l} = {}
    BY <1>2 DEF Known, Typed, Flags
  <2> QED BY <1>2, <2>1, <2>3, <2>5, <2>6, RequestStep
<1> QED BY <1>3, <1>4

(* An LWP leaves the list, and with it what it was asked for; it was not   *)
(* the one that asked.                                                     *)
LEMMA RequestLeaveList ==
  ASSUME Known, PanicInv, RequestInv, Lasting, NEW l \in list, LeaveList(l), UNCHANGED pDestroy,
         pc[l] = "user" \/ l \in destroy, ~DPc(pc[l]), ~RvPc(pc[l])
  PROVE  RequestInv'
<1>1. /\ Places /\ l \in Lwps /\ list \subseteq Lwps /\ lSuspended \subseteq list
      /\ Proper(l) /\ (pc[l] = "user" => cursig[l] = "none") /\ rendezv \subseteq list
  BY DEF Known, Barrier, Places, Typed, Flags, RequestInv, DestroyInv, InKernelWithSignal
<1>2. CASE Nlwp = 1
  <2>1. /\ destroy' = destroy \union {l} /\ BeginCall(l, "exit") /\ Goto(l, "destroy")
        /\ UNCHANGED <<list, cursig, rendezv, lSuspended>>
    BY <1>2 DEF LeaveList
  <2>2. list = {l} /\ rendezv = {}
    <3>1. list = {l}
      BY <1>1, <1>2, Alone
    <3> QED BY <3>1, NotAskedAlone
  <2>3. call'[l] = "exit" /\ \A m \in Lwps \ {l} : call'[m] = call[m]
    BY <1>1, <2>1, CallOfOne DEF Known, Typed
  <2>4. Spared(l) /\ pc'[l] = "destroy"
    BY <1>1, <2>1, <2>3, SparedGoto, PcNames
  <2>5. Proper(l)' /\ Asked'
    BY <1>1, <2>1, <2>2, <2>3, <2>4
    DEF Proper, Held, Out, ExPc, ToDestroy, DPc, RvPc, Rdv, Asked
  <2>6. lSuspended \ {l} = {}
    BY <1>1, <2>2
  <2> QED BY <2>1, <2>2, <2>4, <2>5, <2>6, RequestStep
<1>3. CASE Nlwp # 1
  <2>1. list # {l} /\ Leave(l)
    BY <1>1, <1>3, Alone DEF LeaveList
  <2>2. /\ list' = list \ {l} /\ destroy' = destroy \ {l} /\ rendezv' = rendezv \ {l}
        /\ jobstop' = jobstop \ {l} /\ suspend' = suspend \ {l}
        /\ lSuspended' = lSuspended \ {l} /\ cursig'[l] = "none" /\ call'[l] = "none"
        /\ \A m \in Lwps \ {l} : call'[m] = call[m] /\ cursig'[m] = cursig[m]
    BY <2>1, CallOfOne DEF Leave, Others, Known, Typed, Own, Barrier, Places
  <2>3. PICK W1 \in SUBSET Initiators, W2 \in SUBSET AllAt("dwait") :
          GoWaking(l, "none", W1 \union W2)
    BY <1>3 DEF LeaveList, OneOf
  <2>4. PICK W \in SUBSET list :
          GoWaking(l, "none", W) /\ \A m \in W : pc[m] = "rvwait" \/ pc[m] = "dwait"
    BY <2>3 DEF Initiators, AllAt, At
  <2>5. Spared(l)
    BY <1>1, <2>2, <2>4, SparedWaking, PcNames DEF MayWake
  <2>6. \A m \in list \ {l} : pc[m] = "suspended" => pc'[m] = "suspended"
    BY <1>1, <2>4 DEF GoWaking
  <2>7. ASSUME NEW m \in list \ {l} PROVE Proper(m)'
    <3>1. Proper(m) /\ m \in Lwps
      BY <1>1 DEF RequestInv
    <3>2. cursig'[m] = "core" => m \notin destroy' \/ list' = {m}
      BY <2>2, <3>1 DEF Proper
    <3>3. m \in lSuspended' => Held(m)'
      BY <2>2, <2>5, <2>6, <3>1 DEF Proper, Held, Pended, Spared
    <3> QED BY <2>2, <2>5, <3>1, <3>2, <3>3 DEF Proper, Spared
  <2>8. NothingLeft'
    BY <2>2 DEF RequestInv, NothingLeft
  <2>9. ~AskPc(l)
    BY <1>1, <2>1 DEF AskPc, Proper
  <2>10. ASSUME NEW m \in list, Asker(m) PROVE m \in list' /\ Asker(m)'
    <3>1. m \in list \ {l} /\ m \in Lwps
      BY <1>1, <2>9, <2>10 DEF Asker
    <3>2. Refused(m)' => Refused(m)
      BY <2>2, <3>1 DEF Refused
    <3>3. AskPc(m)'
      BY <2>2, <2>5, <2>10, <3>1, <3>2 DEF Asker, AskPc, Spared, Lasting
    <3> QED BY <2>2, <2>10, <3>1, <3>3 DEF Asker, Others
  <2>11. ASSUME NEW m \in list, Left(m) PROVE m \in list' /\ Left(m)'
    <3>1. m \in list \ {l} /\ m \in Lwps
      BY <1>1, <2>11 DEF Left
    <3> QED BY <2>2, <2>5, <2>11, <3>1 DEF Left, Spared
  <2>12. Asked'
    BY <2>2, <2>10, <2>11 DEF RequestInv, Asked
  <2> QED BY <2>2, <2>7, <2>8, <2>12 DEF RequestInv
<1> QED BY <1>2, <1>3

(* lwp_exit().                                                             *)
LEMMA RequestLwpExit ==
  ASSUME Known, PanicInv, RequestInv, Lasting, NEW l \in Lwps, LwpExit(l) \/ LwpExitReleased(l)
  PROVE  RequestInv'
<1>1. /\ \/ pc[l] = "user" \/ pc[l] = "lwpexit" \/ pc[l] = "exreleased"
         \/ pc[l] = "trap" /\ l \in destroy
      /\ UNCHANGED pDestroy
  BY DEF LwpExit, LwpExitReleased, At
<1>2. /\ Places /\ l \in list /\ Proper(l) /\ ~DPc(pc[l]) /\ ~RvPc(pc[l])
      /\ pc[l] = "user" => cursig[l] = "none"
  BY <1>1, Listed DEF Known, Barrier, RequestInv, Typed, Flags, Places, DestroyInv,
                      InKernelWithSignal, DPc, RvPc
<1>3. pc[l] = "user" \/ l \in destroy
  BY <1>1, <1>2 DEF Proper, Out, ExPc
<1>4. CASE LeaveList(l)
  BY <1>1, <1>2, <1>3, <1>4, RequestLeaveList
<1>5. CASE LwpExit(l) /\ ~LeaveList(l)
  <2>1. /\ Rendezvous(l, "exrendezvoused") /\ destroy' = destroy \union {l} /\ l \in rendezv
        /\ UNCHANGED <<list, pDestroy, cursig, call, rendezv, jobstop, suspend, lSuspended>>
    BY <1>1, <1>5 DEF LwpExit
  <2> QED BY <1>2, <1>3, <2>1, RequestRendezvous, PcNames DEF Rdv
<1>6. CASE LwpExitReleased(l) /\ ~LeaveList(l)
  <2>1. pc[l] = "exreleased" /\ l \in rendezv
    BY <1>6 DEF LwpExitReleased, At
  <2> QED BY <1>2, <2>1 DEF PanicInv, FreedOnce
<1> QED BY <1>4, <1>5, <1>6

(* A new LWP is asked for what the LWP that creates it is asked for.       *)
LEMMA RequestNewLwp ==
  ASSUME Known, PanicInv, RequestInv, Lasting, NEW l \in Lwps, NewLwp(l)
  PROVE  RequestInv'
<1>1. PICK n \in Lwps \ list :
        /\ list' = list \union {n} /\ Goto(n, "trap") /\ destroy' = Inherit(destroy, l, n)
        /\ InheritRequest(l, n) /\ jobstop' = Inherit(jobstop, l, n)
        /\ lSuspended' = Inherit(lSuspended, l, n)
        /\ suspend' \in {suspend, suspend \union {n}}
  BY DEF NewLwp
<1>2. /\ pc[l] = "user" /\ l \in list /\ UNCHANGED <<pDestroy, cursig, call>> /\ Places
      /\ list \subseteq Lwps /\ Proper(l) /\ cursig[l] = "none" /\ l \notin lSuspended
      /\ lSuspended \subseteq list /\ rendezv \subseteq list
  BY Listed DEF NewLwp, At, ownVars, Known, Barrier, Places, RequestInv, Proper, Held, Typed,
                Flags, DestroyInv, InKernelWithSignal
<1>3. \A m \in Lwps : pc'[m] = IF m = n THEN "trap" ELSE pc[m]
  BY <1>1, <1>2 DEF Goto, Places
<1>4. /\ cursig[n] = "none" /\ call[n] = "none"
      /\ lSuspended' = lSuspended
      /\ \A m \in list : /\ m \in destroy' <=> m \in destroy
                         /\ m \in rendezv' <=> m \in rendezv
                         /\ m \in jobstop' <=> m \in jobstop
                         /\ m \in suspend' <=> m \in suspend
      /\ rendezv' = IF l \in rendezv THEN rendezv \union {n} ELSE rendezv
  BY <1>1, <1>2 DEF RequestInv, NothingLeft, Inherit, InheritRequest
<1>5. ASSUME NEW m \in list PROVE Proper(m)'
  <2>1. Proper(m) /\ pc'[m] = pc[m] /\ m # n
    BY <1>1, <1>2, <1>3 DEF RequestInv
  <2>2. cursig[m] = "core" => m \notin destroy
    BY <1>2, <2>1 DEF Proper
  <2> QED BY <1>2, <1>4, <2>1, <2>2 DEF Proper, Held, Pended
<1>6. Proper(n)'
  BY <1>1, <1>2, <1>3, <1>4 DEF Proper, Out, ExPc, ToDestroy, DPc, Rdv
<1>7. NothingLeft'
  BY <1>1, <1>2 DEF RequestInv, NothingLeft
<1>8. ASSUME NEW m \in list, Asker(m) PROVE Asker(m)'
  <2>1. m # l /\ m # n
    BY <1>1, <1>2, <1>8 DEF Asker, AskPc, RvPc
  <2>2. AskPc(m)'
    BY <1>1, <1>2, <1>3, <1>4, <1>8, <2>1 DEF Asker, AskPc, Refused, Lasting
  <2>3. rendezv' = Others(m)'
    BY <1>1, <1>2, <1>4, <1>8, <2>1 DEF Asker, Others
  <2> QED BY <2>2, <2>3 DEF Asker
<1>9. ASSUME NEW m \in list, Left(m) PROVE Left(m)'
  BY <1>1, <1>2, <1>3, <1>4, <1>9 DEF Left, DPc
<1>10. Asked'
  BY <1>1, <1>4, <1>8, <1>9 DEF RequestInv, Asked
<1> QED BY <1>1, <1>5, <1>6, <1>7, <1>10 DEF RequestInv

(* Every step keeps the requests.                                          *)
LEMMA RequestNext ==
  ASSUME Known, PanicInv, RequestInv, "own" \notin mishaps', [Next]_vars
  PROVE  RequestInv'
<1>0. Lasting
  BY MishapsStay DEF Lasting
<1>1. CASE Sigcont
  BY <1>0, <1>1, RequestSigcont
<1>2. ASSUME NEW l \in Lwps, Calls(l)
      PROVE  RequestInv'
  BY <1>0, <1>2, RequestForkall, RequestExit, RequestNewLwp, RequestSuspendContinue, RequestLwpExit
     DEF Calls
<1>3. ASSUME NEW l \in Lwps, Trap(l) \/ Signals(l)
      PROVE  RequestInv'
  BY <1>0, <1>3, RequestTrap, RequestKill, RequestDump, RequestJobstop DEF Signals
<1>4. ASSUME NEW l \in Lwps, InKernel(l)
      PROVE  RequestInv'
  BY <1>0, <1>4, RequestTrap, RequestPsigRendezvous, RequestExit, RequestJobstop, RequestCore,
     RequestWoken, RequestRelease, RequestDestroyTest, RequestDestroyLock, RequestDestroyDone,
     RequestLwpExit DEF InKernel
<1>5. CASE UNCHANGED vars
  <2>1. UNCHANGED <<list, pDestroy, destroy, jobstop, suspend, lSuspended, rendezv, cursig, call,
                    pc, mishaps>>
    BY <1>5 DEF vars, procVars, flagVars, evfVars, ownVars
  <2> QED BY <2>1 DEF RequestInv, Proper, Held, Pended, NothingLeft, Asked, Asker, AskPc,
                      Refused, Left, Others
<1> QED BY <1>1, <1>2, <1>3, <1>4, <1>5 DEF Next

(* Nothing is asked at first.                                              *)
LEMMA RequestInit ==
  ASSUME Init
  PROVE  RequestInv
<1>1. /\ \A l \in Lwps : /\ cursig[l] = "none" /\ call[l] = "none"
                         /\ l \in list => pc[l] = "user"
      /\ list \subseteq Lwps /\ rendezv = {} /\ lSuspended = {}
  BY RendezvousAssumption DEF Init
<1>2. \A l \in list : Proper(l)
  BY <1>1 DEF Proper, Out, ExPc, ToDestroy, DPc, Rdv
<1> QED BY <1>1, <1>2 DEF RequestInv, NothingLeft, Asked

(* Every request is somebody's, as long as no LWP has aborted the          *)
(* rendezvous that it was asked for itself.                                *)
THEOREM RequestsAreOwned == Spec => []("own" \notin mishaps => RequestInv)
<1> DEFINE Owned == "own" \notin mishaps => RequestInv
<1>1. Init => Owned
  BY RequestInit
<1>2. Inv /\ DestroyInv /\ PanicInv /\ Owned /\ [Next]_vars => Owned'
  BY RequestNext, MishapsStay DEF Inv, Known
<1> HIDE DEF Owned
<1>3. Spec => []Owned
  BY <1>1, <1>2, SpecInv, SpecDestroyInv, SpecPanicInv, PTL DEF Spec
<1> QED BY <1>3 DEF Owned

(* An LWP that blocks in a rendezvous does so for one that waits for it,   *)
(* has the process at rest or is about to, or to write a core image, also  *)
(* when the LWP that asked for it was aborted, replaced or told to go.     *)
(* Only an abort by an LWP that keeps its own request can change that.     *)
THEOREM BlockedForSomebody == Spec => []RendezvousIsForSomebody
<1>1. ("own" \notin mishaps => RequestInv) => RendezvousIsForSomebody
  <2> SUFFICES ASSUME RequestInv, NEW m \in Rendezvoused
               PROVE  \E l \in list : pc[l] \in {"rvwait", "rvwoken", "stasis"}
                                      \/ cursig[l] = "core"
    BY DEF RendezvousIsForSomebody
  <2>1. m \in list /\ Rdv(pc[m]) /\ m \in rendezv
    BY RendezvousedIs DEF RequestInv, Proper
  <2>2. \A l \in list : ~Left(l)
    BY <2>1 DEF Left, Rdv, DPc
  <2> QED BY <2>1, <2>2 DEF RequestInv, Asked, Asker, AskPc, RvPc
<1> QED BY <1>1, RequestsAreOwned, PTL

(* A suspended LWP is out of its user's code until it is continued, also   *)
(* when it was made to run for a rendezvous, and only an abort by an LWP   *)
(* that keeps its own request can change that.                             *)
THEOREM SuspendedIsOut == Spec => []SuspendedStaysOut
<1>1. Inv /\ ("own" \notin mishaps => RequestInv) => SuspendedStaysOut
  BY DEF RequestInv, Proper, Held, SuspendedStaysOut, At, Inv, Typed, Flags
<1> QED BY <1>1, RequestsAreOwned, SpecInv, PTL

(***************************************************************************)
(* Who waits does not wait in vain.  HaltInv: who is told to go, or is     *)
(* suspended and asked to rendezvous, is not left stopped; and a job       *)
(* control stop and a rendezvous exclude each other, unless the process is *)
(* being destroyed.  WaitInv: the request is that of the one that waits,   *)
(* nothing pending makes it give up, and not all others have come.         *)
(***************************************************************************)
Still(p) == p = "jobstopped" \/ p = "suspended"
Wait(p) == p = "rvwait" \/ p = "rvwoken"

HaltOf(m) ==
  /\ m \in destroy => ~Still(pc[m])
  /\ pc[m] = "suspended" => m \in lSuspended /\ m \notin rendezv
  /\ pc[m] = "jobstopped" => sigjobstop /\ m \notin lSuspended
  /\ sigjobstop => m \in jobstop \/ m \in destroy \/ pc[m] = "jobstopped"
JobQuiet == sigjobstop /\ rendezv # {} => pDestroy
HaltInv == (\A m \in list : HaltOf(m)) /\ JobQuiet

WaitOf(m) ==
  /\ Wait(pc[m]) /\ m \notin destroy => rendezv = Others(m)
  /\ pc[m] = "rvwait" => ~Refused(m) /\ nrendezvoused + 1 < Nlwp
  /\ pc[m] = "dwait" => list # {m}
WaitInv == \A m \in list : WaitOf(m)

(* What a step of l that wakes W does to the others.                       *)
Wakes(l, W) == \A m \in Lwps \ {l} :
  /\ m \notin W => pc'[m] = pc[m]
  /\ m \in W => /\ ~Still(pc'[m]) /\ pc'[m] # "rvwait" /\ pc'[m] # "dwait"
                /\ pc'[m] = "rvwoken" => pc[m] = "rvwait"

(* A move of l that wakes W does that.                                     *)
LEMMA WakesWaking ==
  ASSUME Places, NEW l \in list, NEW p \in Pcs, NEW W \in SUBSET list, GoWaking(l, p, W),
         \A m \in W : MayWake(pc[m]) \/ pc[m] = "dwait"
  PROVE  Wakes(l, W) /\ pc'[l] = p
<1>1. /\ pc'[l] = p
      /\ \A m \in Lwps \ (W \union {l}) : pc'[m] = pc[m]
      /\ \A m \in W \ {l} : pc'[m] = After(pc[m])
  BY Moved
<1>2. \A m \in W \ {l} : /\ ~Still(pc'[m]) /\ pc'[m] # "rvwait" /\ pc'[m] # "dwait"
                         /\ pc'[m] = "rvwoken" => pc[m] = "rvwait"
  BY <1>1 DEF MayWake, After, Still
<1> QED BY <1>1, <1>2 DEF Wakes

(* So does a move that wakes nobody.                                       *)
LEMMA WakesNobody ==
  ASSUME Places, NEW l \in list, NEW p \in Pcs, Goto(l, p)
  PROVE  Wakes(l, {}) /\ pc'[l] = p
<1>1. GoWaking(l, p, {})
  BY GotoWakesNobody DEF Places
<1> QED BY <1>1, WakesWaking

(* Nobody stays stopped who is told to go or asked to rendezvous.          *)
LEMMA HaltStep ==
  ASSUME Places, HaltInv, NEW l, NEW W, Wakes(l, W), list' \ {l} \subseteq list,
         sigjobstop => sigjobstop', JobQuiet', l \in list' => HaltOf(l)',
         \A m \in list' \ {l} :
           /\ m \in destroy' => m \in destroy \/ m \in W \/ ~Still(pc[m])
           /\ m \in rendezv' => m \in rendezv \/ m \in W \/ pc[m] # "suspended"
           /\ m \in lSuspended' <=> m \in lSuspended
           /\ m \in W /\ pc[m] = "jobstopped" => m \in destroy'
           /\ m \in destroy => m \in destroy'
           /\ m \in jobstop => m \in jobstop' \/ m \in destroy'
           /\ sigjobstop' => sigjobstop \/ m \in jobstop' \/ m \in destroy'
  PROVE  HaltInv'
<1>1. ASSUME NEW m \in list' \ {l} PROVE HaltOf(m)'
  <2>1. m \in list /\ m \in Lwps /\ HaltOf(m)
    BY DEF HaltInv, Places
  <2>2. m \in W \/ pc'[m] = pc[m]
    BY <2>1 DEF Wakes
  <2>3. m \in W => ~Still(pc'[m])
    BY <2>1 DEF Wakes
  <2> QED BY <2>1, <2>2, <2>3 DEF HaltOf, Still
<1> QED BY <1>1 DEF HaltInv

(* Who waits still waits for all others, and some are still to come.       *)
LEMMA WaitStep ==
  ASSUME Places, WaitInv, NEW l, NEW W, Wakes(l, W), list' = list,
         UNCHANGED <<rendezv, nrendezvoused>>,
         \A m \in list \ {l} : /\ m \in destroy => m \in destroy'
                               /\ Refused(m)' /\ m \notin W /\ pc[m] = "rvwait" => Refused(m),
         l \in list => WaitOf(l)'
  PROVE  WaitInv'
<1>1. ASSUME NEW m \in list \ {l} PROVE WaitOf(m)'
  <2>1. m \in Lwps /\ WaitOf(m)
    BY DEF WaitInv, Places
  <2>2. Others(m)' = Others(m) /\ Nlwp' = Nlwp
    BY DEF Others, Nlwp
  <2>3. /\ Wait(pc'[m]) => Wait(pc[m])
        /\ pc'[m] = "rvwait" => pc[m] = "rvwait" /\ m \notin W
        /\ pc'[m] = "dwait" => pc[m] = "dwait"
    BY <2>1 DEF Wakes, Wait
  <2> QED BY <2>1, <2>2, <2>3 DEF WaitOf
<1> QED BY <1>1 DEF WaitInv

(* Or nobody waits any more, unless to be told.                            *)
NoneWaits == \A m \in list : /\ pc[m] # "rvwait" /\ (pc[m] = "rvwoken" => m \in destroy)
                             /\ pc[m] = "dwait" => list # {m}

(* Then there is nothing to show.                                          *)
LEMMA NobodyLeftWaiting ==
  ASSUME NoneWaits'
  PROVE  WaitInv'
BY DEF NoneWaits, WaitInv, WaitOf, Wait

MeetInv == HaltInv /\ WaitInv
AllKnown == Known /\ PanicInv /\ RequestInv /\ MeetInv

(* At most one waits, and it was not asked itself.                         *)
LEMMA OneAsks ==
  ASSUME AllKnown, NEW m \in list, Wait(pc[m]), m \notin destroy
  PROVE  /\ rendezv = list \ {m}
         /\ \A k \in list : Wait(pc[k]) /\ k \notin destroy => k = m
BY DEF AllKnown, MeetInv, WaitInv, WaitOf, Others

(* Steps of one LWP that does not stop, wait, ask, tell or wake.           *)
LEMMA MeetGoto ==
  ASSUME AllKnown, NEW l \in Lwps, NEW p \in Pcs, Goto(l, p), pc[l] # "none",
         ~Still(p), ~Wait(p), p = "dwait" => list # {l}, pc[l] # "jobstopped",
         UNCHANGED <<list, pDestroy, sigjobstop, nrendezvoused, rendezv, destroy, jobstop>>,
         \A m \in Lwps \ {l} : m \in lSuspended' <=> m \in lSuspended
  PROVE  MeetInv'
<1>1. Places /\ l \in list
  BY Listed DEF AllKnown, Known, Barrier
<1>2. Wakes(l, {}) /\ pc'[l] = p
  BY <1>1, WakesNobody
<1>3. HaltOf(l)' /\ JobQuiet'
  BY <1>1, <1>2 DEF AllKnown, MeetInv, HaltInv, HaltOf, JobQuiet, Still
<1>4. HaltInv'
  BY <1>1, <1>2, <1>3, HaltStep DEF AllKnown, MeetInv, Places
<1>5. WaitOf(l)'
  BY <1>2 DEF WaitOf, Wait
<1>6. WaitInv'
  BY <1>1, <1>2, <1>5, WaitStep DEF AllKnown, MeetInv, Refused
<1> QED BY <1>4, <1>6 DEF MeetInv

(* The way out of a trap that does not block in a rendezvous.              *)
LEMMA MeetTrap ==
  ASSUME AllKnown, NEW l \in Lwps,
         Trap(l) \/ ReturnToUser(l) \/ PsigReleased(l) \/ IssigSuspend(l)
  PROVE  MeetInv'
<1>1. /\ pc[l] = "user" \/ pc[l] = "trap" \/ pc[l] = "released"
      /\ UNCHANGED <<list, pDestroy, sigjobstop, nrendezvoused, rendezv, destroy, jobstop>>
      /\ \A m \in Lwps \ {l} : m \in lSuspended' <=> m \in lSuspended
      /\ \/ Goto(l, "trap") \/ Goto(l, "user")
         \/ Goto(l, "suspended") /\ MayStop(l) /\ l \in lSuspended'
  BY DEF Trap, ReturnToUser, PsigReleased, IssigSuspend, At, procVars, flagVars, evfVars,
         StopSuspended
<1>2. CASE Goto(l, "trap") \/ Goto(l, "user")
  BY <1>1, <1>2, MeetGoto, PcNames DEF Still, Wait
<1>3. CASE Goto(l, "suspended") /\ MayStop(l) /\ l \in lSuspended'
  <2>1. Places /\ l \in list
    BY <1>1, Listed DEF AllKnown, Known, Barrier
  <2>2. Wakes(l, {}) /\ pc'[l] = "suspended"
    BY <1>3, <2>1, WakesNobody, PcNames
  <2>3. HaltOf(l)' /\ JobQuiet'
    BY <1>1, <1>3, <2>1, <2>2
    DEF AllKnown, MeetInv, HaltInv, HaltOf, JobQuiet, Still, MayStop
  <2>4. HaltInv'
    BY <1>1, <2>1, <2>2, <2>3, HaltStep DEF AllKnown, MeetInv, Places
  <2>5. WaitInv'
    BY <1>1, <2>1, <2>2, WaitStep DEF AllKnown, MeetInv, Refused, WaitOf, Wait
  <2> QED BY <2>4, <2>5 DEF MeetInv
<1> QED BY <1>1, <1>2, <1>3

(* The ways into exit() and exec(), and the test that destroy_proc() makes *)
(* without p_mutex.                                                        *)
LEMMA MeetExit ==
  ASSUME AllKnown, NEW l \in Lwps,
         PsigKill(l) \/ Exit(l) \/ Exec(l) \/ DestroyRead(l) \/ DestroyTest(l)
  PROVE  MeetInv'
<1>1. /\ pc[l] = "user" \/ pc[l] = "trap" \/ pc[l] = "destroy" \/ pc[l] = "test"
      /\ UNCHANGED <<list, pDestroy, sigjobstop, nrendezvoused, rendezv, destroy, jobstop, lSuspended>>
      /\ \/ Goto(l, "destroy") \/ Goto(l, "test") \/ Goto(l, "dlock")
         \/ Goto(l, "destroy in rendezvous")
  BY DEF PsigKill, Exit, Exec, DestroyRead, DestroyTest, At, procVars, flagVars, evfVars
<1> QED BY <1>1, MeetGoto, PcNames DEF Still, Wait

(* _lwp_suspend() and _lwp_continue().                                     *)
LEMMA MeetSuspendContinue ==
  ASSUME AllKnown, NEW l \in Lwps, LwpSuspend(l) \/ LwpContinue(l)
  PROVE  MeetInv'
<1>1. UNCHANGED <<list, pDestroy, sigjobstop, nrendezvoused, rendezv, destroy, jobstop>>
  BY DEF LwpSuspend, LwpContinue, procVars
<1>2. list \subseteq Lwps /\ lSuspended \subseteq list /\ suspend \subseteq list /\ Places
  BY DEF AllKnown, Known, Barrier, Places, Typed, Flags
<1>3. CASE /\ UNCHANGED pc
           /\ \A m \in list : pc[m] = "suspended" => (m \in lSuspended' <=> m \in lSuspended)
           /\ lSuspended' \subseteq lSuspended
  <2>1. HaltInv'
    BY <1>1, <1>3 DEF AllKnown, MeetInv, HaltInv, HaltOf, JobQuiet
  <2>2. WaitInv'
    BY <1>1, <1>3 DEF AllKnown, MeetInv, WaitInv, WaitOf, Refused, Others, Nlwp
  <2> QED BY <2>1, <2>2 DEF MeetInv
<1>4. CASE LwpContinue(l)
  <2>1. PICK m \in (suspend \union lSuspended) \ {l} :
          /\ IF m \in lSuspended /\ pc[m] \in Stopped THEN Goto(m, "trap") ELSE UNCHANGED pc
          /\ lSuspended' = lSuspended \ {m}
    BY <1>4 DEF LwpContinue
  <2>2. CASE m \in lSuspended /\ pc[m] \in Stopped
    <3>1. m \in list /\ m \in Lwps /\ pc[m] # "jobstopped" /\ pc[m] # "none"
      BY <1>2, <2>2 DEF AllKnown, MeetInv, HaltInv, HaltOf, Stopped
    <3>2. Goto(m, "trap")
      BY <2>1, <2>2
    <3> QED BY <1>1, <2>1, <3>1, <3>2, MeetGoto, PcNames DEF Still, Wait
  <2>3. CASE ~(m \in lSuspended /\ pc[m] \in Stopped)
    BY <1>3, <2>1, <2>3 DEF Stopped
  <2> QED BY <2>2, <2>3
<1> QED BY <1>3, <1>4 DEF LwpSuspend

(* SIGCONT makes the stopped run.                                          *)
LEMMA MeetSigcont ==
  ASSUME AllKnown, Sigcont
  PROVE  MeetInv'
<1>1. /\ UNCHANGED <<list, pDestroy, nrendezvoused, rendezv, destroy, lSuspended>>
      /\ jobstop' = {} /\ ~sigjobstop'
  BY DEF Sigcont
<1>2. \A m \in list : pc'[m] = IF pc[m] = "jobstopped" THEN "trap" ELSE pc[m]
  BY DEF Sigcont, At, AllKnown, Known, Barrier, Places
<1>3. HaltInv'
  BY <1>1, <1>2 DEF AllKnown, MeetInv, HaltInv, HaltOf, JobQuiet, Still
<1>4. WaitInv'
  BY <1>1, <1>2 DEF AllKnown, MeetInv, WaitInv, WaitOf, Wait, Refused, Others, Nlwp
<1> QED BY <1>3, <1>4 DEF MeetInv

(* Blocking in psig() and in lwp_exit(): the last one wakes who waits.     *)
LEMMA MeetRendezvous ==
  ASSUME AllKnown, NEW l \in list, NEW p \in Pcs, Rendezvous(l, p), Rdv(p), pc[l] # "jobstopped",
         UNCHANGED <<list, pDestroy, sigjobstop, rendezv, jobstop, lSuspended>>,
         destroy' = destroy \/ destroy' = destroy \union {l}
  PROVE  MeetInv'
<1>1. Places /\ l \in Lwps /\ nrendezvoused' = nrendezvoused + 1
  BY DEF AllKnown, Known, Barrier, Places, Rendezvous
<1>2. nrendezvoused \in Nat /\ Nlwp \in Nat
  BY <1>1, CountType, LwpsFinite DEF AllKnown, Known, Barrier, Nlwp, Places
<1>3. PICK W \in SUBSET Initiators :
        GoWaking(l, p, W) /\ (nrendezvoused' = Nlwp - 1 => W \in OneOf(Initiators))
  BY DEF Rendezvous, OneOf
<1>4. W \in SUBSET list /\ \A m \in W : MayWake(pc[m]) /\ pc[m] = "rvwait"
  BY <1>1, <1>3, WokenSets DEF Initiators, AllAt, At
<1>5. Wakes(l, W) /\ pc'[l] = p
  BY <1>1, <1>3, <1>4, WakesWaking
<1>6. HaltOf(l)' /\ JobQuiet'
  BY <1>1, <1>5 DEF AllKnown, MeetInv, HaltInv, HaltOf, JobQuiet, Still, Rdv
<1>7. HaltInv'
  BY <1>1, <1>4, <1>5, <1>6, HaltStep DEF AllKnown, MeetInv
<1>8. ASSUME NEW m \in list, pc'[m] = "rvwait" PROVE nrendezvoused' + 1 < Nlwp
  <2>1. m # l /\ pc[m] = "rvwait" /\ m \notin W
    BY <1>1, <1>5, <1>8 DEF Wakes, Places, Rdv
  <2>2. WaitOf(m)
    BY DEF AllKnown, MeetInv, WaitInv
  <2>3. m \notin destroy /\ Wait(pc[m])
    BY <2>1, <2>2 DEF WaitOf, Wait, Refused
  <2>4. Initiators \subseteq {m} /\ m \in Initiators
    <3>1. \A k \in list : pc[k] = "rvwait" => k \notin destroy /\ Wait(pc[k])
      BY DEF AllKnown, MeetInv, WaitInv, WaitOf, Wait, Refused
    <3> QED BY <2>1, <2>3, <3>1, OneAsks DEF Initiators, AllAt, At
  <2>5. nrendezvoused' # Nlwp - 1
    BY <1>3, <2>1, <2>4 DEF OneOf
  <2> QED BY <1>1, <1>2, <2>1, <2>2, <2>5 DEF WaitOf
<1>9. WaitInv'
  <2>1. ASSUME NEW m \in list PROVE WaitOf(m)'
    <3>1. WaitOf(m) /\ m \in Lwps /\ Nlwp' = Nlwp /\ Others(m)' = Others(m)
      BY <1>1 DEF AllKnown, MeetInv, WaitInv, Nlwp, Others, Places
    <3>2. CASE m = l
      BY <1>5, <3>2 DEF WaitOf, Wait, Rdv
    <3>3. CASE m # l
      <4>1. /\ Wait(pc'[m]) => Wait(pc[m])
            /\ pc'[m] = "rvwait" => pc[m] = "rvwait"
            /\ pc'[m] = "dwait" => pc[m] = "dwait"
        BY <1>4, <1>5, <3>1, <3>3 DEF Wakes, Wait
      <4>2. m \in destroy' <=> m \in destroy
        BY <3>3
      <4>3. Refused(m)' <=> Refused(m)
        BY <4>2 DEF Refused
      <4> QED BY <1>8, <3>1, <4>1, <4>2, <4>3 DEF WaitOf
    <3> QED BY <3>2, <3>3
  <2> QED BY <2>1 DEF WaitInv
<1> QED BY <1>7, <1>9 DEF MeetInv

(* Blocking in psig().                                                     *)
LEMMA MeetPsigRendezvous ==
  ASSUME AllKnown, NEW l \in Lwps, PsigRendezvous(l)
  PROVE  MeetInv'
<1>1. /\ pc[l] = "trap" /\ Rendezvous(l, "rendezvoused")
      /\ UNCHANGED <<list, pDestroy, sigjobstop, rendezv, destroy, jobstop, lSuspended>>
  BY DEF PsigRendezvous, At, procVars, flagVars, evfVars
<1>2. l \in list
  BY <1>1, Listed DEF AllKnown, Known, Barrier
<1> QED BY <1>1, <1>2, MeetRendezvous, PcNames DEF Rdv

(* Awake in rendezvous().                                                  *)
LEMMA MeetWoken ==
  ASSUME AllKnown, NEW l \in Lwps, RendezvousWoken(l)
  PROVE  MeetInv'
<1>1. /\ pc[l] = "rvwoken"
      /\ UNCHANGED <<list, pDestroy, sigjobstop, nrendezvoused, rendezv, destroy, jobstop, lSuspended>>
  BY DEF RendezvousWoken, At, procVars, flagVars, evfVars
<1>2. Places /\ l \in list
  BY <1>1, Listed DEF AllKnown, Known, Barrier
<1>3. CASE \E p \in {"trap", "no core", "stasis"} : Goto(l, p)
  BY <1>1, <1>3, MeetGoto, PcNames DEF Still, Wait
<1>4. CASE Goto(l, "rvwait") /\ ~Refused(l) /\ nrendezvoused + 1 < Nlwp
  <2>1. Wakes(l, {}) /\ pc'[l] = "rvwait"
    BY <1>2, <1>4, WakesNobody, PcNames
  <2>2. HaltOf(l)' /\ JobQuiet'
    BY <1>1, <1>2, <2>1 DEF AllKnown, MeetInv, HaltInv, HaltOf, JobQuiet, Still
  <2>3. HaltInv'
    BY <1>1, <1>2, <2>1, <2>2, HaltStep DEF AllKnown, MeetInv, Places
  <2>4. WaitOf(l)'
    BY <1>1, <1>2, <1>4, <2>1
    DEF AllKnown, MeetInv, WaitInv, WaitOf, Wait, Refused, Others, Nlwp
  <2>5. WaitInv'
    BY <1>1, <1>2, <2>1, <2>4, WaitStep DEF AllKnown, MeetInv, Refused
  <2> QED BY <2>3, <2>5 DEF MeetInv
<1> QED BY <1>3, <1>4 DEF RendezvousWoken, Failed, WaitOrHave

(* Posting the request, from forkall() or core(): no other is about, and   *)
(* who is suspended is made to run for it.                                 *)
LEMMA MeetBegin ==
  ASSUME AllKnown, NEW l \in list, Begin(l), pc[l] = "user" \/ pc[l] = "trap",
         list = {l} \/ ~Refused(l),
         rendezv = {} \/ rendezv = Others(l),
         sigjobstop => pDestroy \/ list = {l},
         \A m \in list \ {l} : Wait(pc[m]) => m \in destroy,
         UNCHANGED <<list, pDestroy, sigjobstop, nrendezvoused, destroy, jobstop, lSuspended>>
  PROVE  MeetInv'
<1>1. Places /\ l \in Lwps /\ nrendezvoused \in Nat /\ Nlwp \in Nat
      /\ (Nlwp = 1 <=> list = {l})
  BY CountType, LwpsFinite, Alone DEF AllKnown, Known, Barrier, Places, Nlwp
<1>2. PICK p \in {"rvwait", "stasis"} : p = WaitOrHave(l)
  BY DEF WaitOrHave
<1>3. PICK W \in SUBSET RunForRendezvous(Others(l)) :
        /\ GoWaking(l, p, W) /\ rendezv' = Others(l)
        /\ rendezv' = rendezv \/ W = RunForRendezvous(Others(l))
  <2>1. CASE rendezv = {}
    <3>1. GoWaking(l, p, RunForRendezvous(Others(l))) /\ rendezv' = rendezv \union Others(l)
      BY <1>2, <2>1 DEF Begin
    <3> QED BY <2>1, <3>1
  <2>2. CASE rendezv = Others(l)
    <3>1. CASE Goto(l, WaitOrHave(l)) /\ UNCHANGED rendezv
      BY <1>1, <1>2, <2>2, <3>1, GotoWakesNobody
    <3>2. CASE ~(Goto(l, WaitOrHave(l)) /\ UNCHANGED rendezv)
      BY <1>2, <2>2, <3>2 DEF Begin
    <3> QED BY <3>1, <3>2
  <2> QED BY <2>1, <2>2
<1>4. W \in SUBSET list /\ \A m \in W : MayWake(pc[m]) /\ pc[m] # "jobstopped"
  <2>1. W \in SUBSET list /\ \A m \in W : MayWake(pc[m])
    BY <1>1, WokenSets
  <2>2. \A m \in W : m \in lSuspended
    BY DEF RunForRendezvous
  <2> QED BY <2>1, <2>2 DEF AllKnown, MeetInv, HaltInv, HaltOf
<1>5. Wakes(l, W) /\ pc'[l] = p
  <2>1. p \in Pcs
    BY PcNames
  <2>2. GoWaking(l, p, W) /\ \A m \in W : MayWake(pc[m]) \/ pc[m] = "dwait"
    BY <1>3, <1>4
  <2> QED BY <1>1, <1>4, <2>1, <2>2, WakesWaking
<1>6. HaltOf(l)' /\ JobQuiet'
  BY <1>1, <1>3, <1>5 DEF AllKnown, MeetInv, HaltInv, HaltOf, JobQuiet, Still, Others
<1>7. HaltInv'
  <2>1. ASSUME NEW m \in list \ {l}
        PROVE  m \in rendezv' => m \in rendezv \/ m \in W \/ pc[m] # "suspended"
    BY <1>3 DEF AllKnown, MeetInv, HaltInv, HaltOf, RunForRendezvous, Others, Stopped
  <2> QED BY <1>1, <1>4, <1>5, <1>6, <2>1, HaltStep DEF AllKnown, MeetInv
<1>8. WaitInv'
  <2>1. ASSUME NEW m \in list \ {l} PROVE WaitOf(m)'
    <3>1. WaitOf(m) /\ m \in Lwps
      BY <1>1 DEF AllKnown, MeetInv, WaitInv, Places
    <3>2. /\ Wait(pc'[m]) => Wait(pc[m])
          /\ pc'[m] = "rvwait" => pc[m] = "rvwait"
          /\ pc'[m] = "dwait" => pc[m] = "dwait"
      BY <1>5, <3>1 DEF Wakes, Wait
    <3>3. pc[m] # "rvwait"
      BY <3>1 DEF WaitOf, Wait, Refused
    <3> QED BY <3>1, <3>2, <3>3 DEF WaitOf
  <2>2. WaitOf(l)'
    BY <1>1, <1>2, <1>3, <1>5 DEF WaitOf, Wait, WaitOrHave, Refused, Others, Nlwp
  <2> QED BY <2>1, <2>2 DEF WaitInv
<1> QED BY <1>7, <1>8 DEF MeetInv

(* forkall().                                                              *)
LEMMA MeetForkall ==
  ASSUME AllKnown, NEW l \in Lwps, Forkall(l)
  PROVE  MeetInv'
<1>1. /\ pc[l] = "user"
      /\ UNCHANGED <<list, pDestroy, sigjobstop, nrendezvoused, destroy, jobstop, lSuspended>>
  BY DEF Forkall, At, procVars
<1>2. /\ Places /\ l \in list /\ cursig[l] = "none" /\ (Nlwp > 1 <=> list # {l})
      /\ ~AskPc(l)
  <2>1. Places /\ l \in list /\ cursig[l] = "none"
    BY <1>1, Listed DEF AllKnown, Known, Barrier, DestroyInv, InKernelWithSignal
  <2> QED BY <1>1, <2>1, Alone DEF AskPc, RvPc, Lasting
<1>3. CASE RefusedAtOnce(l)
  <2>1. Goto(l, "trap") /\ UNCHANGED rendezv
    BY <1>3 DEF Forkall
  <2> QED BY <1>1, <2>1, MeetGoto, PcNames DEF Still, Wait
<1>4. CASE ~RefusedAtOnce(l) /\ list # {l}
  <2>1. Begin(l) /\ ~Refused(l) /\ l \notin destroy
    BY <1>2, <1>4 DEF Forkall, RefusedAtOnce, Refused
  <2>2. ~pDestroy
    BY <1>1, <1>2, <2>1, RunnersAreTold DEF AllKnown, Known
  <2>3. l \notin rendezv /\ l \notin jobstop
    BY <1>2, <1>4, <2>1, <2>2 DEF RefusedAtOnce, Refused
  <2>4. rendezv = {}
    BY <1>1, <1>2, <2>1, <2>3, NoRequest DEF AllKnown, DPc
  <2>5. ~sigjobstop
    BY <1>1, <1>2, <2>1, <2>3 DEF AllKnown, MeetInv, HaltInv, HaltOf
  <2>6. \A m \in list \ {l} : Wait(pc[m]) => m \in destroy
    BY <1>2, <2>4, OneAsks
  <2> QED BY <1>1, <1>2, <2>1, <2>4, <2>5, <2>6, MeetBegin
<1>5. CASE ~RefusedAtOnce(l) /\ list = {l}
  <2>1. Begin(l)
    BY <1>5 DEF Forkall
  <2>2. rendezv = {}
    BY <1>1, <1>5, NotAskedAlone DEF AllKnown, DPc
  <2> QED BY <1>1, <1>2, <1>5, <2>1, <2>2, MeetBegin
<1> QED BY <1>3, <1>4, <1>5

(* core().                                                                 *)
LEMMA MeetCore ==
  ASSUME AllKnown, NEW l \in Lwps, Core(l)
  PROVE  MeetInv'
<1>1. /\ pc[l] = "trap" /\ cursig[l] = "core" /\ l \notin rendezv /\ l \notin destroy
      /\ UNCHANGED <<list, pDestroy, sigjobstop, nrendezvoused, destroy, jobstop, lSuspended>>
  BY DEF Core, At, procVars
<1>2. Places /\ l \in list /\ pDestroy
  BY <1>1, Listed DEF AllKnown, Known, Barrier, PanicInv, CoreDooms
<1>3. CASE (Goto(l, "destroy") \/ Goto(l, "no core")) /\ UNCHANGED rendezv
  BY <1>1, <1>3, MeetGoto, PcNames DEF Still, Wait
<1>4. CASE Begin(l)
  <2>1. ~Refused(l)
    BY <1>1, <1>2 DEF Refused
  <2>2. rendezv = {} \/ rendezv = Others(l)
    <3>1. ASSUME NEW m \in list, Asker(m) PROVE m = l
      BY <1>1, <1>2, <3>1 DEF Asker, Others
    <3>2. ASSUME NEW m \in list, Left(m) PROVE FALSE
      BY <1>1, <1>2, <3>2 DEF Left, AllKnown, Known, DestroyInv, OthersTold, Others, DPc
    <3> QED BY <3>1, <3>2 DEF AllKnown, RequestInv, Asked, Asker
  <2>3. \A m \in list \ {l} : Wait(pc[m]) => m \in destroy
    BY <1>1, <1>2, OneAsks
  <2> QED BY <1>1, <1>2, <1>4, <2>1, <2>2, <2>3, MeetBegin
<1> QED BY <1>3, <1>4 DEF Core

(* release_rendezvous().                                                   *)
LEMMA MeetRelease ==
  ASSUME AllKnown, NEW l \in Lwps, Release(l)
  PROVE  MeetInv'
<1>1. /\ pc[l] = "stasis"
      /\ UNCHANGED <<list, pDestroy, sigjobstop, destroy, jobstop, lSuspended>>
  BY DEF Release, At, procVars
<1>2. Places /\ l \in list
  BY <1>1, Listed DEF AllKnown, Known, Barrier
<1>3. Rendezvoused = list \ {l} /\ \A m \in list \ {l} : Rdv(pc[m])
  <2>1. Rendezvoused = list \ {l}
    BY <1>1, <1>2 DEF AllKnown, Known, Barrier, StasisMeansStopped, At, Others
  <2> QED BY <2>1, RendezvousedIs
<1>4. PICK p \in {"trap", "destroy"} :
        GoWaking(l, p, Rendezvoused) /\ rendezv' \subseteq rendezv
  BY <1>1, <1>2, NotPartial DEF Release, AllKnown, Known
<1>5. Rendezvoused \in SUBSET list /\ \A m \in Rendezvoused : MayWake(pc[m])
  BY <1>2, WokenSets
<1>6. Wakes(l, Rendezvoused) /\ pc'[l] = p
  <2>1. p \in Pcs
    BY PcNames
  <2>2. GoWaking(l, p, Rendezvoused) /\ \A m \in Rendezvoused : MayWake(pc[m]) \/ pc[m] = "dwait"
    BY <1>4, <1>5
  <2> HIDE DEF Rendezvoused
  <2> QED BY <1>2, <1>5, <2>1, <2>2, WakesWaking
<1>7. HaltOf(l)' /\ JobQuiet'
  BY <1>1, <1>2, <1>4, <1>6 DEF AllKnown, MeetInv, HaltInv, HaltOf, JobQuiet, Still
<1>8. \A m \in list \ {l} : pc[m] # "jobstopped" /\ pc[m] # "rvwait"
  BY <1>3 DEF Rdv
<1>9. HaltInv'
  <2> HIDE DEF Rendezvoused
  <2> QED BY <1>1, <1>2, <1>4, <1>6, <1>7, <1>8, HaltStep DEF AllKnown, MeetInv
<1>10. NoneWaits'
  <2>1. \A m \in list \ {l} : pc'[m] # "rvwait" /\ pc'[m] # "rvwoken" /\ pc'[m] # "dwait"
    BY <1>2, <1>3, <1>6, <1>8 DEF Wakes, Places
  <2> QED BY <1>1, <1>6, <2>1 DEF NoneWaits
<1> QED BY <1>9, <1>10, NobodyLeftWaiting DEF MeetInv

(* A job control stop: nobody is asked, so nobody waits who is not to go.  *)
LEMMA MeetJobstop ==
  ASSUME AllKnown, "own" \notin mishaps', NEW l \in Lwps, IssigJobstop(l)
  PROVE  MeetInv'
<1>1. /\ pc[l] = "trap" /\ cursig[l] = "none" /\ l \notin destroy /\ l \notin suspend
      /\ sigjobstop' = TRUE
      /\ UNCHANGED <<list, pDestroy, destroy, suspend, lSuspended>>
  BY DEF IssigJobstop, At
<1>2. Places /\ l \in list /\ Proper(l)
  BY <1>1, Listed DEF AllKnown, Known, Barrier, RequestInv
<1>3. ~pDestroy /\ ~AskPc(l)
  BY <1>1, <1>2, RunnersAreTold DEF AllKnown, Known, AskPc, RvPc
<1>4. l \notin rendezv => rendezv = {}
  BY <1>1, <1>2, <1>3, NoRequest DEF AllKnown, DPc
<1>5. rendezv = {}
  <2>1. sigjobstop => rendezv = {}
    BY <1>3 DEF AllKnown, MeetInv, HaltInv, JobQuiet
  <2>2. ~sigjobstop => l \notin rendezv
    BY <1>1, <1>2, AbortsForeign DEF IssigJobstop, AllKnown, DPc
  <2> QED BY <1>4, <2>1, <2>2
<1>6. l \notin lSuspended
  BY <1>1, <1>2, <1>5 DEF Proper, Held, Pended
<1>7. PICK W \in SUBSET list :
        /\ GoWaking(l, "jobstopped", W) /\ \A m \in W : MayWake(pc[m]) /\ ~Still(pc[m])
        /\ \/ sigjobstop /\ W = {} /\ jobstop' = jobstop \ {l} /\ UNCHANGED <<rendezv, nrendezvoused>>
           \/ ~sigjobstop /\ W = Aborted /\ Others(l) \subseteq jobstop' /\ rendezv' = {}
  <2>1. CASE sigjobstop
    BY <1>2, <2>1, GotoWakesNobody DEF IssigJobstop
  <2>2. CASE ~sigjobstop
    <3>1. Aborted \in SUBSET list /\ \A m \in Aborted : MayWake(pc[m]) /\ ~Still(pc[m])
      BY <1>2, WokenSets DEF Aborted, Rendezvoused, Initiators, AllAt, At, Still
    <3>2. GoWaking(l, "jobstopped", Aborted) /\ Others(l) \subseteq jobstop' /\ rendezv' = {}
      BY <1>5, <2>2 DEF IssigJobstop, Abort
    <3> QED BY <2>2, <3>1, <3>2
  <2> QED BY <2>1, <2>2
<1>8. Wakes(l, W) /\ pc'[l] = "jobstopped"
  BY <1>2, <1>7, WakesWaking, PcNames
<1>9. rendezv' = {}
  BY <1>5, <1>7
<1>10. HaltOf(l)' /\ JobQuiet'
  BY <1>1, <1>6, <1>8, <1>9 DEF HaltOf, JobQuiet
<1>11. HaltInv'
  <2>1. \A m \in list \ {l} : /\ m \in jobstop => m \in jobstop' \/ m \in destroy'
                              /\ sigjobstop \/ m \in jobstop'
                              /\ m \in W => pc[m] # "jobstopped"
    BY <1>7 DEF Others, Still, IssigJobstop
  <2> QED BY <1>1, <1>2, <1>8, <1>9, <1>10, <2>1, HaltStep DEF AllKnown, MeetInv
<1>12. NoneWaits'
  <2>1. ASSUME NEW m \in list, Wait(pc[m]) PROVE m \in destroy /\ pc[m] # "rvwait"
    <3>1. m \in destroy
      BY <1>1, <1>2, <1>5, <2>1, OneAsks DEF Wait
    <3> QED BY <3>1 DEF AllKnown, MeetInv, WaitInv, WaitOf, Refused
  <2>2. ASSUME NEW m \in list
        PROVE  /\ pc'[m] # "rvwait" /\ (pc'[m] = "rvwoken" => m \in destroy')
               /\ pc'[m] = "dwait" => list' # {m}
    <3>1. CASE m = l
      BY <1>8, <3>1
    <3>2. CASE m # l
      <4>1. /\ Wait(pc'[m]) => Wait(pc[m])
            /\ pc'[m] = "rvwait" => pc[m] = "rvwait"
            /\ pc'[m] = "dwait" => pc[m] = "dwait"
        BY <1>2, <1>8, <3>2 DEF Wakes, Wait, Places
      <4>2. pc[m] = "dwait" => list # {m}
        BY DEF AllKnown, MeetInv, WaitInv, WaitOf
      <4> QED BY <1>1, <2>1, <4>1, <4>2 DEF Wait
    <3> QED BY <3>1, <3>2
  <2> QED BY <1>1, <2>2 DEF NoneWaits
<1> QED BY <1>11, <1>12, NobodyLeftWaiting DEF MeetInv

(* Telling all others to go, and a request that comes with it: whoever     *)
(* waits is woken and told, and so is whoever is stopped.                  *)
LEMMA MeetDoom ==
  ASSUME AllKnown, NEW l \in list, pc[l] # "jobstopped", NEW p \in Pcs, NEW W \in SUBSET list,
         GoWaking(l, p, W), \A m \in W : MayWake(pc[m]),
         ~Still(p), ~Wait(p), p = "dwait" => list # {l},
         destroy' = destroy \union Others(l), jobstop' = jobstop \ Doomed(l),
         UNCHANGED <<list, sigjobstop, lSuspended>>,
         rendezv' # {} => rendezv # {} \/ pDestroy', pDestroy => pDestroy',
         \A m \in list \ {l} : Still(pc[m]) \/ pc[m] = "rvwait" => m \in W
  PROVE  MeetInv'
<1>1. Places /\ Wakes(l, W) /\ pc'[l] = p
  BY WakesWaking DEF AllKnown, Known, Barrier
<1>2. HaltOf(l)' /\ JobQuiet'
  BY <1>1 DEF AllKnown, MeetInv, HaltInv, HaltOf, JobQuiet, Still, Others, Doomed
<1>3. HaltInv'
  <2>1. \A m \in list \ {l} : m \in destroy' /\ (Still(pc[m]) => m \in W)
    BY DEF Others
  <2> QED BY <1>1, <1>2, <2>1, HaltStep DEF AllKnown, MeetInv, Still
<1>4. NoneWaits'
  <2>1. ASSUME NEW m \in list \ {l}
        PROVE  pc'[m] # "rvwait" /\ m \in destroy' /\ (pc'[m] = "dwait" => list' # {m})
    BY <1>1 DEF Wakes, Places, Others
  <2> QED BY <1>1, <2>1 DEF NoneWaits, Wait
<1> QED BY <1>3, <1>4, NobodyLeftWaiting DEF MeetInv

(* post_destroy().                                                         *)
LEMMA MeetPostDestroy ==
  ASSUME AllKnown, NEW l \in list, pc[l] # "jobstopped", NEW all, NEW p \in Pcs,
         PostDestroy(l, all, p), ~Still(p), ~Wait(p), p = "dwait" => list # {l},
         UNCHANGED <<list, sigjobstop, lSuspended>>
  PROVE  MeetInv'
<1>1. /\ destroy' = destroy \union Others(l) /\ jobstop' = jobstop \ Doomed(l)
      /\ pDestroy => pDestroy'
  BY DEF PostDestroy, PostDestroyEvent
<1>2. Places /\ Nlwp \in Nat /\ Nlwp >= 1 /\ (Nlwp = 1 <=> list = {l})
  BY Alone DEF AllKnown, Known, Barrier
<1>3. PICK W \in SUBSET list :
        /\ GoWaking(l, p, W) /\ \A m \in W : MayWake(pc[m])
        /\ rendezv' \subseteq rendezv
        /\ list # {l} => Aborted \union Doomed(l) \subseteq W
  <2>1. CASE Nlwp > 1
    <3>1. GoWaking(l, p, Aborted \union Doomed(l)) /\ rendezv' \subseteq rendezv
      BY <2>1 DEF PostDestroy, Abort
    <3>2. /\ Aborted \union Doomed(l) \in SUBSET list
          /\ \A m \in Aborted \union Doomed(l) : MayWake(pc[m])
      BY <1>2, WokenSets
    <3> QED BY <3>1, <3>2
  <2>2. CASE ~(Nlwp > 1)
    <3>1. Goto(l, p) /\ UNCHANGED rendezv /\ list = {l} /\ l \in Lwps
      BY <1>2, <2>2 DEF PostDestroy, Places
    <3>2. GoWaking(l, p, {})
      BY <1>2, <3>1, GotoWakesNobody
    <3> QED BY <3>1, <3>2
  <2> QED BY <2>1, <2>2
<1>4. \A m \in list \ {l} : Still(pc[m]) \/ pc[m] = "rvwait" => m \in W
  BY <1>3 DEF Aborted, Initiators, AllAt, At, Doomed, Others, Still, Stopped
<1> QED BY <1>1, <1>3, <1>4, MeetDoom

(* A fatal signal without a core image.                                    *)
LEMMA MeetKill ==
  ASSUME AllKnown, NEW l \in Lwps, IssigKill(l)
  PROVE  MeetInv'
<1>1. pc[l] = "trap" /\ UNCHANGED <<list, sigjobstop, lSuspended>>
  BY DEF IssigKill, At
<1>2. l \in list
  BY <1>1, Listed DEF AllKnown, Known, Barrier
<1>3. CASE /\ Goto(l, "destroy in rendezvous")
           /\ UNCHANGED <<pDestroy, nrendezvoused, rendezv, destroy, jobstop>>
  BY <1>1, <1>3, MeetGoto, PcNames DEF Still, Wait
<1>4. CASE PostDestroy(l, TRUE, "trap")
  BY <1>1, <1>2, <1>4, MeetPostDestroy, PcNames DEF Still, Wait
<1> QED BY <1>3, <1>4 DEF IssigKill

(* One that calls for one.                                                 *)
LEMMA MeetDump ==
  ASSUME AllKnown, NEW l \in Lwps, IssigCore(l)
  PROVE  MeetInv'
<1>1. pc[l] = "trap" /\ UNCHANGED <<list, sigjobstop, nrendezvoused, lSuspended>>
  BY DEF IssigCore, At
<1>2. l \in list /\ Places
  BY <1>1, Listed DEF AllKnown, Known, Barrier
<1>3. CASE /\ Goto(l, "destroy in rendezvous")
           /\ UNCHANGED <<pDestroy, rendezv, destroy, jobstop>>
  BY <1>1, <1>3, MeetGoto, PcNames DEF Still, Wait
<1>4. CASE /\ pDestroy' = TRUE /\ PostDestroyEvent(l)
           /\ GoWaking(l, "trap", Doomed(l) \union IF l \in rendezv THEN Initiators ELSE {})
  <2> DEFINE W == Doomed(l) \union IF l \in rendezv THEN Initiators ELSE {}
  <2>1. W \in SUBSET list /\ \A m \in W : MayWake(pc[m])
    BY <1>2, WokenSets
  <2>2. ASSUME NEW m \in list \ {l}, Still(pc[m]) \/ pc[m] = "rvwait" PROVE m \in W
    <3>1. CASE Still(pc[m])
      BY <3>1 DEF Doomed, Others, Still, Stopped
    <3>2. CASE pc[m] = "rvwait"
      <4>1. m \notin destroy
        BY <3>2 DEF AllKnown, MeetInv, WaitInv, WaitOf, Refused
      <4>2. l \in rendezv
        BY <1>2, <3>2, <4>1, OneAsks DEF Wait
      <4> QED BY <3>2, <4>2 DEF Initiators, AllAt, At
    <3> QED BY <2>2, <3>1, <3>2
  <2>3. GoWaking(l, "trap", W)
    BY <1>4
  <2> HIDE DEF W
  <2> QED BY <1>1, <1>2, <1>4, <2>1, <2>2, <2>3, MeetDoom, PcNames
          DEF PostDestroyEvent, Still, Wait
<1> QED BY <1>3, <1>4 DEF IssigCore

(* destroy_proc().                                                         *)
LEMMA MeetDestroyLock ==
  ASSUME AllKnown, NEW l \in Lwps, DestroyLock(l)
  PROVE  MeetInv'
<1>1. pc[l] = "dlock" /\ UNCHANGED <<list, sigjobstop, lSuspended>>
  BY DEF DestroyLock, At
<1>2. l \in list /\ (Nlwp = 1 <=> list = {l})
  BY <1>1, Listed, Alone DEF AllKnown, Known, Barrier
<1>3. CASE /\ UNCHANGED <<pDestroy, nrendezvoused, rendezv, destroy, jobstop>>
           /\ \E p \in {"lwpexit", "trap", "dwoken", "dwait", "destroy in rendezvous"} :
                Goto(l, p) /\ (p = "dwait" => Nlwp # 1)
  BY <1>1, <1>2, <1>3, MeetGoto, PcNames DEF Still, Wait
<1>4. CASE PostDestroy(l, call[l] = "exit", IF Nlwp = 1 THEN "dwoken" ELSE "dwait")
  <2> DEFINE p == IF Nlwp = 1 THEN "dwoken" ELSE "dwait"
  <2>1. p \in Pcs /\ ~Still(p) /\ ~Wait(p) /\ (p = "dwait" => list # {l})
    BY <1>2, PcNames DEF Still, Wait
  <2>2. PostDestroy(l, call[l] = "exit", p)
    BY <1>4
  <2> HIDE DEF p
  <2> QED BY <1>1, <1>2, <2>1, <2>2, MeetPostDestroy
<1> QED BY <1>3, <1>4 DEF DestroyLock

(* Alone: the process ends, or goes on with a new image.                   *)
LEMMA MeetDestroyDone ==
  ASSUME AllKnown, NEW l \in Lwps, DestroyDone(l)
  PROVE  MeetInv'
<1>1. pc[l] = "dwoken" /\ UNCHANGED <<pDestroy, sigjobstop, nrendezvoused>>
  BY DEF DestroyDone, At
<1>2. l \in list /\ list = {l} /\ Nlwp = 1 /\ rendezv \subseteq list
  BY <1>1, Listed, Alone DEF AllKnown, Known, Barrier, Typed, Flags, DestroyInv, WokenAlone
<1>3. CASE call[l] = "exit"
  <2>1. list' = {} /\ rendezv' = {}
    BY <1>2, <1>3 DEF DestroyDone, Leave, Others
  <2> QED BY <2>1 DEF MeetInv, HaltInv, JobQuiet, WaitInv
<1>4. CASE call[l] # "exit"
  <2>1. Goto(l, "trap") /\ UNCHANGED <<list, rendezv, destroy, jobstop, lSuspended>>
    BY <1>2, <1>4 DEF DestroyDone, flagVars, evfVars
  <2> QED BY <1>1, <2>1, MeetGoto, PcNames DEF Still, Wait
<1> QED BY <1>3, <1>4

(* An LWP that leaves is one less to wait for, and the last one wakes.     *)
LEMMA MeetLeaveList ==
  ASSUME AllKnown, NEW l \in list, LeaveList(l), UNCHANGED <<pDestroy, sigjobstop, nrendezvoused>>,
         ~Still(pc[l])
  PROVE  MeetInv'
<1>1. /\ Places /\ l \in Lwps /\ rendezv \subseteq list
      /\ Nlwp \in Nat /\ Nlwp >= 1 /\ (Nlwp = 1 <=> list = {l}) /\ nrendezvoused \in Nat
  BY Alone, CountType, LwpsFinite DEF AllKnown, Known, Barrier, Places, Typed, Flags
<1>2. CASE Nlwp = 1
  <2>1. /\ destroy' = destroy \union {l} /\ Goto(l, "destroy")
        /\ UNCHANGED <<list, rendezv, jobstop, lSuspended>> /\ list = {l}
    BY <1>1, <1>2 DEF LeaveList
  <2>2. pc'[l] = "destroy"
    BY <1>1, <2>1 DEF Goto, Places
  <2> QED BY <2>1, <2>2
          DEF AllKnown, MeetInv, HaltInv, HaltOf, JobQuiet, WaitInv, WaitOf, Wait, Still
<1>3. CASE Nlwp # 1
  <2>1. /\ list' = list \ {l} /\ destroy' = destroy \ {l} /\ rendezv' = rendezv \ {l}
        /\ jobstop' = jobstop \ {l} /\ lSuspended' = lSuspended \ {l}
    BY <1>3 DEF LeaveList, Leave, Others
  <2>2. PICK W1 \in SUBSET Initiators, W2 \in SUBSET AllAt("dwait") :
          /\ GoWaking(l, "none", W1 \union W2)
          /\ l \in rendezv /\ nrendezvoused = Nlwp - 2 => W1 \in OneOf(Initiators)
          /\ Nlwp = 2 => W2 \in OneOf(AllAt("dwait"))
    BY <1>3 DEF LeaveList, OneOf
  <2>3. PICK W \in SUBSET list : W = W1 \union W2 /\ \A m \in W : pc[m] = "rvwait" \/ pc[m] = "dwait"
    BY DEF Initiators, AllAt, At
  <2>4. Wakes(l, W) /\ pc'[l] = "none"
    BY <1>1, <2>2, <2>3, WakesWaking, PcNames DEF MayWake
  <2>5. HaltInv'
    <3>1. JobQuiet'
      BY <2>1 DEF AllKnown, MeetInv, HaltInv, JobQuiet
    <3> QED BY <1>1, <2>1, <2>3, <2>4, <3>1, HaltStep DEF AllKnown, MeetInv
  <2>6. Nlwp' = Nlwp - 1
    <3>1. IsFiniteSet(list)
      BY <1>1, LwpsFinite DEF Places
    <3>2. Cardinality(list \ {l}) = Cardinality(list) - 1
      BY <3>1, FS_RemoveElement
    <3> QED BY <2>1, <3>2 DEF Nlwp
  <2>7. ASSUME NEW m \in list \ {l} PROVE WaitOf(m)'
    <3>1. WaitOf(m) /\ m \in Lwps
      BY <1>1 DEF AllKnown, MeetInv, WaitInv, Places
    <3>2. /\ Wait(pc'[m]) => Wait(pc[m])
          /\ pc'[m] = "rvwait" => pc[m] = "rvwait" /\ m \notin W
          /\ pc'[m] = "dwait" => pc[m] = "dwait" /\ m \notin W
      BY <2>4, <3>1 DEF Wakes, Wait
    <3>3. Wait(pc'[m]) /\ m \notin destroy' => rendezv' = Others(m)'
      BY <2>1, <3>1, <3>2 DEF WaitOf, Others
    <3>4. pc'[m] = "rvwait" => ~Refused(m)' /\ nrendezvoused' + 1 < Nlwp'
      <4> SUFFICES ASSUME pc'[m] = "rvwait" PROVE ~Refused(m)' /\ nrendezvoused' + 1 < Nlwp'
        OBVIOUS
      <4>1. ~Refused(m) /\ nrendezvoused + 1 < Nlwp /\ pc[m] = "rvwait" /\ m \notin destroy
        BY <3>1, <3>2 DEF WaitOf, Refused
      <4>2. ~Refused(m)'
        BY <2>1, <4>1 DEF Refused
      <4>3. l \in rendezv /\ Wait(pc[m])
        BY <4>1, OneAsks DEF Wait
      <4>4. Initiators = {m}
        <5>1. \A k \in list : pc[k] = "rvwait" => k \notin destroy /\ Wait(pc[k])
          BY DEF AllKnown, MeetInv, WaitInv, WaitOf, Wait, Refused
        <5> QED BY <4>1, <4>3, <5>1, OneAsks DEF Initiators, AllAt, At
      <4>5. nrendezvoused # Nlwp - 2
        BY <2>2, <2>3, <3>2, <4>3, <4>4 DEF OneOf
      <4> QED BY <1>1, <2>6, <4>1, <4>2, <4>5
    <3>5. pc'[m] = "dwait" => list' # {m}
      <4> SUFFICES ASSUME pc'[m] = "dwait", list' = {m} PROVE FALSE
        OBVIOUS
      <4>1. pc[m] = "dwait" /\ m \notin W
        BY <3>2
      <4>2. Nlwp = 2
        <5>1. Cardinality({m}) = 1
          BY FS_Singleton
        <5> QED BY <1>1, <2>6, <5>1 DEF Nlwp
      <4>3. AllAt("dwait") = {m}
        BY <4>1 DEF AllAt, At, AllKnown, Known, DestroyInv, OneWaits, DPc
      <4> QED BY <2>2, <2>3, <4>1, <4>2, <4>3 DEF OneOf
    <3> QED BY <3>3, <3>4, <3>5 DEF WaitOf
  <2> QED BY <2>1, <2>5, <2>7 DEF MeetInv, WaitInv
<1> QED BY <1>2, <1>3

(* lwp_exit().                                                             *)
LEMMA MeetLwpExit ==
  ASSUME AllKnown, NEW l \in Lwps, LwpExit(l) \/ LwpExitReleased(l)
  PROVE  MeetInv'
<1>1. /\ pc[l] = "user" \/ pc[l] = "lwpexit" \/ pc[l] = "exreleased" \/ pc[l] = "trap"
      /\ UNCHANGED <<pDestroy, sigjobstop>>
  BY DEF LwpExit, LwpExitReleased, At
<1>2. l \in list /\ ~Still(pc[l])
  BY <1>1, Listed DEF AllKnown, Known, Barrier, Still
<1>3. CASE LeaveList(l) /\ UNCHANGED nrendezvoused
  BY <1>1, <1>2, <1>3, MeetLeaveList
<1>4. CASE /\ Rendezvous(l, "exrendezvoused") /\ destroy' = destroy \union {l}
           /\ UNCHANGED <<list, rendezv, jobstop, lSuspended>>
  BY <1>1, <1>2, <1>4, MeetRendezvous, PcNames DEF Rdv, Still
<1>5. CASE /\ Goto(l, "improper release")
           /\ UNCHANGED <<list, nrendezvoused, rendezv, destroy, jobstop, lSuspended>>
  BY <1>1, <1>5, MeetGoto, PcNames DEF Still, Wait
<1> QED BY <1>3, <1>4, <1>5 DEF LwpExit, LwpExitReleased, flagVars, evfVars

(* A new LWP is one more to wait for, and is asked like its creator.       *)
LEMMA MeetNewLwp ==
  ASSUME AllKnown, NEW l \in Lwps, NewLwp(l)
  PROVE  MeetInv'
<1>1. PICK n \in Lwps \ list :
        /\ list' = list \union {n} /\ Goto(n, "trap") /\ destroy' = Inherit(destroy, l, n)
        /\ InheritRequest(l, n) /\ jobstop' = Inherit(jobstop, l, n)
        /\ lSuspended' = Inherit(lSuspended, l, n)
  BY DEF NewLwp
<1>2. /\ pc[l] = "user" /\ l \in list /\ Places
      /\ UNCHANGED <<pDestroy, sigjobstop, nrendezvoused>>
      /\ nrendezvoused \in Nat
  BY Listed, CountType, LwpsFinite DEF NewLwp, At, AllKnown, Known, Barrier
<1>3. /\ \A m \in list : /\ m \in destroy' <=> m \in destroy
                         /\ m \in rendezv' <=> m \in rendezv
                         /\ m \in jobstop' <=> m \in jobstop
                         /\ m \in lSuspended' <=> m \in lSuspended
      /\ rendezv' = IF l \in rendezv THEN rendezv \union {n} ELSE rendezv
      /\ l \in destroy => n \in destroy'
      /\ l \in jobstop => n \in jobstop'
  BY <1>1 DEF Inherit, InheritRequest
<1>4. Wakes(n, {}) /\ pc'[n] = "trap"
  BY <1>1, <1>2 DEF Wakes, Goto, Places
<1>5. HaltOf(n)' /\ JobQuiet'
  BY <1>2, <1>3, <1>4 DEF AllKnown, MeetInv, HaltInv, HaltOf, JobQuiet, Still
<1>6. HaltInv'
  BY <1>1, <1>2, <1>3, <1>4, <1>5, HaltStep DEF AllKnown, MeetInv
<1>7. Nlwp' = Nlwp + 1 /\ Nlwp \in Nat
  <2>1. IsFiniteSet(list) /\ Cardinality(list) \in Nat /\ n \notin list
    BY <1>2, LwpsFinite DEF Places
  <2>2. Cardinality(list \union {n}) = Cardinality(list) + 1
    BY <2>1, FS_AddElement
  <2> QED BY <1>1, <2>1, <2>2 DEF Nlwp
<1>8. ASSUME NEW m \in list PROVE WaitOf(m)'
  <2>1. WaitOf(m) /\ m # n /\ pc'[m] = pc[m]
    BY <1>2, <1>4 DEF AllKnown, MeetInv, WaitInv, Places, Wakes
  <2>2. Wait(pc[m]) /\ m \notin destroy => rendezv' = Others(m)'
    BY <1>1, <1>2, <1>3, <2>1 DEF WaitOf, Others, Wait
  <2>3. pc[m] = "rvwait" => ~Refused(m)' /\ nrendezvoused' + 1 < Nlwp'
    BY <1>2, <1>3, <1>7, <2>1 DEF WaitOf, Refused
  <2> QED BY <1>1, <1>3, <2>1, <2>2, <2>3 DEF WaitOf
<1>9. WaitOf(n)'
  BY <1>4 DEF WaitOf, Wait
<1> QED BY <1>1, <1>6, <1>8, <1>9 DEF MeetInv, WaitInv

(* Every step.                                                             *)
LEMMA MeetNext ==
  ASSUME AllKnown, "own" \notin mishaps', [Next]_vars
  PROVE  MeetInv'
<1>1. CASE Sigcont
  BY <1>1, MeetSigcont
<1>2. ASSUME NEW l \in Lwps, Calls(l)
      PROVE  MeetInv'
  BY <1>2, MeetForkall, MeetExit, MeetNewLwp, MeetSuspendContinue, MeetLwpExit DEF Calls
<1>3. ASSUME NEW l \in Lwps, Trap(l) \/ Signals(l)
      PROVE  MeetInv'
  BY <1>3, MeetTrap, MeetKill, MeetDump, MeetJobstop DEF Signals
<1>4. ASSUME NEW l \in Lwps, InKernel(l)
      PROVE  MeetInv'
  BY <1>4, MeetTrap, MeetPsigRendezvous, MeetExit, MeetJobstop, MeetCore, MeetWoken, MeetRelease,
     MeetDestroyLock, MeetDestroyDone, MeetLwpExit DEF InKernel
<1>5. CASE UNCHANGED vars
  <2>1. UNCHANGED <<list, pDestroy, sigjobstop, nrendezvoused, rendezv, destroy, jobstop, lSuspended, pc>>
    BY <1>5 DEF vars, procVars, flagVars, evfVars
  <2> QED BY <2>1 DEF AllKnown, MeetInv, HaltInv, HaltOf, JobQuiet, WaitInv, WaitOf, Refused,
                      Others, Nlwp
<1> QED BY <1>1, <1>2, <1>3, <1>4, <1>5 DEF Next

(* At first nobody is stopped and nobody waits.                            *)
LEMMA MeetInit ==
  ASSUME Init
  PROVE  MeetInv
<1>1. /\ \A l \in list : pc[l] = "user"
      /\ destroy = {} /\ rendezv = {} /\ ~sigjobstop
  BY RendezvousAssumption DEF Init
<1> QED BY <1>1 DEF MeetInv, HaltInv, HaltOf, JobQuiet, WaitInv, WaitOf, Still, Wait

(* So it is always.                                                        *)
LEMMA SpecMeetInv == Spec => []("own" \notin mishaps => RequestInv /\ MeetInv)
<1> DEFINE Owned == "own" \notin mishaps => RequestInv
           Served == "own" \notin mishaps => RequestInv /\ MeetInv
<1>1. Init => Served
  BY MeetInit, RequestInit
<1>2. Inv /\ DestroyInv /\ PanicInv /\ Owned' /\ Served /\ [Next]_vars => Served'
  BY MeetNext, MishapsStay DEF Inv, Known, AllKnown
<1>3. Spec => []Owned
  BY RequestsAreOwned
<1> HIDE DEF Owned, Served
<1>4. Spec => []Served
  BY <1>1, <1>2, <1>3, SpecInv, SpecDestroyInv, SpecPanicInv, PTL DEF Spec
<1> QED BY <1>4 DEF Served

(* Who waits for a rendezvous waits for LWPs that were asked for it.       *)
LEMMA RendezvousComes ==
  ASSUME AllKnown, NEW l \in list, pc[l] = "rvwait"
  PROVE  /\ Others(l) \ Rendezvoused # {}
         /\ \A m \in Others(l) \ Rendezvoused : m \in rendezv /\ ~Halted(m)
<1>1. /\ Places /\ list \subseteq Lwps /\ RendezvousedCount
      /\ l \notin destroy /\ ~Refused(l) /\ Wait(pc[l]) /\ nrendezvoused + 1 < Nlwp
  BY DEF AllKnown, Known, Barrier, Places, MeetInv, WaitInv, WaitOf, Refused, Wait
<1>2. rendezv = list \ {l}
  BY <1>1, OneAsks
<1>3. Others(l) \ Rendezvoused # {}
  <2> SUFFICES ASSUME Others(l) \subseteq Rendezvoused PROVE FALSE
    OBVIOUS
  <2>1. Rendezvoused = list \ {l}
    BY RendezvousedIs DEF Others, Rdv
  <2>2. IsFiniteSet(list) /\ Cardinality(list) \in Nat
    BY <1>1, LwpsFinite
  <2>3. Cardinality(list \ {l}) = Cardinality(list) - 1
    BY <2>2, FS_RemoveElement
  <2> QED BY <1>1, <2>1, <2>2, <2>3 DEF RendezvousedCount, Nlwp
<1>4. ASSUME NEW m \in Others(l) \ Rendezvoused PROVE m \in rendezv /\ ~Halted(m)
  <2>1. m \in list /\ m # l /\ m \in rendezv /\ ~Rdv(pc[m]) /\ HaltOf(m)
    BY <1>2, RendezvousedIs DEF Others, AllKnown, MeetInv, HaltInv
  <2>2. pc[m] # "rvwait"
    BY <1>1, <2>1, OneAsks DEF AllKnown, MeetInv, WaitInv, WaitOf, Refused, Wait
  <2>3. pc[m] # "dwait"
    BY <1>1, <2>1 DEF AllKnown, Known, DestroyInv, OthersTold, DPc, Others
  <2>4. pc[m] # "suspended"
    BY <2>1 DEF HaltOf
  <2>5. pc[m] # "jobstopped"
    <3>1. CASE pDestroy
      <4>1. m \in destroy
        BY <1>1, <2>1, <3>1 DEF AllKnown, Known, DestroyInv, OneNotTold
      <4> QED BY <2>1, <4>1 DEF HaltOf, Still
    <3>2. CASE ~pDestroy
      <4>1. ~sigjobstop
        BY <1>1, <3>2 DEF AllKnown, MeetInv, HaltInv, HaltOf, Refused
      <4> QED BY <2>1, <4>1 DEF HaltOf
    <3> QED BY <3>1, <3>2
  <2> QED BY <2>1, <2>2, <2>3, <2>4, <2>5 DEF Halted, Sleeping, Stopped, Rdv
<1> QED BY <1>3, <1>4

(* Who waits to be alone waits for LWPs that were told to go.              *)
LEMMA DestructionComes ==
  ASSUME AllKnown, "core" \notin mishaps, NEW l \in list, pc[l] = "dwait"
  PROVE  Others(l) # {} /\ \A m \in Others(l) : m \in destroy /\ ~Halted(m)
<1>1. Others(l) # {}
  BY DEF AllKnown, MeetInv, WaitInv, WaitOf, Others
<1>2. ASSUME NEW m \in Others(l) PROVE m \in destroy /\ ~Halted(m)
  <2>1. m \in list /\ m # l /\ m \in destroy
    BY DEF Others, AllKnown, Known, DestroyInv, OthersTold, DPc
  <2>2. ~Still(pc[m]) /\ pc[m] # "rvwait"
    BY <2>1 DEF AllKnown, MeetInv, HaltInv, HaltOf, WaitInv, WaitOf, Refused
  <2>3. pc[m] # "dwait"
    BY <2>1 DEF AllKnown, Known, DestroyInv, OneWaits, DPc
  <2>4. ~Rdv(pc[m])
    <3> SUFFICES ASSUME Rdv(pc[m]) PROVE FALSE
      OBVIOUS
    <3>1. m \in rendezv
      BY <2>1 DEF AllKnown, RequestInv, Proper
    <3>2. ASSUME NEW x \in list, Left(x) PROVE FALSE
      BY <2>1, <2>3, <3>1, <3>2 DEF Left, DPc, Rdv
    <3>3. ASSUME NEW x \in list, Asker(x) PROVE FALSE
      <4>1. x # l
        BY <3>3 DEF Asker, AskPc, RvPc
      <4>2. x \in destroy /\ list # {x}
        BY <2>1, <4>1 DEF Others, AllKnown, Known, DestroyInv, OthersTold, DPc
      <4>3. cursig[x] # "core"
        BY <4>2 DEF AllKnown, RequestInv, Proper
      <4> QED BY <3>3, <4>2, <4>3 DEF Asker, AskPc, Refused
    <3> QED BY <3>1, <3>2, <3>3 DEF AllKnown, RequestInv, Asked
  <2> QED BY <2>1, <2>2, <2>3, <2>4 DEF Halted, Sleeping, Stopped, Rdv, Still
<1> QED BY <1>1, <1>2

(* Nobody waits in vain: the LWPs that are waited for were asked, and none *)
(* of them is stopped or asleep, whatever stops, exits, new LWPs and other *)
(* requests came in between; unless an LWP has aborted what it was asked   *)
(* for itself, or core() has given up on those that it asked.              *)
THEOREM WaitersAreServed == Spec => []NobodyWaitsInVain
<1>1. AllKnown => NobodyWaitsInVain
  BY RendezvousComes, DestructionComes DEF NobodyWaitsInVain, At
<1>2. Inv /\ DestroyInv /\ PanicInv /\ ("own" \notin mishaps => RequestInv /\ MeetInv)
      => NobodyWaitsInVain
  <2>1. "own" \in mishaps => NobodyWaitsInVain
    BY DEF NobodyWaitsInVain
  <2> QED BY <1>1, <2>1 DEF Inv, Known, AllKnown
<1> QED BY <1>2, SpecInv, SpecDestroyInv, SpecPanicInv, SpecMeetInv, PTL

(* A rendezvous is complete only for the LWP that asked for it.            *)
LEMMA CompleteForAsker ==
  ASSUME Known, RequestInv, NEW l \in list, ~Rdv(pc[l]), ~AskPc(l)
  PROVE  ~RendezvousComplete(nrendezvoused)
<1> SUFFICES ASSUME RendezvousComplete(nrendezvoused) PROVE FALSE
  OBVIOUS
<1>1. Places /\ RendezvousedCount /\ list \subseteq Lwps
  BY DEF Known, Barrier, Places
<1>2. nrendezvoused \in Nat /\ Nlwp \in Nat
  BY <1>1, LwpsFinite, RendezvousedIs DEF RendezvousedCount, Nlwp
<1>3. Rendezvoused = list \ {l}
  BY <1>1, <1>2, FullCount DEF RendezvousComplete, Others
<1>4. PICK k \in list : Rdv(pc[k]) /\ k # l
  <2>1. Rendezvoused # {}
    BY <1>1, FS_EmptySet DEF RendezvousComplete, RendezvousedCount
  <2> QED BY <1>3, <2>1, RendezvousedIs
<1>5. \A m \in list \ {l} : Rdv(pc[m]) /\ m \in rendezv
  BY <1>3, RendezvousedIs DEF RequestInv, Proper
<1>6. \A m \in list : Asker(m) => m = l
  BY <1>5 DEF Asker, Others
<1>7. \A m \in list : ~Left(m)
  BY <1>4, <1>5 DEF Left, Rdv, DPc
<1> QED BY <1>4, <1>5, <1>6, <1>7 DEF RequestInv, Asked, Asker

(***************************************************************************)
(* Where LWPs get only by their own step: the stasis, and the panic of     *)
(* destroy_proc() in a complete rendezvous.                                *)
(***************************************************************************)
NoneAt(q) == \A m \in Lwps : pc[m] # q
OwnStepOnly(q) == q = "stasis" \/ q = "destroy in rendezvous"

(* Who is woken does not get there.                                        *)
LEMMA HarmlessMove ==
  ASSUME Places, NEW q, OwnStepOnly(q), NoneAt(q), NEW l \in Lwps, NEW p,
         Goto(l, p) \/ \E W \in SUBSET Lwps : GoWaking(l, p, W),
         p # q
  PROVE  NoneAt(q)'
<1>1. CASE Goto(l, p)
  BY <1>1 DEF Goto, Places, NoneAt, OwnStepOnly
<1>2. ASSUME NEW W \in SUBSET Lwps, GoWaking(l, p, W) PROVE NoneAt(q)'
  BY <1>2 DEF GoWaking, After, NoneAt, OwnStepOnly
<1> QED BY <1>1, <1>2

(* The LWPs that are woken, whoever wakes them.                            *)
LEMMA WokenLwps ==
  ASSUME list \subseteq Lwps
  PROVE  /\ Aborted \subseteq Lwps /\ Rendezvoused \subseteq Lwps /\ Initiators \subseteq Lwps
         /\ \A l \in Lwps : /\ Doomed(l) \subseteq Lwps
                            /\ RunForRendezvous(Others(l)) \subseteq Lwps
         /\ \A p : \A W \in OneOf(AllAt(p)) : W \subseteq Lwps
BY DEF Aborted, Rendezvoused, Initiators, AllAt, Doomed, RunForRendezvous, Others, OneOf

(* rendezvous().                                                           *)
LEMMA HarmlessRendezvous ==
  ASSUME Places, NoneAt("destroy in rendezvous"), NEW l \in Lwps,
         Forkall(l) \/ Core(l) \/ RendezvousWoken(l)
  PROVE  NoneAt("destroy in rendezvous")'
<1> USE WokenLwps, HarmlessMove DEF OwnStepOnly
<1>0. list \subseteq Lwps /\ WaitOrHave(l) # "destroy in rendezvous"
  BY DEF Places, WaitOrHave
<1>1. ASSUME Begin(l) PROVE NoneAt("destroy in rendezvous")'
  BY <1>0, <1>1 DEF Begin
<1>2. CASE Forkall(l) \/ Core(l)
  BY <1>0, <1>1, <1>2 DEF Forkall, Core
<1>3. CASE RendezvousWoken(l)
  BY <1>0, <1>3 DEF RendezvousWoken, Failed
<1> QED BY <1>2, <1>3

(* release_rendezvous(), and the way out of a trap.                        *)
LEMMA HarmlessRelease ==
  ASSUME Places, NEW q, OwnStepOnly(q), NoneAt(q), NEW l \in Lwps,
         Release(l) \/ PsigRendezvous(l) \/ IssigJobstop(l)
  PROVE  NoneAt(q)'
<1> USE WokenLwps, HarmlessMove DEF OwnStepOnly
<1>0. list \subseteq Lwps
  BY DEF Places
<1>1. CASE Release(l)
  BY <1>0, <1>1 DEF Release
<1>2. CASE PsigRendezvous(l)
  <2>1. PICK W \in {{}} \union OneOf(Initiators) : GoWaking(l, "rendezvoused", W)
    BY <1>2 DEF PsigRendezvous, Rendezvous
  <2> QED BY <1>0, <2>1 DEF Initiators
<1>3. CASE IssigJobstop(l)
  BY <1>0, <1>3 DEF IssigJobstop
<1> QED BY <1>1, <1>2, <1>3

(* The steps of an LWP that wake at most the one that waits for it.        *)
LEMMA HarmlessStep ==
  ASSUME Places, NEW q, OwnStepOnly(q), NoneAt(q), NEW l \in Lwps,
         \/ Trap(l) \/ ReturnToUser(l) \/ PsigReleased(l) \/ IssigSuspend(l) \/ PsigKill(l)
         \/ Exit(l) \/ Exec(l) \/ DestroyRead(l) \/ DestroyDone(l) \/ NewLwp(l)
         \/ LwpSuspend(l) \/ LwpContinue(l)
  PROVE  NoneAt(q)'
<1> USE HarmlessMove DEF OwnStepOnly
<1>1. CASE Trap(l) \/ ReturnToUser(l) \/ PsigKill(l) \/ Exit(l) \/ Exec(l) \/ IssigSuspend(l)
  BY <1>1 DEF Trap, ReturnToUser, PsigKill, Exit, Exec, IssigSuspend, StopSuspended
<1>2. CASE PsigReleased(l)
  BY <1>2 DEF PsigReleased, StopSuspended
<1>3. CASE DestroyRead(l) \/ DestroyDone(l)
  BY <1>3 DEF DestroyRead, DestroyDone
<1>4. CASE NewLwp(l)
  BY <1>4 DEF NewLwp
<1>5. CASE LwpSuspend(l)
  BY <1>5 DEF LwpSuspend, NoneAt, OwnStepOnly
<1>6. CASE LwpContinue(l)
  <2>1. PICK m \in (suspend \union lSuspended) \ {l} :
          IF m \in lSuspended /\ pc[m] \in Stopped THEN Goto(m, "trap") ELSE UNCHANGED pc
    BY <1>6 DEF LwpContinue
  <2>2. pc[m] \in Stopped => m \in Lwps \/ pc' = pc
    BY <2>1 DEF Goto, Places
  <2> QED BY <2>1, <2>2 DEF NoneAt, OwnStepOnly, Goto, Places
<1> QED BY <1>1, <1>2, <1>3, <1>4, <1>5, <1>6

(* lwp_exit().                                                             *)
LEMMA HarmlessExit ==
  ASSUME Places, NEW q, OwnStepOnly(q), NoneAt(q), NEW l \in Lwps, LwpExit(l) \/ LwpExitReleased(l)
  PROVE  NoneAt(q)'
<1> USE WokenLwps, HarmlessMove DEF OwnStepOnly
<1>0. list \subseteq Lwps
  BY DEF Places
<1>1. CASE Rendezvous(l, "exrendezvoused")
  <2>1. PICK W \in {{}} \union OneOf(Initiators) : GoWaking(l, "exrendezvoused", W)
    BY <1>1 DEF Rendezvous
  <2> QED BY <1>0, <2>1 DEF Initiators
<1>2. CASE LeaveList(l)
  <2>1. CASE Goto(l, "destroy")
    BY <2>1
  <2>2. CASE ~Goto(l, "destroy")
    <3>1. PICK W1 \in {{}} \union OneOf(Initiators), W2 \in {{}} \union OneOf(AllAt("dwait")) :
            GoWaking(l, "none", W1 \union W2)
      BY <1>2, <2>2 DEF LeaveList
    <3>2. W1 \union W2 \in SUBSET Lwps
      BY <1>0 DEF Initiators
    <3> QED BY <3>1, <3>2
  <2> QED BY <2>1, <2>2
<1> QED BY <1>1, <1>2 DEF LwpExit, LwpExitReleased

(* The four places that may panic.                                         *)
LEMMA HarmlessDestroy ==
  ASSUME Places, NEW q, OwnStepOnly(q), NoneAt(q), NEW l \in Lwps,
         q = "stasis" \/ (~RendezvousComplete(nrendezvoused) /\ mishaps' = {}),
         \/ IssigKill(l) \/ IssigCore(l) \/ DestroyTest(l) \/ DestroyLock(l)
  PROVE  NoneAt(q)'
<1> USE WokenLwps, HarmlessMove DEF OwnStepOnly
<1>0. list \subseteq Lwps
  BY DEF Places
<1>1. ASSUME Goto(l, "destroy in rendezvous"), q = "stasis" PROVE NoneAt(q)'
  BY <1>1
<1>2. ASSUME NEW all, NEW p, p # q, PostDestroy(l, all, p)
      PROVE  NoneAt(q)'
  <2>1. Aborted \union Doomed(l) \in SUBSET Lwps
    BY <1>0
  <2> QED BY <1>2, <2>1 DEF PostDestroy
<1>3. CASE IssigKill(l)
  BY <1>1, <1>2, <1>3 DEF IssigKill
<1>4. CASE IssigCore(l)
  <2>1. CASE RendezvousComplete(nrendezvoused)
    BY <1>1, <1>4, <2>1 DEF IssigCore
  <2>2. CASE ~RendezvousComplete(nrendezvoused)
    <3>1. Doomed(l) \union (IF l \in rendezv THEN Initiators ELSE {}) \in SUBSET Lwps
      BY <1>0
    <3>2. PICK W \in SUBSET Lwps : GoWaking(l, "trap", W)
      BY <1>4, <2>2, <3>1 DEF IssigCore
    <3> QED BY <3>2
  <2> QED BY <2>1, <2>2
<1>5. CASE DestroyTest(l)
  BY <1>1, <1>5 DEF DestroyTest, Note
<1>6. CASE DestroyLock(l)
  <2>1. CASE PostDestroy(l, call[l] = "exit", IF Nlwp = 1 THEN "dwoken" ELSE "dwait")
    BY <1>2, <2>1
  <2>2. CASE ~PostDestroy(l, call[l] = "exit", IF Nlwp = 1 THEN "dwoken" ELSE "dwait")
    <3>1. \/ Goto(l, "lwpexit") \/ Goto(l, "trap") \/ Goto(l, "dwoken") \/ Goto(l, "dwait")
          \/ Goto(l, "destroy in rendezvous") /\ q = "stasis"
      BY <1>6, <2>2 DEF DestroyLock
    <3> QED BY <1>1, <3>1
  <2> QED BY <2>1, <2>2
<1> QED BY <1>3, <1>4, <1>5, <1>6

(* Every step but rendezvous() itself.                                     *)
AsksOrWakes(l) == Forkall(l) \/ Core(l) \/ RendezvousWoken(l)

(* None of them brings anybody to q.                                       *)
LEMMA HarmlessNext ==
  ASSUME Places, NEW q, OwnStepOnly(q), NoneAt(q), [Next]_vars,
         \A l \in Lwps : ~AsksOrWakes(l),
         q = "stasis" \/ (~RendezvousComplete(nrendezvoused) /\ mishaps' = {})
                      \/ \A l \in Lwps : ~(IssigKill(l) \/ IssigCore(l) \/ DestroyTest(l)
                                             \/ DestroyLock(l))
  PROVE  NoneAt(q)'
<1>1. CASE Sigcont
  BY <1>1 DEF Sigcont, NoneAt, OwnStepOnly
<1>2. ASSUME NEW l \in Lwps, Calls(l) PROVE NoneAt(q)'
  BY <1>2, HarmlessStep, HarmlessExit DEF Calls, AsksOrWakes
<1>3. ASSUME NEW l \in Lwps, Trap(l) \/ Signals(l) PROVE NoneAt(q)'
  BY <1>3, HarmlessStep, HarmlessRelease, HarmlessDestroy DEF Signals
<1>4. ASSUME NEW l \in Lwps, InKernel(l) PROVE NoneAt(q)'
  BY <1>4, HarmlessStep, HarmlessRelease, HarmlessDestroy, HarmlessExit DEF InKernel, AsksOrWakes
<1>5. CASE UNCHANGED vars
  BY <1>5 DEF vars, NoneAt
<1> QED BY <1>1, <1>2, <1>3, <1>4, <1>5 DEF Next

(* Nobody destroys the process in a complete rendezvous: who comes to one  *)
(* of the places that panic has not asked for the rendezvous.              *)
LEMMA NoDestroyInRendezvous ==
  ASSUME Known, RequestInv, NoneAt("destroy in rendezvous"), mishaps = {}, mishaps' = {},
         [Next]_vars
  PROVE  NoneAt("destroy in rendezvous")'
<1>1. Places /\ OwnStepOnly("destroy in rendezvous")
  BY DEF Known, Barrier, OwnStepOnly
<1>2. ASSUME NEW l \in Lwps, AsksOrWakes(l) PROVE NoneAt("destroy in rendezvous")'
  BY <1>1, <1>2, HarmlessRendezvous DEF AsksOrWakes
<1>3. ASSUME NEW l \in Lwps, IssigKill(l) \/ IssigCore(l) \/ DestroyTest(l) \/ DestroyLock(l)
      PROVE  ~RendezvousComplete(nrendezvoused)
  <2>1. /\ pc[l] = "trap" \/ pc[l] = "test" \/ pc[l] = "dlock"
        /\ pc[l] = "trap" => cursig[l] = "none"
    BY <1>3 DEF IssigKill, IssigCore, DestroyTest, DestroyLock, At
  <2>2. l \in list /\ ~Rdv(pc[l]) /\ ~AskPc(l)
    BY <1>1, <2>1, Listed DEF Rdv, AskPc, RvPc
  <2> QED BY <2>2, CompleteForAsker
<1> QED BY <1>1, <1>2, <1>3, HarmlessNext

(* None of the conditions that the code panics on holds before one of the  *)
(* three mishaps: a rendezvous is complete only for the LWP that asked for *)
(* it, and that one does not come to destroy_proc() before it has released *)
(* it.                                                                     *)
THEOREM NothingElsePanics == Spec => []PanicsHaveACause
<1> DEFINE Good == mishaps = {} => NoneAt("destroy in rendezvous")
           Owned == "own" \notin mishaps => RequestInv
<1>1. Init => Good
  BY DEF Init, NoneAt
<1>2. Inv /\ DestroyInv /\ Owned /\ Good /\ [Next]_vars => Good'
  BY NoDestroyInRendezvous, MishapsStay DEF Inv, Known
<1>3. Spec => []Owned
  BY RequestsAreOwned
<1>4. PanicInv /\ Good => PanicsHaveACause
  BY DEF PanicInv, NoBadPc, BadPc, NoneAt, PanicsHaveACause, Panics
<1> HIDE DEF Good, Owned
<1> QED BY <1>1, <1>2, <1>3, <1>4, SpecInv, SpecDestroyInv, SpecPanicInv, PTL DEF Spec

(***************************************************************************)
(* Rendezvous implements AbstractRendezvous without its fairness, after a  *)
(* mishap too.                                                             *)
(***************************************************************************)
Awake == {l \in list : pc[l] \notin Sleeping \union Stopped}
InStasis == AllAt("stasis")
Waiting == {l \in list : pc[l] \in {"rvwait", "rvwoken"}}
AbsStep == [A!Next]_(A!vars)

(* Nobody has the process at rest, and nobody gets it: LWPs come and go,   *)
(* block and are woken, and the process may be given its last task.        *)
LEMMA AbsMove ==
  ASSUME InStasis = {}, InStasis' = {}, (list \subseteq Lwps)',
         pDestroy' = pDestroy \/ (pDestroy' = TRUE /\ list' = list),
         mishaps \subseteq mishaps'
  PROVE  AbsStep
<1>1. Awake' \subseteq list' /\ Waiting' \subseteq list'
  BY DEF Awake, Waiting
<1>3. (mishaps # {})' \in {mishaps # {}, TRUE}
  OBVIOUS
<1>4. A!MayGoWrong
  BY <1>3 DEF A!MayGoWrong
<1>2. CASE pDestroy' = pDestroy
  <2>1. A!Run
    BY <1>1, <1>2, <1>4 DEF A!Run, A!AtRest, Awake, Waiting, InStasis
  <2> QED BY <2>1 DEF AbsStep, A!Next
<1>5. CASE pDestroy' = TRUE /\ list' = list
  <2>1. A!Doom
    BY <1>1, <1>4, <1>5 DEF A!Doom, A!AtRest, Awake, Waiting, InStasis
  <2> QED BY <2>1 DEF AbsStep, A!Next
<1> QED BY <1>2, <1>5

(* P_DESTROY is set for good, and by LWPs that stay.                       *)
LEMMA DoomIsForGood ==
  ASSUME [Next]_vars
  PROVE  pDestroy' = pDestroy \/ (pDestroy' = TRUE /\ list' = list)
         \/ \E l \in Lwps : IssigKill(l) \/ DestroyLock(l)
<1> USE DEF procVars
<1>1. CASE Sigcont
  BY <1>1 DEF Sigcont
<1>2. ASSUME NEW l \in Lwps, Calls(l) PROVE pDestroy' = pDestroy
  BY <1>2 DEF Calls, Forkall, Exit, Exec, NewLwp, LwpSuspend, LwpContinue, LwpExit
<1>3. ASSUME NEW l \in Lwps, IssigJobstop(l) \/ Trap(l) PROVE pDestroy' = pDestroy
  BY <1>3 DEF IssigJobstop, Trap
<1>4. ASSUME NEW l \in Lwps, IssigCore(l)
      PROVE  pDestroy' = pDestroy \/ (pDestroy' = TRUE /\ list' = list)
  BY <1>4 DEF IssigCore
<1>5. ASSUME NEW l \in Lwps, InKernel(l), ~DestroyLock(l) PROVE pDestroy' = pDestroy
  BY <1>3, <1>5
  DEF InKernel, ReturnToUser, PsigRendezvous, PsigReleased, PsigKill, IssigSuspend, Core,
      RendezvousWoken, Release, DestroyRead, DestroyTest, DestroyDone, LwpExit, LwpExitReleased
<1>6. CASE UNCHANGED vars
  BY <1>6 DEF vars
<1> QED BY <1>1, <1>2, <1>3, <1>4, <1>5, <1>6 DEF Next, Signals

(* With post_destroy(), which LWPs are to go all depends on P_DESTROY.     *)
LEMMA DoomStep ==
  ASSUME Bools, [Next]_vars
  PROVE  pDestroy' = pDestroy \/ (pDestroy' = TRUE /\ list' = list)
<1>1. ASSUME NEW l \in Lwps, NEW all \in BOOLEAN, NEW p, PostDestroy(l, all, p)
      PROVE  pDestroy' = pDestroy \/ pDestroy' = TRUE
  BY <1>1 DEF PostDestroy, Bools
<1>2. ASSUME NEW l \in Lwps, IssigKill(l) \/ DestroyLock(l)
      PROVE  pDestroy' = pDestroy \/ (pDestroy' = TRUE /\ list' = list)
  <2>1. list' = list
    BY <1>2 DEF IssigKill, DestroyLock
  <2>2. pDestroy' = pDestroy \/ pDestroy' = TRUE
    BY <1>1, <1>2 DEF IssigKill, DestroyLock
  <2> QED BY <2>1, <2>2
<1> QED BY <1>2, DoomIsForGood

(* Who asks, or is woken while it waits, may get the process: all others   *)
(* are blocked for it then, and were before.                               *)
LEMMA StasisBegins ==
  ASSUME Barrier, Barrier', InStasis = {}, NEW l \in Lwps, AsksOrWakes(l)
  PROVE  AbsStep
<1>0. /\ Places /\ Places' /\ list \subseteq Lwps /\ list' = list /\ pDestroy' = pDestroy
      /\ mishaps \subseteq mishaps'
  BY DEF Barrier, Places, AsksOrWakes, Forkall, Core, RendezvousWoken, Note, procVars
<1>1. CASE InStasis' = {}
  BY <1>0, <1>1, AbsMove
<1>2. ASSUME NEW k \in InStasis' PROVE AbsStep
  <2>1. k \in list /\ pc'[k] = "stasis" /\ pc[k] # "stasis"
    BY <1>0, <1>2 DEF InStasis, AllAt, At
  <2>2. \A m \in Lwps \ {l} : pc'[m] = pc[m] \/ pc'[m] = After(pc[m])
    <3>1. \A p : Goto(l, p) => \A m \in Lwps \ {l} : pc'[m] = pc[m]
      BY <1>0 DEF Goto, Places
    <3>2. \A p, W : GoWaking(l, p, W) =>
                      \A m \in Lwps \ {l} : pc'[m] = pc[m] \/ pc'[m] = After(pc[m])
      BY DEF GoWaking
    <3>3. (\E p : Goto(l, p)) \/ \E p, W : GoWaking(l, p, W)
      BY DEF AsksOrWakes, Forkall, Core, RendezvousWoken, Failed, Begin
    <3> QED BY <3>1, <3>2, <3>3
  <2>3. \A m \in Lwps : After(pc[m]) # "stasis" /\ ~Rdv(After(pc[m]))
    BY DEF After, Rdv
  <2>4. k = l
    BY <1>0, <2>1, <2>2, <2>3
  <2>5. \A m \in list \ {l} : Rdv(pc'[m])
    BY <1>0, <2>1, <2>4 DEF Barrier, StasisMeansStopped, At, Others, Rendezvoused, AllAt, Rdv
  <2>6. \A m \in list \ {l} : Rdv(pc[m])
    BY <1>0, <2>2, <2>3, <2>5
  <2>7. InStasis' = {l} /\ Awake' = {l} /\ Waiting' = Waiting \ {l}
    BY <1>0, <2>1, <2>4, <2>5, <2>6
    DEF InStasis, Awake, Waiting, AllAt, At, Rdv, Sleeping, Stopped
  <2>8. mishaps' = mishaps
    <3>1. CASE Forkall(l) \/ RendezvousWoken(l)
      BY <3>1 DEF Forkall, RendezvousWoken
    <3>2. CASE Core(l)
      BY <1>0, <2>1, <2>4, <3>2 DEF Core, Goto, Places
    <3> QED BY <3>1, <3>2 DEF AsksOrWakes
  <2>9. A!Hold(l)
    BY <1>0, <2>1, <2>4, <2>7, <2>8 DEF A!Hold, A!AtRest, InStasis, Awake, Waiting
  <2> QED BY <1>0, <2>1, <2>4, <2>9 DEF AbsStep, A!Next
<1> QED BY <1>1, <1>2

(* While an LWP has the process at rest, only its release is a step, and   *)
(* SIGCONT, for nobody.                                                    *)
LEMMA RestIsQuiet ==
  ASSUME Places, NEW l \in list, pc[l] = "stasis", \A m \in list \ {l} : Rdv(pc[m]), Next
  PROVE  Sigcont \/ Release(l)
<1>1. \A m \in Lwps : pc[m] = "none" \/ pc[m] = "stasis" \/ Rdv(pc[m])
  BY DEF Places
<1>2. ASSUME NEW m \in Lwps PROVE ~(Trap(m) \/ Calls(m) \/ Signals(m))
  BY <1>1
  DEF Trap, Calls, Signals, Forkall, Exit, Exec, NewLwp, LwpSuspend, LwpContinue, IssigKill,
      IssigCore, IssigJobstop, At, Rdv
<1>3. ASSUME NEW m \in Lwps, InKernel(m) PROVE Release(m)
  BY <1>1, <1>3
  DEF InKernel, ReturnToUser, PsigRendezvous, PsigReleased, PsigKill, IssigSuspend, IssigJobstop,
      Core, RendezvousWoken, DestroyRead, DestroyTest, DestroyLock, DestroyDone, LwpExit,
      LwpExitReleased, At, Rdv
<1>4. ASSUME NEW m \in Lwps, Release(m) PROVE m = l
  BY <1>4 DEF Release, At, Places, Rdv
<1> QED BY <1>2, <1>3, <1>4 DEF Next

(* Both.                                                                   *)
LEMMA StasisEnds ==
  ASSUME Barrier, Barrier', NEW l \in InStasis, [Next]_vars
  PROVE  AbsStep
<1>1. /\ Places /\ l \in list /\ l \in Lwps /\ pc[l] = "stasis"
      /\ \A m \in list \ {l} : Rdv(pc[m])
  BY DEF Barrier, Places, InStasis, StasisMeansStopped, At, Others, Rendezvoused, AllAt, Rdv
<1>2. CASE Sigcont
  <2>1. UNCHANGED <<list, pDestroy, mishaps>> /\ \A m \in list : pc'[m] = pc[m]
    BY <1>1, <1>2 DEF Sigcont, At, Rdv, Places
  <2> QED BY <2>1 DEF AbsStep, A!vars, AllAt, At
<1>3. CASE Release(l)
  <2>1. UNCHANGED <<list, pDestroy, mishaps>>
    BY <1>3 DEF Release, procVars
  <2>2. PICK p \in {"partial release", "trap", "destroy"}, W \in {{}, Rendezvoused} :
          GoWaking(l, p, W)
    BY <1>1, <1>3, GotoWakesNobody DEF Release
  <2>3. \A m \in list \ {l} : pc'[m] = pc[m] \/ pc'[m] = After(pc[m])
    BY <1>1, <2>2 DEF GoWaking, Places
  <2>4. \A m \in list \ {l} : Rdv(pc'[m]) \/ pc'[m] = "released" \/ pc'[m] = "exreleased"
    BY <1>1, <2>3 DEF Rdv, After
  <2>5. pc'[l] = p
    BY <1>1, <2>2 DEF GoWaking
  <2>6. /\ InStasis = {l} /\ InStasis' = {} /\ Waiting = {} /\ Waiting' = {}
        /\ Awake' \subseteq list
    BY <1>1, <2>1, <2>4, <2>5 DEF InStasis, Waiting, Awake, AllAt, At, Rdv
  <2>7. A!Release(l)
    BY <2>1, <2>6 DEF A!Release, InStasis, Waiting, Awake
  <2> QED BY <1>1, <2>7 DEF AbsStep, A!Next
<1>4. CASE UNCHANGED vars
  BY <1>4 DEF vars, procVars, AbsStep, A!vars, AllAt, At
<1> QED BY <1>1, <1>2, <1>3, <1>4, RestIsQuiet

(* Every step of Rendezvous is one of AbstractRendezvous, or changes       *)
(* nothing there: while an LWP has the process at rest nobody else runs,   *)
(* comes, goes or is woken, and it is given its last task by nobody.       *)
THEOREM RendezvousRefinement == Spec => A!Spec
<1>1. Init => A!Init
  <2> SUFFICES ASSUME Init PROVE A!Init
    OBVIOUS
  <2>1. list \subseteq Lwps /\ \A l \in list : pc[l] = "user"
    BY RendezvousAssumption DEF Init
  <2>2. Awake = list /\ InStasis = {} /\ Waiting = {}
    BY <2>1 DEF Awake, InStasis, Waiting, AllAt, At, Sleeping, Stopped
  <2>3. pDestroy = FALSE /\ mishaps = {}
    BY DEF Init
  <2> QED BY <2>1, <2>2, <2>3 DEF A!Init, Awake, InStasis, Waiting
<1>2. Inv /\ Inv' /\ [Next]_vars => AbsStep
  <2> SUFFICES ASSUME Inv, Inv', [Next]_vars PROVE AbsStep
    OBVIOUS
  <2>1. Barrier /\ Barrier' /\ Bools /\ Places /\ Places'
    BY DEF Inv, Typed, Barrier
  <2>2. ASSUME NEW l \in InStasis PROVE AbsStep
    BY <2>1, <2>2, StasisEnds
  <2>3. ASSUME InStasis = {}, NEW l \in Lwps, AsksOrWakes(l) PROVE AbsStep
    BY <2>1, <2>3, StasisBegins
  <2>4. ASSUME InStasis = {}, \A l \in Lwps : ~AsksOrWakes(l) PROVE AbsStep
    <3>1. NoneAt("stasis")
      BY <2>1, <2>4 DEF NoneAt, Places, InStasis, AllAt, At
    <3>2. NoneAt("stasis")'
      BY <2>1, <2>4, <3>1, HarmlessNext DEF OwnStepOnly
    <3>3. InStasis' = {} /\ (list \subseteq Lwps)'
      BY <2>1, <3>2 DEF NoneAt, Places, InStasis, AllAt, At
    <3> QED BY <2>1, <2>4, <3>3, DoomStep, MishapsStay, AbsMove
  <2> QED BY <2>2, <2>3, <2>4
<1> QED BY <1>1, <1>2, SpecInv, PTL DEF Spec, A!Spec, AbsStep
=============================================================================
