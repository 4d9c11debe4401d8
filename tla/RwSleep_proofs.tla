--------------------------- MODULE RwSleep_proofs ---------------------------
(***************************************************************************)
(* Theorems about RwSleep, for any finite set of LWPs, any entry points in *)
(* use and any number of calls: readers and writers exclude each other,    *)
(* rw_read counts the readers but one, the mode of a held lock is the one  *)
(* of its holders, and rw_pend is changed only under the rule of the code. *)
(***************************************************************************)
EXTENDS RwSleep, SleepQueue_proofs

(***************************************************************************)
(* The inductive invariant.                                                *)
(***************************************************************************)
(* Queues, wakeups, priorities and l_mutex are not in it: who has the lock *)
(* does not depend on them.                                                *)

(* Under rw_fspin; past an exchange that another LWP cannot share; holding *)
(* it with other readers, perhaps; done with it but not with rw_mode.      *)
UnderFspin == {"settling", "j_avail", "j_mode", "j_in", "q_take", "q_mode", "q_avail",
               "q_mode2", "q_got", "q_enq", "s_held", "s_dec", "d_loop", "d_type",
               "d_rel"}
Fresh == {"got", "q_got"}
Shared == {"settle", "settling", "j_in", "hold"} \union LastTest
Busy == {"m_fspin", "m_list", "m_take", "m_done", "d_done"}
ReadersOnly == {"rd_mode", "j_fspin", "j_avail", "j_mode", "q_mode", "q_avail", "q_mode2",
                "q_got", "settle", "settling", "j_in"} \union LastTest
(* The control points, and those from the exchange on until the lock is    *)
(* given back.                                                             *)
Pcs == {"idle"} \union Acquiring \union Acquired \union LastTest \union Releasing
       \union Released
Locked == Acquired \union LastTest \union Releasing
(* Counted in, and looking whether it may stay.                            *)
Looks == {"j_avail", "j_mode", "q_avail", "q_mode2"}
(* A reader that once saw itself alone.                                    *)
SawAlone == {"u_mode", "v_fspin", "v_read", "v_mode"}

CoreType ==
  /\ pc \in [Lwps -> Pcs] /\ op \in [Lwps -> RdOps \union WrOps]
  /\ rwAvail \in BOOLEAN /\ rwFspin \in Lwps \union {Nobody} /\ rwRead \in Int
  /\ \A l \in Lwps : pc[l] \in ReadersOnly => Reader(l)

FspinHeld == \A l \in Lwps : pc[l] \in UnderFspin => rwFspin = l

(* Whoever is not alone with the lock is a reader among readers, and has   *)
(* neither just taken it nor begun to give it back.                        *)
Company ==
  \A l, m \in Lwps : HasLock(l) /\ HasLock(m) /\ l # m => Reader(l) /\ pc[l] \in Shared

Availability == rwAvail <=> \A l \in Lwps : ~HasLock(l)

(* Only one reader can have seen itself alone, and if rw_mode has stayed   *)
(* RWS_UNLOCKED until its last look, it is.                                *)
LastOne ==
  /\ \A l, m \in Lwps : pc[l] \in SawAlone /\ pc[m] \in SawAlone => l = m
  /\ \A l, m \in Lwps : At(l, "v_mode") /\ rwMode = "RWS_UNLOCKED" /\ HasLock(m) => l = m

Modes ==
  /\ \A l \in Lwps : pc[l] \in Shared =>
       IF Reader(l) THEN rwMode \in {"RWS_READ", "RWS_UNLOCKED"} ELSE rwMode = "RWS_WRITE"
  /\ rwMode = "RWS_READ" => \E l \in Lwps : pc[l] \in Shared

(* The LWP that has marked the lock busy is alone in that, and whoever has *)
(* taken the lock since waits for it.                                      *)
BusyOne ==
  \A l \in Lwps : pc[l] \in Busy =>
    /\ rwMode = "RWS_BUSY"
    /\ \A m \in Lwps : /\ pc[m] \in Busy => m = l
                       /\ HasLock(m) => pc[m] \in Fresh

StillOthers == \A l \in Lwps : At(l, "s_dec") => rwRead > 0

Core == /\ CoreType /\ FspinHeld /\ Company /\ Availability /\ LastOne /\ Modes
        /\ BusyOne /\ StillOthers
Inv == Core /\ ReadersCounted

(***************************************************************************)
(* What the count tells.                                                   *)
(***************************************************************************)
(* It is a number; at 0 nobody looks and there is one reader at most; and  *)
(* if it is more while nobody looks, no reader is the only one.            *)
LEMMA CountTells ==
  ASSUME ReadersCounted
  PROVE  /\ rwRead \in Nat
         /\ rwRead = 0 => Looking = {} /\ \A l, m \in Readers : l = m
         /\ Looking = {} /\ rwRead > 0 => \A l \in Readers : \E m \in Readers : m # l
<1>1. IsFiniteSet(Looking) /\ IsFiniteSet(Readers)
  BY LwpAssumption, FS_Subset DEF Looking, Readers
<1>2. Cardinality(Looking) \in Nat /\ Cardinality(Readers) \in Nat
  BY <1>1, FS_CardinalityType
<1>3. /\ Readers = {} <=> Cardinality(Readers) = 0
      /\ Looking = {} <=> Cardinality(Looking) = 0
  BY <1>1, FS_EmptySet
<1>4. rwRead \in Nat
  BY <1>2, <1>3 DEF ReadersCounted
<1>5. ASSUME rwRead = 0 PROVE Looking = {} /\ \A l, m \in Readers : l = m
  <2>1. Looking = {} /\ (Readers = {} \/ Cardinality(Readers) = 1)
    BY <1>2, <1>3, <1>5 DEF ReadersCounted
  <2>2. CASE Readers = {}
    BY <2>1, <2>2
  <2>3. CASE Cardinality(Readers) = 1
    <3>1. PICK r : Readers = {r}
      BY <1>1, <2>3, FS_Singleton
    <3> QED BY <2>1, <3>1
  <2> QED BY <2>1, <2>2, <2>3
<1>6. ASSUME Looking = {}, rwRead > 0, NEW l \in Readers PROVE \E m \in Readers : m # l
  <2>1. Cardinality(Readers) > 1
    BY <1>2, <1>3, <1>6 DEF ReadersCounted
  <2>2. Readers # {l}
    BY <1>1, <2>1, FS_Singleton
  <2> QED BY <2>2
<1> QED BY <1>4, <1>5, <1>6

(***************************************************************************)
(* Moves: what a step of l to q does to the lock, whatever else it does.   *)
(***************************************************************************)
(* How the regions lie.                                                    *)
LEMMA Regions ==
  /\ \A p : p \in Locked <=> p \in Fresh \/ p \in Shared \/ p \in Releasing
  /\ \A p \in Shared : p \notin Fresh /\ p \notin Releasing
  /\ \A p \in Releasing : p \notin Fresh
  /\ \A p \in Locked : p \notin Busy
  /\ \A p \in SawAlone : p \in Shared /\ p \in ReadersOnly
  /\ \A p \in Looks : p \notin Locked /\ p \notin Busy
  /\ \A p \in Acquiring : p \notin Locked /\ p \notin Busy
  /\ "v_mode" \in SawAlone /\ "s_dec" \in Shared /\ "s_dec" \in UnderFspin
  /\ "s_dec" \in ReadersOnly
BY DEF Locked, Acquired, LastTest, Releasing, Fresh, Shared, Busy, SawAlone, UnderFspin,
       ReadersOnly, Looks, Acquiring

(* To have the lock is to be in the region Locked.                         *)
LEMMA HasLockIsRegion == \A l \in Lwps : (HasLock(l) <=> pc[l] \in Locked)
                                         /\ (HasLock(l)' <=> pc'[l] \in Locked)
BY DEF HasLock, Locked

(* l goes to q, and does not touch rw_fspin and rw_read but by the rules.  *)
Disciplined(l, q) ==
  /\ q \in Pcs /\ Goto(l, q)
  /\ op' = op \/ (q \notin Locked /\ pc[l] \notin Locked /\ pc[l] \notin Acquiring
                   /\ \E o \in RdOps \union WrOps : op' = [op EXCEPT ![l] = o])
  /\ q \in ReadersOnly => Reader(l) /\ op' = op
  /\ rwAvail' \in BOOLEAN /\ rwRead' \in Int
  /\ \/ rwFspin' = rwFspin /\ (q \in UnderFspin => pc[l] \in UnderFspin)
     \/ rwFspin = Nobody /\ rwFspin' = l
     \/ pc[l] \in UnderFspin /\ rwFspin' = Nobody /\ q \notin UnderFspin
  /\ rwRead' # rwRead => pc[l] \in UnderFspin \/ (rwFspin = Nobody /\ rwFspin' = l)
  /\ q = "s_dec" => rwRead' > 0

(* Under the rules, types, the ownership of rw_fspin and the count of an   *)
(* LWP that is to leave others are kept.                                   *)
LEMMA DisciplineKept ==
  ASSUME Core, NEW l \in Lwps, NEW q, Disciplined(l, q)
  PROVE  CoreType' /\ FspinHeld' /\ StillOthers'
<1> USE DEF Core
<1>1. pc' \in [Lwps -> Pcs] /\ \A m \in Lwps : pc'[m] = IF m = l THEN q ELSE pc[m]
  BY DEF CoreType, Disciplined, Goto
<1>2. op' \in [Lwps -> RdOps \union WrOps] /\ \A m \in Lwps : m # l => op'[m] = op[m]
  BY DEF CoreType, Disciplined
<1>3. rwFspin' \in Lwps \union {Nobody} /\ rwAvail' \in BOOLEAN /\ rwRead' \in Int
  BY DEF CoreType, Disciplined
<1>4. \A m \in Lwps : pc'[m] \in ReadersOnly => Reader(m)'
  BY <1>1, <1>2 DEF CoreType, Disciplined, Reader
<1>5. FspinHeld'
  BY <1>1, LwpAssumption DEF FspinHeld, Disciplined, Ctxs
<1>6. ASSUME NEW m \in Lwps, At(m, "s_dec")' PROVE rwRead' > 0
  <2>1. CASE m = l
    BY <1>1, <1>6, <2>1 DEF Disciplined, At
  <2>2. CASE m # l
    <3>1. At(m, "s_dec") /\ rwFspin = m /\ rwRead > 0
      BY <1>1, <1>6, <2>2, Regions DEF At, FspinHeld, StillOthers
    <3>2. rwRead' = rwRead
      BY <2>2, <3>1, LwpAssumption DEF Disciplined, FspinHeld, Ctxs
    <3> QED BY <3>1, <3>2
  <2> QED BY <2>1, <2>2
<1> QED BY <1>1, <1>2, <1>3, <1>4, <1>5, <1>6 DEF CoreType, StillOthers

(* The rest of the invariant; each kind of move keeps it in its own way.   *)
Parts == Company /\ Availability /\ LastOne /\ Modes /\ BusyOne

(* From now on the regions are sets of which only Regions is known.        *)
LEMMA CoreFromParts ==
  ASSUME Core, NEW l \in Lwps, NEW q, Disciplined(l, q), Parts'
  PROVE  Core'
BY DisciplineKept DEF Core, Parts

(* The facts about a move that the proofs below use.                       *)
Before(l, q) ==
  /\ \A m \in Lwps : /\ pc'[m] = IF m = l THEN q ELSE pc[m]
                     /\ HasLock(m) <=> pc[m] \in Locked
                     /\ HasLock(m)' <=> pc'[m] \in Locked
                     /\ Reader(m)' <=> (IF m = l THEN op'[l] ELSE op[m]) \in RdOps
                     /\ Reader(m) <=> op[m] \in RdOps

(* They hold of every move.                                                *)
LEMMA Moving ==
  ASSUME Core, NEW l \in Lwps, NEW q, Disciplined(l, q)
  PROVE  Before(l, q)
BY HasLockIsRegion DEF Before, Core, CoreType, Disciplined, Goto, Reader

(* A move within a region.                                                 *)
Stays(l, q) ==
  /\ rwMode' = rwMode /\ rwAvail' = rwAvail
  /\ rwRead' = (rwRead + (IF q \in Looks THEN 1 ELSE 0))
                 - (IF pc[l] \in Looks THEN 1 ELSE 0)
  /\ q \in Locked <=> pc[l] \in Locked
  /\ q \in Shared <=> pc[l] \in Shared
  /\ q \in Fresh <=> pc[l] \in Fresh
  /\ q \in Busy <=> pc[l] \in Busy
  /\ q \in SawAlone => pc[l] \in SawAlone
  /\ q = "v_mode" => pc[l] = "v_mode"
  /\ pc[l] \in Acquiring /\ q \notin Acquiring => op[l] \in TryOps

LEMMA StaysKeeps ==
  ASSUME Core, NEW l \in Lwps, NEW q, Disciplined(l, q), Stays(l, q)
  PROVE  Core'
<1> SUFFICES Parts'
  BY CoreFromParts
<1> USE DEF Core, Stays
<1>1. Before(l, q) /\ (op' = op \/ (q \notin Locked /\ pc[l] \notin Locked))
  BY Moving DEF Disciplined
<1>2. \A m \in Lwps : /\ pc'[m] \in Locked <=> pc[m] \in Locked
                      /\ pc'[m] \in Shared <=> pc[m] \in Shared
                      /\ pc'[m] \in Fresh <=> pc[m] \in Fresh
                      /\ pc'[m] \in Busy <=> pc[m] \in Busy
                      /\ pc'[m] \in SawAlone => pc[m] \in SawAlone
                      /\ At(m, "v_mode")' => At(m, "v_mode")
                      /\ HasLock(m)' <=> HasLock(m)
                      /\ pc[m] \in Locked => (Reader(m)' <=> Reader(m))
  BY <1>1 DEF Before, At
<1>3. Company'
  BY <1>1, <1>2 DEF Company, Before
<1>4. Availability'
  BY <1>2 DEF Availability
<1>5. LastOne'
  BY <1>2 DEF LastOne
<1>6. Modes'
  BY <1>1, <1>2, Regions DEF Modes, Before
<1>7. BusyOne'
  BY <1>2 DEF BusyOne
<1> QED BY <1>3, <1>4, <1>5, <1>6, <1>7 DEF Parts

(* The exchange on rw_avail finds TRUE.  An LWP that takes the lock back   *)
(* to wake a sleeper is the one that marked it busy.                       *)
Takes(l, q) ==
  /\ rwAvail /\ rwAvail' = FALSE /\ rwMode' = rwMode
  /\ pc[l] \notin Locked /\ q \in Locked /\ q \notin Shared
  /\ q \in Fresh \/ pc[l] \in Busy
  /\ pc[l] \notin Looks /\ rwRead' = rwRead


LEMMA TakesKeeps ==
  ASSUME Core, NEW l \in Lwps, NEW q, Disciplined(l, q), Takes(l, q)
  PROVE  Core'
<1> SUFFICES Parts'
  BY CoreFromParts
<1> USE DEF Core, Takes
<1>1. Before(l, q) /\ op' = op
  BY Moving, Regions DEF Disciplined
<1>2. rwMode # "RWS_READ" /\ \A m \in Lwps : pc[m] \notin Locked
  BY <1>1, Regions DEF Availability, Modes, Before
<1>3. Company'
  BY <1>1, <1>2, Regions DEF Company, Before, At
<1>4. Availability'
  BY <1>1, <1>2, Regions DEF Availability, Before, At
<1>5. LastOne'
  BY <1>1, <1>2, Regions DEF LastOne, Before, At
<1>6. Modes'
  BY <1>1, <1>2, Regions DEF Modes, Before, At
<1>7. BusyOne'
  BY <1>1, <1>2, Regions DEF BusyOne, Before, At
<1> QED BY <1>3, <1>4, <1>5, <1>6, <1>7 DEF Parts

(* Who has just taken the lock sets its mode.                              *)
Sets(l, q) ==
  /\ pc[l] \in Fresh /\ q \in Shared /\ q \notin SawAlone
  /\ rwAvail' = rwAvail /\ rwMode # "RWS_BUSY"
  /\ rwMode' = IF Reader(l) THEN "RWS_READ" ELSE "RWS_WRITE"
  /\ rwRead' = rwRead


LEMMA SetsKeeps ==
  ASSUME Core, NEW l \in Lwps, NEW q, Disciplined(l, q), Sets(l, q)
  PROVE  Core'
<1> SUFFICES Parts'
  BY CoreFromParts
<1> USE DEF Core, Sets
<1>1. Before(l, q) /\ op' = op
  BY Moving, Regions DEF Disciplined
<1>2. \A m \in Lwps : (pc[m] \in Locked => m = l) /\ pc[m] \notin Busy
  BY <1>1, Regions DEF Company, BusyOne, Before
<1>3. Company'
  BY <1>1, <1>2, Regions DEF Company, Before, At
<1>4. Availability'
  BY <1>1, <1>2, Regions DEF Availability, Before, At
<1>5. LastOne'
  BY <1>1, <1>2, Regions DEF LastOne, Before, At
<1>6. Modes'
  BY <1>1, <1>2, Regions DEF Modes, Before, At
<1>7. BusyOne'
  BY <1>1, <1>2, Regions DEF BusyOne, Before, At
<1> QED BY <1>3, <1>4, <1>5, <1>6, <1>7 DEF Parts

(* A reader that finds the lock held in read mode is in.                   *)
Joins(l, q) ==
  /\ pc[l] \in Looks /\ rwRead' = rwRead
  /\ q \in Shared /\ q \notin SawAlone /\ Reader(l) /\ op' = op
  /\ rwMode = "RWS_READ" /\ rwMode' = rwMode /\ rwAvail' = rwAvail


LEMMA JoinsKeeps ==
  ASSUME Core, NEW l \in Lwps, NEW q, Disciplined(l, q), Joins(l, q)
  PROVE  Core'
<1> SUFFICES Parts'
  BY CoreFromParts
<1> USE DEF Core, Joins
<1>1. Before(l, q) /\ op' = op
  BY Moving, Regions DEF Disciplined
<1>2. /\ \A m \in Lwps : pc[m] \in Locked => pc[m] \in Shared /\ Reader(m)
      /\ \E m \in Lwps : pc[m] \in Locked
  <2>1. PICK s \in Lwps : pc[s] \in Shared /\ Reader(s)
    BY DEF Modes
  <2> QED BY <1>1, <2>1, Regions DEF Company, Before
<1>3. Company'
  BY <1>1, <1>2, Regions DEF Company, Before, At
<1>4. Availability'
  BY <1>1, <1>2, Regions DEF Availability, Before, At
<1>5. LastOne'
  BY <1>1, <1>2, Regions DEF LastOne, Before, At
<1>6. Modes'
  BY <1>1, <1>2, Regions DEF Modes, Before, At
<1>7. BusyOne'
  BY <1>1, <1>2, Regions DEF BusyOne, Before, At
<1> QED BY <1>3, <1>4, <1>5, <1>6, <1>7 DEF Parts

(* Who is alone with the lock begins to give it back.                      *)
Gives(l, q) ==
  /\ pc[l] \in Shared /\ q \in Releasing
  /\ \A m \in Lwps : HasLock(m) => m = l
  /\ rwMode' # "RWS_READ" /\ rwAvail' = rwAvail /\ rwRead' = rwRead


LEMMA GivesKeeps ==
  ASSUME Core, NEW l \in Lwps, NEW q, Disciplined(l, q), Gives(l, q)
  PROVE  Core'
<1> SUFFICES Parts'
  BY CoreFromParts
<1> USE DEF Core, Gives
<1>1. Before(l, q) /\ op' = op
  BY Moving, Regions DEF Disciplined
<1>3. Company'
  BY <1>1, Regions DEF Company, Before, At
<1>4. Availability'
  BY <1>1, Regions DEF Availability, Before, At
<1>5. LastOne'
  BY <1>1, Regions DEF LastOne, Before, At
<1>6. Modes'
  BY <1>1, Regions DEF Modes, Before, At
<1>7. BusyOne'
  BY <1>1, Regions DEF BusyOne, Before, At
<1> QED BY <1>3, <1>4, <1>5, <1>6, <1>7 DEF Parts

(* A reader counts the others, and there are none.                         *)
SeesItselfAlone(l, q) ==
  /\ pc[l] \in Shared /\ q \in SawAlone
  /\ \A m \in Lwps : HasLock(m) => m = l
  /\ rwMode' = rwMode /\ rwAvail' = rwAvail /\ rwRead' = rwRead


LEMMA SeesItselfAloneKeeps ==
  ASSUME Core, NEW l \in Lwps, NEW q, Disciplined(l, q), SeesItselfAlone(l, q)
  PROVE  Core'
<1> SUFFICES Parts'
  BY CoreFromParts
<1> USE DEF Core, SeesItselfAlone
<1>1. Before(l, q) /\ op' = op
  BY Moving, Regions DEF Disciplined
<1>3. Company'
  BY <1>1, Regions DEF Company, Before, At
<1>4. Availability'
  BY <1>1, Regions DEF Availability, Before, At
<1>5. LastOne'
  BY <1>1, Regions DEF LastOne, Before, At
<1>6. Modes'
  BY <1>1, Regions DEF Modes, Before, At
<1>7. BusyOne'
  BY <1>1, Regions DEF BusyOne, Before, At
<1> QED BY <1>3, <1>4, <1>5, <1>6, <1>7 DEF Parts

(* The one that saw itself alone sets RWS_UNLOCKED.                        *)
MarksUnlocked(l, q) ==
  /\ At(l, "u_mode") /\ pc[l] \in SawAlone /\ q \in SawAlone /\ q # "v_mode" /\ Reader(l)
  /\ rwMode' = "RWS_UNLOCKED" /\ rwAvail' = rwAvail /\ rwRead' = rwRead


LEMMA MarksUnlockedKeeps ==
  ASSUME Core, NEW l \in Lwps, NEW q, Disciplined(l, q), MarksUnlocked(l, q)
  PROVE  Core'
<1> SUFFICES Parts'
  BY CoreFromParts
<1> USE DEF Core, MarksUnlocked
<1>1. Before(l, q) /\ op' = op
  BY Moving, Regions DEF Disciplined
<1>3. Company'
  BY <1>1, Regions DEF Company, Before, At
<1>4. Availability'
  BY <1>1, Regions DEF Availability, Before, At
<1>5. LastOne'
  BY <1>1, Regions DEF LastOne, Before, At
<1>6. Modes'
  BY <1>1, Regions DEF Modes, Before, At
<1>7. BusyOne'
  BY <1>1, Regions DEF BusyOne, Before, At
<1> QED BY <1>3, <1>4, <1>5, <1>6, <1>7 DEF Parts

(* A reader that is to leave others behind sets the mode back.             *)
PutsBack(l, q) ==
  /\ pc[l] \in Shared /\ q \in Shared /\ q \notin SawAlone /\ Reader(l)
  /\ rwMode' = "RWS_READ" /\ rwAvail' = rwAvail /\ rwRead' = rwRead


LEMMA PutsBackKeeps ==
  ASSUME Core, NEW l \in Lwps, NEW q, Disciplined(l, q), PutsBack(l, q)
  PROVE  Core'
<1> SUFFICES Parts'
  BY CoreFromParts
<1> USE DEF Core, PutsBack
<1>1. Before(l, q) /\ op' = op
  BY Moving, Regions DEF Disciplined
<1>3. Company'
  BY <1>1, Regions DEF Company, Before, At
<1>4. Availability'
  BY <1>1, Regions DEF Availability, Before, At
<1>5. LastOne'
  BY <1>1, Regions DEF LastOne, Before, At
<1>6. Modes'
  BY <1>1, Regions DEF Modes, Before, At
<1>7. BusyOne'
  BY <1>1, Regions DEF BusyOne, Before, At
<1> QED BY <1>3, <1>4, <1>5, <1>6, <1>7 DEF Parts

(* A reader leaves others behind.                                          *)
Leaves(l, q) ==
  /\ pc[l] \in Shared /\ q \notin Locked /\ q \notin Busy /\ op' = op
  /\ Reader(l) /\ rwRead > 0 /\ rwRead' = rwRead - 1 /\ q \notin Looks \union Acquiring
  /\ \E m \in Lwps : m # l /\ HasLock(m)
  /\ rwMode' = rwMode /\ rwAvail' = rwAvail


LEMMA LeavesKeeps ==
  ASSUME Core, NEW l \in Lwps, NEW q, Disciplined(l, q), Leaves(l, q)
  PROVE  Core'
<1> SUFFICES Parts'
  BY CoreFromParts
<1> USE DEF Core, Leaves
<1>1. Before(l, q) /\ op' = op
  BY Moving, Regions DEF Disciplined
<1>3. Company'
  BY <1>1, Regions DEF Company, Before, At
<1>4. Availability'
  BY <1>1, Regions DEF Availability, Before, At
<1>5. LastOne'
  BY <1>1, Regions DEF LastOne, Before, At
<1>6. Modes'
  BY <1>1, Regions DEF Company, Modes, Before, At
<1>7. BusyOne'
  BY <1>1, Regions DEF BusyOne, Before, At
<1> QED BY <1>3, <1>4, <1>5, <1>6, <1>7 DEF Parts

(* The lock is free, and marked busy.                                      *)
Marks(l, q) ==
  /\ pc[l] \in Releasing /\ q \in Busy
  /\ rwMode' = "RWS_BUSY" /\ rwAvail' = TRUE /\ rwRead' = rwRead


LEMMA MarksKeeps ==
  ASSUME Core, NEW l \in Lwps, NEW q, Disciplined(l, q), Marks(l, q)
  PROVE  Core'
<1> SUFFICES Parts'
  BY CoreFromParts
<1> USE DEF Core, Marks
<1>1. Before(l, q) /\ op' = op
  BY Moving, Regions DEF Disciplined
<1>2. \A m \in Lwps : (pc[m] \in Locked => m = l) /\ pc[m] \notin Busy
  BY <1>1, Regions DEF Company, BusyOne, Before
<1>3. Company'
  BY <1>1, <1>2, Regions DEF Company, Before, At
<1>4. Availability'
  BY <1>1, <1>2, Regions DEF Availability, Before, At
<1>5. LastOne'
  BY <1>1, <1>2, Regions DEF LastOne, Before, At
<1>6. Modes'
  BY <1>1, <1>2, Regions DEF Modes, Before, At
<1>7. BusyOne'
  BY <1>1, <1>2, Regions DEF BusyOne, Before, At
<1> QED BY <1>3, <1>4, <1>5, <1>6, <1>7 DEF Parts

(* The LWP that marked the lock busy is done with it.                      *)
Unmarks(l, q) ==
  /\ pc[l] \in Busy /\ q \notin Busy /\ q \notin Locked /\ op' = op
  /\ q \notin Looks \union Acquiring
  /\ rwMode' = "RWS_UNLOCKED" /\ rwAvail' = rwAvail /\ rwRead' = rwRead


LEMMA UnmarksKeeps ==
  ASSUME Core, NEW l \in Lwps, NEW q, Disciplined(l, q), Unmarks(l, q)
  PROVE  Core'
<1> SUFFICES Parts'
  BY CoreFromParts
<1> USE DEF Core, Unmarks
<1>1. Before(l, q) /\ op' = op
  BY Moving, Regions DEF Disciplined
<1>3. Company'
  BY <1>1, Regions DEF Company, Before, At
<1>4. Availability'
  BY <1>1, Regions DEF Availability, Before, At
<1>5. LastOne'
  BY <1>1, Regions DEF BusyOne, LastOne, Before, At
<1>6. Modes'
  BY <1>1, Regions DEF BusyOne, Modes, Before, At
<1>7. BusyOne'
  BY <1>1, Regions DEF BusyOne, Before, At
<1> QED BY <1>3, <1>4, <1>5, <1>6, <1>7 DEF Parts

(***************************************************************************)
(* What the moves do to the count.                                         *)
(***************************************************************************)
(* Who looks and who reads, after a move.                                  *)
LEMMA SetsMove ==
  ASSUME Core, NEW l \in Lwps, NEW q, Disciplined(l, q)
  PROVE  /\ Looking' = IF q \in Looks THEN Looking \union {l} ELSE Looking \ {l}
         /\ Readers' = IF q \in Locked /\ Reader(l) THEN Readers \union {l}
                                                    ELSE Readers \ {l}
         /\ l \in Looking <=> pc[l] \in Looks
         /\ l \in Readers <=> pc[l] \in Locked /\ Reader(l)
         /\ IsFiniteSet(Looking) /\ IsFiniteSet(Readers)
         /\ Cardinality(Looking) \in Nat /\ Cardinality(Readers) \in Nat
<1>1. Before(l, q) /\ (q \in Locked => op' = op)
      /\ (op' = op \/ \A m \in Lwps : m # l => op'[m] = op[m])
  BY Moving DEF Disciplined, Core, CoreType
<1>2. Looking = {m \in Lwps : pc[m] \in Looks}
      /\ Looking' = {m \in Lwps : pc'[m] \in Looks}
  BY DEF Looking, Looks
<1>3. Looking' = IF q \in Looks THEN Looking \union {l} ELSE Looking \ {l}
  BY <1>1, <1>2 DEF Before
<1>4. Readers = {m \in Lwps : pc[m] \in Locked /\ Reader(m)}
      /\ Readers' = {m \in Lwps : pc'[m] \in Locked /\ Reader(m)'}
  BY <1>1 DEF Readers, Before
<1>5. Readers' = IF q \in Locked /\ Reader(l) THEN Readers \union {l} ELSE Readers \ {l}
  <2>1. \A m \in Lwps : m # l => (m \in Readers' <=> m \in Readers)
    BY <1>1, <1>4 DEF Before
  <2>2. l \in Readers' <=> q \in Locked /\ Reader(l)
    BY <1>1, <1>4 DEF Before
  <2>3. Readers \subseteq Lwps /\ Readers' \subseteq Lwps
    BY <1>4
  <2> QED BY <2>1, <2>2, <2>3
<1>6. IsFiniteSet(Looking) /\ IsFiniteSet(Readers)
  BY LwpAssumption, FS_Subset DEF Looking, Readers
<1> QED BY <1>2, <1>3, <1>4, <1>5, <1>6, FS_CardinalityType

(* The readers stay, and who begins or ends to look counts for one.        *)
LEMMA CountSame ==
  ASSUME Inv, NEW l \in Lwps, NEW q, Disciplined(l, q),
         q \in Locked <=> pc[l] \in Locked,
         rwRead' = (rwRead + (IF q \in Looks THEN 1 ELSE 0))
                     - (IF pc[l] \in Looks THEN 1 ELSE 0)
  PROVE  ReadersCounted'
<1>1. Readers' = Readers
  BY SetsMove DEF Inv
<1>2. Cardinality(Looking') = (Cardinality(Looking) + (IF q \in Looks THEN 1 ELSE 0))
                                - (IF pc[l] \in Looks THEN 1 ELSE 0)
  <2>1. CASE q \in Looks
    <3>1. Looking' = Looking \union {l}
      BY <2>1, SetsMove DEF Inv
    <3>2. Cardinality(Looking') = IF l \in Looking THEN Cardinality(Looking)
                                                   ELSE Cardinality(Looking) + 1
      BY <3>1, SetsMove, FS_AddElement DEF Inv
    <3> QED BY <2>1, <3>2, SetsMove DEF Inv
  <2>2. CASE q \notin Looks
    BY <2>2, SetsMove, FS_RemoveElement DEF Inv
  <2> QED BY <2>1, <2>2
<1>3. rwRead \in Int /\ Cardinality(Looking) \in Nat /\ Cardinality(Readers) \in Nat
  BY SetsMove DEF Inv, Core, CoreType
<1> QED BY <1>1, <1>2, <1>3 DEF Inv, ReadersCounted

(* One reader, or none: neither counts.                                    *)
LEMMA CountAlone ==
  ASSUME Inv, NEW l \in Lwps, NEW q, Disciplined(l, q),
         Readers \subseteq {l}, pc[l] \notin Looks, q \notin Looks, rwRead' = rwRead
  PROVE  ReadersCounted'
<1>1. Looking' = Looking /\ Readers' \subseteq {l}
  BY SetsMove DEF Inv
<1>2. \A R : R \subseteq {l} => R = {} \/ Cardinality(R) = 1
  <2>1. SUFFICES ASSUME NEW R, R \subseteq {l}, R # {} PROVE Cardinality(R) = 1
    OBVIOUS
  <2>2. R = {l}
    BY <2>1
  <2> QED BY <2>2, FS_Singleton
<1>3. (Readers = {} \/ Cardinality(Readers) = 1)
      /\ (Readers' = {} \/ Cardinality(Readers') = 1)
  BY <1>1, <1>2
<1> QED BY <1>1, <1>3, SetsMove DEF Inv, ReadersCounted

(* A reader more, which no longer looks.                                   *)
LEMMA CountJoin ==
  ASSUME Inv, NEW l \in Lwps, NEW q, Disciplined(l, q),
         Readers # {}, Reader(l), pc[l] \in Looks, q \in Locked, rwRead' = rwRead
  PROVE  ReadersCounted'
<1>1. q \notin Looks /\ l \in Looking /\ l \notin Readers
  BY Regions, SetsMove DEF Inv
<1>2. Looking' = Looking \ {l} /\ Readers' = Readers \union {l}
  BY <1>1, SetsMove DEF Inv
<1>3. Cardinality(Looking') = Cardinality(Looking) - 1
      /\ Cardinality(Readers') = Cardinality(Readers) + 1
  BY <1>1, <1>2, SetsMove, FS_AddElement, FS_RemoveElement DEF Inv
<1> QED BY <1>2, <1>3, SetsMove DEF Inv, ReadersCounted

(* A reader less.                                                          *)
LEMMA CountLeave ==
  ASSUME Inv, NEW l \in Lwps, NEW q, Disciplined(l, q), NEW m \in Readers, m # l,
         Reader(l), pc[l] \in Locked, q \notin Locked, q \notin Looks,
         rwRead' = rwRead - 1
  PROVE  ReadersCounted'
<1>1. pc[l] \notin Looks /\ l \in Readers
  BY Regions, SetsMove DEF Inv
<1>2. Looking' = Looking /\ Readers' = Readers \ {l} /\ Readers' # {}
  BY <1>1, SetsMove DEF Inv
<1>3. Cardinality(Readers') = Cardinality(Readers) - 1
  BY <1>1, <1>2, SetsMove, FS_RemoveElement DEF Inv
<1> QED BY <1>2, <1>3, SetsMove DEF Inv, ReadersCounted

(***************************************************************************)
(* Every move keeps the invariant.                                         *)
(***************************************************************************)
(* A move of some kind.                                                    *)
Moves(l) ==
  \E q : /\ Disciplined(l, q)
         /\ \/ Stays(l, q) \/ Takes(l, q) \/ Sets(l, q) \/ Joins(l, q) \/ Gives(l, q)
            \/ SeesItselfAlone(l, q) \/ MarksUnlocked(l, q) \/ PutsBack(l, q)
            \/ Leaves(l, q) \/ Marks(l, q) \/ Unmarks(l, q)

(* Whatever the kind, the invariant is kept.                               *)
LEMMA MovesKeep ==
  ASSUME Inv, NEW l \in Lwps, Moves(l)
  PROVE  Inv'
<1> PICK q : /\ Disciplined(l, q)
             /\ \/ Stays(l, q) \/ Takes(l, q) \/ Sets(l, q) \/ Joins(l, q) \/ Gives(l, q)
                \/ SeesItselfAlone(l, q) \/ MarksUnlocked(l, q) \/ PutsBack(l, q)
                \/ Leaves(l, q) \/ Marks(l, q) \/ Unmarks(l, q)
  BY DEF Moves
<1>1. /\ Core /\ ReadersCounted /\ Before(l, q)
      /\ \A m \in Readers : m \in Lwps /\ HasLock(m) /\ Reader(m)
  BY Moving DEF Inv, Readers
<1>2. CASE Stays(l, q)
  BY <1>1, <1>2, StaysKeeps, CountSame DEF Inv, Stays
<1>3. CASE Takes(l, q)
  <2>1. Readers = {} /\ q \notin Looks
    BY <1>1, <1>3, Regions DEF Takes, Core, Availability, Readers
  <2> QED BY <1>1, <1>3, <2>1, TakesKeeps, CountAlone DEF Inv, Takes
<1>4. CASE Sets(l, q)
  BY <1>1, <1>4, SetsKeeps, CountSame, Regions DEF Inv, Sets, Core, CoreType
<1>5. CASE Joins(l, q)
  <2>1. Readers # {} /\ q \in Locked
    <3>1. PICK s \in Lwps : pc[s] \in Shared /\ Reader(s)
      BY <1>1, <1>5 DEF Joins, Core, Modes
    <3> QED BY <1>1, <1>5, <3>1, Regions DEF Joins, Readers, Before
  <2> QED BY <1>1, <1>5, <2>1, JoinsKeeps, CountJoin DEF Inv, Joins
<1>6. CASE Gives(l, q)
  BY <1>1, <1>6, GivesKeeps, CountSame, Regions DEF Inv, Gives, Core, CoreType
<1>7. CASE SeesItselfAlone(l, q)
  BY <1>1, <1>7, SeesItselfAloneKeeps, CountSame, Regions
  DEF Inv, SeesItselfAlone, Core, CoreType
<1>8. CASE MarksUnlocked(l, q)
  BY <1>1, <1>8, MarksUnlockedKeeps, CountSame, Regions DEF Inv, MarksUnlocked, Core, CoreType
<1>9. CASE PutsBack(l, q)
  BY <1>1, <1>9, PutsBackKeeps, CountSame, Regions DEF Inv, PutsBack, Core, CoreType
<1>10. CASE Leaves(l, q)
  <2>1. PICK m \in Lwps : m # l /\ HasLock(m)
    BY <1>10 DEF Leaves
  <2>2. m \in Readers /\ pc[l] \in Locked
    BY <1>1, <1>10, <2>1, Regions DEF Leaves, Core, Company, Readers, Before
  <2> QED BY <1>1, <1>10, <2>1, <2>2, LeavesKeeps, CountLeave DEF Inv, Leaves
<1>11. CASE Marks(l, q)
  <2>1. Readers \subseteq {l} /\ pc[l] \notin Looks /\ q \notin Looks
    BY <1>1, <1>11, Regions DEF Marks, Core, Company, Before
  <2> QED BY <1>1, <1>11, <2>1, MarksKeeps, CountAlone DEF Inv, Marks
<1>12. CASE Unmarks(l, q)
  BY <1>1, <1>12, UnmarksKeeps, CountSame, Regions DEF Inv, Unmarks, Core, CoreType
<1> QED BY <1>2, <1>3, <1>4, <1>5, <1>6, <1>7, <1>8, <1>9, <1>10, <1>11, <1>12

(***************************************************************************)
(* Every step is a move.                                                   *)
(***************************************************************************)

(* The exchange, and setting the mode.                                     *)
LEMMA TakingMoves ==
  ASSUME Inv, NEW l \in Lwps, Taking(l)
  PROVE  Moves(l)
<1> USE DEF UnderFspin, Fresh, Shared, Busy, ReadersOnly, SawAlone, Locked, Looks,
     Acquired, LastTest, Releasing, Pcs, Acquiring, Released
<1>0. CoreType /\ pc[l] \in Pcs /\ Core /\ ReadersCounted /\ Nobody # l
  BY LwpAssumption DEF Inv, Core, CoreType, Ctxs
<1>1. CASE Take(l)
  <2>1. CASE rwAvail /\ rwAvail' = FALSE /\ Goto(l, "got")
    <3>1. Disciplined(l, "got") /\ Takes(l, "got")
      BY <1>0, <1>1, <2>1 DEF Take, Disciplined, Takes, CoreType, At, Goto, rwVars,
         callVars
    <3> QED BY <3>1 DEF Moves
  <2>2. CASE ~rwAvail
    <3>1. PICK q \in {"rd_mode", "idle", "q_mutex"} :
             /\ Goto(l, q) /\ (q = "rd_mode" => Reader(l)) /\ At(l, "take")
             /\ q = "idle" => op[l] \in TryOps
             /\ UNCHANGED <<op, rwAvail, rwMode, rwFspin, rwRead>>
      BY <1>0, <1>1, <2>2 DEF Take, rwsleep_take, callVars, TryOps
    <3>2. Disciplined(l, q) /\ Stays(l, q)
      BY <1>0, <3>1 DEF Disciplined, Stays, CoreType, At, Goto
    <3> QED BY <3>2 DEF Moves
  <2> QED BY <1>0, <1>1, <2>1, <2>2 DEF Take, rwsleep_take
<1>2. CASE Got(l)
  <2>1. PICK q \in {"settle", "hold"} : Goto(l, q) /\ (q = "settle" => Reader(l))
    BY <1>0, <1>2 DEF Got, Hold
  <2>2. Disciplined(l, q) /\ Sets(l, q)
    BY <1>0, <1>2, <2>1 DEF Got, Hold, Disciplined, Sets, CoreType, At, Goto, rwVars,
       callVars
  <2> QED BY <2>2 DEF Moves
<1>3. CASE Settle(l)
  <2>1. CASE At(l, "settle") /\ FspinLock(l) /\ Goto(l, "settling")
    <3>1. Disciplined(l, "settling") /\ Stays(l, "settling")
      BY <1>0, <1>3, <2>1 DEF Settle, Disciplined, Stays, CoreType, At, Goto,
         FspinLock, FspinFree, rwVars, callVars
    <3> QED BY <3>1 DEF Moves
  <2>2. CASE At(l, "settling") /\ rwFspin' = Nobody /\ Hold(l)
    <3>1. Disciplined(l, "hold") /\ Stays(l, "hold")
      BY <1>0, <1>3, <2>2 DEF Settle, Disciplined, Stays, CoreType, At, Goto, Hold,
         rwVars, callVars
    <3> QED BY <3>1 DEF Moves
  <2> QED BY <1>0, <1>3, <2>1, <2>2 DEF Settle
<1> QED BY <1>1, <1>2, <1>3 DEF Taking

(* Counting oneself in, and looking again.                                 *)
LEMMA JoiningMoves ==
  ASSUME Inv, NEW l \in Lwps, Joining(l)
  PROVE  Moves(l)
<1> USE DEF UnderFspin, Fresh, Shared, Busy, ReadersOnly, SawAlone, Locked, Looks,
     Acquired, LastTest, Releasing, Pcs, Acquiring, Released
<1>0. CoreType /\ pc[l] \in Pcs /\ Core /\ ReadersCounted /\ Nobody # l
  BY LwpAssumption DEF Inv, Core, CoreType, Ctxs
<1>1. CASE RdMode(l)
  <2>1. PICK q \in {"j_fspin", "idle", "q_mutex"} :
           /\ Goto(l, q) /\ pc[l] \in {"rd_mode"} /\ Reader(l)
           /\ q = "idle" => op[l] \in TryOps
           /\ UNCHANGED <<op, rwAvail, rwMode, rwFspin, rwRead>>
    BY <1>0, <1>1 DEF RdMode, CoreType, At, TryOps, rwVars, callVars
  <2>2. Disciplined(l, q) /\ Stays(l, q)
    BY <1>0, <2>1 DEF Disciplined, Stays, CoreType, At, Goto
  <2> QED BY <2>2 DEF Moves
<1>2. CASE JoinCount(l)
  <2>1. Disciplined(l, "j_avail") /\ Stays(l, "j_avail")
    BY <1>0, <1>2 DEF JoinCount, Disciplined, Stays, CoreType, At, Goto, FspinLock,
       FspinFree, rwVars, callVars
  <2> QED BY <2>1 DEF Moves
<1>3. CASE JoinTest(l)
  <2>0. Reader(l) /\ pc[l] \in {"j_avail", "q_avail", "j_mode", "q_mode2"}
    BY <1>0, <1>3 DEF JoinTest, CoreType
  <2>1. CASE At(l, "j_avail") /\ ~rwAvail
    <3>1. Disciplined(l, "j_mode") /\ Stays(l, "j_mode")
      BY <1>0, <1>3, <2>1, <2>0 DEF JoinTest, Disciplined, Stays, CoreType, At, Goto,
         rwVars, callVars
    <3> QED BY <3>1 DEF Moves
  <2>2. CASE At(l, "q_avail") /\ ~rwAvail
    <3>1. Disciplined(l, "q_mode2") /\ Stays(l, "q_mode2")
      BY <1>0, <1>3, <2>2, <2>0 DEF JoinTest, Disciplined, Stays, CoreType, At, Goto,
         rwVars, callVars
    <3> QED BY <3>1 DEF Moves
  <2>3. CASE pc[l] \in {"j_mode", "q_mode2"} /\ rwMode = "RWS_READ"
    <3>1. Disciplined(l, "j_in") /\ Joins(l, "j_in")
      BY <1>0, <1>3, <2>3, <2>0 DEF JoinTest, Disciplined, Joins, CoreType, At, Goto,
         rwVars, callVars
    <3> QED BY <3>1 DEF Moves
  <2>4. CASE pc[l] \in {"q_avail", "q_mode2"} /\ rwRead' = rwRead - 1 /\ Goto(l,
     "q_enq") /\ UNCHANGED rwFspin
    <3>1. Disciplined(l, "q_enq") /\ Stays(l, "q_enq")
      BY <1>0, <1>3, <2>4, <2>0 DEF JoinTest, Disciplined, Stays, CoreType, At, Goto,
         rwVars, callVars
    <3> QED BY <3>1 DEF Moves
  <2>5. CASE pc[l] \in {"j_avail", "j_mode"} /\ rwRead' = rwRead - 1 /\ rwFspin' =
     Nobody
                /\ \E q \in {"idle", "q_mutex"} : Goto(l, q) /\ (q = "idle" => op[l]
                   \in TryOps)
    <3>1. PICK q \in {"idle", "q_mutex"} : Goto(l, q) /\ (q = "idle" => op[l] \in
       TryOps)
      BY <2>5
    <3>2. Disciplined(l, q) /\ Stays(l, q)
      BY <1>0, <1>3, <2>5, <3>1, <2>0 DEF JoinTest, Disciplined, Stays, CoreType, At,
         Goto, rwVars, callVars
    <3> QED BY <3>2 DEF Moves
  <2> QED BY <1>0, <1>3, <2>0, <2>1, <2>2, <2>3, <2>4, <2>5 DEF JoinTest, At, TryOps
<1>4. CASE JoinIn(l)
  <2>1. Disciplined(l, "hold") /\ Stays(l, "hold")
    BY <1>0, <1>4 DEF JoinIn, Disciplined, Stays, CoreType, At, Goto, Hold, rwVars,
       callVars
  <2> QED BY <2>1 DEF Moves
<1> QED BY <1>1, <1>2, <1>3, <1>4 DEF Joining

(* On the way to sleep.                                                    *)
LEMMA QueueingMoves ==
  ASSUME Inv, NEW l \in Lwps, Queueing(l)
  PROVE  Moves(l)
<1> USE DEF UnderFspin, Fresh, Shared, Busy, ReadersOnly, SawAlone, Locked, Looks,
     Acquired, LastTest, Releasing, Pcs, Acquiring, Released
<1>0. CoreType /\ pc[l] \in Pcs /\ Core /\ ReadersCounted /\ Nobody # l
  BY LwpAssumption DEF Inv, Core, CoreType, Ctxs
<1>1. CASE SlowMutex(l)
  <2>1. Disciplined(l, "q_fspin") /\ Stays(l, "q_fspin")
    BY <1>0, <1>1 DEF SlowMutex, Disciplined, Stays, CoreType, At, Goto, rwVars,
       callVars
  <2> QED BY <2>1 DEF Moves
<1>2. CASE QueueFspin(l)
  <2>1. Disciplined(l, "q_take") /\ Stays(l, "q_take")
    BY <1>0, <1>2 DEF QueueFspin, Disciplined, Stays, CoreType, At, Goto, FspinLock,
       FspinFree, rwVars, callVars
  <2> QED BY <2>1 DEF Moves
<1>3. CASE QueueTake(l)
  <2>1. CASE rwAvail /\ rwAvail' = FALSE /\ Reader(l)
    <3>1. Disciplined(l, "q_got") /\ Takes(l, "q_got")
      BY <1>0, <1>3, <2>1 DEF QueueTake, rwsleep_take, Disciplined, Takes, CoreType,
         At, Goto, rwVars, callVars
    <3> QED BY <3>1 DEF Moves
  <2>2. CASE rwAvail /\ rwAvail' = FALSE /\ ~Reader(l)
    <3>1. Disciplined(l, "got") /\ Takes(l, "got")
      BY <1>0, <1>3, <2>2 DEF QueueTake, Disciplined, Takes, CoreType, At, Goto,
         rwVars, callVars
    <3> QED BY <3>1 DEF Moves
  <2>3. CASE ~rwAvail /\ UNCHANGED rwAvail
    <3>1. PICK q \in {"q_mode", "q_enq"} : Goto(l, q) /\ (q = "q_mode" => Reader(l))
      BY <1>0, <1>3, <2>3 DEF QueueTake, rwsleep_take
    <3>2. Disciplined(l, q) /\ Stays(l, q)
      BY <1>0, <1>3, <2>3, <3>1 DEF QueueTake, rwsleep_take, Disciplined, Stays,
         CoreType, At, Goto, rwVars, callVars
    <3> QED BY <3>2 DEF Moves
  <2> QED BY <1>0, <1>3, <2>1, <2>2, <2>3 DEF QueueTake, rwsleep_take
<1>4. CASE QueueGot(l)
  <2>1. Reader(l)
    BY <1>0, <1>4 DEF QueueGot, CoreType, At
  <2>2. Disciplined(l, "hold") /\ Sets(l, "hold")
    BY <1>0, <1>4, <2>1 DEF QueueGot, Hold, Disciplined, Sets, CoreType, At, Goto,
       rwVars, callVars
  <2> QED BY <2>2 DEF Moves
<1>5. CASE QueueMode(l)
  <2>1. Reader(l)
    BY <1>0, <1>5 DEF QueueMode, CoreType, At
  <2>2. CASE rwMode = "RWS_READ"
    <3>1. Disciplined(l, "q_avail") /\ Stays(l, "q_avail")
      BY <1>0, <1>5, <2>2, <2>1 DEF QueueMode, Disciplined, Stays, CoreType, At, Goto,
         rwVars, callVars
    <3> QED BY <3>1 DEF Moves
  <2>3. CASE rwMode # "RWS_READ"
    <3>1. Disciplined(l, "q_enq") /\ Stays(l, "q_enq")
      BY <1>0, <1>5, <2>3, <2>1 DEF QueueMode, Disciplined, Stays, CoreType, At, Goto,
         rwVars, callVars
    <3> QED BY <3>1 DEF Moves
  <2> QED BY <2>2, <2>3
<1>6. CASE Enqueue(l)
  <2>1. Disciplined(l, "q_sleep") /\ Stays(l, "q_sleep")
    BY <1>0, <1>6 DEF Enqueue, Disciplined, Stays, CoreType, At, Goto, rwVars, callVars
  <2> QED BY <2>1 DEF Moves
<1> QED BY <1>1, <1>2, <1>3, <1>4, <1>5, <1>6 DEF Queueing

(* Asleep and back.                                                        *)
LEMMA SleepingMoves ==
  ASSUME Inv, NEW l \in Lwps, Sleeping(l)
  PROVE  Moves(l)
<1> USE DEF UnderFspin, Fresh, Shared, Busy, ReadersOnly, SawAlone, Locked, Looks,
     Acquired, LastTest, Releasing, Pcs, Acquiring, Released
<1>0. CoreType /\ pc[l] \in Pcs /\ Core /\ ReadersCounted /\ Nobody # l
  BY LwpAssumption DEF Inv, Core, CoreType, Ctxs
<1>1. CASE Sleep(l)
  <2>1. Disciplined(l, "q_asleep") /\ Stays(l, "q_asleep")
    BY <1>0, <1>1 DEF Sleep, Disciplined, Stays, CoreType, At, Goto, rwVars, callVars
  <2> QED BY <2>1 DEF Moves
<1>2. CASE WakeUp(l)
  <2>1. PICK q \in {"relk", "take"} :
           /\ Goto(l, q) /\ pc[l] \in {"q_asleep"}
           /\ UNCHANGED <<op, rwAvail, rwMode, rwFspin, rwRead>>
    BY <1>0, <1>2 DEF WakeUp, CoreType, At, rwVars, callVars
  <2>2. Disciplined(l, q) /\ Stays(l, q)
    BY <1>0, <2>1 DEF Disciplined, Stays, CoreType, At, Goto
  <2> QED BY <2>2 DEF Moves
<1>3. CASE RelockEntry(l)
  <2>1. Disciplined(l, "take") /\ Stays(l, "take")
    BY <1>0, <1>3 DEF RelockEntry, Disciplined, Stays, CoreType, At, Goto, rwVars,
       callVars
  <2> QED BY <2>1 DEF Moves
<1> QED BY <1>1, <1>2, <1>3 DEF Sleeping

(* Giving the lock back.                                                   *)
LEMMA UnlockingMoves ==
  ASSUME Inv, NEW l \in Lwps, Unlocking(l)
  PROVE  Moves(l)
<1> USE DEF UnderFspin, Fresh, Shared, Busy, ReadersOnly, SawAlone, Locked, Looks,
     Acquired, LastTest, Releasing, Pcs, Acquiring, Released
<1>0. CoreType /\ pc[l] \in Pcs /\ Core /\ ReadersCounted /\ Nobody # l
  BY LwpAssumption DEF Inv, Core, CoreType, Ctxs
<1>1. CASE Unlock(l)
  <2>1. CASE rwMode = "RWS_WRITE"
    <3>1. ~Reader(l) /\ \A m \in Lwps : HasLock(m) => m = l
      BY <1>0, <1>1, <2>1 DEF Unlock, Core, Modes, Company, HasLock, At
    <3>2. Disciplined(l, "l_fspin") /\ Gives(l, "l_fspin")
      BY <1>0, <1>1, <2>1, <3>1 DEF Unlock, Disciplined, Gives, CoreType, At, Goto,
         rwVars, callVars
    <3> QED BY <3>2 DEF Moves
  <2>2. CASE rwMode # "RWS_WRITE"
    <3>1. Reader(l)
      BY <1>0, <1>1, <2>2 DEF Unlock, Core, Modes, At
    <3>2. Disciplined(l, "u_fspin") /\ Stays(l, "u_fspin")
      BY <1>0, <1>1, <2>2, <3>1 DEF Unlock, Disciplined, Stays, CoreType, At, Goto,
         rwVars, callVars
    <3> QED BY <3>2 DEF Moves
  <2> QED BY <2>1, <2>2
<1>2. CASE LastReader(l)
  <2>0. pc[l] \in LastTest \ {"s_fspin", "s_held", "s_dec"} /\ Reader(l) /\ HasLock(l)
    BY <1>0, <1>2 DEF LastReader, CoreType, At, HasLock
  <2>1. CASE pc[l] # "u_mode" /\ ~AloneNow(l)
    <3>1. Goto(l, "s_fspin") /\ UNCHANGED <<op, rwAvail, rwMode, rwFspin, rwRead>>
      BY <1>0, <1>2, <2>0, <2>1 DEF LastReader, At, rwVars, callVars, AloneNow,
         FspinFree
    <3>2. Disciplined(l, "s_fspin") /\ Stays(l, "s_fspin")
      BY <1>0, <2>0, <2>1, <3>1 DEF Disciplined, Stays, CoreType, At, Goto
    <3> QED BY <3>2 DEF Moves
  <2>2. CASE At(l, "u_fspin") /\ AloneNow(l)
    <3>1. Disciplined(l, "u_read") /\ Stays(l, "u_read")
      BY <1>0, <1>2, <2>2, <2>0 DEF LastReader, Disciplined, Stays, CoreType, At,
         Goto, rwVars, callVars
    <3> QED BY <3>1 DEF Moves
  <2>3. CASE At(l, "v_fspin") /\ AloneNow(l)
    <3>1. Disciplined(l, "v_read") /\ Stays(l, "v_read")
      BY <1>0, <1>2, <2>3, <2>0 DEF LastReader, Disciplined, Stays, CoreType, At,
         Goto, rwVars, callVars
    <3> QED BY <3>1 DEF Moves
  <2>4. CASE pc[l] \in {"u_read", "v_read"} /\ AloneNow(l)
    <3>1. \A m \in Lwps : HasLock(m) => m = l
      BY <1>0, <1>2, <2>0, <2>4, CountTells DEF AloneNow, Readers, Core, Company,
         LastTest
    <3>2. PICK q \in {"u_mode", "v_mode"} : Goto(l, q)
      BY <1>0, <1>2, <2>4 DEF LastReader, At
    <3>3. Disciplined(l, q) /\ SeesItselfAlone(l, q)
      BY <1>0, <1>2, <2>0, <2>4, <3>1, <3>2 DEF LastReader, Disciplined,
         SeesItselfAlone, CoreType, At, Goto, rwVars, callVars
    <3> QED BY <3>3 DEF Moves
  <2>5. CASE At(l, "v_mode") /\ AloneNow(l)
    <3>1. rwMode = "RWS_UNLOCKED" /\ \A m \in Lwps : HasLock(m) => m = l
      BY <1>0, <1>2, <2>5 DEF AloneNow, Core, LastOne, At
    <3>2. Disciplined(l, "l_fspin") /\ Gives(l, "l_fspin")
      BY <1>0, <1>2, <2>0, <2>5, <3>1 DEF LastReader, Disciplined, Gives, CoreType,
         At, Goto, rwVars, callVars
    <3> QED BY <3>2 DEF Moves
  <2>6. CASE At(l, "u_mode")
    <3>1. Disciplined(l, "v_fspin") /\ MarksUnlocked(l, "v_fspin")
      BY <1>0, <1>2, <2>6, <2>0 DEF LastReader, Disciplined, MarksUnlocked, CoreType,
         At, Goto, rwVars, callVars
    <3> QED BY <3>1 DEF Moves
  <2> QED BY <2>0, <2>1, <2>2, <2>3, <2>4, <2>5, <2>6 DEF At
<1>3. CASE SharedFspin(l)
  <2>1. Reader(l)
    BY <1>0, <1>3 DEF SharedFspin, CoreType, At
  <2>2. Disciplined(l, "s_held") /\ Stays(l, "s_held")
    BY <1>0, <1>3, <2>1 DEF SharedFspin, FspinLock, FspinFree, Disciplined, Stays,
       CoreType, At, Goto, rwVars, callVars
  <2> QED BY <2>2 DEF Moves
<1>4. CASE SharedUnlock(l)
  <2>0. Reader(l) /\ HasLock(l) /\ pc[l] \in {"s_held", "s_dec"}
    BY <1>0, <1>4 DEF SharedUnlock, CoreType, At, HasLock
  <2>1. l \in Readers /\ Looking = {} /\ rwRead \in Nat
    BY <1>0, <1>4, <2>0, CountTells DEF Core, FspinHeld, Looking, Readers
  <2>2. CASE At(l, "s_held") /\ rwRead > 0
    <3>1. Disciplined(l, "s_dec") /\ PutsBack(l, "s_dec")
      BY <1>0, <1>4, <2>2, <2>0 DEF SharedUnlock, Disciplined, PutsBack, CoreType, At,
         Goto, rwVars, callVars
    <3> QED BY <3>1 DEF Moves
  <2>3. CASE At(l, "s_held") /\ rwRead = 0
    <3>1. \A m \in Lwps : HasLock(m) => m = l
      BY <1>0, <1>4, <2>0, <2>3, CountTells DEF Readers, Core, Company
    <3>2. Disciplined(l, "l_fspin") /\ Gives(l, "l_fspin")
      BY <1>0, <1>4, <2>0, <2>3, <3>1 DEF SharedUnlock, Disciplined, Gives, CoreType,
         At, Goto, rwVars, callVars
    <3> QED BY <3>2 DEF Moves
  <2>4. CASE At(l, "s_dec")
    <3>1. rwRead > 0 /\ \E m \in Lwps : m # l /\ HasLock(m)
      BY <1>0, <1>4, <2>1, <2>4, CountTells DEF Core, StillOthers, Readers
    <3>2. Disciplined(l, "idle") /\ Leaves(l, "idle")
      BY <1>0, <1>4, <2>0, <2>4, <3>1 DEF SharedUnlock, Disciplined, Leaves, CoreType,
         At, Goto, rwVars, callVars
    <3> QED BY <3>2 DEF Moves
  <2> QED BY <1>0, <1>4, <2>1, <2>2, <2>3, <2>4 DEF SharedUnlock, At
<1>5. CASE Release(l)
  <2>1. CASE pc[l] \in {"l_fspin", "l_list"}
    <3>1. PICK q \in {"d_fspin", "l_list", "l_avail"} : Goto(l, q)
      BY <1>0, <1>5, <2>1 DEF Release, At
    <3>2. Disciplined(l, q) /\ Stays(l, q)
      BY <1>0, <1>5, <2>1, <3>1 DEF Release, Disciplined, Stays, CoreType, At, Goto,
         rwVars, callVars
    <3> QED BY <3>2 DEF Moves
  <2>2. CASE At(l, "l_avail")
    <3>1. Disciplined(l, "m_fspin") /\ Marks(l, "m_fspin")
      BY <1>0, <1>5, <2>2 DEF Release, Disciplined, Marks, CoreType, At, Goto, rwVars,
         callVars
    <3> QED BY <3>1 DEF Moves
  <2> QED BY <1>0, <1>5, <2>1, <2>2 DEF Release
<1>6. CASE Recheck(l)
  <2>1. PICK q \in {"m_take", "m_list", "m_done"} :
           /\ Goto(l, q) /\ pc[l] \in {"m_fspin", "m_list"}
           /\ UNCHANGED <<op, rwAvail, rwMode, rwFspin, rwRead>>
    BY <1>0, <1>6 DEF Recheck, CoreType, At, rwVars, callVars
  <2>2. Disciplined(l, q) /\ Stays(l, q)
    BY <1>0, <2>1 DEF Disciplined, Stays, CoreType, At, Goto
  <2> QED BY <2>2 DEF Moves
<1>7. CASE Retake(l)
  <2>1. CASE rwAvail /\ rwAvail' = FALSE /\ Goto(l, "d_fspin")
    <3>1. Disciplined(l, "d_fspin") /\ Takes(l, "d_fspin")
      BY <1>0, <1>7, <2>1 DEF Retake, Disciplined, Takes, CoreType, At, Goto, rwVars,
         callVars
    <3> QED BY <3>1 DEF Moves
  <2>2. CASE ~rwAvail /\ UNCHANGED rwAvail /\ Goto(l, "m_done")
    <3>1. Disciplined(l, "m_done") /\ Stays(l, "m_done")
      BY <1>0, <1>7, <2>2 DEF Retake, Disciplined, Stays, CoreType, At, Goto, rwVars,
         callVars
    <3> QED BY <3>1 DEF Moves
  <2> QED BY <1>0, <1>7, <2>1, <2>2 DEF Retake, rwsleep_take
<1>8. CASE NotBusy(l)
  <2>1. PICK q \in {"d_wake", "idle"} : Goto(l, q)
    BY <1>0, <1>8 DEF NotBusy
  <2>2. Disciplined(l, q) /\ Unmarks(l, q)
    BY <1>0, <1>8, <2>1 DEF NotBusy, Disciplined, Unmarks, CoreType, At, Goto, rwVars,
       callVars
  <2> QED BY <2>2 DEF Moves
<1>9. CASE DequeueFspin(l)
  <2>1. Disciplined(l, "d_loop") /\ Stays(l, "d_loop")
    BY <1>0, <1>9 DEF DequeueFspin, Disciplined, Stays, CoreType, At, Goto, FspinLock,
       FspinFree, rwVars, callVars
  <2> QED BY <2>1 DEF Moves
<1>10. CASE DequeueNext(l)
  <2>1. PICK q \in {"d_rel", "d_type"} : Goto(l, q)
    BY <1>0, <1>10 DEF DequeueNext
  <2>2. Disciplined(l, q) /\ Stays(l, q)
    BY <1>0, <1>10, <2>1 DEF DequeueNext, Disciplined, Stays, CoreType, At, Goto,
       rwVars, callVars
  <2> QED BY <2>2 DEF Moves
<1>11. CASE DequeueType(l)
  <2>1. PICK q \in {"d_rel", "d_loop"} : Goto(l, q)
    BY <1>0, <1>11 DEF DequeueType
  <2>2. Disciplined(l, q) /\ Stays(l, q)
    BY <1>0, <1>11, <2>1 DEF DequeueType, Disciplined, Stays, CoreType, At, Goto,
       rwVars, callVars
  <2> QED BY <2>2 DEF Moves
<1>12. CASE DequeueRelease(l)
  <2>1. Disciplined(l, "d_done") /\ Marks(l, "d_done")
    BY <1>0, <1>12 DEF DequeueRelease, Disciplined, Marks, CoreType, At, Goto,
       MarkReleased, rwVars, callVars
  <2> QED BY <2>1 DEF Moves
<1>13. CASE WakeChain(l)
  <2>1. PICK q \in {"d_wake", "idle"} :
           /\ Goto(l, q) /\ pc[l] \in {"d_wake"}
           /\ UNCHANGED <<op, rwAvail, rwMode, rwFspin, rwRead>>
    BY <1>0, <1>13 DEF WakeChain, CoreType, At, rwVars, callVars
  <2>2. Disciplined(l, q) /\ Stays(l, q)
    BY <1>0, <2>1 DEF Disciplined, Stays, CoreType, At, Goto
  <2> QED BY <2>2 DEF Moves
<1> QED BY <1>1, <1>2, <1>3, <1>4, <1>5, <1>6, <1>7, <1>8, <1>9, <1>10, <1>11, <1>12,
   <1>13 DEF Unlocking

(* A call is a move of an LWP that has nothing.                            *)
LEMMA CallMoves ==
  ASSUME Inv, NEW l \in Lwps, Call(l)
  PROVE  Moves(l)
<1> USE DEF UnderFspin, Fresh, Shared, Busy, ReadersOnly, SawAlone, Locked, Looks,
     Acquired, LastTest, Releasing, Pcs, Acquiring, Released
<1>1. CoreType
  BY DEF Inv, Core
<1>2. PICK o \in RdOps \union WrOps :
        /\ op' = [op EXCEPT ![l] = o] /\ Goto(l, "take") /\ At(l, "idle")
        /\ UNCHANGED <<rwAvail, rwMode, rwFspin, rwRead>>
  BY RwAssumption DEF Call, rwVars
<1>3. Disciplined(l, "take")
  BY <1>1, <1>2, Zenon DEF Disciplined, CoreType, At
<1>4. Stays(l, "take")
  BY <1>1, <1>2 DEF Stays, CoreType, At
<1> QED BY <1>3, <1>4 DEF Moves

(* So every step of an LWP is a move.                                      *)
LEMMA StepMoves ==
  ASSUME Inv, NEW l \in Lwps, Step(l) \/ Call(l)
  PROVE  Moves(l)
BY TakingMoves, JoiningMoves, QueueingMoves, SleepingMoves, UnlockingMoves, CallMoves
DEF Step, Locking

(***************************************************************************)
(* The invariant.                                                          *)
(***************************************************************************)
(* A lock fresh from rwsleep_init.                                         *)
LEMMA InvInit == Init => Inv
<1> SUFFICES ASSUME Init PROVE Inv
  OBVIOUS
<1> USE DEF UnderFspin, Fresh, Shared, Busy, ReadersOnly, SawAlone, Acquired, LastTest,
     Releasing, Pcs
<1>1. \A l \in Lwps : pc[l] = "idle" /\ ~HasLock(l)
  BY DEF Init, HasLock
<1>2. CoreType
  BY <1>1 DEF Init, CoreType, RdOps
<1>3. FspinHeld /\ Company /\ Availability /\ LastOne /\ BusyOne /\ StillOthers
  BY <1>1 DEF Init, FspinHeld, Company, Availability, LastOne, BusyOne, StillOthers, At
<1>4. Modes
  BY <1>1 DEF Init, Modes
<1>5. Looking = {} /\ Readers = {}
  BY <1>1 DEF Looking, Readers
<1>6. ReadersCounted
  BY <1>5, FS_EmptySet DEF Init, ReadersCounted
<1> QED BY <1>2, <1>3, <1>4, <1>6 DEF Inv, Core

(* Nothing changes.                                                        *)
LEMMA InvStutter ==
  ASSUME Inv, UNCHANGED vars
  PROVE  Inv'
<1>1. UNCHANGED <<pc, op, rwAvail, rwMode, rwFspin, rwRead>>
  BY DEF vars, rwVars, callVars
<1>2. Core'
  BY <1>1 DEF Inv, Core, CoreType, FspinHeld, Company, Availability, LastOne, Modes,
     BusyOne, StillOthers, HasLock, Reader, At
<1>3. Looking' = Looking /\ Readers' = Readers
  BY <1>1 DEF Looking, Readers, HasLock, Reader
<1> QED BY <1>1, <1>2, <1>3 DEF Inv, ReadersCounted

(* Inv is inductive: it holds in every reachable state.                    *)
THEOREM RwInvariant == Spec => []Inv
<1>1. Inv /\ [Next]_vars => Inv'
  BY StepMoves, MovesKeep, InvStutter DEF Next, Quiet
<1> QED BY <1>1, InvInit, PTL DEF Spec

(***************************************************************************)
(* What it says.                                                           *)
(***************************************************************************)
(* The invariant excludes a writer and anybody else.                       *)
LEMMA ExclusionOfInv == Inv => RwExclusion
<1> SUFFICES ASSUME Inv PROVE RwExclusion
  OBVIOUS
<1>1. \A w \in Writers : Writers = {w} /\ Readers = {}
  BY DEF Inv, Core, Company, Writers, Readers
<1>2. ASSUME NEW w \in Writers PROVE Cardinality(Writers) = 1
  <2>1. Writers = {w}
    BY <1>1
  <2> QED BY <2>1, FS_Singleton
<1>3. rwAvail <=> Writers \union Readers = {}
  BY DEF Inv, Core, Availability, Writers, Readers
<1> QED BY <1>1, <1>2, <1>3 DEF RwExclusion

(* A writer has the lock to itself, and rw_avail says whether anybody has  *)
(* it, for any number of LWPs and calls.                                   *)
THEOREM ReadersAndWritersExclude == Spec => []RwExclusion
BY RwInvariant, ExclusionOfInv, PTL

(* rw_read counts the readers but one and those that look whether they may *)
(* join, so the reader that sees 0 is the last.                            *)
THEOREM ReadCountIsExact == Spec => []ReadersCounted
<1>1. Inv => ReadersCounted
  BY DEF Inv
<1> QED BY <1>1, RwInvariant, PTL

(* The ASSERTs about rw_mode on return from the lock calls never fail.     *)
THEOREM ModeIsTrue == Spec => []ModeOfHolders
<1>1. Inv => ModeOfHolders
  <2> SUFFICES ASSUME Inv, NEW l \in Lwps, At(l, "hold")
               PROVE  IF Reader(l) THEN rwMode \in {"RWS_READ", "RWS_UNLOCKED"}
                                   ELSE rwMode = "RWS_WRITE"
    BY DEF ModeOfHolders
  <2>1. pc[l] \in Shared
    BY DEF At, Shared
  <2> QED BY <2>1 DEF Inv, Core, Modes
<1> QED BY <1>1, RwInvariant, PTL

(***************************************************************************)
(* rw_pend.                                                                *)
(***************************************************************************)
(* The steps that change it.                                               *)
LEMMA PendSteps ==
  ASSUME Inv, NEW l \in Lwps, Step(l) \/ Call(l), rwPend' # rwPend
  PROVE  \/ Got(l) /\ ~Reader(l)
         \/ Settle(l) /\ At(l, "settling")
         \/ JoinIn(l) \/ QueueGot(l) \/ DequeueNext(l)
<1>1. CASE Call(l)
  BY <1>1 DEF Call, rwVars
<1>2. CASE Taking(l)
  <2>1. CASE Take(l)
    BY <2>1 DEF Take
  <2>2. CASE Got(l)
    <3>1. ~Reader(l)
      BY <2>2 DEF Got
    <3> QED BY <2>2, <3>1
  <2>3. CASE Settle(l)
    BY <2>3 DEF Settle, At
  <2> QED BY <1>2, <2>1, <2>2, <2>3 DEF Taking
<1>3. CASE Joining(l)
  BY <1>3 DEF Joining, RdMode, JoinCount, JoinTest, rwVars
<1>4. CASE Queueing(l)
  BY <1>4 DEF Queueing, SlowMutex, QueueFspin, QueueTake, QueueMode, Enqueue, rwVars
<1>5. CASE Sleeping(l)
  BY <1>5 DEF Sleeping, Sleep, WakeUp, RelockEntry, rwVars
<1>6. CASE Unlocking(l)
  BY <1>6 DEF Unlocking, Unlock, LastReader, SharedFspin, SharedUnlock, Release, Recheck,
     Retake, NotBusy, DequeueFspin, DequeueType, DequeueRelease, WakeChain, rwVars
<1> QED BY <1>1, <1>2, <1>3, <1>4, <1>5, <1>6 DEF Step, Locking

(* rw_pend is changed by a writer that has the lock alone, or by an LWP    *)
(* that has the lock and rw_fspin.                                         *)
THEOREM PendIsGuarded == Spec => PendRule
<1>1. Inv /\ [Next]_vars =>
        [rwPend' # rwPend => \E l \in Lwps : /\ pc[l] # pc'[l] /\ HasLock(l)
                                             /\ Writers = {l} \/ rwFspin = l]_vars
  <2> SUFFICES ASSUME Inv, [Next]_vars, rwPend' # rwPend
               PROVE  \E l \in Lwps : /\ pc[l] # pc'[l] /\ HasLock(l)
                                      /\ Writers = {l} \/ rwFspin = l
    OBVIOUS
  <2>1. ~UNCHANGED vars
    BY DEF vars, rwVars
  <2>2. PICK l \in Lwps : Step(l) \/ Call(l)
    BY <2>1 DEF Next, Quiet
  <2>3. CoreType /\ FspinHeld /\ Company
    BY DEF Inv, Core
  <2>4. CASE Got(l) /\ ~Reader(l)
    <3>1. pc[l] = "got" /\ pc'[l] = "hold"
      BY <2>3, <2>4 DEF Got, Hold, Goto, At, CoreType
    <3>2. HasLock(l)
      BY <3>1 DEF HasLock, Acquired
    <3>3. Writers = {l}
      BY <2>3, <2>4, <3>2 DEF Company, Writers
    <3> QED BY <3>1, <3>2, <3>3
  <2>5. CASE (Settle(l) /\ At(l, "settling")) \/ JoinIn(l) \/ QueueGot(l)
    <3>1. pc[l] \in {"settling", "j_in", "q_got"} /\ pc'[l] = "hold"
      BY <2>3, <2>5 DEF Settle, JoinIn, QueueGot, Hold, Goto, At, CoreType
    <3>2. HasLock(l) /\ rwFspin = l
      BY <2>3, <3>1 DEF HasLock, Acquired, FspinHeld, UnderFspin
    <3> QED BY <3>1, <3>2
  <2>6. CASE DequeueNext(l)
    <3>1. pc[l] = "d_loop" /\ pc'[l] \in {"d_rel", "d_type"}
      BY <2>3, <2>6 DEF DequeueNext, Goto, At, CoreType
    <3>2. HasLock(l) /\ rwFspin = l
      BY <2>3, <3>1 DEF HasLock, Releasing, FspinHeld, UnderFspin
    <3> QED BY <3>1, <3>2
  <2> QED BY <2>2, <2>4, <2>5, <2>6, PendSteps
<1> QED BY <1>1, RwInvariant, PTL DEF Spec, PendRule

(***************************************************************************)
(* Refinement.                                                             *)
(***************************************************************************)
AbsStep == [A!Next]_(A!vars)

(* What a move does to the state of the abstract lock.                     *)
LEMMA AbsSets ==
  ASSUME Inv, NEW l \in Lwps, NEW q, Disciplined(l, q)
  PROVE  /\ Writers' = IF q \in Locked /\ ~Reader(l) THEN Writers \union {l} ELSE Writers \ {l}
         /\ Waiters' = IF q \in Acquiring /\ op'[l] \notin TryOps THEN Waiters \union {l}
                                                                ELSE Waiters \ {l}
         /\ l \in Writers <=> pc[l] \in Locked /\ ~Reader(l)
         /\ l \in Waiters <=> pc[l] \in Acquiring /\ op[l] \notin TryOps
<1>1. Before(l, q) /\ (q \in Locked => op' = op)
      /\ (op' = op \/ \A m \in Lwps : m # l => op'[m] = op[m])
  BY Moving DEF Disciplined, Inv, Core, CoreType
<1>2. Writers = {m \in Lwps : pc[m] \in Locked /\ ~Reader(m)}
      /\ Writers' = {m \in Lwps : pc'[m] \in Locked /\ ~Reader(m)'}
  BY <1>1 DEF Writers, Before
<1>3. Writers' = IF q \in Locked /\ ~Reader(l) THEN Writers \union {l} ELSE Writers \ {l}
  <2>1. \A m \in Lwps : m # l => (m \in Writers' <=> m \in Writers)
    BY <1>1, <1>2 DEF Before
  <2>2. l \in Writers' <=> q \in Locked /\ ~Reader(l)
    BY <1>1, <1>2 DEF Before
  <2>3. Writers \subseteq Lwps /\ Writers' \subseteq Lwps
    BY <1>2
  <2> QED BY <2>1, <2>2, <2>3
<1>4. Waiters' = IF q \in Acquiring /\ op'[l] \notin TryOps THEN Waiters \union {l}
                                                          ELSE Waiters \ {l}
  BY <1>1 DEF Waiters, Before
<1> QED BY <1>2, <1>3, <1>4 DEF Waiters

(* Every move is a step of the abstract lock, or none.                     *)
LEMMA AbsMoves ==
  ASSUME Inv, NEW l \in Lwps, Moves(l)
  PROVE  AbsStep
<1> PICK q : /\ Disciplined(l, q)
             /\ \/ Stays(l, q) \/ Takes(l, q) \/ Sets(l, q) \/ Joins(l, q) \/ Gives(l, q)
                \/ SeesItselfAlone(l, q) \/ MarksUnlocked(l, q) \/ PutsBack(l, q)
                \/ Leaves(l, q) \/ Marks(l, q) \/ Unmarks(l, q)
  BY DEF Moves
<1>1. Core /\ Before(l, q) /\ l \in Ctxs
  BY Moving DEF Inv, Ctxs
<1>2. /\ Readers' = IF q \in Locked /\ Reader(l) THEN Readers \union {l} ELSE Readers \ {l}
      /\ l \in Readers <=> pc[l] \in Locked /\ Reader(l)
  BY <1>1, SetsMove
<1>3. CASE q \in Locked /\ pc[l] \in Locked
  <2>1. UNCHANGED <<Readers, Writers, Waiters>>
    BY <1>2, <1>3, AbsSets, Regions
  <2> QED BY <2>1 DEF AbsStep, A!vars
<1>4. CASE q \notin Locked /\ pc[l] \notin Locked
  <2>1. UNCHANGED <<Readers, Writers>>
    BY <1>2, <1>4, AbsSets
  <2>2. pc[l] \in Acquiring /\ q \notin Acquiring => op[l] \in TryOps
    BY <1>4, Regions DEF Stays, Takes, Sets, Joins, Gives, SeesItselfAlone,
       MarksUnlocked, PutsBack, Leaves, Marks, Unmarks
  <2>3. pc[l] \in Acquiring => op' = op
    BY DEF Disciplined
  <2>4. Waiters' = Waiters \/ Waiters' = Waiters \union {l}
    BY <2>2, <2>3, AbsSets
  <2>5. AbsStep \/ A!Request(l)
    BY <2>1, <2>4 DEF AbsStep, A!vars, A!Request
  <2> QED BY <1>1, <2>5 DEF AbsStep, A!Next
<1>5. CASE q \in Locked /\ pc[l] \notin Locked
  <2>1. q \notin Acquiring /\ Waiters' = Waiters \ {l}
    BY <1>5, AbsSets, Regions
  <2>2. CASE Takes(l, q)
    <3>1. Readers = {} /\ Writers = {}
      BY <2>2 DEF Inv, Core, Availability, Takes, Readers, Writers
    <3>2. CASE Reader(l)
      <4>1. A!EnterRead(l)
        BY <1>2, <1>5, <2>1, <3>1, <3>2, AbsSets DEF A!EnterRead
      <4> QED BY <1>1, <4>1 DEF AbsStep, A!Next
    <3>3. CASE ~Reader(l)
      <4>1. A!EnterWrite(l)
        BY <1>2, <1>5, <2>1, <3>1, <3>3, AbsSets DEF A!EnterWrite, A!Free
      <4> QED BY <1>1, <4>1 DEF AbsStep, A!Next
    <3> QED BY <3>2, <3>3
  <2>3. CASE Joins(l, q)
    <3>1. PICK s \in Lwps : pc[s] \in Shared /\ Reader(s)
      BY <1>1, <2>3 DEF Joins, Core, Modes
    <3>2. Writers = {}
      BY <1>1, <3>1, Regions DEF Core, Company, Writers, Before
    <3>3. A!EnterRead(l)
      BY <1>2, <1>5, <2>1, <2>3, <3>2, AbsSets DEF A!EnterRead, Joins
    <3> QED BY <1>1, <3>3 DEF AbsStep, A!Next
  <2> QED BY <1>5, <2>2, <2>3, Regions DEF Stays, Sets, Gives, SeesItselfAlone,
          MarksUnlocked, PutsBack, Leaves, Marks, Unmarks
<1>6. CASE q \notin Locked /\ pc[l] \in Locked
  <2>1. q \notin Acquiring
    BY <1>6, Regions DEF Stays, Takes, Sets, Joins, Gives, SeesItselfAlone,
       MarksUnlocked, PutsBack, Leaves, Marks, Unmarks
  <2>2. Waiters' = Waiters
    BY <1>6, <2>1, AbsSets, Regions
  <2>3. A!Leave(l)
    BY <1>2, <1>6, <2>2, AbsSets DEF A!Leave
  <2> QED BY <1>1, <2>3 DEF AbsStep, A!Next
<1> QED BY <1>3, <1>4, <1>5, <1>6

(* The reader-writer sleep lock is a reader-writer lock: many readers or   *)
(* one writer, and nobody gets in that did not ask or try.                 *)
THEOREM RwRefinement == Spec => A!Spec
<1>1. Init => A!Init
  <2> SUFFICES ASSUME Init PROVE A!Init
    OBVIOUS
  <2>1. Readers = {} /\ Writers = {} /\ Waiters = {}
    BY DEF Init, Readers, Writers, Waiters, HasLock, Acquiring, Acquired, LastTest, Releasing
  <2> QED BY <2>1 DEF A!Init
<1>2. Inv /\ [Next]_vars => AbsStep
  <2> SUFFICES ASSUME Inv, [Next]_vars PROVE AbsStep
    OBVIOUS
  <2>1. CASE UNCHANGED vars
    <3>1. UNCHANGED <<pc, op>>
      BY <2>1 DEF vars, callVars
    <3> QED BY <3>1 DEF AbsStep, A!vars, Readers, Writers, Waiters, HasLock, Reader
  <2>2. CASE Next
    BY <2>1, <2>2, StepMoves, AbsMoves DEF Next, Quiet
  <2> QED BY <2>1, <2>2
<1> QED BY <1>1, <1>2, RwInvariant, PTL DEF A!Spec, Spec, AbsStep
-----------------------------------------------------------------------------
(***************************************************************************)
(* Sleeping, waking, and what rw_pend counts.                              *)
(***************************************************************************)
ChainPcs == {"d_loop", "d_type", "d_rel", "d_done", "d_wake"}
MutexPcs == {"q_fspin", "q_take", "q_mode", "q_avail", "q_mode2", "q_enq", "q_sleep"}
SlowPcs == MutexPcs \union {"q_mutex", "q_got", "q_asleep", "relk"}
SleptPcs == Acquiring \union (Acquired \ {"hold"})
Sleepers == {l \in Lwps : At(l, "q_sleep") \/ lStat[l] = "SSLEEP"}

RwTypes ==
  /\ LwpTypeOK /\ rwMode \in {"RWS_READ", "RWS_WRITE", "RWS_UNLOCKED", "RWS_BUSY"}
  /\ lStype \in [Lwps -> {"ST_NONE", "ST_RDLOCK", "ST_WRLOCK"}]
  /\ lkp \in Lwps \union {Nobody} /\ ipl \in [Lwps -> {"PLBASE", "PLHI"}]
  /\ nsleeps \in [Lwps -> Nat] /\ swappedin \in [Lwps -> BOOLEAN] /\ calls \in Nat

(* A caller remembers its sleeps until it has the lock; one that only      *)
(* tries has none.                                                         *)
Slept == \A l \in Lwps : /\ nsleeps[l] # 0 => pc[l] \in SleptPcs
                         /\ At(l, "q_asleep") => nsleeps[l] >= 1
                         /\ op[l] \in TryOps => nsleeps[l] = 0 /\ pc[l] \notin SlowPcs

(* A sleeper is on the queue or on the chain of one unlocker, and holds    *)
(* its l_mutex until it sleeps.                                            *)
WakeInv ==
  /\ Keeps(rwList, chain, Lwps, Sleepers)
  /\ \A l \in Lwps : /\ chain[l] # <<>> => pc[l] \in ChainPcs
                     /\ pc[l] \in {"d_type", "d_wake"} => chain[l] # <<>>
                     /\ lStat[l] = "SONPROC" <=> ~At(l, "q_asleep")
                     /\ pc[l] \in MutexPcs => lMutex[l] = l

Accounted == rwPend = Cardinality(Units(Unsettled))
PendInv == RwTypes /\ Slept /\ WakeInv /\ Accounted

(* Nobody sleeps at first.                                                 *)
LEMMA PendInit == Init => PendInv
<1> SUFFICES ASSUME Init PROVE PendInv
  OBVIOUS
<1>1. /\ \A l \in Lwps : pc[l] = "idle" /\ nsleeps[l] = 0 /\ op[l] = "rdlock"
                         /\ lStat[l] = "SONPROC" /\ chain[l] = <<>>
      /\ rwPend = 0 /\ rwList = <<>> /\ chain = [l \in Lwps |-> <<>>]
  BY DEF Init, LwpInit
<1>2. RwTypes
  BY DEF Init, LwpInit, RwTypes, LwpTypeOK, Ctxs
<1>3. Slept
  BY <1>1 DEF Slept, At, TryOps
<1>4. Sleepers = {}
  BY <1>1 DEF Sleepers, At
<1>5. WakeInv
  BY <1>1, <1>4, KeepsNobody DEF WakeInv, ChainPcs, MutexPcs, At
<1>6. Unsettled \in [Lwps -> Nat] /\ \A l \in Lwps : Unsettled[l] = 0
  BY <1>1 DEF Unsettled, Acquiring, Acquired
<1>7. Accounted
  BY <1>1, <1>6, UnitsNone DEF Accounted
<1> QED BY <1>2, <1>3, <1>5, <1>7 DEF PendInv

(* Types.                                                                  *)
LEMMA TypesKept ==
  ASSUME CoreType, RwTypes, NEW l \in Lwps, Step(l) \/ Call(l)
  PROVE  RwTypes'
<1>0. \A p \in {"PLBASE", "PLHI"} :
        SetIpl(l, p) => ipl' \in [Lwps -> {"PLBASE", "PLHI"}]
  BY DEF SetIpl, RwTypes
<1>1. Hold(l) => /\ lkp' \in Lwps \union {Nobody} /\ ipl' \in [Lwps -> {"PLBASE", "PLHI"}]
                 /\ nsleeps' \in [Lwps -> Nat]
  BY DEF Hold, ReleaseEntryLock, SetIpl, RwTypes
<1>2. CASE Taking(l) \/ RdMode(l) \/ JoinCount(l) \/ JoinTest(l)
  <2>1. UNCHANGED <<lwpVars, lStype, swappedin, calls>>
    BY <1>2 DEF Taking, Take, Got, Settle, RdMode, JoinCount, JoinTest, callVars, deqVars
  <2>2. rwMode' \in {rwMode, "RWS_READ", "RWS_WRITE"}
    BY <1>2 DEF Taking, Take, Got, Settle, RdMode, JoinCount, JoinTest, rwVars
  <2>3. UNCHANGED <<lkp, ipl, nsleeps>> \/ Hold(l)
    BY <1>2 DEF Taking, Take, Got, Settle, RdMode, JoinCount, JoinTest, callVars, entryVars
  <2> QED BY <1>1, <2>1, <2>2, <2>3 DEF RwTypes, LwpTypeOK, lwpVars
<1>3. CASE JoinIn(l)
  <2>1. /\ UNCHANGED <<lStat, lFlag, trapevf, rwMode, lStype, swappedin, calls>> /\ Hold(l)
        /\ lMutex' = [lMutex EXCEPT ![l] = IF @ = l THEN Nobody ELSE @]
    BY <1>3 DEF JoinIn, deqVars
  <2> QED BY <1>1, <2>1 DEF RwTypes, LwpTypeOK
<1>4. CASE SlowMutex(l) \/ QueueFspin(l) \/ QueueTake(l) \/ QueueMode(l) \/ Enqueue(l)
  <2>1. UNCHANGED <<lStat, lFlag, trapevf, lStype, swappedin, calls, nsleeps, lkp, rwMode>>
    BY <1>4 DEF SlowMutex, QueueFspin, QueueTake, QueueMode, Enqueue, lwpVars, callVars,
      deqVars, entryVars, rwVars
  <2>2. ipl' \in [Lwps -> {"PLBASE", "PLHI"}]
    BY <1>0, <1>4 DEF SlowMutex, QueueFspin, QueueTake, QueueMode, Enqueue, entryVars, RwTypes
  <2>3. lMutex' \in [Lwps -> Ctxs \union {Nobody}]
    BY <1>4 DEF SlowMutex, QueueFspin, QueueTake, QueueMode, Enqueue, lwpVars, LockMutex,
      UnlockMutex, RwTypes, LwpTypeOK, Ctxs
  <2> QED BY <2>1, <2>2, <2>3 DEF RwTypes, LwpTypeOK
<1>5. CASE QueueGot(l)
  <2>1. /\ UNCHANGED <<lStat, lFlag, trapevf, lStype, swappedin, calls>> /\ Hold(l)
        /\ rwMode' = "RWS_READ" /\ UnlockMutex(l)
    BY <1>5 DEF QueueGot, deqVars
  <2> QED BY <1>1, <2>1 DEF RwTypes, LwpTypeOK, UnlockMutex
<1>6. CASE Sleep(l)
  <2>1. /\ UNCHANGED <<trapevf, swappedin, calls, ipl, rwMode>> /\ UnlockMutex(l)
        /\ lStype' = [lStype EXCEPT ![l] = IF Reader(l) THEN "ST_RDLOCK" ELSE "ST_WRLOCK"]
        /\ lStat' = [lStat EXCEPT ![l] = "SSLEEP"]
        /\ lFlag' = [lFlag EXCEPT ![l] = @ \union {"L_NWAKE"}]
        /\ nsleeps' = [nsleeps EXCEPT ![l] = @ + 1]
        /\ lkp' \in {lkp, Nobody}
    BY <1>6 DEF Sleep, Block, deqVars, rwVars, ReleaseEntryLock
  <2>2. lFlag' \in [Lwps -> SUBSET {"L_NWAKE", "L_SIGWOKE"}]
    BY <2>1 DEF RwTypes, LwpTypeOK
  <2>3. LwpTypeOK'
    BY <2>1, <2>2 DEF RwTypes, LwpTypeOK, UnlockMutex
  <2>4. lStype' \in [Lwps -> {"ST_NONE", "ST_RDLOCK", "ST_WRLOCK"}]
    BY <2>1 DEF RwTypes
  <2> QED BY <2>1, <2>3, <2>4 DEF RwTypes
<1>7. CASE WakeUp(l) \/ RelockEntry(l)
  <2>1. UNCHANGED <<lMutex, lFlag, trapevf, rwMode, swappedin, nsleeps, calls, lStype>>
    BY <1>7 DEF WakeUp, RelockEntry, Resume, rwVars, deqVars, callVars, lwpVars
  <2>2. lStat' \in {lStat, [lStat EXCEPT ![l] = "SONPROC"]} /\ lkp' \in {lkp, l}
    BY <1>7 DEF WakeUp, RelockEntry, Resume, lwpVars
  <2>3. ipl' \in [Lwps -> {"PLBASE", "PLHI"}]
    BY <1>0, <1>7 DEF WakeUp, RelockEntry
  <2> QED BY <2>1, <2>2, <2>3 DEF RwTypes, LwpTypeOK
<1>8. CASE Unlocking(l)
  <2>1. UNCHANGED <<nsleeps, calls, lkp, ipl>>
    BY <1>8 DEF Unlocking, Unlock, LastReader, SharedFspin, SharedUnlock, Release, Recheck,
      Retake, NotBusy, DequeueFspin, DequeueNext, DequeueType, DequeueRelease, WakeChain,
      callVars, entryVars
  <2>2. rwMode' \in {rwMode, "RWS_READ", "RWS_UNLOCKED", "RWS_BUSY"}
    BY <1>8 DEF Unlocking, Unlock, LastReader, SharedFspin, SharedUnlock, Release, Recheck,
      Retake, NotBusy, DequeueFspin, DequeueNext, DequeueType, DequeueRelease, MarkReleased,
      WakeChain, rwVars
  <2>3. swappedin' \in [Lwps -> BOOLEAN]
    BY <1>8 DEF Unlocking, Unlock, LastReader, SharedFspin, SharedUnlock, Release, Recheck,
      Retake, NotBusy, DequeueFspin, DequeueNext, DequeueType, DequeueRelease, WakeChain,
      deqVars, RwTypes
  <2>4. CASE ~WakeChain(l)
    <3>1. UNCHANGED <<lwpVars, lStype>>
      BY <1>8, <2>4 DEF Unlocking, Unlock, LastReader, SharedFspin, SharedUnlock, Release,
        Recheck, Retake, NotBusy, DequeueFspin, DequeueNext, DequeueType, DequeueRelease
    <3> QED BY <2>1, <2>2, <2>3, <3>1 DEF RwTypes, LwpTypeOK, lwpVars
  <2>5. CASE WakeChain(l)
    <3> DEFINE w == Head(chain[l])
    <3>1. /\ lStype' = [lStype EXCEPT ![w] = "ST_NONE"] /\ UNCHANGED <<lMutex, trapevf>>
          /\ lStat' = [lStat EXCEPT ![w] = "SRUN"]
          /\ lFlag' = [lFlag EXCEPT ![w] = @ \ {"L_SIGWOKE"}]
      BY <2>5 DEF WakeChain, Wakeup
    <3> HIDE DEF w
    <3>2. lFlag' \in [Lwps -> SUBSET {"L_NWAKE", "L_SIGWOKE"}]
      BY <3>1 DEF RwTypes, LwpTypeOK
    <3>3. /\ lStat' \in [Lwps -> {"SONPROC", "SSLEEP", "SRUN"}]
          /\ lStype' \in [Lwps -> {"ST_NONE", "ST_RDLOCK", "ST_WRLOCK"}]
      BY <3>1 DEF RwTypes, LwpTypeOK
    <3> QED BY <2>1, <2>2, <2>3, <3>1, <3>2, <3>3 DEF RwTypes, LwpTypeOK
  <2> QED BY <2>4, <2>5
<1>9. CASE Call(l)
  <2>1. UNCHANGED <<lwpVars, rwMode, swappedin, nsleeps, lStype>> /\ calls' = calls + 1
    BY <1>9 DEF Call, rwVars, deqVars
  <2>2. ipl' \in [Lwps -> {"PLBASE", "PLHI"}] /\ lkp' \in {lkp, l}
    BY <1>0, <1>9 DEF Call, entryVars, RwTypes
  <2> QED BY <2>1, <2>2 DEF RwTypes, LwpTypeOK, lwpVars
<1> QED BY <1>2, <1>3, <1>4, <1>5, <1>6, <1>7, <1>8, <1>9
    DEF Step, Locking, Joining, Queueing, Sleeping

(* What a caller remembers of its sleeps.                                  *)
LEMMA SleptKept ==
  ASSUME CoreType, RwTypes, RwTypes', Slept, NEW l \in Lwps, Step(l) \/ Call(l)
  PROVE  Slept'
<1>1. \A p : Goto(l, p) => \A k \in Lwps : pc'[k] = IF k = l THEN p ELSE pc[k]
  BY DEF Goto, CoreType
<1>2. ASSUME UNCHANGED <<op, nsleeps>>,
             NEW p, Goto(l, p), p # "q_asleep",
             pc[l] \in SleptPcs /\ nsleeps[l] # 0 => p \in SleptPcs,
             op[l] \in TryOps => p \notin SlowPcs
      PROVE  Slept'
  BY <1>1, <1>2 DEF Slept, At
<1>3. ASSUME UNCHANGED op, Hold(l) PROVE Slept'
  <2>1. nsleeps' = [nsleeps EXCEPT ![l] = 0] /\ Goto(l, "hold") /\ "hold" \notin SlowPcs
    BY <1>3 DEF Hold, SlowPcs, MutexPcs
  <2>2. \A k \in Lwps : nsleeps'[k] = IF k = l THEN 0 ELSE nsleeps[k]
    BY <2>1 DEF RwTypes
  <2> QED BY <1>1, <1>3, <2>1, <2>2 DEF Slept, At
<1>4. CASE Take(l) \/ RdMode(l) \/ JoinTest(l)
  <2>1. UNCHANGED <<op, nsleeps>>
    BY <1>4 DEF Take, RdMode, JoinTest, callVars
  <2>2. PICK p \in {"got", "rd_mode", "idle", "q_mutex", "j_fspin", "j_mode", "q_mode2",
                    "j_in", "q_enq"} :
          Goto(l, p) /\ (p = "idle" => op[l] \in TryOps)
                     /\ (p \in {"q_enq", "q_mode2"} => pc[l] \in SlowPcs)
                     /\ (p = "q_mutex" => op[l] \notin TryOps)
    <3>1. CASE Take(l)
      <4>1. Reader(l) <=> op[l] \in RdOps
        BY DEF Reader
      <4>2. op[l] \in RdOps \union WrOps
        BY DEF CoreType
      <4> QED BY <3>1, <4>1, <4>2 DEF Take, TryOps, RdOps, WrOps
    <3>2. CASE RdMode(l)
      <4>1. At(l, "rd_mode") /\ op[l] \in RdOps
        BY <3>2 DEF RdMode, At, CoreType, ReadersOnly, Reader
      <4> QED BY <3>2, <4>1 DEF RdMode, TryOps, RdOps
    <3>3. CASE JoinTest(l)
      <4>1. op[l] \in RdOps
        BY <3>3 DEF JoinTest, CoreType, ReadersOnly, Reader
      <4>2. {"q_avail", "q_mode2"} \subseteq SlowPcs
        BY DEF SlowPcs, MutexPcs
      <4> QED BY <3>3, <4>1, <4>2 DEF JoinTest, TryOps, RdOps, At
    <3> QED BY <1>4, <3>1, <3>2, <3>3
  <2>3. p # "q_asleep" /\ (pc[l] \in SleptPcs /\ nsleeps[l] # 0 => p \in SleptPcs)
    <3>1. p # "idle" => p \in SleptPcs
      BY DEF SleptPcs, Acquiring, Acquired
    <3> QED BY <2>2, <3>1 DEF Slept
  <2>4. op[l] \in TryOps => p \notin SlowPcs
    <3>1. p \in SlowPcs => p \in {"q_enq", "q_mode2", "q_mutex"}
      BY DEF SlowPcs, MutexPcs
    <3> QED BY <2>2, <3>1 DEF Slept
  <2> QED BY <1>2, <2>1, <2>2, <2>3, <2>4
<1>5. CASE Got(l) \/ Settle(l) \/ JoinCount(l) \/ JoinIn(l) \/ QueueGot(l)
  <2>1. UNCHANGED op
    BY <1>5 DEF Got, Settle, JoinCount, JoinIn, QueueGot, callVars
  <2>2. Hold(l) \/ (UNCHANGED nsleeps /\ \E p \in {"settle", "settling", "j_avail"} : Goto(l, p))
    BY <1>5 DEF Got, Settle, JoinCount, JoinIn, QueueGot, callVars
  <2>3. {"settle", "settling", "j_avail"} \subseteq SleptPcs
        /\ {"settle", "settling", "j_avail"} \cap SlowPcs = {}
    BY DEF SleptPcs, Acquiring, Acquired, SlowPcs, MutexPcs
  <2> QED BY <1>2, <1>3, <2>1, <2>2, <2>3
<1>6. CASE SlowMutex(l) \/ QueueFspin(l) \/ QueueTake(l) \/ QueueMode(l) \/ Enqueue(l)
           \/ RelockEntry(l)
  <2>1. UNCHANGED <<op, nsleeps>>
    BY <1>6 DEF SlowMutex, QueueFspin, QueueTake, QueueMode, Enqueue, RelockEntry, callVars
  <2>2. PICK p \in {"q_fspin", "q_take", "q_got", "got", "q_mode", "q_enq", "q_avail",
                    "q_sleep", "take"} : Goto(l, p)
    BY <1>6 DEF SlowMutex, QueueFspin, QueueTake, QueueMode, Enqueue, RelockEntry
  <2>3. p # "q_asleep" /\ p \in SleptPcs
    BY DEF SleptPcs, Acquiring, Acquired
  <2>4. pc[l] \in SlowPcs
    BY <1>6 DEF SlowMutex, QueueFspin, QueueTake, QueueMode, Enqueue, RelockEntry, At, SlowPcs,
      MutexPcs
  <2> QED BY <1>2, <2>1, <2>2, <2>3, <2>4 DEF Slept
<1>7. CASE Sleep(l)
  <2>1. /\ At(l, "q_sleep") /\ nsleeps' = [nsleeps EXCEPT ![l] = @ + 1]
        /\ Goto(l, "q_asleep") /\ UNCHANGED op
    BY <1>7 DEF Sleep
  <2>2. \A k \in Lwps : nsleeps'[k] = IF k = l THEN nsleeps[k] + 1 ELSE nsleeps[k]
    BY <2>1 DEF RwTypes
  <2>3. "q_asleep" \in SleptPcs /\ "q_sleep" \in SlowPcs /\ nsleeps[l] \in Nat
    BY DEF SleptPcs, Acquiring, SlowPcs, MutexPcs, RwTypes
  <2>4. op[l] \notin TryOps
    BY <2>1, <2>3 DEF Slept, At
  <2>5. nsleeps'[l] >= 1
    BY <2>2, <2>3
  <2> QED BY <1>1, <2>1, <2>2, <2>3, <2>4, <2>5 DEF Slept, At
<1>8. CASE WakeUp(l)
  <2>1. UNCHANGED <<op, nsleeps>> /\ At(l, "q_asleep") /\ \E p \in {"relk", "take"} : Goto(l, p)
    BY <1>8 DEF WakeUp, callVars
  <2>2. {"relk", "take"} \subseteq SleptPcs /\ "q_asleep" \in SlowPcs
    BY DEF SleptPcs, Acquiring, SlowPcs
  <2> QED BY <1>2, <2>1, <2>2 DEF Slept, At
<1>9. CASE Unlocking(l)
  <2>1. UNCHANGED <<op, nsleeps>>
    BY <1>9 DEF Unlocking, Unlock, LastReader, SharedFspin, SharedUnlock, Release, Recheck,
      Retake, NotBusy, DequeueFspin, DequeueNext, DequeueType, DequeueRelease, WakeChain,
      callVars
  <2>2. pc[l] \notin SleptPcs
    BY <1>9 DEF Unlocking, Unlock, LastReader, SharedFspin, SharedUnlock, Release, Recheck,
      Retake, NotBusy, DequeueFspin, DequeueNext, DequeueType, DequeueRelease, WakeChain,
      SleptPcs, Acquiring, Acquired, At
  <2>3. PICK p \in {"idle"} \union LastTest \union Releasing \union Released : Goto(l, p)
    BY <1>9 DEF Unlocking, Unlock, LastReader, SharedFspin, SharedUnlock, Release, Recheck,
      Retake, NotBusy, DequeueFspin, DequeueNext, DequeueType, DequeueRelease, WakeChain,
      LastTest, Releasing, Released, AloneNow, At
  <2>4. p # "q_asleep" /\ p \notin SlowPcs
    BY DEF LastTest, Releasing, Released, SlowPcs, MutexPcs
  <2> QED BY <1>2, <2>1, <2>2, <2>3, <2>4
<1>10. CASE Call(l)
  <2>1. PICK o \in Ops : op' = [op EXCEPT ![l] = o]
    BY <1>10 DEF Call
  <2>2. At(l, "idle") /\ UNCHANGED nsleeps /\ Goto(l, "take") /\ "take" \notin SlowPcs
        /\ "take" \in SleptPcs /\ "idle" \notin SleptPcs
    BY <1>10 DEF Call, SlowPcs, MutexPcs, SleptPcs, Acquiring, Acquired
  <2>3. nsleeps[l] = 0 /\ \A k \in Lwps : k # l => op'[k] = op[k]
    BY <2>1, <2>2 DEF Slept, At, CoreType
  <2> QED BY <1>1, <2>2, <2>3 DEF Slept, At
<1> QED BY <1>4, <1>5, <1>6, <1>7, <1>8, <1>9, <1>10
    DEF Step, Locking, Taking, Joining, Queueing, Sleeping
(* Who wakes a sleeper.  Most steps change neither the queue nor a chain.  *)
LEMMA WakeFrame ==
  ASSUME CoreType, RwTypes, WakeInv, NEW l \in Lwps, NEW p, Goto(l, p),
         p \notin {"q_sleep", "q_asleep", "d_type", "d_wake"} \/ (p = "d_wake" /\ chain[l] # <<>>),
         pc[l] \notin {"q_sleep", "q_asleep"},
         chain[l] # <<>> => p \in ChainPcs,
         p \in MutexPcs => lMutex'[l] = l,
         \A k \in Lwps : k # l => lMutex'[k] = lMutex[k],
         UNCHANGED <<lStat, rwList, chain>>
  PROVE  WakeInv'
<1>1. \A k \in Lwps : pc'[k] = IF k = l THEN p ELSE pc[k]
  BY DEF Goto, CoreType
<1>2. Sleepers' = Sleepers
  BY <1>1 DEF Sleepers, At
<1>3. Keeps(rwList', chain', Lwps, Sleepers')
  BY <1>2 DEF WakeInv
<1> QED BY <1>1, <1>3 DEF WakeInv, At

LEMMA WakeKept ==
  ASSUME CoreType, RwTypes, WakeInv, NEW l \in Lwps, Step(l) \/ Call(l)
  PROVE  WakeInv'
<1>1. \A p : Goto(l, p) => \A k \in Lwps : pc'[k] = IF k = l THEN p ELSE pc[k]
  BY DEF Goto, CoreType
<1>2. \A m : lMutex' = [lMutex EXCEPT ![l] = m] =>
        lMutex'[l] = m /\ \A k \in Lwps : k # l => lMutex'[k] = lMutex[k]
  BY DEF RwTypes, LwpTypeOK
<1>3. pc[l] \notin ChainPcs => chain[l] = <<>>
  BY DEF WakeInv
<1>4. CASE \/ Taking(l) \/ RdMode(l) \/ JoinCount(l) \/ JoinTest(l) \/ JoinIn(l) \/ SlowMutex(l)
           \/ QueueFspin(l) \/ QueueTake(l) \/ QueueGot(l) \/ QueueMode(l) \/ RelockEntry(l)
           \/ Call(l)
  <2>1. UNCHANGED <<lStat, rwList, chain>>
    BY <1>4 DEF Taking, Take, Got, Settle, RdMode, JoinCount, JoinTest, JoinIn, SlowMutex,
      QueueFspin, QueueTake, QueueGot, QueueMode, RelockEntry, Call, lwpVars, rwVars, deqVars
  <2>2. pc[l] \notin {"q_sleep", "q_asleep"} \union ChainPcs
    BY <1>4 DEF Taking, Take, Got, Settle, RdMode, JoinCount, JoinTest, JoinIn, SlowMutex,
      QueueFspin, QueueTake, QueueGot, QueueMode, RelockEntry, Call, At, ChainPcs
  <2>3. PICK p : /\ Goto(l, p) /\ p \notin {"q_sleep", "q_asleep", "d_type", "d_wake"}
                 /\ p \in MutexPcs => pc[l] \in MutexPcs \/ SlowMutex(l) \/ p = "q_fspin"
    <3>1. CASE Taking(l) \/ RdMode(l) \/ JoinCount(l) \/ JoinIn(l) \/ QueueGot(l)
               \/ RelockEntry(l) \/ Call(l)
      <4>1. \E p \in {"got", "rd_mode", "idle", "q_mutex", "settle", "hold", "settling",
                      "j_fspin", "j_avail", "take"} : Goto(l, p)
        BY <3>1 DEF Taking, Take, Got, Settle, RdMode, JoinCount, JoinIn, QueueGot, RelockEntry,
          Call, Hold
      <4> QED BY <4>1 DEF MutexPcs
    <3>2. CASE JoinTest(l)
      <4>1. \/ \E p \in {"j_mode", "j_in", "q_mutex", "idle"} : Goto(l, p)
            \/ pc[l] \in {"q_avail", "q_mode2"} /\ \E p \in {"q_mode2", "q_enq"} : Goto(l, p)
        BY <3>2 DEF JoinTest, At
      <4> QED BY <4>1 DEF MutexPcs
    <3>3. CASE SlowMutex(l) \/ QueueFspin(l) \/ QueueTake(l) \/ QueueMode(l)
      <4>1. /\ \E p \in {"q_fspin", "q_take", "q_got", "got", "q_mode", "q_enq", "q_avail"} :
                 Goto(l, p)
            /\ SlowMutex(l) \/ pc[l] \in MutexPcs
        BY <3>3 DEF SlowMutex, QueueFspin, QueueTake, QueueMode, At, MutexPcs
      <4> QED BY <4>1
    <3> QED BY <1>4, <3>1, <3>2, <3>3
  <2>4. /\ \A k \in Lwps : k # l => lMutex'[k] = lMutex[k]
        /\ p \in MutexPcs => lMutex'[l] = l
    <3>1. CASE SlowMutex(l)
      BY <1>2, <3>1 DEF SlowMutex, LockMutex
    <3>2. CASE JoinIn(l) \/ QueueGot(l) \/ (QueueTake(l) /\ UnlockMutex(l))
      <4>1. \E m : lMutex' = [lMutex EXCEPT ![l] = m]
        BY <3>2 DEF JoinIn, QueueGot, UnlockMutex
      <4>2. Goto(l, "hold") \/ Goto(l, "got") \/ UNCHANGED lMutex
        BY <3>2 DEF JoinIn, QueueGot, QueueTake, Hold
      <4>3. pc[l] \in MutexPcs /\ UNCHANGED lMutex => lMutex'[l] = l
        BY DEF WakeInv
      <4>4. CASE UNCHANGED lMutex
        <5>1. QueueTake(l) => pc[l] \in MutexPcs
          BY DEF QueueTake, At, MutexPcs
        <5>2. JoinIn(l) \/ QueueGot(l) => Goto(l, "hold")
          BY DEF JoinIn, QueueGot, Hold
        <5>3. Goto(l, "hold") => p \notin MutexPcs
          BY <1>1, <2>3 DEF MutexPcs
        <5> QED BY <3>2, <4>3, <4>4, <5>1, <5>2, <5>3
      <4>5. CASE ~UNCHANGED lMutex
        <5>1. p \notin MutexPcs
          BY <1>1, <2>3, <4>2, <4>5 DEF MutexPcs
        <5> QED BY <1>2, <4>1, <5>1
      <4> QED BY <4>4, <4>5
    <3>3. CASE ~SlowMutex(l) /\ UNCHANGED lMutex
      <4>1. p \in MutexPcs => pc[l] \in MutexPcs
        <5>1. p = "q_fspin" => SlowMutex(l)
          BY <1>1, <1>4, <2>3 DEF Taking, Take, Got, Settle, RdMode, JoinCount, JoinTest, JoinIn,
            QueueFspin, QueueTake, QueueGot, QueueMode, RelockEntry, Call, Hold, At
        <5> QED BY <2>3, <3>3, <5>1
      <4> QED BY <3>3, <4>1 DEF WakeInv
    <3>4. SlowMutex(l) \/ JoinIn(l) \/ QueueGot(l) \/ (QueueTake(l) /\ UnlockMutex(l))
          \/ UNCHANGED lMutex
      BY <1>4 DEF Taking, Take, Got, Settle, RdMode, JoinCount, JoinTest, QueueFspin, QueueTake,
        QueueMode, RelockEntry, Call, lwpVars
    <3> QED BY <3>1, <3>2, <3>3, <3>4
  <2> QED BY <1>3, <2>1, <2>2, <2>3, <2>4, WakeFrame
<1>5. CASE Enqueue(l)
  <2>1. /\ At(l, "q_enq") /\ Goto(l, "q_sleep") /\ UNCHANGED <<lStat, lMutex, chain>>
        /\ rwList' \in {Append(rwList, l), <<l>> \o rwList}
    BY <1>5 DEF Enqueue, lwpVars, deqVars
  <2>2. l \notin Sleepers /\ lMutex[l] = l /\ lStat[l] = "SONPROC"
    BY <2>1 DEF WakeInv, Sleepers, At, MutexPcs
  <2>3. Keeps(rwList', chain, Lwps, Sleepers \union {l})
    <3>1. Keeps(rwList, chain, Lwps, Sleepers)
      BY DEF WakeInv
    <3>2. CASE rwList' = Append(rwList, l)
      BY <2>2, <3>1, <3>2, KeepsQueued
    <3>3. CASE rwList' = <<l>> \o rwList
      BY <2>2, <3>1, <3>3, KeepsQueued
    <3> QED BY <2>1, <3>2, <3>3
  <2>4. Sleepers' = Sleepers \union {l}
    BY <1>1, <2>1 DEF Sleepers, At
  <2>5. chain[l] = <<>>
    BY <1>3, <2>1 DEF At, ChainPcs
  <2> QED BY <1>1, <2>1, <2>2, <2>3, <2>4, <2>5 DEF WakeInv, At
<1>6. CASE Sleep(l)
  <2>1. /\ At(l, "q_sleep") /\ Goto(l, "q_asleep") /\ UNCHANGED <<rwList, chain>>
        /\ lStat' = [lStat EXCEPT ![l] = "SSLEEP"]
        /\ lMutex' = [lMutex EXCEPT ![l] = Nobody]
    BY <1>6 DEF Sleep, Block, UnlockMutex, rwVars, deqVars
  <2>2. \A k \in Lwps : lStat'[k] = IF k = l THEN "SSLEEP" ELSE lStat[k]
    BY <2>1 DEF RwTypes, LwpTypeOK
  <2>3. Sleepers' = Sleepers
    BY <1>1, <2>1, <2>2 DEF Sleepers, At
  <2>4. chain[l] = <<>> /\ "q_asleep" \notin MutexPcs
    BY <1>3, <2>1 DEF At, ChainPcs, MutexPcs
  <2> QED BY <1>1, <1>2, <2>1, <2>2, <2>3, <2>4 DEF WakeInv, At
<1>7. CASE WakeUp(l)
  <2>1. /\ At(l, "q_asleep") /\ UNCHANGED <<rwList, chain, lMutex>> /\ lStat[l] = "SRUN"
        /\ lStat' = [lStat EXCEPT ![l] = "SONPROC"]
    BY <1>7 DEF WakeUp, Resume, rwVars, deqVars
  <2>2. PICK p \in {"relk", "take"} : Goto(l, p)
    BY <1>7 DEF WakeUp
  <2>3. \A k \in Lwps : lStat'[k] = IF k = l THEN "SONPROC" ELSE lStat[k]
    BY <2>1 DEF RwTypes, LwpTypeOK
  <2>4. Sleepers' = Sleepers
    BY <1>1, <2>1, <2>2, <2>3 DEF Sleepers, At
  <2>5. chain[l] = <<>> /\ p \notin MutexPcs
    BY <1>3, <2>1, <2>2 DEF At, ChainPcs, MutexPcs
  <2> QED BY <1>1, <2>1, <2>2, <2>3, <2>4, <2>5 DEF WakeInv, At
<1>8. CASE Unlocking(l) /\ ~DequeueNext(l) /\ ~WakeChain(l)
  <2>1. UNCHANGED <<lStat, lMutex, rwList, chain>>
    BY <1>8 DEF Unlocking, Unlock, LastReader, SharedFspin, SharedUnlock, Release, Recheck,
      Retake, NotBusy, DequeueFspin, DequeueType, DequeueRelease, lwpVars, rwVars, deqVars
  <2>2. pc[l] \notin {"q_sleep", "q_asleep"}
    BY <1>8 DEF Unlocking, Unlock, LastReader, SharedFspin, SharedUnlock, Release, Recheck,
      Retake, NotBusy, DequeueFspin, DequeueType, DequeueRelease, At
  <2>3. CASE pc[l] \in ChainPcs
    <3>1. PICK p \in {"d_loop", "d_rel", "d_done", "d_wake", "idle"} :
            Goto(l, p) /\ (p = "d_wake" => chain[l] # <<>>) /\ (p = "idle" => chain[l] = <<>>)
      BY <1>8, <2>3 DEF Unlocking, Unlock, LastReader, SharedFspin, SharedUnlock, Release,
        Recheck, Retake, NotBusy, DequeueFspin, DequeueType, DequeueRelease, At, ChainPcs
    <3>2. p \notin MutexPcs /\ (p # "idle" => p \in ChainPcs)
      BY DEF MutexPcs, ChainPcs
    <3> QED BY <2>1, <2>2, <3>1, <3>2, WakeFrame
  <2>4. CASE pc[l] \notin ChainPcs
    <3>1. PICK p \in ({"idle"} \union LastTest \union Releasing \union Released)
                        \ {"d_type", "d_wake"} : Goto(l, p)
      BY <1>8, <2>4 DEF Unlocking, Unlock, LastReader, SharedFspin, SharedUnlock, Release,
        Recheck, Retake, NotBusy, DequeueFspin, DequeueType, DequeueRelease, At, ChainPcs,
        LastTest, Releasing, Released, AloneNow
    <3>2. p \notin MutexPcs \union {"q_sleep", "q_asleep"}
      BY DEF MutexPcs, LastTest, Releasing, Released
    <3> QED BY <1>3, <2>1, <2>2, <2>4, <3>1, <3>2, WakeFrame
  <2> QED BY <2>3, <2>4
<1>9. CASE DequeueNext(l)
  <2>1. At(l, "d_loop") /\ UNCHANGED <<lStat, lMutex>>
    BY <1>9 DEF DequeueNext, lwpVars
  <2>2. CASE Goto(l, "d_rel") /\ UNCHANGED <<rwList, chain>>
    <3>1. "d_rel" \in ChainPcs /\ "d_rel" \notin MutexPcs
      BY DEF ChainPcs, MutexPcs
    <3> QED BY <2>1, <2>2, <3>1, WakeFrame DEF At
  <2>3. CASE ~(Goto(l, "d_rel") /\ UNCHANGED <<rwList, chain>>)
    <3>1. /\ rwList # <<>> /\ rwList' = Tail(rwList) /\ Goto(l, "d_type")
          /\ chain' = [chain EXCEPT ![l] = <<Head(rwList)>> \o chain[l]]
      BY <1>9, <2>3 DEF DequeueNext
    <3>2. /\ Keeps(rwList', chain', Lwps, Sleepers)
          /\ <<Head(rwList)>> \o chain[l] # <<>>
      <4>1. Keeps(rwList, chain, Lwps, Sleepers) /\ rwList # <<>>
        BY <3>1 DEF WakeInv
      <4>2. /\ <<Head(rwList)>> \o chain[l] # <<>>
            /\ Keeps(Tail(rwList), [chain EXCEPT ![l] = <<Head(rwList)>> \o chain[l]], Lwps,
                     Sleepers)
        BY <4>1, KeepsTaken
      <4> QED BY <3>1, <4>2
    <3>3. Sleepers' = Sleepers
      BY <1>1, <2>1, <3>1 DEF Sleepers, At
    <3>4. chain'[l] # <<>> /\ \A k \in Lwps : k # l => chain'[k] = chain[k]
      BY <3>1, <3>2 DEF WakeInv, Keeps
    <3>5. "d_type" \in ChainPcs /\ "d_type" \notin MutexPcs
      BY DEF ChainPcs, MutexPcs
    <3> QED BY <1>1, <2>1, <3>1, <3>2, <3>3, <3>4, <3>5 DEF WakeInv, At
  <2> QED BY <2>2, <2>3
<1>10. CASE WakeChain(l)
  <2> DEFINE w == Head(chain[l])
  <2>1. /\ At(l, "d_wake") /\ UNCHANGED <<lMutex, rwList>> /\ lMutex[w] = Nobody
        /\ lStat' = [lStat EXCEPT ![w] = "SRUN"]
        /\ chain' = [chain EXCEPT ![l] = Tail(chain[l])]
        /\ Goto(l, IF Tail(chain[l]) = <<>> THEN "idle" ELSE "d_wake")
    BY <1>10 DEF WakeChain, Wakeup, MutexFree, RestOfChain, rwVars
  <2>2. /\ w \in Sleepers /\ w \in Lwps /\ Keeps(rwList', chain', Lwps, Sleepers \ {w})
        /\ chain[l] # <<>>
    BY <2>1, KeepsWoken DEF WakeInv, At
  <2> HIDE DEF w
  <2>3. pc[w] \notin MutexPcs
    BY <2>1, <2>2, LwpAssumption DEF WakeInv, Ctxs
  <2>4. lStat[w] = "SSLEEP" /\ pc[w] = "q_asleep" /\ w # l
    BY <2>1, <2>2, <2>3 DEF Sleepers, At, MutexPcs, WakeInv
  <2>5. \A k \in Lwps : lStat'[k] = IF k = w THEN "SRUN" ELSE lStat[k]
    BY <2>1 DEF RwTypes, LwpTypeOK
  <2>6. Sleepers' = Sleepers \ {w}
    BY <1>1, <2>1, <2>4, <2>5 DEF Sleepers, At
  <2>7. \A k \in Lwps : chain'[k] = IF k = l THEN Tail(chain[l]) ELSE chain[k]
    BY <2>1 DEF WakeInv, Keeps
  <2>8. PICK p \in {"idle", "d_wake"} : Goto(l, p) /\ (p = "idle" <=> Tail(chain[l]) = <<>>)
    BY <2>1
  <2>9. p \notin MutexPcs /\ "d_wake" \in ChainPcs
    BY DEF MutexPcs, ChainPcs
  <2>10. \A k \in Lwps : pc'[k] = IF k = l THEN p ELSE pc[k]
    BY <1>1, <2>8
  <2>11. Keeps(rwList', chain', Lwps, Sleepers')
    BY <2>2, <2>6
  <2>12. \A k \in Lwps : /\ chain'[k] # <<>> => pc'[k] \in ChainPcs
                         /\ pc'[k] \in {"d_type", "d_wake"} => chain'[k] # <<>>
    BY <2>7, <2>8, <2>9, <2>10 DEF WakeInv
  <2>13. \A k \in Lwps : lStat'[k] = "SONPROC" <=> pc'[k] # "q_asleep"
    BY <2>1, <2>4, <2>5, <2>8, <2>10 DEF WakeInv, At
  <2>14. \A k \in Lwps : pc'[k] \in MutexPcs => lMutex'[k] = k
    BY <2>1, <2>9, <2>10 DEF WakeInv
  <2> QED BY <2>11, <2>12, <2>13, <2>14 DEF WakeInv, At
<1> QED BY <1>4, <1>5, <1>6, <1>7, <1>8, <1>9, <1>10
    DEF Step, Locking, Joining, Queueing, Sleeping, Unlocking
(* What is owed to an LWP follows from how often it has slept and whether  *)
(* it is queued, wherever it is.                                           *)
Queued(l) == IF Contains(rwList, l) THEN 1 ELSE 0
AboutTo(l) == IF At(l, "q_sleep") THEN 1 ELSE 0

LEMMA OwedToEach ==
  CoreType /\ RwTypes /\ Slept /\ WakeInv =>
    /\ Unsettled \in [Lwps -> Nat]
    /\ \A l \in Lwps : /\ Unsettled[l] = nsleeps[l] + AboutTo(l) - Queued(l)
                       /\ Contains(rwList, l) => pc[l] \in {"q_sleep", "q_asleep"}
<1> SUFFICES ASSUME CoreType, RwTypes, Slept, WakeInv, NEW l \in Lwps
             PROVE  /\ Unsettled[l] \in Nat
                    /\ Unsettled[l] = nsleeps[l] + AboutTo(l) - Queued(l)
                    /\ Contains(rwList, l) => pc[l] \in {"q_sleep", "q_asleep"}
  BY DEF Unsettled
<1>1. nsleeps[l] \in Nat
  BY DEF RwTypes
<1>2. Contains(rwList, l) => pc[l] \in {"q_sleep", "q_asleep"}
  <2> SUFFICES ASSUME Contains(rwList, l) PROVE pc[l] \in {"q_sleep", "q_asleep"}
    OBVIOUS
  <2>1. l \in Sleepers
    BY DEF WakeInv, Keeps
  <2> QED BY <2>1 DEF Sleepers, WakeInv, At
<1>3. "q_sleep" \in Acquiring /\ "q_asleep" \in Acquiring /\ SleptPcs \subseteq Acquiring \union Acquired
  BY DEF Acquiring, SleptPcs
<1>4. CASE pc[l] \in Acquiring \union Acquired
  <2>1. Unsettled[l] = nsleeps[l] + AboutTo(l) - Queued(l)
    BY <1>4 DEF Unsettled, Credit, AboutTo, Queued
  <2>2. Contains(rwList, l) => nsleeps[l] >= 1 \/ At(l, "q_sleep")
    BY <1>2 DEF Slept, At
  <2> QED BY <1>1, <1>2, <2>1, <2>2 DEF AboutTo, Queued
<1>5. CASE pc[l] \notin Acquiring \union Acquired
  <2>1. Unsettled[l] = 0 /\ nsleeps[l] = 0 /\ ~At(l, "q_sleep") /\ ~Contains(rwList, l)
    BY <1>2, <1>3, <1>5 DEF Unsettled, Slept, At
  <2> QED BY <1>2, <2>1 DEF AboutTo, Queued
<1> QED BY <1>4, <1>5

LEMMA OwedNext ==
  (CoreType /\ RwTypes /\ Slept /\ WakeInv)' =>
    /\ Unsettled' \in [Lwps -> Nat]
    /\ \A l \in Lwps : Unsettled'[l] = nsleeps'[l] + AboutTo(l)' - Queued(l)'
<1>1. (CoreType /\ RwTypes /\ Slept /\ WakeInv)' =>
      (/\ Unsettled \in [Lwps -> Nat]
       /\ \A l \in Lwps : /\ Unsettled[l] = nsleeps[l] + AboutTo(l) - Queued(l)
                          /\ Contains(rwList, l) => pc[l] \in {"q_sleep", "q_asleep"})'
  BY OwedToEach, PTL
<1> QED BY <1>1
(* Nothing is owed that was not, and nothing is settled.                   *)
LEMMA SameOwed ==
  ASSUME PendInv, CoreType, (CoreType /\ RwTypes /\ Slept /\ WakeInv)', rwPend' = rwPend,
         \A k \in Lwps : nsleeps'[k] + AboutTo(k)' - Queued(k)'
                           = nsleeps[k] + AboutTo(k) - Queued(k)
  PROVE  Accounted'
<1>1. /\ Unsettled \in [Lwps -> Nat] /\ Unsettled' \in [Lwps -> Nat]
      /\ \A k \in Lwps : Unsettled'[k] = Unsettled[k]
  BY OwedToEach, OwedNext DEF PendInv
<1>2. Unsettled' = Unsettled
  BY <1>1
<1>3. Units(Unsettled)' = Units(Unsettled)
  BY <1>2 DEF Units
<1> QED BY <1>3 DEF PendInv, Accounted

(* One LWP's account changes, and rw_pend by as much.                      *)
LEMMA OneOwed ==
  ASSUME PendInv, CoreType, (CoreType /\ RwTypes /\ Slept /\ WakeInv)', NEW l \in Lwps,
         \A k \in Lwps : k # l => nsleeps'[k] + AboutTo(k)' - Queued(k)'
                                    = nsleeps[k] + AboutTo(k) - Queued(k),
         rwPend' - rwPend = (nsleeps'[l] + AboutTo(l)' - Queued(l)')
                              - (nsleeps[l] + AboutTo(l) - Queued(l)),
         rwPend' \in Int
  PROVE  Accounted'
<1> DEFINE f == Unsettled
           g == Unsettled'
<1>1. /\ f \in [Lwps -> Nat] /\ g \in [Lwps -> Nat]
      /\ \A k \in Lwps : k # l => g[k] = f[k]
      /\ rwPend' - rwPend = g[l] - f[l]
  BY OwedToEach, OwedNext DEF PendInv
<1>2. rwPend = Cardinality(Units(f))
  BY DEF PendInv, Accounted
<1>3. Units(Unsettled)' = Units(g)
  BY DEF Units
<1> HIDE DEF f, g
<1>4. IsFiniteSet(Lwps)
  BY LwpAssumption
<1>5. Cardinality(Units(g)) = Cardinality(Units(f)) + g[l] - f[l]
  BY <1>1, <1>4, UnitsMoved
<1>6. Cardinality(Units(f)) \in Nat
  BY <1>1, <1>4, UnitsFinite
<1>7. g[l] \in Nat /\ f[l] \in Nat
  BY <1>1
<1>8. rwPend' = Cardinality(Units(g))
  BY <1>1, <1>2, <1>5, <1>6, <1>7
<1> QED BY <1>3, <1>8 DEF Accounted

LEMMA AccountedKept ==
  ASSUME PendInv, CoreType, (CoreType /\ RwTypes /\ Slept /\ WakeInv)', NEW l \in Lwps,
         Step(l) \/ Call(l)
  PROVE  Accounted'
<1>0. RwTypes /\ Slept /\ WakeInv /\ rwPend \in Int
  <2>1. RwTypes /\ Slept /\ WakeInv
    BY DEF PendInv
  <2>2. Cardinality(Units(Unsettled)) \in Nat
    BY <2>1, OwedToEach, UnitsFinite, LwpAssumption
  <2> QED BY <2>1, <2>2 DEF PendInv, Accounted
<1>1. \A p : Goto(l, p) => \A k \in Lwps : pc'[k] = IF k = l THEN p ELSE pc[k]
  BY DEF Goto, CoreType
<1>2. \A k \in Lwps : nsleeps[k] \in Nat
  BY <1>0 DEF RwTypes
<1>3. \A k \in Lwps : Contains(rwList, k) => pc[k] \in {"q_sleep", "q_asleep"}
  BY <1>0, OwedToEach
(* To have the lock at last settles what the sleeps of the call earned.    *)
<1>4. CASE Hold(l)
  <2>1. UNCHANGED rwList /\ rwPend' = rwPend - nsleeps[l]
        /\ pc[l] \in {"got", "settling", "j_in", "q_got"}
    <3>1. Got(l) \/ Settle(l) \/ JoinIn(l) \/ QueueGot(l)
      <4>1. pc'[l] = "hold"
        BY <1>1, <1>4 DEF Hold
      <4>2. \A p : Goto(l, p) => p = "hold"
        BY <1>0, <1>1, <4>1
      <4>3. ~Unlocking(l)
        <5> SUFFICES ASSUME Unlocking(l) PROVE FALSE
          OBVIOUS
        <5>1. PICK p \in {"idle"} \union LastTest \union Releasing \union Released : Goto(l, p)
          BY DEF Unlocking, Unlock, LastReader, SharedFspin, SharedUnlock, Release, Recheck,
            Retake, NotBusy, DequeueFspin, DequeueNext, DequeueType, DequeueRelease, WakeChain,
            LastTest, Releasing, Released, AloneNow, At
        <5> QED BY <4>2, <5>1 DEF LastTest, Releasing, Released
      <4>4. ~(Take(l) \/ RdMode(l) \/ JoinCount(l) \/ JoinTest(l) \/ SlowMutex(l) \/ QueueFspin(l)
              \/ QueueTake(l) \/ QueueMode(l) \/ Enqueue(l) \/ Sleeping(l) \/ Call(l))
        <5>1. ~(Take(l) \/ RdMode(l) \/ JoinCount(l) \/ JoinTest(l))
          BY <4>2 DEF Take, RdMode, JoinCount, JoinTest
        <5>2. ~(SlowMutex(l) \/ QueueFspin(l) \/ QueueTake(l) \/ QueueMode(l) \/ Enqueue(l))
          BY <4>2 DEF SlowMutex, QueueFspin, QueueTake, QueueMode, Enqueue
        <5>3. ~(Sleeping(l) \/ Call(l))
          BY <4>2 DEF Sleeping, Sleep, WakeUp, RelockEntry, Call
        <5> QED BY <5>1, <5>2, <5>3
      <4> QED BY <4>3, <4>4 DEF Step, Locking, Taking, Joining, Queueing
    <3>2. Got(l) /\ Reader(l) => nsleeps[l] = 0 /\ rwPend' = rwPend
      <4>1. "settle" # "hold"
        OBVIOUS
      <4> QED BY <1>1, <1>2, <1>4, <4>1 DEF Got, Hold
    <3>3. Settle(l) => At(l, "settling")
      <4>1. "settling" # "hold"
        OBVIOUS
      <4> QED BY <1>1, <1>4, <4>1 DEF Settle, Hold
    <3>4. CASE Got(l)
      BY <1>0, <3>2, <3>4 DEF Got, At
    <3>5. CASE Settle(l)
      BY <3>3, <3>5 DEF Settle, At
    <3> QED BY <3>1, <3>4, <3>5 DEF JoinIn, QueueGot, At
  <2>2. \A k \in Lwps : /\ nsleeps'[k] = IF k = l THEN 0 ELSE nsleeps[k]
                        /\ pc'[k] = IF k = l THEN "hold" ELSE pc[k]
    BY <1>0, <1>1, <1>4 DEF Hold, RwTypes
  <2>3. /\ \A k \in Lwps : k # l => AboutTo(k)' = AboutTo(k) /\ Queued(k)' = Queued(k)
        /\ AboutTo(l)' = 0 /\ AboutTo(l) = 0 /\ Queued(l)' = 0 /\ Queued(l) = 0
    BY <1>3, <2>1, <2>2 DEF AboutTo, Queued, At
  <2>4. rwPend' - rwPend = (nsleeps'[l] + AboutTo(l)' - Queued(l)')
                             - (nsleeps[l] + AboutTo(l) - Queued(l)) /\ rwPend' \in Int
    BY <1>0, <1>2, <2>1, <2>2, <2>3
  <2>5. \A k \in Lwps : k # l => nsleeps'[k] + AboutTo(k)' - Queued(k)'
                                   = nsleeps[k] + AboutTo(k) - Queued(k)
    BY <2>2, <2>3
  <2> QED BY <2>4, <2>5, OneOwed
(* Who is taken off the queue is owed a wakeup.                            *)
<1>5. CASE DequeueNext(l) /\ ~UNCHANGED rwPend
  <2>1. /\ At(l, "d_loop") /\ UNCHANGED nsleeps /\ rwList # <<>>
        /\ rwList' = Tail(rwList) /\ rwPend' = rwPend + 1 /\ Goto(l, "d_type")
    BY <1>5 DEF DequeueNext, CountWoken, callVars
  <2>2. PICK w \in Lwps :
          /\ Contains(rwList, w) /\ ~Contains(Tail(rwList), w)
          /\ \A m : m # w => (Contains(Tail(rwList), m) <=> Contains(rwList, m))
    <3>1. Keeps(rwList, chain, Lwps, Sleepers) /\ rwList # <<>>
      BY <1>0, <2>1 DEF WakeInv
    <3> QED BY <3>1, KeepsTaken
  <2>3. \A k \in Lwps : AboutTo(k)' = AboutTo(k)
    BY <1>1, <2>1 DEF AboutTo, At
  <2>4. Queued(w) = 1 /\ Queued(w)' = 0 /\ \A k \in Lwps : k # w => Queued(k)' = Queued(k)
    BY <2>1, <2>2 DEF Queued
  <2>5. AboutTo(w) \in Nat /\ nsleeps[w] \in Nat
    BY <1>2, <2>2 DEF AboutTo
  <2>6. /\ rwPend' - rwPend = (nsleeps'[w] + AboutTo(w)' - Queued(w)')
                                - (nsleeps[w] + AboutTo(w) - Queued(w))
        /\ rwPend' \in Int
    BY <1>0, <2>1, <2>2, <2>3, <2>4, <2>5
  <2>7. \A k \in Lwps : k # w => nsleeps'[k] + AboutTo(k)' - Queued(k)'
                                   = nsleeps[k] + AboutTo(k) - Queued(k)
    BY <2>1, <2>3, <2>4
  <2> QED BY <2>2, <2>6, <2>7, OneOwed
(* To queue up is to have slept once more but for the wakeup to come.      *)
<1>6. CASE Enqueue(l)
  <2>1. /\ At(l, "q_enq") /\ Goto(l, "q_sleep") /\ UNCHANGED <<rwPend, nsleeps>>
        /\ rwList' \in {Append(rwList, l), <<l>> \o rwList}
    BY <1>6 DEF Enqueue, callVars
  <2>2. rwList \in Seq(Lwps)
    BY <1>0 DEF WakeInv, Keeps
  <2>3. \A k \in Lwps : Contains(rwList', k) <=> (Contains(rwList, k) \/ k = l)
    <3>1. CASE rwList' = Append(rwList, l)
      BY <2>2, <3>1, AppendQueue
    <3>2. CASE rwList' = <<l>> \o rwList
      BY <2>2, <3>2, PrependQueue
    <3> QED BY <2>1, <3>1, <3>2
  <2>4. ~Contains(rwList, l)
    BY <1>3, <2>1 DEF At
  <2>5. \A k \in Lwps : /\ AboutTo(k)' = IF k = l THEN 1 ELSE AboutTo(k)
                        /\ Queued(k)' = IF k = l THEN 1 ELSE Queued(k)
    BY <1>1, <2>1, <2>3 DEF AboutTo, Queued, At
  <2>6. AboutTo(l) = 0 /\ Queued(l) = 0
    BY <2>1, <2>4 DEF AboutTo, Queued, At
  <2>7. \A k \in Lwps : nsleeps'[k] + AboutTo(k)' - Queued(k)'
                          = nsleeps[k] + AboutTo(k) - Queued(k)
    BY <1>2, <2>1, <2>5, <2>6
  <2> QED BY <2>1, <2>7, SameOwed
<1>7. CASE Sleep(l)
  <2>1. /\ At(l, "q_sleep") /\ nsleeps' = [nsleeps EXCEPT ![l] = @ + 1]
        /\ Goto(l, "q_asleep") /\ UNCHANGED <<rwList, rwPend>>
    BY <1>7 DEF Sleep, rwVars
  <2>2. \A k \in Lwps : /\ nsleeps'[k] = IF k = l THEN nsleeps[k] + 1 ELSE nsleeps[k]
                        /\ AboutTo(k)' = IF k = l THEN 0 ELSE AboutTo(k)
                        /\ Queued(k)' = Queued(k)
    BY <1>0, <1>1, <2>1 DEF RwTypes, AboutTo, Queued, At
  <2>3. AboutTo(l) = 1 /\ Queued(l) \in Nat
    BY <2>1 DEF AboutTo, Queued
  <2>4. \A k \in Lwps : nsleeps'[k] + AboutTo(k)' - Queued(k)'
                          = nsleeps[k] + AboutTo(k) - Queued(k)
    BY <1>2, <2>2, <2>3
  <2> QED BY <2>1, <2>4, SameOwed
<1>8. CASE ~Hold(l) /\ ~Enqueue(l) /\ ~Sleep(l) /\ (DequeueNext(l) => UNCHANGED rwPend)
  <2>1. UNCHANGED <<rwPend, rwList, nsleeps>>
    <3>1. CASE Locking(l)
      BY <1>8, <3>1 DEF Locking, Taking, Take, Got, Settle, Joining, RdMode, JoinCount,
        JoinTest, JoinIn, Queueing, SlowMutex, QueueFspin, QueueTake, QueueGot, QueueMode,
        Sleeping, WakeUp, RelockEntry, rwVars, callVars
    <3>2. CASE Unlocking(l) /\ ~DequeueNext(l)
      BY <3>2 DEF Unlocking, Unlock, LastReader, SharedFspin, SharedUnlock, Release, Recheck,
        Retake, NotBusy, DequeueFspin, DequeueType, DequeueRelease, WakeChain, rwVars, callVars
    <3>3. CASE DequeueNext(l)
      BY <1>0, <1>8, <3>3 DEF DequeueNext, CountWoken, callVars
    <3>4. CASE Call(l)
      BY <3>4 DEF Call, rwVars
    <3> QED BY <3>1, <3>2, <3>3, <3>4 DEF Step
  <2>2. pc[l] # "q_sleep" /\ pc'[l] # "q_sleep" /\ \A k \in Lwps : k # l => pc'[k] = pc[k]
    <3>1. CASE Locking(l)
      <4>1. pc[l] # "q_sleep"
        BY <1>8, <3>1 DEF Locking, Taking, Take, Got, Settle, Joining, RdMode, JoinCount,
          JoinTest, JoinIn, Queueing, SlowMutex, QueueFspin, QueueTake, QueueGot, QueueMode,
          Sleeping, WakeUp, RelockEntry, At
      <4>2. PICK p : Goto(l, p) /\ p # "q_sleep"
        <5>1. CASE Taking(l) \/ Joining(l)
          <6>1. \E p \in {"got", "rd_mode", "idle", "q_mutex", "settle", "hold", "settling",
                          "j_fspin", "j_avail", "j_mode", "j_in", "q_mode2", "q_enq"} : Goto(l, p)
            BY <5>1 DEF Taking, Take, Got, Settle, Joining, RdMode, JoinCount, JoinTest, JoinIn,
              Hold, At
          <6> QED BY <6>1
        <5>2. CASE Queueing(l) \/ Sleeping(l)
          <6>1. \E p \in {"q_fspin", "q_take", "q_got", "got", "q_mode", "q_enq", "hold",
                          "q_avail", "relk", "take"} : Goto(l, p)
            BY <1>8, <5>2 DEF Queueing, SlowMutex, QueueFspin, QueueTake, QueueGot, QueueMode,
              Sleeping, WakeUp, RelockEntry, Hold
          <6> QED BY <6>1
        <5> QED BY <3>1, <5>1, <5>2 DEF Locking
      <4> QED BY <1>1, <4>1, <4>2
    <3>2. CASE Unlocking(l)
      <4>1. pc[l] # "q_sleep"
        BY <3>2 DEF Unlocking, Unlock, LastReader, SharedFspin, SharedUnlock, Release, Recheck,
          Retake, NotBusy, DequeueFspin, DequeueNext, DequeueType, DequeueRelease, WakeChain, At
      <4>2. PICK p \in {"idle"} \union LastTest \union Releasing \union Released : Goto(l, p)
        BY <3>2 DEF Unlocking, Unlock, LastReader, SharedFspin, SharedUnlock, Release, Recheck,
          Retake, NotBusy, DequeueFspin, DequeueNext, DequeueType, DequeueRelease, WakeChain,
          LastTest, Releasing, Released, AloneNow, At
      <4>3. p # "q_sleep"
        BY DEF LastTest, Releasing, Released
      <4> QED BY <1>1, <4>1, <4>2, <4>3
    <3>3. CASE Call(l)
      BY <1>1, <3>3 DEF Call, At
    <3> QED BY <3>1, <3>2, <3>3 DEF Step
  <2>3. \A k \in Lwps : nsleeps'[k] + AboutTo(k)' - Queued(k)'
                          = nsleeps[k] + AboutTo(k) - Queued(k)
    BY <2>1, <2>2 DEF AboutTo, Queued, At
  <2> QED BY <2>1, <2>3, SameOwed
<1> QED BY <1>4, <1>5, <1>6, <1>7, <1>8
(* What the kept accounts rest on is inductive together with Inv.          *)
THEOREM PendInvariant == Spec => []PendInv
<1>1. Inv /\ Inv' /\ PendInv /\ [Next]_vars => PendInv'
  <2> SUFFICES ASSUME Inv, Inv', PendInv, [Next]_vars PROVE PendInv'
    OBVIOUS
  <2>1. CoreType /\ CoreType' /\ RwTypes /\ Slept /\ WakeInv
    BY DEF Inv, Core, PendInv
  <2>2. CASE UNCHANGED vars
    <3>1. UNCHANGED <<lMutex, lStat, lFlag, trapevf, rwMode, rwPend, rwList, lStype, lkp, ipl,
                      pc, op, nsleeps, chain, swappedin, calls>>
      BY <2>2 DEF vars, lwpVars, rwVars, deqVars, callVars, entryVars
    <3>2. RwTypes' /\ Slept'
      BY <2>1, <3>1 DEF RwTypes, LwpTypeOK, Slept, At
    <3>3. Sleepers' = Sleepers
      BY <3>1 DEF Sleepers, At
    <3>4. WakeInv'
      BY <2>1, <3>1, <3>3 DEF WakeInv, At
    <3>5. \A k \in Lwps : nsleeps'[k] + AboutTo(k)' - Queued(k)'
                            = nsleeps[k] + AboutTo(k) - Queued(k)
      BY <3>1 DEF AboutTo, Queued, At
    <3>6. Accounted'
      BY <2>1, <3>1, <3>2, <3>4, <3>5, SameOwed
    <3> QED BY <3>2, <3>4, <3>6 DEF PendInv
  <2>3. CASE \E l \in Lwps : Step(l) \/ Call(l)
    <3>1. PICK l \in Lwps : Step(l) \/ Call(l)
      BY <2>3
    <3>2. RwTypes' /\ Slept' /\ WakeInv'
      BY <2>1, <3>1, TypesKept, SleptKept, WakeKept
    <3>3. Accounted'
      BY <2>1, <3>1, <3>2, AccountedKept
    <3> QED BY <3>2, <3>3 DEF PendInv
  <2> QED BY <2>2, <2>3 DEF Next, Quiet
<1> QED BY <1>1, PendInit, RwInvariant, PTL DEF Spec

(* Every variable keeps its type, rw_read and rw_pend included, which the  *)
(* code decrements without a look.                                         *)
THEOREM TypeCorrect == Spec => []TypeOK
<1>1. Inv /\ PendInv => TypeOK
  <2> SUFFICES ASSUME Inv, PendInv PROVE TypeOK
    OBVIOUS
  <2>1. CoreType /\ RwTypes /\ Slept /\ WakeInv
    BY DEF Inv, Core, PendInv
  <2>2. rwRead \in Nat
    BY CountTells DEF Inv
  <2>3. rwPend \in Nat
    <3>1. Cardinality(Units(Unsettled)) \in Nat
      BY <2>1, OwedToEach, UnitsFinite, LwpAssumption
    <3> QED BY <3>1 DEF PendInv, Accounted
  <2>4. rwList \in Seq(Lwps) /\ chain \in [Lwps -> Seq(Lwps)]
    BY <2>1 DEF WakeInv, Keeps
  <2> QED BY <2>1, <2>2, <2>3, <2>4 DEF TypeOK, CoreType, RwTypes, Pcs
<1> QED BY <1>1, RwInvariant, PendInvariant, PTL

(* rw_pend counts exactly the wakeups that unlockers have given and their  *)
(* sleepers have not settled yet, and none is settled that was not given.  *)
THEOREM PendCountsWakeups == Spec => []PendAccounting
<1>1. Inv /\ PendInv => PendAccounting
  <2> SUFFICES ASSUME Inv, PendInv PROVE PendAccounting
    OBVIOUS
  <2>1. CoreType /\ RwTypes /\ Slept /\ WakeInv
    BY DEF Inv, Core, PendInv
  <2>2. \A l \in Lwps : Unsettled[l] >= 0
    BY <2>1, OwedToEach
  <2> QED BY <2>2 DEF PendAccounting, PendInv, Accounted
<1> QED BY <1>1, RwInvariant, PendInvariant, PTL
-----------------------------------------------------------------------------
(***************************************************************************)
(* Nobody is stranded: while the lock is free, somebody who will look at   *)
(* it is on the way as long as an LWP is queued, or is about to queue      *)
(* itself because it found the lock taken.  An unlocker that has found     *)
(* rw_fspin free need not fear the latter, and a dequeuer that leaves      *)
(* somebody on the queue has taken somebody off it.                        *)
(***************************************************************************)
NearPcs == {"q_mode", "q_avail", "q_mode2", "q_enq"}
NearQueue == \E l \in Lwps : pc[l] \in NearPcs
Woken(l) == At(l, "q_asleep") /\ lStat[l] = "SRUN"

DeqInv == \A l \in Lwps : /\ At(l, "d_loop") /\ swappedin[l] => chain[l] # <<>>
                          /\ At(l, "d_rel") => chain[l] # <<>> \/ rwList = <<>>
RecheckInv == rwAvail /\ (\E l \in Lwps : At(l, "m_list")) => ~NearQueue
LookInv == /\ RecheckInv
           /\ rwAvail /\ (rwList # <<>> \/ NearQueue) => SomebodyLooks

LEMMA LookInit == Init => DeqInv /\ LookInv
  BY DEF Init, DeqInv, LookInv, RecheckInv, NearQueue, NearPcs, At

(* The dequeuer has rw_fspin, so the queue does not grow behind its back.  *)
LEMMA DeqKept ==
  ASSUME Core, RwTypes, WakeInv, DeqInv, NEW l \in Lwps, Step(l) \/ Call(l)
  PROVE  DeqInv'
<1>1. \A p : Goto(l, p) => \A k \in Lwps : pc'[k] = IF k = l THEN p ELSE pc[k]
  BY DEF Goto, Core, CoreType
<1>2. /\ chain \in [Lwps -> Seq(Lwps)] /\ swappedin \in [Lwps -> BOOLEAN]
      /\ \A k \in Lwps : pc[k] \in UnderFspin => rwFspin = k
  BY DEF WakeInv, Keeps, RwTypes, Core, FspinHeld
<1>3. ASSUME NEW p, Goto(l, p), p \notin {"d_loop", "d_rel"}, UNCHANGED <<rwList, chain, swappedin>>
      PROVE  DeqInv'
  BY <1>1, <1>3 DEF DeqInv, At
<1>4. CASE Locking(l) /\ ~Enqueue(l)
  <2>1. UNCHANGED <<rwList, chain, swappedin>>
    BY <1>4 DEF Locking, Taking, Take, Got, Settle, Joining, RdMode, JoinCount, JoinTest,
      JoinIn, Queueing, SlowMutex, QueueFspin, QueueTake, QueueGot, QueueMode, Sleeping, Sleep,
      WakeUp, RelockEntry, rwVars, deqVars
  <2>2. CASE Taking(l) \/ Joining(l)
    <3>1. PICK p \in {"got", "rd_mode", "idle", "q_mutex", "settle", "hold", "settling",
                      "j_fspin", "j_avail", "j_mode", "j_in", "q_mode2", "q_enq"} : Goto(l, p)
      BY <2>2 DEF Taking, Take, Got, Settle, Joining, RdMode, JoinCount, JoinTest, JoinIn,
        Hold, At
    <3> QED BY <1>3, <2>1, <3>1
  <2>3. CASE Queueing(l) \/ Sleeping(l)
    <3>1. PICK p \in {"q_fspin", "q_take", "q_got", "got", "q_mode", "q_enq", "hold",
                      "q_avail", "relk", "take", "q_asleep"} : Goto(l, p)
      BY <1>4, <2>3 DEF Queueing, SlowMutex, QueueFspin, QueueTake, QueueGot, QueueMode,
        Sleeping, Sleep, WakeUp, RelockEntry, Hold
    <3> QED BY <1>3, <2>1, <3>1
  <2> QED BY <1>4, <2>2, <2>3 DEF Locking
<1>5. CASE Enqueue(l)
  <2>1. At(l, "q_enq") /\ Goto(l, "q_sleep") /\ UNCHANGED <<chain, swappedin>>
    BY <1>5 DEF Enqueue, deqVars
  <2>2. rwFspin = l
    BY <1>2, <2>1 DEF UnderFspin, At
  <2>3. \A k \in Lwps : pc'[k] # "d_rel" /\ (pc'[k] = "d_loop" => pc[k] = "d_loop")
    BY <1>1, <1>2, <2>1, <2>2 DEF UnderFspin
  <2> QED BY <2>1, <2>3 DEF DeqInv, At
<1>6. CASE \/ Unlock(l) \/ LastReader(l) \/ SharedFspin(l) \/ SharedUnlock(l) \/ Release(l)
           \/ Recheck(l) \/ Retake(l) \/ NotBusy(l) \/ DequeueRelease(l) \/ Call(l)
  <2>1. UNCHANGED <<rwList, chain, swappedin>>
    BY <1>6 DEF Unlock, LastReader, SharedFspin, SharedUnlock, Release, Recheck, Retake,
      NotBusy, DequeueRelease, Call, rwVars, deqVars
  <2>2. PICK p \in {"l_fspin", "u_fspin", "s_fspin", "u_read", "u_mode", "v_read", "v_mode",
                    "v_fspin", "s_held", "s_dec", "idle", "l_list", "l_avail", "d_fspin",
                    "m_fspin", "m_list", "m_done", "m_take", "d_wake", "d_done", "take"} :
          Goto(l, p)
    BY <1>6 DEF Unlock, LastReader, AloneNow, SharedFspin, SharedUnlock, Release, Recheck,
      Retake, NotBusy, DequeueRelease, Call, At
  <2> QED BY <1>3, <2>1, <2>2
<1>7. CASE DequeueFspin(l)
  <2>1. /\ Goto(l, "d_loop") /\ swappedin' = [swappedin EXCEPT ![l] = FALSE]
        /\ UNCHANGED <<rwList, chain>>
    BY <1>7 DEF DequeueFspin
  <2> QED BY <1>1, <1>2, <2>1 DEF DeqInv, At
<1>8. CASE DequeueNext(l)
  <2>1. At(l, "d_loop") /\ UNCHANGED swappedin
    BY <1>8 DEF DequeueNext
  <2>2. rwFspin = l
    BY <1>2, <2>1 DEF UnderFspin, At
  <2>3. \A k \in Lwps : k # l => pc[k] \notin {"d_loop", "d_rel"}
    BY <1>2, <2>2 DEF UnderFspin
  <2>4. CASE Goto(l, "d_type")
    BY <1>1, <2>3, <2>4 DEF DeqInv, At
  <2>5. CASE ~Goto(l, "d_type")
    <3>1. Goto(l, "d_rel") /\ UNCHANGED <<rwList, chain>> /\ (rwList = <<>> \/ swappedin[l])
      BY <1>8, <2>5 DEF DequeueNext, EndOfReaders
    <3> QED BY <1>1, <2>1, <2>3, <3>1 DEF DeqInv, At
  <2> QED BY <2>4, <2>5
<1>9. CASE DequeueType(l)
  <2>1. /\ At(l, "d_type") /\ UNCHANGED <<rwList, chain>>
        /\ \A k \in Lwps : k # l => swappedin'[k] = swappedin[k]
    BY <1>2, <1>9 DEF DequeueType, rwVars
  <2>2. PICK p : Goto(l, p)
    BY <1>9 DEF DequeueType
  <2>3. chain[l] # <<>>
    BY <2>1 DEF WakeInv, At
  <2> QED BY <1>1, <2>1, <2>2, <2>3 DEF DeqInv, At
<1>10. CASE WakeChain(l)
  <2>1. /\ UNCHANGED <<rwList, swappedin>>
        /\ \A k \in Lwps : k # l => chain'[k] = chain[k]
    BY <1>2, <1>10 DEF WakeChain, rwVars
  <2>2. PICK p \in {"idle", "d_wake"} : Goto(l, p)
    BY <1>10 DEF WakeChain
  <2> QED BY <1>1, <2>1, <2>2 DEF DeqInv, At
<1> QED BY <1>4, <1>5, <1>6, <1>7, <1>8, <1>9, <1>10 DEF Step, Unlocking

(* A step that does not make the lock free, and whose LWP, if it was to    *)
(* look at the lock, still is.                                             *)
LEMMA LookMove ==
  ASSUME CoreType, LookInv, NEW l \in Lwps, NEW p, Goto(l, p), p # "m_list",
         p \in NearPcs => pc[l] \in NearPcs, pc[l] \in LookPcs => p \in LookPcs,
         rwAvail' => rwAvail, rwList' # <<>> => rwList # <<>> \/ pc[l] \in NearPcs,
         UNCHANGED chain, \A k \in Lwps : Woken(k) => Woken(k)' \/ (k = l /\ p \in LookPcs)
  PROVE  LookInv'
<1>1. \A k \in Lwps : pc'[k] = IF k = l THEN p ELSE pc[k]
  BY DEF CoreType, Goto
<1>2. NearQueue' => NearQueue
  BY <1>1 DEF NearQueue
<1>3. pc[l] \in NearPcs => NearQueue
  BY DEF NearQueue
<1>4. SomebodyLooks => SomebodyLooks'
  BY <1>1 DEF SomebodyLooks, Woken
<1>5. RecheckInv'
  BY <1>1, <1>2 DEF LookInv, RecheckInv, At
<1> QED BY <1>2, <1>3, <1>4, <1>5 DEF LookInv

(* A step after which the lock is taken.                                   *)
LEMMA LookTaken ==
  ASSUME rwAvail' = FALSE PROVE LookInv'
  BY DEF LookInv, RecheckInv

(* The way to the lock: whoever finds it free takes it, and whoever goes   *)
(* to sleep has found it taken while it had rw_fspin.                      *)
LEMMA LookLocking ==
  ASSUME Core, RwTypes, LookInv, NEW l \in Lwps, Locking(l) \/ Call(l)
  PROVE  LookInv'
<1>1. CoreType /\ \A p : Goto(l, p) => \A k \in Lwps : pc'[k] = IF k = l THEN p ELSE pc[k]
  BY DEF Goto, Core, CoreType
<1>2. CASE Take(l) \/ QueueTake(l)
  <2>1. rwAvail' = FALSE
    BY <1>1, <1>2 DEF Take, QueueTake, rwsleep_take, CoreType
  <2> QED BY <2>1, LookTaken
<1>3. CASE Got(l) \/ Settle(l) \/ Joining(l) \/ QueueGot(l) \/ Call(l)
  <2>1. UNCHANGED <<lStat, rwAvail, rwList, chain>>
    BY <1>3 DEF Got, Settle, Joining, RdMode, JoinCount, JoinTest, JoinIn, QueueGot, Call,
      lwpVars, rwVars, deqVars
  <2>2. PICK p : /\ Goto(l, p) /\ p # "m_list" /\ (p \in NearPcs => pc[l] \in NearPcs)
                 /\ pc[l] \notin LookPcs \union {"q_asleep"}
    <3>1. CASE JoinTest(l)
      <4>1. \/ \E p \in {"j_mode", "j_in", "q_mutex", "idle"} : Goto(l, p)
            \/ pc[l] \in {"q_avail", "q_mode2"} /\ \E p \in {"q_mode2", "q_enq"} : Goto(l, p)
        BY <3>1 DEF JoinTest, At
      <4>2. pc[l] \notin LookPcs \union {"q_asleep"}
        BY <3>1 DEF JoinTest, LookPcs
      <4> QED BY <4>1, <4>2 DEF NearPcs
    <3>2. CASE ~JoinTest(l)
      <4>1. PICK p \in {"settle", "hold", "settling", "j_fspin", "idle", "q_mutex", "j_avail",
                        "take"} : Goto(l, p)
        BY <1>3, <3>2 DEF Got, Settle, Joining, RdMode, JoinCount, JoinIn, QueueGot, Call, Hold
      <4>2. pc[l] \notin LookPcs \union {"q_asleep"}
        BY <1>3, <3>2 DEF Got, Settle, Joining, RdMode, JoinCount, JoinIn, QueueGot, Call, At,
          LookPcs
      <4> QED BY <4>1, <4>2 DEF NearPcs
    <3> QED BY <3>1, <3>2
  <2>3. \A k \in Lwps : Woken(k) => Woken(k)'
    BY <1>1, <2>1, <2>2 DEF Woken, At
  <2> QED BY <1>1, <2>1, <2>2, <2>3, LookMove
<1>4. CASE SlowMutex(l) \/ QueueFspin(l) \/ QueueMode(l) \/ RelockEntry(l) \/ Enqueue(l)
  <2>1. /\ UNCHANGED <<lStat, rwAvail, chain>> /\ pc[l] # "q_asleep"
        /\ UNCHANGED rwList \/ pc[l] \in NearPcs
    BY <1>4 DEF SlowMutex, QueueFspin, QueueMode, RelockEntry, Enqueue, lwpVars, rwVars,
      deqVars, At, NearPcs
  <2>2. PICK p : /\ Goto(l, p) /\ p # "m_list" /\ (p \in NearPcs => pc[l] \in NearPcs)
                 /\ pc[l] \in LookPcs => p \in LookPcs
    <3>1. CASE SlowMutex(l) \/ QueueFspin(l) \/ RelockEntry(l)
      <4>1. PICK p \in {"q_fspin", "q_take", "take"} : Goto(l, p)
        BY <3>1 DEF SlowMutex, QueueFspin, RelockEntry
      <4> QED BY <4>1 DEF LookPcs, NearPcs
    <3>2. CASE QueueMode(l) \/ Enqueue(l)
      <4>1. pc[l] \in {"q_mode", "q_enq"} /\ \E p \in {"q_avail", "q_enq", "q_sleep"} : Goto(l, p)
        BY <3>2 DEF QueueMode, Enqueue, At
      <4> QED BY <4>1 DEF LookPcs, NearPcs
    <3> QED BY <1>4, <3>1, <3>2
  <2>3. \A k \in Lwps : Woken(k) => Woken(k)'
    BY <1>1, <2>1, <2>2 DEF Woken, At
  <2> QED BY <1>1, <2>1, <2>2, <2>3, LookMove
<1>5. CASE Sleep(l)
  <2>1. At(l, "q_sleep") /\ Goto(l, "q_asleep") /\ UNCHANGED <<rwAvail, rwList, chain>>
    BY <1>5 DEF Sleep, rwVars, deqVars
  <2>2. \A k \in Lwps : k # l => lStat'[k] = lStat[k]
    BY <1>5 DEF Sleep, Block, RwTypes, LwpTypeOK
  <2>3. \A k \in Lwps : Woken(k) => Woken(k)'
    BY <1>1, <2>1, <2>2 DEF Woken, At
  <2>4. "q_asleep" \notin NearPcs /\ pc[l] \notin LookPcs
    BY <2>1 DEF NearPcs, LookPcs, At
  <2> QED BY <1>1, <2>1, <2>3, <2>4, LookMove
<1>6. CASE WakeUp(l)
  <2>1. At(l, "q_asleep") /\ UNCHANGED <<rwAvail, rwList, chain>>
    BY <1>6 DEF WakeUp, rwVars, deqVars
  <2>2. PICK p \in {"relk", "take"} : Goto(l, p)
    BY <1>6 DEF WakeUp
  <2>3. \A k \in Lwps : k # l => lStat'[k] = lStat[k]
    BY <1>6 DEF WakeUp, Resume, RwTypes, LwpTypeOK
  <2>4. p \in LookPcs /\ p \notin NearPcs /\ p # "m_list"
    BY <2>2 DEF LookPcs, NearPcs
  <2>5. \A k \in Lwps : Woken(k) => Woken(k)' \/ k = l
    BY <1>1, <2>2, <2>3 DEF Woken, At
  <2> QED BY <1>1, <2>1, <2>2, <2>4, <2>5, LookMove
<1> QED BY <1>2, <1>3, <1>4, <1>5, <1>6 DEF Locking, Taking, Queueing, Sleeping

(* The steps of rwsleep_unlock: the lock becomes free with an unlocker     *)
(* that will look again, or with a chain to wake.                          *)
LEMMA LookUnlocking ==
  ASSUME Core, RwTypes, WakeInv, DeqInv, LookInv, NEW l \in Lwps, Unlocking(l)
  PROVE  LookInv'
<1>1. CoreType /\ \A p : Goto(l, p) => \A k \in Lwps : pc'[k] = IF k = l THEN p ELSE pc[k]
  BY DEF Goto, Core, CoreType
<1>2. \A k \in Lwps : pc[k] \in UnderFspin => rwFspin = k
  BY DEF Core, FspinHeld
<1>3. CASE \/ Unlock(l) \/ LastReader(l) \/ SharedFspin(l) \/ SharedUnlock(l)
           \/ Release(l) /\ ~At(l, "l_avail")
           \/ NotBusy(l) \/ DequeueFspin(l) \/ DequeueType(l)
  <2>1. UNCHANGED <<lStat, rwAvail, rwList, chain>>
    BY <1>3 DEF Unlock, LastReader, SharedFspin, SharedUnlock, Release, NotBusy, DequeueFspin,
      DequeueType, lwpVars, rwVars, deqVars
  <2>2. pc[l] \notin LookPcs \union {"q_asleep"}
    BY <1>3 DEF Unlock, LastReader, SharedFspin, SharedUnlock, Release, NotBusy, DequeueFspin,
      DequeueType, At, LookPcs
  <2>3. PICK p \in {"l_fspin", "u_fspin", "s_fspin", "u_read", "u_mode", "v_read", "v_mode",
                    "v_fspin", "s_held", "s_dec", "idle", "l_list", "l_avail", "d_fspin",
                    "d_wake", "d_loop", "d_rel"} : Goto(l, p)
    BY <1>3 DEF Unlock, LastReader, AloneNow, SharedFspin, SharedUnlock, Release, NotBusy,
      DequeueFspin, DequeueType, At
  <2>4. p \notin NearPcs /\ p # "m_list"
    BY DEF NearPcs
  <2>5. \A k \in Lwps : Woken(k) => Woken(k)'
    BY <1>1, <2>1, <2>2, <2>3 DEF Woken, At
  <2> QED BY <1>1, <2>1, <2>2, <2>3, <2>4, <2>5, LookMove
<1>4. CASE Release(l) /\ At(l, "l_avail")
  <2>1. pc[l] = "l_avail" /\ Goto(l, "m_fspin")
    BY <1>4 DEF Release, At
  <2>2. \A k \in Lwps : pc[k] # "m_list"
    <3>1. HasLock(l) /\ pc[l] \notin Fresh
      BY <2>1 DEF HasLock, Releasing, Fresh
    <3> QED BY <3>1 DEF Core, BusyOne, Busy
  <2>3. RecheckInv'
    BY <1>1, <2>1, <2>2 DEF RecheckInv, At
  <2>4. SomebodyLooks'
    BY <1>1, <2>1 DEF SomebodyLooks, LookPcs
  <2> QED BY <2>3, <2>4 DEF LookInv
<1>5. CASE Recheck(l)
  <2>1. UNCHANGED <<lStat, rwAvail, rwFspin, rwList, chain>> /\ pc[l] \in {"m_fspin", "m_list"}
    BY <1>5 DEF Recheck, lwpVars, rwVars, deqVars
  <2>2. CASE Goto(l, "m_take")
    <3>1. "m_take" \in LookPcs /\ "m_take" \notin NearPcs /\ "m_take" # "m_list"
      BY DEF LookPcs, NearPcs
    <3>2. \A k \in Lwps : Woken(k) => Woken(k)'
      BY <1>1, <2>1, <2>2 DEF Woken, At
    <3> QED BY <1>1, <2>1, <2>2, <3>1, <3>2, LookMove
  <2>3. CASE Goto(l, "m_list") /\ FspinFree
    <3>1. ~NearQueue
      BY <1>2, <2>3, LwpAssumption DEF NearQueue, NearPcs, UnderFspin, FspinFree, Ctxs
    <3>2. ~NearQueue'
      BY <1>1, <2>3, <3>1 DEF NearQueue, NearPcs
    <3>3. SomebodyLooks'
      BY <1>1, <2>3 DEF SomebodyLooks, LookPcs
    <3> QED BY <3>2, <3>3 DEF LookInv, RecheckInv
  <2>4. CASE At(l, "m_list") /\ Goto(l, "m_done") /\ rwList = <<>>
    <3>1. rwAvail => ~NearQueue
      BY <2>4 DEF LookInv, RecheckInv
    <3>2. NearQueue' => NearQueue
      BY <1>1, <2>4 DEF NearQueue, NearPcs
    <3> QED BY <2>1, <2>4, <3>1, <3>2 DEF LookInv, RecheckInv
  <2>5. \/ Goto(l, "m_take")
        \/ Goto(l, "m_list") /\ FspinFree
        \/ At(l, "m_list") /\ Goto(l, "m_done") /\ rwList = <<>>
    BY <1>5 DEF Recheck, At
  <2> QED BY <2>2, <2>3, <2>4, <2>5
<1>6. CASE Retake(l)
  <2>1. rwAvail' = FALSE
    BY <1>1, <1>6 DEF Retake, rwsleep_take, CoreType
  <2> QED BY <2>1, LookTaken
<1>7. CASE DequeueNext(l)
  <2>1. At(l, "d_loop") /\ UNCHANGED rwAvail
    BY <1>7 DEF DequeueNext
  <2>2. HasLock(l)
    BY <2>1 DEF HasLock, Releasing, At
  <2>3. rwAvail' = FALSE
    BY <1>1, <2>1, <2>2 DEF Core, Availability, CoreType
  <2> QED BY <2>3, LookTaken
<1>8. CASE DequeueRelease(l)
  <2>1. At(l, "d_rel") /\ Goto(l, "d_done") /\ UNCHANGED <<rwList, chain>>
    BY <1>8 DEF DequeueRelease, deqVars
  <2>2. rwFspin = l
    BY <1>2, <2>1 DEF UnderFspin, At
  <2>3. ~NearQueue'
    BY <1>1, <1>2, <2>1, <2>2 DEF NearQueue, NearPcs, UnderFspin
  <2>4. chain[l] # <<>> \/ rwList = <<>>
    BY <2>1 DEF DeqInv
  <2>5. chain[l] # <<>> => SomebodyLooks'
    BY <2>1 DEF SomebodyLooks
  <2> QED BY <2>1, <2>3, <2>4, <2>5 DEF LookInv, RecheckInv
<1>9. CASE WakeChain(l)
  <2>1. /\ At(l, "d_wake") /\ UNCHANGED <<rwAvail, rwList>> /\ lMutex[Head(chain[l])] = Nobody
        /\ lStat' = [lStat EXCEPT ![Head(chain[l])] = "SRUN"]
    BY <1>9 DEF WakeChain, Wakeup, MutexFree, rwVars
  <2>2. PICK p \in {"idle", "d_wake"} : Goto(l, p)
    BY <1>9 DEF WakeChain
  <2>3. PICK w \in Lwps : w = Head(chain[l]) /\ w \in Sleepers
    BY <2>1, KeepsWoken DEF WakeInv, At
  <2>4. lMutex[w] = Nobody /\ lStat'[w] = "SRUN"
    BY <2>1, <2>3 DEF RwTypes, LwpTypeOK
  <2>5. pc[w] \notin MutexPcs
    BY <2>3, <2>4, LwpAssumption DEF WakeInv, Ctxs
  <2>6. pc[w] = "q_asleep" /\ w # l
    BY <2>1, <2>3, <2>5 DEF Sleepers, At, MutexPcs, WakeInv
  <2>7. SomebodyLooks'
    BY <1>1, <2>2, <2>4, <2>6 DEF SomebodyLooks, At
  <2>8. NearQueue' => NearQueue
    BY <1>1, <2>2 DEF NearQueue, NearPcs
  <2>9. RecheckInv'
    BY <1>1, <2>1, <2>2, <2>8 DEF LookInv, RecheckInv, At
  <2> QED BY <2>7, <2>9 DEF LookInv
<1> QED BY <1>3, <1>4, <1>5, <1>6, <1>7, <1>8, <1>9 DEF Unlocking

(* A free lock with LWPs queued on it is never left to itself: what        *)
(* remains for liveness is that those on the way get there.                *)
THEOREM NobodyIsStranded == Spec => []NobodyStranded
<1>1. Inv /\ PendInv /\ (DeqInv /\ LookInv) /\ [Next]_vars => (DeqInv /\ LookInv)'
  <2> SUFFICES ASSUME Inv, PendInv, DeqInv, LookInv, [Next]_vars PROVE DeqInv' /\ LookInv'
    OBVIOUS
  <2>1. Core /\ RwTypes /\ WakeInv
    BY DEF Inv, PendInv
  <2>2. CASE UNCHANGED vars
    <3>1. UNCHANGED <<lStat, rwAvail, rwList, pc, chain, swappedin>>
      BY <2>2 DEF vars, lwpVars, rwVars, deqVars
    <3> QED BY <3>1 DEF DeqInv, LookInv, RecheckInv, NearQueue, SomebodyLooks, At
  <2>3. CASE \E l \in Lwps : Step(l) \/ Call(l)
    BY <2>1, <2>3, DeqKept, LookLocking, LookUnlocking DEF Step
  <2> QED BY <2>2, <2>3 DEF Next, Quiet
<1>2. LookInv => NobodyStranded
  BY DEF LookInv, NobodyStranded
<1> QED BY LookInit, <1>1, <1>2, RwInvariant, PendInvariant, PTL DEF Spec
=============================================================================
