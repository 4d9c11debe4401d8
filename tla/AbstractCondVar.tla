--------------------------- MODULE AbstractCondVar ---------------------------
(***************************************************************************)
(* What a synchronization variable promises its callers, without queues,   *)
(* chains and LWP states: a call ends once; a waiter is released by a      *)
(* wakeup or by a signal, and one that was given a wakeup returns B_TRUE.  *)
(***************************************************************************)
CONSTANTS Lwps, Nobody

VARIABLES entry,     \* the caller that holds the entry lock
          active,    \* the callers
          waiting,   \* those that a wakeup can go to
          woken,     \* those that it has gone to
          ret        \* ret[l]: what l's last call returned

vars == <<entry, active, waiting, woken, ret>>

Init == /\ entry = Nobody /\ active = {} /\ waiting = {} /\ woken = {}
        /\ ret = [l \in Lwps |-> TRUE]

Enter(l) == /\ entry = Nobody /\ l \notin active
            /\ entry' = l /\ active' = active \union {l}
            /\ UNCHANGED <<waiting, woken, ret>>

(* A caller becomes a waiter before its entry lock goes, or not at all.    *)
Wait(l) == /\ entry = l /\ l \notin waiting \union woken
           /\ waiting' = waiting \union {l}
           /\ UNCHANGED <<entry, active, woken, ret>>

Leave(l) == entry = l /\ entry' = Nobody /\ UNCHANGED <<active, waiting, woken, ret>>

Wakeup(S) == /\ S # {} /\ S \subseteq waiting
             /\ waiting' = waiting \ S /\ woken' = woken \union S
             /\ UNCHANGED <<entry, active, ret>>

Interrupt(l) == /\ l \in waiting /\ waiting' = waiting \ {l}
                /\ UNCHANGED <<entry, active, woken, ret>>

(* A wakeup is never consumed by a call that fails.                        *)
Return(l, r) == /\ l \in active \ waiting /\ entry # l
                /\ l \in woken => r
                /\ active' = active \ {l} /\ woken' = woken \ {l}
                /\ ret' = [ret EXCEPT ![l] = r]
                /\ UNCHANGED <<entry, waiting>>

Next ==
  \/ \E l \in Lwps : \/ Enter(l) \/ Wait(l) \/ Leave(l) \/ Interrupt(l)
                     \/ \E r \in BOOLEAN : Return(l, r)
  \/ \E S \in SUBSET waiting : Wakeup(S)

Spec == Init /\ [][Next]_vars

(* Whoever does not wait any more returns.                                 *)
FairSpec == Spec /\ \A l \in Lwps : WF_vars(\E r \in BOOLEAN : Return(l, r))
=============================================================================
