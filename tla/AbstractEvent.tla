---------------------------- MODULE AbstractEvent ----------------------------
(***************************************************************************)
(* What an event promises its callers, without counts, queues and LWP      *)
(* states: an event signalled while nobody is blocked is posted, and       *)
(* stays so until it is consumed or cleared; one signalled while somebody  *)
(* is blocked is given to a blocked caller.  An event that was given is    *)
(* answered with B_TRUE, and nothing else is that.                         *)
(***************************************************************************)
CONSTANT Lwps

VARIABLES posted,    \* an event is posted
          looking,   \* callers that have not got an event yet, and do not block
          blocked,   \* callers that block
          given,     \* callers that have been given an event
          ret        \* ret[l]: what l's last call returned

vars == <<posted, looking, blocked, given, ret>>

Init == /\ posted = FALSE /\ looking = {} /\ blocked = {} /\ given = {}
        /\ ret = [l \in Lwps |-> TRUE]

Start(l) == /\ l \notin looking \union blocked \union given
            /\ looking' = looking \union {l}
            /\ UNCHANGED <<posted, blocked, given, ret>>

Post == blocked = {} /\ posted' = TRUE /\ UNCHANGED <<looking, blocked, given, ret>>

(* Signalled with callers blocked: to one of them, broadcast to all.       *)
Give(S) == /\ S \subseteq blocked
           /\ blocked' = blocked \ S /\ given' = given \union S
           /\ UNCHANGED <<posted, looking, ret>>

Clear == blocked = {} /\ posted' = FALSE /\ UNCHANGED <<looking, blocked, given, ret>>

Consume(l) == /\ posted /\ l \in looking
              /\ posted' = FALSE
              /\ looking' = looking \ {l} /\ given' = given \union {l}
              /\ UNCHANGED <<blocked, ret>>

(* The event is consumed and answered for at once.                         *)
TakeAndReturn(l) == /\ posted /\ l \in looking
                    /\ posted' = FALSE /\ looking' = looking \ {l}
                    /\ ret' = [ret EXCEPT ![l] = TRUE]
                    /\ UNCHANGED <<blocked, given>>

Block(l) == /\ ~posted /\ l \in looking
            /\ looking' = looking \ {l} /\ blocked' = blocked \union {l}
            /\ UNCHANGED <<posted, given, ret>>

Interrupt(l) == /\ l \in blocked
                /\ blocked' = blocked \ {l} /\ looking' = looking \union {l}
                /\ UNCHANGED <<posted, given, ret>>

Fail(l) == /\ l \in looking
           /\ looking' = looking \ {l} /\ ret' = [ret EXCEPT ![l] = FALSE]
           /\ UNCHANGED <<posted, blocked, given>>

Succeed(l) == /\ l \in given
              /\ given' = given \ {l} /\ ret' = [ret EXCEPT ![l] = TRUE]
              /\ UNCHANGED <<posted, looking, blocked>>

Decide(l) == Consume(l) \/ TakeAndReturn(l) \/ Block(l) \/ Fail(l)

Next ==
  \/ Post \/ Clear \/ \E S \in SUBSET blocked : Give(S)
  \/ \E l \in Lwps : Start(l) \/ Decide(l) \/ Interrupt(l) \/ Succeed(l)

Spec == Init /\ [][Next]_vars

FairSpec == Spec /\ \A l \in Lwps : WF_vars(Decide(l)) /\ WF_vars(Succeed(l))
=============================================================================
