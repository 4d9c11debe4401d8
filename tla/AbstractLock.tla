---------------------------- MODULE AbstractLock ----------------------------
(***************************************************************************)
(* What a sleep lock promises its callers, without queues, spin locks or   *)
(* pending counts: at most one context holds it; a held lock may be        *)
(* disowned, and then any context may release it; and a free lock that     *)
(* somebody waits for is taken.                                            *)
(***************************************************************************)
CONSTANT Ctxs

VARIABLES holders,   \* the context that holds the lock, if any, as a set
          loose,     \* held by no context in particular
          waiting    \* the callers that have to get it

vars == <<holders, loose, waiting>>

Init == holders = {} /\ loose = FALSE /\ waiting = {}

Free == holders = {} /\ ~loose

Request(c) == waiting' = waiting \union {c} /\ UNCHANGED <<holders, loose>>

GiveUp(c) == waiting' = waiting \ {c} /\ UNCHANGED <<holders, loose>>

Acquire(c) == /\ Free
              /\ holders' = {c} /\ waiting' = waiting \ {c}
              /\ UNCHANGED loose

AcquireLoose == Free /\ loose' = TRUE /\ UNCHANGED <<holders, waiting>>

Disown(c) == holders = {c} /\ holders' = {} /\ loose' = TRUE /\ UNCHANGED waiting

Adopt(c) == loose /\ loose' = FALSE /\ holders' = {c} /\ UNCHANGED waiting

Release(c) == holders = {c} /\ holders' = {} /\ UNCHANGED <<loose, waiting>>

Next == AcquireLoose \/ \E c \in Ctxs :
  Request(c) \/ GiveUp(c) \/ Acquire(c) \/ Disown(c) \/ Adopt(c) \/ Release(c)

Spec == Init /\ [][Next]_vars

(* A lock that is free and waited for goes to some context: not to each    *)
(* one in turn, for a newcomer may overtake the sleepers.                  *)
Grant == waiting # {} /\ \E c \in Ctxs : Acquire(c)
FairSpec == Spec /\ WF_vars(Grant)
=============================================================================
