--------------------------- MODULE AbstractRwLock ---------------------------
(***************************************************************************)
(* What a reader-writer sleep lock promises its callers, without modes,    *)
(* counts, queues and spin locks: many readers or one writer, and a free   *)
(* lock that somebody waits for is taken.                                  *)
(***************************************************************************)
CONSTANT Ctxs

VARIABLES readers, writers,   \* the contexts that hold the lock
          waiting             \* the callers that have to get it

vars == <<readers, writers, waiting>>

Init == readers = {} /\ writers = {} /\ waiting = {}

Free == readers = {} /\ writers = {}

Request(c) == waiting' = waiting \union {c} /\ UNCHANGED <<readers, writers>>

EnterRead(c) == /\ writers = {} /\ c \notin readers
                /\ readers' = readers \union {c} /\ waiting' = waiting \ {c}
                /\ UNCHANGED writers

EnterWrite(c) == /\ Free
                 /\ writers' = {c} /\ waiting' = waiting \ {c}
                 /\ UNCHANGED readers

Leave(c) == /\ c \in readers \union writers
            /\ readers' = readers \ {c} /\ writers' = writers \ {c}
            /\ UNCHANGED waiting

Next == \E c \in Ctxs : Request(c) \/ EnterRead(c) \/ EnterWrite(c) \/ Leave(c)

Spec == Init /\ [][Next]_vars

(* A lock that is free and waited for goes to some context: not to each    *)
(* one in turn, for a newcomer may overtake the sleepers.                  *)
Grant == Free /\ waiting # {} /\ \E c \in Ctxs : EnterRead(c) \/ EnterWrite(c)
FairSpec == Spec /\ WF_vars(Grant)
=============================================================================
