--------------------------- MODULE AbstractSeize ----------------------------
(***************************************************************************)
(* What seizing a process promises the agents that do it, without flags,   *)
(* counts, queues and events: while an agent has the process no LWP of it  *)
(* runs, and an agent that asks for the process gets it.                   *)
(***************************************************************************)
CONSTANTS Lwps, Agents, Nobody

VARIABLES running,   \* the LWPs of the process that are on a processor
          seizer,    \* the agent that has the process, or Nobody
          asking,    \* the agents that are in vm_seize()
          misled     \* who asks, or has the process, was told wrongly that it is stopped

vars == <<running, seizer, asking, misled>>

Init == running \in SUBSET Lwps /\ seizer = Nobody /\ asking = {} /\ misled = FALSE

(* An agent is misled only while it asks; one that has the process is not. *)
MayBeMisled == misled' \in {misled, misled \/ asking # {}}

Run(l) == /\ seizer = Nobody \/ misled
          /\ running' = running \union {l} /\ UNCHANGED <<seizer, asking, misled>>

Stop(l) == running' = running \ {l} /\ MayBeMisled /\ UNCHANGED <<seizer, asking>>

Mislead == MayBeMisled /\ UNCHANGED <<running, seizer, asking>>

Ask(s) == /\ seizer = Nobody /\ asking' = asking \union {s}
          /\ misled' = FALSE /\ UNCHANGED <<running, seizer>>

Seize(s) == /\ s \in asking /\ seizer = Nobody /\ misled' \in BOOLEAN
            /\ running = {} \/ misled'
            /\ seizer' = s /\ asking' = asking \ {s}
            /\ UNCHANGED running

Release(s) == seizer = s /\ seizer' = Nobody /\ UNCHANGED <<running, asking, misled>>

Next == \/ Mislead \/ \E l \in Lwps : Run(l) \/ Stop(l)
        \/ \E s \in Agents : Ask(s) \/ Seize(s) \/ Release(s)

Spec == Init /\ [][Next]_vars

(* Whoever asks gets it: LWPs that run are stopped for it.                 *)
Granted == \A s \in Agents : (s \in asking) ~> (seizer = s)
FairSpec == Spec /\ Granted
=============================================================================
