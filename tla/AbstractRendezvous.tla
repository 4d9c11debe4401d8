-------------------------- MODULE AbstractRendezvous -------------------------
(***************************************************************************)
(* What stopping the other LWPs of a process promises, without requests,   *)
(* counts and sleeps: an LWP that has the process at rest is the only one  *)
(* that runs until it lets go; whoever asks for that gets it or is told    *)
(* that it cannot; and a process that is to end ends.                      *)
(***************************************************************************)
CONSTANT Lwps

VARIABLES lwps,     \* the LWPs of the process
          running,  \* those that are not blocked for another one
          holders,  \* the LWP that has the process at rest, if there is one
          asking,   \* the LWPs that wait to have it
          doomed,   \* the whole process is to end
          upset     \* something went wrong: nothing more is promised to who waits

vars == <<lwps, running, holders, asking, doomed, upset>>

Init == /\ lwps \in SUBSET Lwps /\ running = lwps
        /\ holders = {} /\ asking = {} /\ doomed = FALSE /\ upset = FALSE

AtRest == holders # {}
MayGoWrong == upset' \in {upset, TRUE}

(* LWPs come, go, block and are woken while nobody has the process.        *)
Run == /\ ~AtRest
       /\ lwps' \in SUBSET Lwps /\ running' \in SUBSET lwps' /\ asking' \in SUBSET lwps'
       /\ MayGoWrong /\ UNCHANGED <<holders, doomed>>

(* Only while no LWP has the process may it be given its last task.        *)
Doom == ~AtRest /\ doomed' = TRUE /\ running' \in SUBSET lwps /\ asking' \in SUBSET lwps
        /\ MayGoWrong /\ UNCHANGED <<lwps, holders>>

Hold(l) == /\ ~AtRest /\ holders' = {l}
           /\ running' = {l} /\ asking' = asking \ {l}
           /\ UNCHANGED <<lwps, doomed, upset>>

Release(l) == /\ holders = {l} /\ holders' = {}
              /\ running' \in SUBSET lwps
              /\ UNCHANGED <<lwps, asking, doomed, upset>>

Next == Run \/ Doom \/ \E l \in lwps : Hold(l) \/ Release(l)

Spec == Init /\ [][Next]_vars

Answered == \A l \in Lwps : (l \in asking) ~> (l \notin asking \/ upset)
Ends == doomed ~> (lwps = {} \/ upset)
FairSpec == Spec /\ Answered /\ Ends
=============================================================================
