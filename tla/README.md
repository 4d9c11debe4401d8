# The kernel synchronization primitives of UnixWare 2: TLA+ models, checks and proofs

This directory holds a verification development for the blocking
synchronization of the UnixWare 2 kernel (`src/usr/src/common/uts`,
`src/usr/src/i386/uts`): TLA+ modules translated from the C source, TLC
configurations that check them on small instances, and theorems about them
checked by TLAPS. `PROJECT.json` relates every definition to the lines it
stands for, lists the runs, the hazards they are for, the disagreements found
between the code and its comments, and the theorems.

Contents: [1. inventory](#1-the-system) · [2. modules](#2-modules) ·
[3. steps and abstraction](#3-steps-atomicity-and-what-is-abstracted) ·
[4. runs](#4-runs) · [5. fairness](#5-fairness) ·
[6. disagreements](#6-disagreements-between-the-code-and-its-comments) ·
[7. proofs](#7-proofs) · [8. limits](#8-what-is-only-model-checked-what-is-not-modelled) ·
[9. plan](#9-plan)

## 1. The system

The repository is a whole operating system: a kernel (`common/uts`, `i386/uts`),
its commands and libraries, and a window system. What is peculiar to this
kernel, and what everything else in it stands on, is that it is preemptive and
multiprocessor, with several LWPs in a process. Its own core logic is how LWPs
block, are woken, are signalled, and are gathered or destroyed as a process.
The inventory goes from there outwards; the complete list with the status of
each part is in `PROJECT.json` under `components`.

| Component | State | Operations | Interacts with | What is hard | What makes it correct |
|---|---|---|---|---|---|
| Spin locks (`locks.s`, `fspins.s`, `rwlocks.s`) | one byte each | exchange | everything | assembly | mutual exclusion by the exchange |
| LWP sleep state (`lwp.h`, `setrun.c`, `trapevt.c`, `disp.c`) | `l_mutex`, `l_stat`, `l_flag`, `l_trapevf`, `l_stype`, `l_syncp` | block and `swtch()`, wake, nudge by a signal, resume | every primitive, signals | who dequeues a sleeper; the order "queue, release the lock, switch out" | a sleeper has exactly one party that will wake it |
| Sleep lock (`sleep.c`, `ksynch.h`) | `sl_avail`, `sl_fspin`, `sl_list`, `sl_pend`, `sl_fixpend`, `sl_pid` | lock, rellock, lock_sig, trylock, private, disown, unlock | LWP state, `p_niblked`, SIGWAITING | lock-free fast paths, two-step unlock, accounts of pending wakeups, signals | exclusion, true owner, no lost wakeup, balanced accounts |
| Reader-writer sleep lock (`rwsleep.c`) | `rw_avail`, `rw_fspin`, `rw_mode`, `rw_read`, `rw_pend`, `rw_list` | rdlock, wrlock, their rellock and try forms, unlock | LWP state | who is the last reader is decided without the spin lock | exclusion, exact reader count, no lost wakeup |
| Synchronization variable (`sv.c`) | `sv_lock`, `sv_list` | wait, wait_sig, signal, broadcast, unsleep | the caller's entry lock, signals | signal against wakeup, SIGWAITING with the locks dropped | a wakeup given is never lost or consumed by a failed call |
| Event (`event.c`) | `ev_lock`, `ev_state`, `ev_list` | wait, wait_sig, signal, broadcast, clear, unsleep | signals | one counter is flag and queue length at once | the counter is right; an event is consumed once |
| Signals (`sig.c`) | `p_sigs`, `l_sigs`, masks, `p_sigwait`, `p_niblked` | `sigtolwp`, `sigtoproc`, `issig`, `psig`, `stop` | all interruptible waits | posting against blocking | nobody sleeps interruptibly on a pending signal |
| Process seize (`seize.c`) | `P_SEIZE`, `p_nseized`, `p_seized`, `p_wait2seize` | `vm_seize`, `vm_unseize`, `become_seized` | dispatcher, events, `newlwp`, `lwp_exit`, `exit` | a barrier with LWPs that are dispatched, wake, are created and exit meanwhile | all LWPs are off the processors while the swapper works; none is left behind |
| Rendezvous, destroy (`rendez.c`), LWP exit (`lwpscalls.c`) | `p_nrendezvoused`, `p_nlwp`, trap event flags | `rendezvous`, `release_rendezvous`, `destroy_proc`, `lwp_exit` | signals, `/proc`, synchronization variables | several initiators at once | one initiator wins; nobody is left behind |
| User-level queues (`usync.c`) | `sq_t`, `l_sq` | prepblock, block, unblock, cancelblock | callouts, signals, user memory | timeout against wakeup against signal | no lost wakeup, balanced references |
| Dispatcher (`disp.c`, `class/ts.c`) | run queues | `swtch`, `preempt` | all | load balancing, priorities | runs a runnable LWP |
| Buffer cache, name cache, record locks, System V IPC | lists under locks | | sleep locks, synchronization variables | hand-over while asleep | |
| VM, file systems, STREAMS, drivers, networks | | | | I/O and MMU | not modelled |
| Commands, libraries, X11 | | | | outside the kernel | not modelled |

The interaction the models are about is this one. A primitive's sleep queue is
protected by its own spin lock; an LWP's state is protected by the LWP's
`l_mutex`. An LWP that blocks takes `l_mutex`, then the primitive's lock, queues
itself, drops the primitive's lock, and hands `l_mutex` to `swtch()`, which
releases it when the context is saved. A waker takes LWPs off the queue under
the primitive's lock, drops it, and then takes each LWP's `l_mutex` to make it
runnable. A poster of a signal starts from the other side: it has the LWP's
`l_mutex` and asks the primitive to take the LWP off its queue. Whoever takes it
off is the one to make it runnable.

## 2. Modules

| Module | Of | What it is |
|---|---|---|
| `LwpState` | `lwp.h`, `setrun.c`, `trapevt.c`, `ksynch.c` | the four ways the state of an LWP changes, as operators (`Block`, `Wakeup`, `PostSignal`/`FinishNudge`, `Resume`, `Issig`); the primitives EXTEND it |
| `ProcState` | `sig.c`, `p_niblked` | the interruptible sleepers of a process and SIGWAITING; EXTENDS `LwpState` |
| `SleepLock` | `sleep.c` | the sleep lock; EXTENDS `ProcState` |
| `AbstractLock` | | what a sleep lock promises |
| `RwSleep` | `rwsleep.c` | the reader-writer sleep lock; EXTENDS `LwpState` |
| `AbstractRwLock` | | what it promises |
| `SyncVar` | `sv.c` | the synchronization variable; EXTENDS `ProcState` |
| `AbstractCondVar` | | what it promises |
| `Event` | `event.c` | the event; EXTENDS `ProcState` |
| `AbstractEvent` | | what it promises |
| `Seize` | `seize.c`, the seize flag in `disp.c`, `ts.c`, `lwpscalls.c`, `exit.c` | the barrier that takes a process off the processors |
| `AbstractSeize` | | what it promises |
| `Rendezvous` | `rendez.c`, and what gives in to it in `sig.c`, `trapevt.c`, `lwpscalls.c`, `fork.c`, `exec.c`, `exit.c`, `core.c` | the LWPs of a process that stop or destroy each other |
| `AbstractRendezvous` | | what it promises |
| `MCSleepLock`, `MCRwSleep`, `MCSyncVar`, `MCEvent`, `MCRendezvous` | | instances for TLC: the assignment of LWPs to processes, symmetry, a constraint |
| `SleepQueue_proofs` | | lemmas on sleep queues, wakeup chains and counters; the other proof modules of the primitives EXTEND it |
| `SleepLock_proofs`, `SleepLockWakeups_proofs` | | theorems about `SleepLock`: types, ownership, refinement; wakeups and accounts |
| `RwSleep_proofs`, `SyncVar_proofs`, `Event_proofs`, `Seize_proofs`, `Rendezvous_proofs` | | theorems about each |

State and actions correspond to the code as follows. A variable has the name of
the field it stands for (`slPend` is `sl_pend`, `evState` is `ev_state`); an
array indexed by LWP or context is a field of the LWP (`lStat`, `lFlag`) or a
local variable of the call it is in (`nsleeps`, `chain`, `swappedin`). `pc[c]`
is where context `c` is; its values are grouped (`Acquiring`, `Acquired`,
`Releasing`, `Released`) by what the context has of the lock. There is one action
per step of the code, named for what it does, and the formula `Locking`,
`LockingSig`, `Unlocking`, `Waiting` tells which entry point it belongs to. An
entry point that shares a stretch of code with another shares the actions, and
`op[l]` says which of them the LWP is in. Three variables of `SleepLock` are notes that no
action reads or, for the last, goes beyond. `failed` has the ASSERTs that were false: the step
goes on, as in a kernel without DEBUG. `recounted[p]` counts the retries of `sleep.c:659-663`,
which go to `acquire` without `l_mutex` and are counted in `p_niblked` there once more. `wild`
is set when such an LWP, which goes to sleep without `l_mutex`, is put on a run queue while it
still runs (`WakeTooEarly`): what a processor then does with it is not in the model, which
stops. What an UNLOCK of an `l_mutex` that is not held does to the preemption count of the
processor is left out too.

`Seize` is about the other side of the dispatcher: an LWP is on a processor, on a
run queue, asleep, or runnable and nowhere, which only a seized LWP may be. `Agents`
are the LWPs of the system that age and swap the process (`vm_sched.c`, `vm_as.c`);
all callers of `vm_seize()` are such agents, and test P_SEIZE and P_NOSEIZE under
`p_mutex` before they call it (`CANTSHRED` and its like), which is the guard of
`VmSeize`. The actions are the sections of `vm_seize()` and `vm_unseize()`, one for
each LWP in their loops, the ways of an LWP on and off a processor, and those parts of
`newlwp()`, `lwp_exit()` and `exit()` that change what the barrier counts. An LWP that
has reported and is the last leaves its processor behind on its private stack
(`posting`), from where `swtch_seized()` posts the event, with no lock: sooner or later, also
when the seize that it is for is long over (`late`, which counts those left from before the last
`vm_seize()` began). So there are as many such posts outstanding as there are processors that do
not run anything else, `Cpus` in all. `misled` is a history variable, which no action reads: it
is set when an agent in `vm_seize()` is told that all is done by such a late post, or by a report
that came between the two increments of `newlwp()`, and reset when the next `vm_seize()` begins
and by an agent that compares the counts itself.

`Rendezvous` is about the requests that the LWPs of one process make of each other. A set
has the name of the flag in `l_trapevf` it stands for (`rendezv` are the LWPs with
EVF_PL_RENDEZV, `jobstop` those with EVF_PL_JOBSTOP), `list` is the list of LWPs, whose
length is `p_nlwp`, and `pc` tells on which of the synchronization variables of the
process an LWP sleeps (`rvwait`: `p_rendezvous`; `rendezvoused`, `exrendezvoused`:
`p_rendezvoused`, in `psig()` and in `lwp_exit()`; `dwait`: `p_destroy`) or that it is stopped.
An LWP at `user` runs its program, one at `trap` is on its way out of the kernel, where
`issig()`, `psig()` and `stop()` deal with whatever is pending, as often as there is something.
`stasis` is the time between `rendezvous()` and `release_rendezvous()`, in which
`forkall()` copies the process and `core()` writes it. A value of `Panics` is a
`cmn_err(CE_PANIC)` of the code, DEBUG or not; an LWP stays there. `mishaps` is a history
variable, which no action reads. It notes three things that the code does and is not prepared
for (section 6): "own", an LWP with a request to rendezvous aborts the rendezvous and keeps its
request; "core", `core()` gives up with all others asked; "test", `destroy_proc()` takes a
rendezvous for complete that was not, by counts that it reads one after the other without
`p_mutex`. Everything that follows from them is in the model.

`Intrs` are contexts that are not LWPs: interrupt handlers, which signal
synchronization variables and events and unlock disowned locks, and posters of
Unix signals.

## 3. Steps, atomicity, and what is abstracted

A step is what one context does between two points where another context can
see or change what it works on.

* `sl_avail && sleep_take(lockp)` ends in one exchange and is one step. The
  failing test and the failing exchange have the same effect.
* Where a value is read without the lock that protects it (the two tests of
  `sleep_unlock`, the tests of the last reader, `rw_mode` before joining, the
  peek of `ev_state`), each read is a step of its own, in the order of the code.
* A section under `ev_lock` or `sv_lock` is one step: these queues are only
  looked at under their locks, and a holder takes no other lock. `sl_fspin` and
  `rw_fspin` are different, because other contexts test whether they are held;
  taking them is a step of its own.
* LOCK(`l_mutex`), LWP_WAKEUP, UNLOCK is one step that needs `l_mutex` free.
* Steps merged because nobody can tell: taking the lock and settling
  `sl_pend` (only the holder changes `sl_pend`, except `sleep_dequeue`, whose
  caller is the holder); `FSPIN_LOCK` and `++rw_read`; a failed join's decrement and
  unlock; the release of the entry lock and going to sleep (`l_mutex` is held
  throughout, and the entry lock is free only when the LWP is queued); the
  stores of BUSY and of "available", the first of which nobody reads while the
  lock is held.
* The models are of the kernel without DEBUG: an ASSERT is a property, or is noted by the step
  it stands in, and the code goes on when it is false.
* In `Seize` a section under an LWP's `l_mutex` is one step; only `vm_seize()`, which
  looks at `l_stat` and then takes the lock of the run queue, has two, and an LWP
  whose `l_mutex` it holds (`cur`) can be dispatched but not switched out. A section under
  `p_mutex` is several steps where LWPs that report, without `p_mutex`, can tell.
* In `Rendezvous` everything is done under `p_mutex`, and what is between LOCK and UNLOCK, or
  the SV_WAIT that releases it, is one step; the test of `destroy_proc()` without `p_mutex` is
  two. The signal itself is not modelled: that `issig()` finds a signal that kills, dumps
  core or stops is a choice at any time on the way out of a trap.
* The memory is sequentially consistent, as the code assumes of the i386
  (`volatile`, and `xchgb`, which is locked).

Abstracted: statistics (`lks_*`), lock testing (`_LOCKTEST`), allocation, sleep
priorities (a queue is FIFO, in the order of `CL_INSQUE` for equal priorities;
an LWP that sleeps again goes to the front, as in the code), the identity
`sl_pid`/`sl_lwpid` as one value, run queues, and the reason of a signal.
Whether an LWP is swapped out when a waker looks at it (`LWP_LOADED`) is a free
choice at each look. The byte `sl_fixpend` keeps its width (`% 256`); `sl_pend`,
`rw_read`, `rw_pend` and `ev_state` are `short`s that count LWPs, of which the
kernel cannot have as many, and are integers. `EVENT_CLEAR` is enabled only with
nobody blocked, which is its documented contract ("active event structure being
cleared" panics under `_LOCKTEST`). `issig()` returns any of its three results; it
returns ISSIG_SIGNALLED if SIGWAITING, which is caught, is pending.

## 4. Runs

| Run | Instance | Shows |
|---|---|---|
| `sl_lock` | 3 LWPs, 1 interrupt context, 3 calls, no signals, fair | exclusion, owner, no late unlocker, accounts, no ASSERT fails; implements the fair abstract lock |
| `sl_sig` | 3 LWPs of one process, 3 calls, 1 signal, SIGWAITING, exit | under signals too: one waker for each sleeper, `p_niblked` is exact but for one for each retry of `sleep.c:659-663` (exclusion and ownership are theorems for this case) |
| `sl_sig_live` | 2 LWPs, 3 calls, 2 signals, no SIGWAITING, fair | a signal and a wakeup at the same sleeper lose neither: nobody is stranded at a free lock, every call returns, unless an LWP that sleeps without `l_mutex` is made runnable too early (`wild`) |
| `rw_lock` | 3 LWPs, 3 calls, read with an entry lock, write, both try forms, fair | exclusion, counts, mode, rule for `rw_pend`, nobody stranded at a free lock; implements the fair abstract lock |
| `sv_wait` | 2 LWPs, 2 interrupt contexts, 2 signals, SIGWAITING, fair | `p_niblked`, no deaf sleeper; implements the abstract condition variable |
| `ev_wait` | the same | `ev_state` is the count of the queue, and as `sv_wait`; implements the abstract event |
| `sz_seize` | up to 4 LWPs, 2 processors, 2 agents, fair | a seized process is stopped unless its agent was misled, `p_nseized` is exact, nobody is left behind, no report of a complete barrier is lost; implements the abstract seize: every `vm_seize` returns |
| `rv_all` | up to 3 LWPs | a process at rest is at rest, `p_nrendezvoused` is exact, only `destroy_proc()` may panic, and only after a mishap; unless one has happened, nobody is held for nobody or waits in vain, and suspended LWPs stay out |
| `rv_live` | up to 3 LWPs, fair | implements the abstract rendezvous: every request is answered, every process that is to end ends; every `exit()` and `exec()` ends; or a mishap has happened |
| `sl_sig_mutex`, `rw_ipl`, `rv_core` | the smallest that shows it | section 6 |

Bounds. `MaxCalls` bounds the calls of the lock models because an LWP may call
again and again and `nsleeps` and `sl_pend` grow with every sleep; `MaxSigs` bounds
posted signals, since an unbounded stream of them could keep an LWP in `issig()`
for ever. Both are counters in the guards of `Call`, `LockPrivate` and `Post`.
In `SyncVar` and `Event` nothing grows and calls are unbounded. Three LWPs are
needed for each hard case of the locks: one that unlocks, one that is going to
sleep, and one that barges in; or two readers that leave and one that joins.
Three calls are one for each of them, or let one LWP come back while another is
not through. Two LWPs are enough for a synchronization
variable or an event, where the question is the race of a sleeper with a waker
and a poster, which are the two interrupt contexts: two sleepers make a chain
that is walked by one waker while a second one, or a poster, is about. LWPs are symmetric where liveness is not checked
and all of them are in one process or each in its own.

In `Seize` nothing grows either. Four LWPs are one that creates, one that exits, one that is
dispatched and one that reports; the process starts with one and all others
are created and may exit, down to the last, which ends the process. Two agents
compete for the next seize. Two processors are enough for a report that is late,
while the other processor reports or runs what has to be stopped, and for two that are late together. No agent is kept from starting while a post is
outstanding, and no LWP from reporting within `newlwp()`. `SeizedMeansStopped` says of an agent that has the process either
that all LWPs are stopped or that one of these two has misled it, since nothing else may; without
`~misled` it is violated (section 6).

In `Rendezvous` nothing grows and calls are unbounded. The process starts with two LWPs and
may have a third: one that asks, one that is asked, and one that is created, exits, is
suspended, stopped or killed meanwhile, or asks for something itself. Exited LWPs leave
their slot to new ones. The properties are of three kinds. Some hold of every behaviour (`StasisMeansStopped`,
`RendezvousedCount`, `OnlyDestroyMayPanic`). `PanicsHaveACause` names the mishaps without which there is no
panic. The others hold up to the mishap that each one names, however the rest races; without that
condition each of them is violated. With three LWPs "test" comes only
after "own"; alone it takes four, which is beyond TLC but not beyond the theorems. `rv_live` looks no
further than the first mishap (`CONSTRAINT UntilUpset`), with which all that its properties promise to
those who wait is over; this loses no counterexample, as what they say of single steps is proved for all
behaviours. `rv_all` goes on after mishaps, and is reduced by symmetry: no action and no invariant tells
one slot from another.

`sl_sig` says CHECK_DEADLOCK FALSE: by disagreement D below sleepers can really be left on
a free lock with nobody to wake them. The runs of `Rendezvous` say it because a process
ends: without LWPs there is no step, and a panic is the end too.

Properties checked with TLC that relate several parts of the state:
`PendAccounting` (the sum of what each caller has to settle is `sl_pend` less its
correction), `ReadersCounted`, `PendRule` (an action property: the comment at
`rw_pend` in `ksynch.h`), `OneWaker`, `StasisMeansStopped` (the requests, the counts and the places of all LWPs), `NoLateUnlocker` (a lock that
is reported free may be deallocated), `SleeperHearsSignals`, `NobodyStranded` (a free lock,
its queue, and where everybody is in the double tests), `NoReportLost` (two counts, the agent
that waits, and who is about to post), `NobodyWaitsInVain` (for each LWP that waits, the
requests, the count and the places of all that it waits for). The last three say without fairness what the liveness
properties rest on: there is always somebody whose next steps will serve the one that
waits, so a wakeup that is lost shows as a state. Refinements are
checked as properties of the detailed specification with the mapping at the end
of its module.

## 5. Fairness

`FairSpec` is weak fairness of `Step(c)` for every context. A context that is
inside a call goes on: spin locks are held for a bounded time with interrupts
masked, `swtch()` runs a runnable LWP (the dispatcher is not modelled, and starving
priorities are not a matter of these primitives), a holder of a sleep lock
unlocks. No fairness is assumed of what is a choice of the environment: to make a
call, to disown, to signal a synchronization variable, to post a signal. Hence
no run claims that a waiter on a synchronization variable or an event is ever
signalled: the abstract specifications only promise that one that was returns.
`Seize` assumes less, one condition (`Urgent`): while there is a section under a spin lock
or `p_mutex` to end, a post to be made, an LWP with the seize flag on a processor to be preempted
(`kpnudge`), or a step to be made by an agent inside `vm_seize()` or `vm_unseize()`, some of these
is done. It does not assume that an LWP is ever dispatched or woken, or that an agent lets go of
a process it has.
`Rendezvous` assumes that an LWP that is in the kernel and not blocked goes on, including
the time in which it has the process at rest, and that one with a trap event pending traps
(`trapevnudge()` interrupts its processor). Nothing is assumed of signals, of SIGCONT, of
`_lwp_continue()` and of what the program calls; a stopped LWP may stay stopped, and
everybody else is answered nevertheless.
Weak fairness of a whole context is enough since a context has at most one
enabled step, choices of data apart. Nor is there a claim that a given LWP gets
a lock under unbounded competition: a newcomer may overtake sleepers (the code
lets it, by its fast path), so the abstract locks promise that a free lock that
is waited for goes to somebody, and `EveryCallReturns` is a statement about
finitely many calls, where overtaking ends.

## 6. Disagreements between the code and its comments

Each of A to C is a run that TLC must find violated, with one property that says what the
code or its comment claims. The models take all of A to H as the code does them, and go on.

* **A, `sl_sig_mutex`.** `sleep_lock_sig` goes back to `acquire` with `l_mutex`
  dropped (`sleep.c:661-663`); `acquire` asserts that it is held (`sleep.c:558`). Without DEBUG it
  raises `p_niblked` a second time, for good: `NiblkedBalanced` of `sl_sig`, with 0 in place of
  `recounted[p]`, is violated.
* **B, `rw_ipl`.** One path of `rwsleep_wrlock_rellock` drops to PLBASE with the
  entry lock held (`rwsleep.c:887`).
* **C, `rv_core`.** `core()` returns at once when the image is not the user's own
  (`core.c:65-66`), although `issig()` has asked all other LWPs to rendezvous for it. Nobody
  releases them: the `exit()` that follows panics when all have come ("Illegal call to
  destroy_proc() while in rendezvous", for LWPs "held in rendezvous by the kernel rendezvous()
  primitive", `rendez.c:411-414`), or waits for ever, if it came first: `NobodyWaitsInVain` without
  the condition on "core" is violated too.

The others can be seen by a change of a property or a configuration.

* **D.** The LWP that was woken to take a sleep lock sends SIGWAITING, takes the signal
  itself and returns B_FALSE. The comment calls the race harmless (`sleep.c:577-579`); the
  lock stays free with an LWP asleep on it. `NobodyStranded` with the constants of `sl_sig`.
* **E.** A sleep that a signal ended, and that is continued, is counted in `nsleeps` but
  never was in `sl_pend`; the ASSERT `sl_pend >= nsleeps` (`sleep.c:644`) fails.
  `AssertsHold` with the constants of `sl_sig_live`.
* **F.** `swtch_seized()` posts `p_seized` when all locks are released (`disp.c:1742`). If
  the seize was completed without it, by the optimistic test, the post may come after the
  EVENT_CLEAR of the next `vm_seize()`, which "was not prematurely awakened"
  (`seize.c:229-232`) all the same: it returns while LWPs run. So it does when an LWP reports
  between the increments of `p_nseized` and of `p_nlwp` in `newlwp()` (`lwpscalls.c:255`, `275`),
  which `become_seized()` compares without `p_mutex`. `SeizedMeansStopped` without `~misled`.
* **G.** `abort_rendezvous()` clears the request of all LWPs but its caller
  (`rendez.c:746-754`). A caller that was asked itself, stops for job control, dies by a
  signal without a core image or calls `exec()`, goes on to rendezvous for a request that has been aborted.
  `RendezvousIsForSomebody` without the condition on "own"; so are `SuspendedStaysOut`, since an LWP
  that was made to run for the request goes back to the program still suspended,
  and `NobodyWaitsInVain`; and it is a cause of panic.
* **H.** `destroy_proc()` reads `p_nrendezvoused`, then `p_nlwp`, without `p_mutex`
  (`rendez.c:408-409`) and panics if the first is that of a rendezvous that the second no
  longer belongs to. With four LWPs and no other mishap: two exit after a `forkall()` was
  aborted, between the two reads of a third.

Not visible in a model, but met on the way: `trapevnudge()` makes a suspended LWP run and
lowers `p_nstopped` (`trapevt.c:86-87`), and `_lwp_continue()`, for an LWP that is still out
for its rendezvous, lowers it again, since `l_whystop` still is PR_SUSPENDED
(`lwpscalls.c:1225-1227`). After a wakeup `sleep_lock_sig` skips the test for pending signals
(`sleep.c:772-773`) and may sleep interruptibly with one pending; a call that slept
and is then signalled leaves `sl_fixpend` to be folded in later, and until then an
idle lock answers SLEEP_LOCKBLKD with true (`sleep.c:741`); `l_stype` is read twice by
the dequeuer and written by the sleeper outside the lock (`rwsleep.c:1223`, `1237`,
`786`), so that `ASSERT(!swappedin)` can fail.

## 7. Proofs

Every safety invariant and action property that a passing run checks is a theorem, and each
component is proved to implement its abstract specification, fairness apart. The theorems
hold for every value of the constants that satisfies the named assumptions in the modules: LWPs
and interrupt contexts (or agents) are disjoint, `Nobody`, `NOPID` and `SL_BUSY` are none of
them, and where something counts LWPs there are finitely many (those of a process, or all of
`Lwps`). No bound on their number, on calls or on signals is used. Three theorems assume
more, in their statement: `"lock_sig" \notin Ops` (no sleep that a signal may end) in `WakeupsAreCounted` and
`AssertsAreTrue`, and `WaitProcs = {}` (no SIGWAITING) in `NobodyIsStranded` of the sleep lock. Each time the property is
false without that, by one of the disagreements of section 6, and that is said below. All others hold of every behaviour
of the model; where the code breaks what one would like to say, the property names the event that breaks it. The type
invariant of every module is a theorem too, and so is `OneDestroyer`; no run checks those.
Strengthened invariants were checked with TLC on small instances before they were proved.

**Sleep queues** (`SleepQueue_proofs`). What the four primitives have in common is proved once,
about operators that take the queue, the chains and the control points as parameters. `Keeps`:
each sleeper is on the queue or on one waker's chain, once, and nobody else is. `Attended`: with
that, who holds whose `l_mutex` between queueing and sleeping, and while a poster takes a
sleeper off. There is one lemma per thing that happens: queued, slept, taken, head taken, woken,
posted, unslept, resumed. `CountsOf`: a counter per process is the size of a set of LWPs of the
process. `Units`: the sum of what several callers owe, as the size of the set of pairs of a
caller and a number up to what it owes, so that the library's facts on `Cardinality` apply;
`PendAccounting` of both locks is stated in this form.

**Sleep lock, the holder** (`SleepLock_proofs`).

* `TypeCorrect`: `Spec => []TypeOK`. The invariant is `TypeOK` with `ChainInv`, that a context at
  `d_wake` walks a non-empty chain: without it `Head(chain[c])` need not be an LWP.
* `OwnershipInvariant`, `Exclusion`, `OwnerIsTrue`, `NoUnlockerIsLate`, `OwnerAssertions`.
  `MutualExclusion` and `TrueOwner` are not inductive: that the late store of NOPID hits nobody
  depends on the marks SL_BUSY and on who is where. `OwnInv` says: at most one context is in
  `Acquired` or `Releasing`, none while the lock is disowned, and `sl_avail` is exactly the
  absence of both; a context that has released the lock and has NOPID still to store is alone
  in that, and `sl_pid` is SL_BUSY as long as it is there; a holder that has recorded
  itself is `sl_pid`, and whom `sl_pid` names has recorded itself and not released. Every
  action either leaves the class of its context, the owner and `sl_avail` alone (one lemma
  serves all of these) or is one of the few that take, record, mark, release or erase.
* `Refinement`: `Spec => ImplementsLock`. A step of the code is a step of `AbstractLock` or a
  stutter, one lemma per group of actions, with the invariants above.

**Sleep lock, the wakeups** (`SleepLockWakeups_proofs`).

* `SleeperHasOneWaker`: `WakeInv` is `Keeps` and who holds which `l_mutex`. A signal that takes a sleeper
  off the queue and the wakeup of an unlocker never both reach it, and neither leaves it
  with nobody to wake it.
* `OnlyRetriesStayCounted`: `p_niblked` counts the callers of `sleep_lock_sig` between their
  increment and the way out they take, and `recounted` of them that took no way out but the retry
  of `sleep.c:659-663` and were counted again (`NibInv`: `p_niblked` less `recounted` is the size of the
  set of callers on their way). Nothing else is left in the count, and an LWP that goes on without
  its `l_mutex` disturbs no other account.
* `WakeupsAreCounted` and `AssertsAreTrue`, for calls without `lock_sig`: `sl_pend` is the
  number of wakeups given and not settled, and no ASSERT fails. `AccInv` says per context
  what it still has to settle. With `lock_sig` the ASSERT `sl_pend >= nsleeps` really is
  false (disagreement E), and what a caller owes depends on `sl_fixpend`, a byte.
* `NobodyIsStranded`, for `WaitProcs = {}` (no SIGWAITING; with it the property is false, which is D) and
  any signals: as long as the lock is free with LWPs queued on it, somebody will look. The
  heart of it is the pair of unlocked tests in `sleep_unlock`: one who finds `sl_fspin` free may go,
  since whoever holds it later tests the lock under it before it goes to sleep (`FspinInv`), and one who
  finds the queue empty may go for the same reason (`RecheckInv`); `LookInv` carries the
  obligation from the unlocker over the chain to the LWP that was woken and not signalled.

**Reader-writer sleep lock** (`RwSleep_proofs`), for any finite set of LWPs.

* `ReadersAndWritersExclude`, `ReadCountIsExact`, `ModeIsTrue`, `PendIsGuarded`. None of the first
  three is inductive without the others. A reader joins because it finds RWS_READ under
  `rw_fspin`, so that has to mean that there is a reader that stays (`Modes`); the last reader gives
  the lock back after two looks at a count that changes between them, and is right
  because at most one reader can have seen itself alone, and if `rw_mode` is still RWS_UNLOCKED at
  the last look nobody has joined since (`LastOne`); the LWP that marked the lock RWS_BUSY is
  the only one, and whoever took the lock meanwhile waits for it (`BusyOne`). `Inv` joins these with
  the count, the owner of `rw_fspin` and who may be in the lock beside whom (`Company`). The proof
  sorts the 30 actions into eleven kinds of moves (`Stays`, `Takes`, `Sets`, `Joins`, `Gives`, ...),
  shows of each kind that it keeps `Inv`, in which the sets of control points are opaque
  but for `Regions`, and of each action that it is a move.
* `RwRefinement`: the kinds of moves are also the steps of `AbstractRwLock`.
* `TypeCorrect`, `PendCountsWakeups`: `rw_pend` is the number of wakeups given and not settled,
  so it never falls below 0. `PendInv` adds to `Inv` the types of the queues, who is queued
  where, and what each caller owes of its sleeps.
* `NobodyIsStranded`, without hypothesis: nobody is left queued at a free lock. A dequeuer that leaves
  somebody queued has taken somebody off (`DeqInv`), an unlocker that found `rw_fspin` free need
  not fear anybody who is about to enqueue (`RecheckInv`), and `LookInv` is the property with
  the places at which one may still look.

**Synchronization variable and event** (`SyncVar_proofs`, `Event_proofs`). The two proofs have the same
shape. `Inv` joins the types, `Attended`, the holder of the entry lock, `CountsOf` for `p_niblked`, and
what is known of an interruptible sleeper: it had no signal pending when it went to sleep, and
one that is posted since has marked it L_SIGWOKE.

* `StateIsCount` (event): taking an LWP off its queue shortens it by one if it was there and
  not at all if it was not, which is what `EVENT_UNSLEEP` relies on.
* `TypeCorrect`, `BlockedAreCounted`, `SignalsAreHeard` follow from `Inv`.
* `Refinement`: `Spec => A!Spec`. A wakeup that was given to a waiter is never consumed by a call that
  fails: a poster that has taken the LWP off has marked it (`Marked`), a waker has not.

**Process seize** (`Seize_proofs`).

* `SeizeTypeOK`, `CountIsExact`, `NoneIsLeftBehind`. The test of the barrier
  compares two counts, so the proof has to say of which sets. `Inv` has a part for each thing
  that the steps rely on: `p_mutex` is held by the context in a section under it (`MutexInv`), one
  agent at a time has the process (`AgentInv`), the list has all LWPs that there are but for one
  that leaves and one that is being created (`ListInv`, `ChildInv`), who has the flag in each phase
  of the agent (`FlagInv`, `LoopInv`), who is on a run queue (`QueueInv`), and `p_nlwp` is the size of the
  list and `p_nseized` the size of `Off`, the flagged LWPs off the processors (`CountInv`).
  While the flags are taken back `p_nseized` is only bounded, by the LWPs that do not
  run with the flag. There is one lemma per action and one step in it per part.
* `ReportsArrive`: `NoReportLost`. A barrier becomes complete by a report, by an
  exit that lowers `p_nlwp`, or by `vm_seize()` that finds all off already, and
  whoever completes it posts. A new LWP cannot complete it: its creator runs and is not
  counted, so `newlwp()` opens the barrier again (`LinkOpens`).
* `SeizedIsStopped`: `OffListed` says that without an LWP in the middle of
  `newlwp()` all of `Off` is on the list, so equal counts mean equal sets (`CountsStop`), and
  `StopInv` carries that from the report over the post to the agent's return: a post of the present
  seize that was not made within `newlwp()`, wherever it is on its way, means that all are stopped.
  An agent that finds the counts equal itself has `p_mutex`, so nobody is within `newlwp()`, and is
  not misled whatever came before.
* `SeizeRefinement`: `Spec => A!Spec`. The agent that is named by the CHOOSE of
  the mapping is the only one that is not idle, an LWP that goes on a processor was on a run
  queue, which those of a seized process are not, and the agent that returns finds
  `Stopped` or was misled while it asked, which is where the abstract seize allows it.

**Rendezvous** (`Rendezvous_proofs`).

* `RendezvousTypeOK`, `RendezvousCountIsExact`, `RestIsRest`, `OneDestroys`, `NoOtherPanics`. `Inv` is made of the types of the flags (`Typed`: no request outlives its LWP) and
  of `Barrier`: that `p_nrendezvoused` is the number of blocked LWPs, and that all others are blocked
  while one has the process at rest. The second follows from the first where a rendezvous is
  granted (`nrendezvoused + 1 >= p_nlwp`) and is kept because then nobody else can take a step. Most
  actions move one LWP, wake some and leave the count alone: the lemmas on moves say once
  what that does to `Rendezvoused`. `DestroyInv` says that whoever waits to be alone has posted
  EVF_PL_DESTROY to all others, also to those created since, that P_DESTROY leaves at most
  one LWP that is not told to go, and that this one is on its way to exit; `OneDestroys` follows.
  `PanicInv` adds that an LWP that asks for a rendezvous does so for `forkall()` or as the one that
  writes the core image, that LWPs rendezvous in `lwp_exit()` only for an image, and that
  their requests are gone when they are released; `NoOtherPanics` follows.
* `RequestsAreOwned`, `BlockedForSomebody`, `SuspendedIsOut`. Their invariants have the form "until `mishaps`
  has "own", ...", and are inductive since nothing leaves `mishaps`: only the steps that do not put it there have to keep
  the rest. No flag of the code says whose a request is, so `RequestInv` does: if any LWP is asked, then all others of one
  are, which waits for them, has them at rest or will ask again from `core()`
  (`Asker`), or all others of that one have left and it waits to destroy what is left (`Left`). Of
  each LWP it says what its flags mean where it is (`Proper`): one that is blocked in a rendezvous is
  asked, one on its way out is told to go, a suspended one is not at `user` and has something
  pending that keeps it from there. An LWP that aborts a rendezvous it is itself
  asked for keeps a request that is nobody's any more; that is G.
* `WaitersAreServed`, until "own" or "core". `MeetInv` has two parts. `HaltInv` is about who is
  stopped: an LWP that is told to go is not, one that is suspended is not one that is asked (it was
  made to run, and does not stop again while it is asked), and a job control stop and a rendezvous exclude
  each other unless the process is being destroyed. `WaitInv` is about who waits: the request is its
  own (`rendezv` is the set of all others, so it is the only one that waits and is not told to go),
  nothing is pending that would make it give up, and `p_nrendezvoused` is short of `p_nlwp - 1`; one that waits
  to be alone is not alone. It is kept because the step that completes the count, by coming or by
  leaving the list, wakes the one that waits, since there is only one to wake. An LWP that
  has to come to a rendezvous is then in its program or on its way through the kernel, never behind
  another wait. After "own" the one that waits, woken by the abort after a SIGCONT has
  ended the stop that caused it, waits again, for LWPs whose request the abort has cleared;
  after "core" the `exit()` of C waits for LWPs that are blocked for the image.
* `NothingElsePanics`: without a mishap the remaining panic, of `destroy_proc()` or a fatal signal in a
  complete rendezvous, needs that all LWPs but one are blocked in it, and then that one is the
  `Asker` (`CompleteForAsker`), which is not where the panic is. After "core" it is reached
  by C, after "own" by what G leaves behind, and with "test" by H.
* `RendezvousRefinement`: `Spec => A!Spec`. While an LWP has the process at rest the
  only steps are its release and a SIGCONT for nobody (`RestIsQuiet`), and who gets it finds all others
  blocked before and after (`StasisBegins`).

## 8. What is only model-checked, what is not modelled

Only model-checked: everything under fairness, that is, what `ImplementsFairLock`,
`ImplementsFairRwLock`, `ImplementsCondVar`, `ImplementsEvent`, `ImplementsSeize` and `ImplementsRendezvous`
say beyond the safety part that is proved, `EveryCallReturns` and `DestroyReturns`; the prover
does not deal with liveness and ENABLED. Not proved either, because it is false: the accounts and the
ASSERTs of the sleep lock with signals (E), `NobodyStranded` with SIGWAITING (D), and the conditional properties of
`Seize` and `Rendezvous` without their conditions (F, G, H, C).

Not modelled: stops for `/proc` (in `Rendezvous` the tests of EVF_PL_PRSTOP and
`p_nprstopped`, and the waits of `destroy_proc()` for `/proc`), a stopped LWP that SIGKILL
forces to run, the panic "Missed core dump rendezvous" of an LWP that is asked after it has
left the list, the count of stopped LWPs; seizing by an LWP of the process
itself and `p_wait2seize` (no caller), LWPs that are swapped out while seized, masks and
queueing of signals, what a core dump writes, the dispatcher's queues, statistics,
allocation and deallocation of locks, the lock hierarchy, and the parts of the
system in the lower half of the table of section 1. In `SleepLock` nothing is said of what follows after
`wild`, or of the preemption count after an unbalanced UNLOCK; `sl_fixpend` keeps its width, but 256 wakeups of interrupted
calls, at which it overflows, are out of TLC's reach, and no theorem is about them. The hazards in
`PROJECT.json` that have a note instead of properties belong to these.

## 9. Plan

In the order of importance, each a module with its runs, then its theorems:

1. done: `LwpState`, `ProcState`, `SleepLock`, `RwSleep`, `SyncVar`, `Event`.
2. done, for the callers there are: `Seize`.
3. done, without `/proc`: `Rendezvous`.
4. `Usync`: prepblock, block, unblock, cancelblock with timeout and signals.
5. `TimedSleep`: `__sleep`, `itimeout`, `untimeout` and the late callout.
6. Composition: a client that waits for a condition under a lock with `SyncVar`; the stops
   of `/proc` in `Rendezvous`, which abort a rendezvous too.
7. Theorems: done for all safety properties of the modules above. Open: what holds of the
   accounts of the sleep lock with signals (a bound instead of the equation of
   `PendAccounting`), and what is left of `NobodyWaitsInVain` and of liveness after a mishap.
