# TLA+ specifications of the batch system

`src/src/tikv_batch` is a small batch system in the style of TiKV's: state machines ("FSMs")
sit in mailboxes, a message makes a machine ready, a pool of poller threads handles ready
machines in batches, and a router finds the mailbox of an address. It is concurrent code
without a lock at its centre: one status word, one pointer and one queue per machine decide
who owns the machine. These modules model that code, TLC checks them on small instances and
TLAPS proves the central ones for all instances. Paths below are relative to
`src/src/tikv_batch/`.

## The system

| Component | State | Operations | Modelled in |
|---|---|---|---|
| Cell of a machine, `fsm.rs` | status word, pointer to the box, reference counts of the mailboxes | `take_fsm`, `notify`, `release`, `clear`, `Drop` | `FsmState`; its promise: `FsmOwnership`; with the queue: `FsmDelivery` |
| Mailbox, `mailbox.rs` | the cell and the sending end of the machine's queue | `try_send`, `force_send`, `close`, clone, drop | `Mailbox` (extends `FsmState`) |
| Message channel, `mpsc/mod.rs` | unbounded queue, connected flag, count of senders, a loose limit with a counter per clone | `force_send`, `try_send`, clone, drop, receive, `close_sender`, drop of the receiver | `LooseBounded`; the queue of one machine in `Mailbox` |
| Schedulers, `batch.rs:25-110` | two channels of ready machines (normal, low) | `schedule`, `shutdown` | `Poller` |
| Batch and poller, `batch.rs:112-395` | per thread: the batch (two vectors and the control machine), one entry a time from the channel | `fetch_fsm`, `poll`, `release`, `remove`, `reschedule`, `release_control`, `remove_control`, `push`, `clear` | `Poller`; on the cell `Mailbox`; on the vectors `BatchVectors` |
| Batch system, `batch.rs:407-549` | thread handles, name prefix (set while spawned) | `create_system`, `spawn`, `start_poller`, `shutdown` with its joins | `BatchSystem` (extends `Poller`) |
| Router, `router.rs` | address map and count behind a mutex, a cache in each clone, shutdown flag | `register`, `register_all`, `close`, `mailbox`, `try_send`, `send`, `force_send`, `clear_cache`, `broadcast_shutdown` | `Router`, `MCRouter` |
| LRU cache, `util/lru.rs` | hash map, a list of raw pointers, size, capacity, sampling tick | `with_capacity...`, `insert`, `get`, `get_mut`, `remove`, `resize`, `clear` | `LruCache`; its promise: `Lru`; as a part in `Router` |
| Handler, `test_runner.rs` | metrics, counters | `handle` of up to 16 messages, `begin`, `end` | `Mailbox`, `Poller` |
| Tests, `test_batch.rs`, `test_route.rs` | - | drivers and assertions | `MCPoller` and the runs of the findings |

How they meet. A send finds a mailbox (router), pushes into the machine's queue (channel) and
then compares-and-swaps the cell's status (cell); the winner owns the box and sends it to a
scheduler's channel. A poller receives the box, lets the handler receive from the machine's
queue, puts the box back into the cell and looks at the queue again. A close marks the queue
and then the cell, and whoever touches the cell last frees the machine. Nothing but the router's
map is guarded by a mutex.

What is hard in it:

* the sender looks at the status after it pushed, the poller at the queue after it parked: the
  order is all that prevents a lost wakeup;
* status and pointer are two words, so `take_fsm`, `release` and `clear` of different threads
  interleave between the two;
* a scheduled machine carries a clone of its own mailbox: the last mailbox may be dropped by
  the machine itself, and the cell may keep itself alive;
* the shutdown races with senders that already took a machine, and relies on `Empty` entries
  behind the machines in the same channels;
* every router clone caches mailboxes that others close and replace behind its back;
* each clone of a sender looks at the limit every 8 sends of its own, at a length that all change,
  and the flag, the count of senders and the queue are three separate words;
* a handler may panic at any point of a round, with machines in its batch that nobody else has;
* the cache's list is spliced through raw pointers, while a hash map points into it.

`PROJECT.json` lists these at their lines under `hazards`, with the properties that watch them.

## The modules

**`FsmOwnership`** is the abstract specification of one machine: it is parked, moving (one
party has it) or freed; closing is final, a closed machine is never parked again, a freed one
never comes back. **`FsmDelivery`** adds its queue: messages are handled only while somebody has
the machine, each once and none that was not sent, and a freed machine gets and takes no more.

**`FsmState`** is the cell. One action is one atomic access: `NotifyCas`/`NotifySwap` are the
two of `take_fsm` in `notify`, `ReleaseSwap`/`ReleaseCas`/`ReleaseDrop` those of `release`,
`RetakeCas`/`RetakeSwap` the `take_fsm` of a poller that found new messages,
`ClearSwap`/`ClearFree` those of `clear`. `handles`, `own` and `ready` count the strong
references and the boxes in the scheduler's channel; `Rebind` is the drop of a reference with
the `Drop` of `FsmState` when it was the last. The module leaves open when a thread starts an
operation, so it allows everything the mailboxes, the batch and the router do, and more:
`Reschedule` and the release of a normal machine are what `Batch::reschedule` and
`Batch::release` do, though nobody calls them. A panic is the place `"fault"`.

**`Mailbox`** extends it with the queue (a pair of counters and the connected flag) and the
program order of senders, closers and pollers. Each action is one of `FsmState`'s with what the
mailbox does in the same step, or a step of the queue alone. `Control` chooses between the
control machine, which `poll` releases and removes, and a normal one, which it does not. A poller
may end: `PollEnd` is an `Empty` or a panic that meets it without the machine, `PollEndDropping` one
that meets it with the machine in its batch, and `DropSystem` the drop of the channel after the last
poller. `DeliverySpec` says that it implements `FsmDelivery`.

**`Poller`** is the spawned system: both channels, the schedulers, `broadcast_shutdown`, and
`poll` step by step. `at` is where each poller is in `poll`, `normals` and `control` are its
batch, `next` the index of the machine to handle, `size` the `max_batch_size` of its round.
`release_control` is three steps: the machine goes back to its mailbox (`ReleaseControl`), the length
of its queue is compared (`CheckControl`), and the machine is taken again if nobody was faster
(`RetakeControl`). A mailbox is closed by the shutdown (`Close`) or at any time before
(`CloseNormal`: `Router::close`, or a `register` that replaces it). A
machine is as coarse there as `FsmDelivery` says, and `DeliverySpec` checks that every machine keeps
to that. So `Mailbox` looks at one machine closely and `Poller` at many, and the promise that
`Poller` makes for each of them is the one that `Mailbox` keeps access by access. **`MCPoller`** adds the
symmetry of the machines and of the pollers of the normal pool, a bound on the messages, and the
driver of `test_batch`.

**`BatchSystem`** is the life of the pool around it: `StartPoller` and `Spawned` are `spawn`,
`BeginShutdown`, `Join` and `Return` are `shutdown`, and `HandlerPanic` unwinds a poller's thread
in any callback of the handler and drops what its batch has.

**`BatchVectors`** has `normals` and `timers`, two vectors with one index, under the methods of
`Batch`. `release` takes the machine out (`Release`), looks at the queue (`ReleaseSame`,
`ReleaseGrown`) and takes the machine again or finds it gone (`Retake`, `RetakeLost`); `remove` takes
it out (`Remove`), looks at the queue (`RemoveEmpty`, `RemoveNot`) and parks it without another look
(`RemoveEnd`), with senders and closers between the steps. `poll` calls only `push` and `clear`: the
other methods are public and nobody calls them, so the module says what they would do, and no
hazard is placed in them. **`MCBatchVectors`** adds the symmetry.

**`LooseBounded`** is the channel: `TrySend`, `TrySendLook` and `ForceSend` count, `LoadFlag` and
`Push` are the two steps of `Sender::send`, `Drop` and `DropLast` those of a sender's drop,
`DropReceiver` and `ReceiverLeaves` those of the receiver's. A clone starts with its
parent's `tried_cnt`.

**`Lru`** is the abstract specification of a cache: each key has the time of its last use, and
a key that nobody removes leaves only when room is needed and no key was used less recently.
**`LruCache`** is the code: the map, the records with `next` and `prev` between two sentinels,
spliced by `Suture`, `CutOut` and `Front` as `suture`, `cut_out`, `promote`, `create` and
`reuse_tail` do. A cache has one user, so a method is a step, but for the rounds of the loop in
`resize`. `PromiseSpec` says that it implements `Lru` with the times of the records as the times of
their keys. **`MCLruCache`** adds the symmetry.

**`Router`** has the map, its mutex, the caches and the calls on them. A call is in progress
between its critical sections: `check_do` tries the cached mailbox (`TryCached`), clones the one
of the map under the mutex (`LookUp`), and uses the clone after it unlocked (`TryFound`,
`TryFoundClosed`). A mailbox is open or closed there, and a cache is what it holds; which
entry is evicted is left open, so `LruCache`, which implements `Lru`, is one of the caches that
it allows for. **`MCRouter`** adds the symmetry.

Abstractions that allow all that the code does, and more:

* Messages are counted, not named: the queue is first in first out by the channel it is built on.
* A handler that sends to or closes other machines is another client in `Mailbox`.
* In `Mailbox` `is_stopped` may turn true with any message, and a poller may end whenever the code
  could receive an `Empty` or panic: the entries are counted in `Poller` only.
* A push in `Poller` and `BatchVectors` succeeds until the machine is freed, also after a close: the
  sender may have seen the flag before it fell.

Abstractions that lose no behaviour, for a reason each:

* In `Poller` the accesses of `take_fsm`, `release` and `clear` are one step each. `Mailbox` has
  them one by one and implements `FsmDelivery`, which is what `Poller` makes of a machine.
* In `Poller` a handler takes its messages in one step. It is the queue's only receiver, so a
  message that comes during the call may as well come before or after it.
* `poll` writes `reschedule_fsms` and never reads it; `Poller` has no variable for it, nor for the
  timers that only decide what is written.
* A `try_send` that is refused (full) changes nothing and is no step. `Mailbox` has no limit,
  `LooseBounded` has no machine: the limit decides only whether a send takes place.
* The queue under the channel is crossbeam's (external): a push fails once the receiver is gone, and
  what is queued goes with the receiver. The length of a freed machine's queue is 0
  (`ControlLength`, `Park`).
* `LruCache` has no values: a value goes where the entry of its key goes.
* In `BatchSystem` a `shutdown` before `spawn`, or a second one, returns at once and is no step.

Restrictions, where the model has fewer behaviours than the code:

* One sender per machine is between push and notify at a time in `Poller` and `BatchVectors`;
  `Mailbox` has several.
* In `Poller` a mailbox that was closed is not registered again: the new mailbox has a new machine,
  which is not one of `Normals`. Registrations are in `Router`.
* In `Poller` no machine stops: the repository's `Runner` has no code that does it. `Mailbox` has
  `remove_control`.
* In `BatchSystem` `spawn` is called once.
* The bounds of the configurations, below.

## What is model-checked

Passing runs, with the distinct states of each:

| Run | Instance | States | Shows |
|---|---|---|---|
| `cell_normal` | 3 threads, 2 handles each | 4509 | `TypeOK`, `NoFault`, `SingleOwner`, `ClosedIsFreed`, `NoLeak`, refinement of `FsmOwnership` |
| `mailbox_control` | control machine; 2 clients, 2 pollers, 2 messages, `Burst` 1 | 112651 | `NoLostWakeup`, refinement of `FsmDelivery`; under fairness `Delivered`, `CloseReleases` |
| `poller_safety` | 2 normal machines, low machine, control; pollers 2 + 1; 2 messages to the control machine, 1 to each other; batches for 1 machine | 1111161 | `TypeOK`, `NoPanic`, `OneHome`, `PriorityKept`, `NoneForgotten` |
| `system_live` | 1 normal machine, control, 2 pollers, 2 messages each, 2 panics | 266338 | `RestIsDone`, `EmptiesSuffice`, `EmptiesLeft`, `EndedIsQuiet`, `PanicReported`, refinement of `FsmDelivery` by every machine; under fairness `DeliveredUnlessLost`, `ShutdownEnds` |
| `router` | 2 routers, 2 addresses, 3 mailboxes | 1136891 | `OpenIsRegistered`, `CacheHonest`, `SendsReach`, `CacheBounded`, `StalePurged` |
| `channel` | 3 clones, limit 2, interval 2, 1 forced message | 226641 | `LooseBound`, `FlagHonest`, `ClosedQuiets` |
| `lru` | 4 keys, 3 records, capacities to 3, promotion every second `get`, 7 uses | 48329 | `NoFault`, `Linked`, `MapAgrees`, refinement of `Lru` |
| `batch` | 3 machines, 2 messages in a queue, 1 lost | 895864 | `TimersCover`, `NotStranded`, `PlacesKept` |

Why the bounds suffice. On the cell, every race is between the owner of the box, one who
wants it and one who closes it: three threads, and two handles let one of them drop a mailbox
while it uses another. In `Mailbox` two messages let the second arrive at every point of the
handling of the first, with `Burst` 1 the handler returns with a message left, and the two
pollers can overlap in the release and the next fetch. In `poller_safety`, `MaxBatch` 1 makes a batch
overflow with the second normal machine of its channel, which is where `fetch_fsm` differs from the
loop below it (real value 256), and two pollers divide or share the work in every way. The second
message is the control machine's alone there (`OneEach`): it is the only one that is parked again
after it was taken, and so the only one that a message can reach behind a poller's back;
`system_live` sends two to its normal machine as well. `Empties` 1 per scheduler gives two entries per channel for two pollers, the
tight case of the real 100 for up to 200. In `Router`, three mailboxes on two addresses give a
replacement at one address while the other is registered; with `InitialCap` 4 a cache is
resized down, up, and evicts. In `LooseBounded`, an interval of 2 (real value 8) with a limit
of 2 lets each of three clones pass the limit by its interval, before and after it looked, and
a clone be made by one that has tried; `Limit` 0 and 1 differ only in the bound itself, which is
proved for every limit. In `LruCache` four keys are one more than the largest capacity, so
inserts reuse the tail, three records are one more than a list needs to have a first, a last
and one between, and seven uses let every order of use come about twice over. In
`BatchVectors` three machines give a `swap_remove` an index before, at and after the last, and
one lost machine puts an orphan timer before, behind or between the others. In `BatchSystem` two
panics can take the whole pool. `MaxCalls` saturates the metrics, and is 0 where no property
reads them. The symmetries are sound: no module tells machines, pollers of one pool, mailboxes or
keys apart but by equality, no configuration that uses `SYMMETRY` checks liveness, and the sets that
are permuted leave out the low machines and low pollers.

Some properties are proved and not run again, because what the runs check says more or the same:
`SingleOwner` and `ClosedIsFreed` under senders and pollers (`cell_normal` has them, and
`MailboxRefinement` carries them over), `RestIsHandled` (a consequence of `NoLostWakeup`), the
`ShutdownFrees` of `Poller` (the machines of `EndedIsQuiet`), the `NoPanic` of `Router` (`SendsReach`
has the cache hold what was full), and the type invariants of `Mailbox` and `LruCache`.

Every property has a mutant of the code in the modules ("Mutant: ..."), a bug that it would
find; `PROJECT.json` pairs them.

Fairness. In `Mailbox` every thread that is inside a call, and every poller, goes on
(`WF(Continue(t))`): the operating system runs the threads, no call waits for another, and
handlers return. No client is obliged to send, close or forget, and no poller to end or not to end
(`End` has no fairness and is not in `Continue`). So `Delivered` and `CloseReleases` hold while a
poller is left; when all have ended (`Over`), `Delivered` promises nothing, and a closed machine may
be one that a sender scheduled behind the `Empty` entries: it stays in the channel (`ready > 0`)
until the system is dropped, which nobody is obliged to do. In `BatchSystem`
(`SystemFairness`) each started poller goes on, as does a sender that has pushed, the thread in
`spawn` once it has started a poller, and the thread in `shutdown`; nobody is obliged to send, to
spawn, to close or to shut down, and no handler to panic. `Push`, `CloseNormal`, `StartPoller` of the first poller,
`BeginShutdown` and `HandlerPanic` have no fairness. No strong fairness is assumed: two
pollers compete for a channel, but a machine in it is taken by either.

Deadlock is checked in `router` only. The other systems may stop: pollers end, a dropped
mailbox or sender has no more operations, and the cache's uses are bounded.

Which instances are not run. The cell is run with a normal machine, the mailbox with the
control machine: `Control` decides only whether `poll` releases, the theorems on both modules hold
for either value, and `system_live` has the delivery to normal machines. `Poller` has no
fairness of its own: liveness is asked of `BatchSystem`, which contains it.

## What disagrees with the code's documents

Each is a run that is expected to be violated.

* `close_normal`: a closed normal machine is not freed while its poller runs.
  `poll` records `Release` and `Remove` in `reschedule_fsms` and never applies them
  (`batch.rs:333`), so a normal machine once fetched stays in the batch;
  `test_route.rs:98-104` expects it to be dropped within 3 seconds.
* `test_batch`: under the test's own driver the metrics exceed `control=1, normal=1, begin=2`
  (`test_batch.rs:52-55`), for the same reason: a poller with a machine in its batch begins
  round after round.
* `test_priority`: the handler of a low poller says `Priority::Normal` (the default of
  `batch.rs:293`), where `test_batch.rs:99` asserts `Low`; `batch.rs:354` compares the two.
* `router_alive`: `register_all` and `broadcast_shutdown` do not store `alive_cnt`, the "Count of
  Mailboxes that is stored in `map`" (`router.rs:21`).

Not a contradiction of any document, but worth knowing: a send may return `Disconnected` for an
address that had an open mailbox all along (the clone was taken, then replaced); a mailbox
registered after `broadcast_shutdown` stays open with no poller behind it; a control machine
that was handled once and never closed keeps itself alive (`NoLeak` names the exception); and
`remove_control` parks a stopped machine without a second look at its queue, as `Batch::remove` would
do with a normal one (`removed` in `BatchVectors`, which `NotStranded` exempts); a machine that a
sender took before the close and schedules behind the `Empty` entries is neither handled nor freed
until the system is dropped (`batch.rs:87`). A second `spawn`
would start pollers in front of the `Empty` entries that the first shutdown left in the
channels (`batch.rs:478`); `EmptiesLeft` says how many: all that no poller took, so one more for
each that panicked. And since `Empties` is fixed, `EmptiesSuffice` ends at pools of 200. The comment of `Router::try_send` (`router.rs:180`) says "If Either::Left is returned, then the
message is sent", though `Left` also carries the errors of a full or closed mailbox. What
`LooseBound` shows is how loose the bound is: with the real interval, eight messages per clone
that was ever made, on top of the limit.

## What is proved

By TLAPS, in the eight modules named `..._proofs`, one per concrete module.
Every invariant and every refinement that a passing run checks is also a theorem, for
every value of the constants, and so are the action properties.

On the cell (every set of threads, every number of handles, both kinds of machine). `NoFault` and
`SingleOwner` are not inductive: that a thread in the middle of `release` finds the pointer it
stored depends on nobody else being in the middle of anything that takes it. The inductive
invariant is

    IInv == TypeOK /\ NoFault /\ Exclusive /\ Elsewhere /\ References

`Exclusive` says that at most one thread is working with the box or, having changed the status,
about to; `Elsewhere` where the box is when no thread is (in the cell, in the channel, or
freed) and what the status then is; `References` that a thread that will use its mailbox has
one. `InitInv` and `StepInv`
(one step per action) give `Invariance`, and from it `TypeCorrect`, `FaultFreedom`, `OneOwner`,
`Reclamation` and `LeakFreedom`, which are the invariants of `cell_normal`. `Refinement` shows
that every atomic access is a step of `FsmOwnership` or a stutter, using `IInv`.

On the mailbox. `MailboxRefinement`: every behaviour of `MailboxSpec` is one of the cell's
`Spec`, so all of the above holds under senders, closers and pollers (`MailboxOneOwner`,
`MailboxReclamation`). On top of `IInv`,

    MInv == MailboxTypeOK /\ Coupled /\ NoLostWakeup

is inductive, where `Coupled` ties the place of a thread in the mailbox's code to its place in the
cell's. `WakeupSafety` is the result: for any number of senders, closers and pollers no message is
left behind a parked machine unless somebody is about to look. `MailboxRestIsHandled` is what
that comes to when all calls have returned and nobody has the machine: nobody can be about to
look, so the queue is empty, or the machine was stopped or freed. It is the safety half of
`Delivered`. `MailboxDelivery` shows every step of `MailboxSpec` to be one of `FsmDelivery`: that
the handler finds the machine moving comes from `Coupled` and `Exclusive`, that no message
comes to a freed one from the push that fails without the receiver. All of this holds with pollers
that end at any time: `PollEndDropping` frees the machine that its poller has, and a poller that
has ended is one that has no machine (`Coupled`).

On the router. `Router_proofs` proves all properties of the run `router` and `NoPanic`, for any finite set of
addresses and any sets of mailboxes and clones. The inductive invariant is

    RInv == TypeOK /\ Placed /\ Registered /\ Honest

`Placed` says what the local variables of a call hold at each point and that the mutex belongs
to the one call inside a critical section; `Registered` that the map holds open mailboxes, each
once, and that every other open one is in the hands of the mutex's owner; `Honest` is
`CacheHonest` together with the same of a clone that a call took from the map, which is what
`TryFound` puts into a cache. `CacheHonest` alone is not inductive, because between `LookUp` and
`TryFound` anything may happen to the mailbox. `SendsReach` needs all three: a call that tried
a mailbox and found it full still has that one in its cache (`Placed`), and it is the map's or
being closed (`Honest`, `Registered`). `CacheBounded` adds the arithmetic of `resize`
and `insert` (`InsertBounded`, `LookUpBounded`), and `StalePurged` is an action property proved
from the same invariant.

On the pollers, for any machines, pools, batch sizes and numbers of entries. The inductive invariant is

    Sound == TypeOK /\ Points /\ Homed /\ Onces /\ PriorityKept /\ Shutting
             /\ Took /\ NoneForgotten /\ Counted
    PInv  == Sound /\ Panicless

`Sound` is what also holds when handlers panic. `Points` says what a poller's batch and index are at each point of `poll`; `Homed` is `OneHome` for
one machine at a time, and that a machine is in the channel of its own priority; `Onces` that no
channel or batch has a machine twice; `Shutting` that a closed machine is not parked. Each way
of a machine has a lemma (`HomeTaken`, `HomeScheduled`, `HomeReceived`, `HomeLeft`), and the steps
cite them. `OneHome` needs `Points` (that `release_control` has a machine to release), and `Points` needs
`OneHome` (that a second control machine cannot be received); neither is inductive alone.

What was added for the messages is inductive on top of that. `Took` says that no machine has
handled more than was sent. `NoneForgotten` asks of each step that parks a machine or adds a message
that somebody is about to look: parking is only `release_control`, whose poller is then at
`"check"`, and a push leaves its sender in `notifying`. Those who stop looking have looked: after
`Notify` and `RetakeControl` the machine is not parked, and where `CheckControl` ends the look it has
found the queue empty, or the machine freed. That a
handler takes messages of no parked machine is `Homed`.
`Counted` says that in each channel the `Empty` entries and the stopped pollers of its pool
are together as many as were sent. `EmptiesIn` and `StoppedOf` are the two sets,
`EmptiesAppended` and `EmptiesTaken` what a `schedule` and a `recv` make of the first, and the second
is finite because a pool has finitely many threads. `PollerDelivery` is the refinement of
`FsmDelivery`, for every machine at once: that a handler has the machine that it handles is
`Homed`, that it takes no message twice `Took`.

On the batch system, for any pollers and any number of panics at any point of `poll` that calls the
handler. A step of the system is one of `Poller`'s, a panic, or nothing that the pollers see
(`PollersStep`), so `SoundStep` is used as it is and only the panic is new (`PanicSound`). On top of it

    SystemInv == Sound /\ SystemTypeOK /\ Handles /\ Reported

is inductive: `Handles` says that a poller whose handle is gone was joined, is over, and has its
panic in `last_error`; `Reported` that `last_error` comes from a panic and alone decides how
`shutdown` ends. `EndedIsQuiet` needs both, and `Homed` for the machines; `SystemOneHome`,
`SystemNoneForgotten` and `SystemDelivery` carry results about the pollers over to a system whose
handlers panic.

Three more results are about what would keep the system from coming to an end.
`SystemRestIsDone`: when every poller waits in `recv` or is over and no sender is under way, each
machine with a message left is freed or has no poller left in its pool. A parked one would
contradict `NoneForgotten`, a moving one would be in some channel (`Homed`), and a poller of that
channel would not be waiting. `SystemEmptiesSuffice`: when `shutdown` joins, a running poller of a
pool of at most `2 * Empties` finds an `Empty` in its channel, because by `Counted` the others
cannot have taken all of them. These two are the safety halves of `DeliveredUnlessLost` and
`ShutdownEnds`: no state is stuck, and fairness alone is left to TLC. `SystemEmptiesLeft` is
`Counted` at the end, with `posted = 2 * Empties` in `Reported`.

On the channel, for any limit, interval and finite set of clones. The bound does not survive a step
on its own: a queue at the bound could be pushed to. Each clone therefore has a slot for every send
of an interval, a send takes one when it is counted and gives it to the queue when it
pushes, and `Room` says that the queue and the slots that are left stay below the bound;
`Tries`, `Count` and `Lowered` say what a send under way has counted, what `sender_cnt` counts, and
who may still lower the flag.

On the cache, for any finite set of keys and any addresses. The list is described without
recursion: `Whole` says that the record after each record is the next in the order of use, in
both directions, and that every live record is among them. `CutOutWhole` and `FrontWhole` say
that the two splices keep it, for the order of use that they make; `LastOldest` that the last
record is the least recently used one; every method is a few of these. `AllListed` shows that `clear`,
which walks the list, meets every record. `LruInv` adds that the map and the records agree and
are counted (`Agree`, `Counted`) and that the times of use differ (`Stamps`); `LruRefinement` shows
each method to be a step of `Lru`.

On the vectors of a batch, for any finite set of machines. `VInv` ties the method that is
under way to what it was called with (`Called`: the vector is the old one less the machine), to
where its machine is (`Owned`) and to what its poller knew of the queue (`Told`). `NoMessageStranded`
is about the machines that `release` has parked: for one that `remove` has parked it would be
false, and `removed` leaves it out by name.
`SwapRemoved` and the lemmas after it say what `swap_remove`, and `push` with `swap`, make of a
sequence.

Assumptions: `FsmStateAssumption` (`Control` is Boolean, `MaxHandles` a natural number),
`MailboxAssumption` (the pollers are threads, `Burst` and `MaxSend` natural numbers),
`RouterAssumption` (`None` is no mailbox and no router, the capacity is positive, the addresses are
finitely many), `PollerAssumption` (the low machines and pollers are among the others, `Empty` and
the control machine are neither each other nor a normal machine, the pollers are finitely many,
the sizes are natural numbers), `BatchSystemAssumption` (the number of panics is a natural number),
`LooseBoundedAssumption` (finitely many clones, a positive interval),
`LruCacheAssumption` (finitely many keys, a positive period, distinct sentinels) and
`BatchVectorsAssumption` (finitely many machines). The pollers are finitely many because a pool has
`pool_size` threads and only a finite set can be counted (`Counted`). Threads of a cell or a
mailbox, machines, mailboxes and routers may be any sets.

Only model-checked: the liveness properties `Delivered`, `CloseReleases`, `DeliveredUnlessLost` and
`ShutdownEnds` (TLAPS proves nothing under fairness here),
and the violated properties of the findings. What a recursively defined
operator computes would need induction over data, which is out of the provers' reach; no module
has one (`Listed` in `LruCache` is a least set instead).

## Not modelled

* `util/mod.rs`, `util/thread_group.rs`, the names in `config.rs`: thread names and a thread-local
  flag that nothing here reads. No state of the batch system depends on them.
* `mpsc::bounded` and `Sender::try_send`: nothing calls them, and they differ from what is
  modelled only in crossbeam's queue.
* `Router::trace` and `state_cnt`: a report of two counters, of which `alive_cnt` is modelled and
  `state_cnt` follows the number of live cells. `broadcast_normal` sends to the map's mailboxes under
  the mutex and changes nothing in the router; `send_control` and `control_mailbox` never touch the map.
* The real time of `reschedule_duration`, since its outcome is never used.
* A second `spawn` of one system: nothing in the repository does it.
* `main.rs`, `lib.rs`, `owner`, `collection`, `thread_shared_obj`: short sequential exercises and
  threads that own what they use. They share no state with the batch system and with each
  other, and have no order of events that could go wrong.
* In `test_route.rs`, what the test asserts of routing by address: the operations are actions of `Router`,
  the assertions are instances of `CacheHonest` and `OpenIsRegistered`.
