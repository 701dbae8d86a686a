# TLA+ specifications of dci

dci is a C++ platform for peer-to-peer applications that runs on one operating
system thread. Concurrency comes from cooperative tasks (`core/cmt`), signals
(`core/sbs`) and an event loop (`core/poll`); everything else (the host with its
modules, sockets, remote calls, the peer-to-peer network) is written on top of
these. The specifications start with this foundation: a lost wake-up, a task in
two queues or a handler that is destroyed while it runs would show up everywhere
above it and is next to impossible to provoke in a test. Above it they follow one
path to the network: the event loop, a stream channel, the byte strings that it
carries, and remote calls. At its end, where several services of the peer-to-peer
node work together, they show how a peer that is needed comes to be connected.

- [Inventory](#inventory): parts, state, operations, hard behaviour
- [Modules](#modules): how state and actions correspond to the code
- [Runs](#runs): what is model-checked, bounds, fairness
- [Findings](#findings)
- [Proofs](#proofs)
- [Limits](#limits) and [plan](#plan)

`PROJECT.json` holds the map from every definition to the lines it models, the
mutants that show that each property can fail, and the list of hazards.

## Inventory

### The foundation

| Part | State | Operations | Hard behaviour | What makes it correct |
|---|---|---|---|---|
| cmt scheduler and fibers (`core/cmt/src/impl/scheduler.cpp`, `ctx/fiber.cpp`) | six lists of fibers and tasks, the running fiber, the state of each task | spawn, yield, hold, ready, stop, switchTo, executeReadyFibers, taskCompleted | any task calls any operation on any other at any time; a finished task's fiber is reused in the middle of the dequeue; four queues with priorities | a fiber is in the one list that its task's state names; a stop request never finds a sleeper that stays asleep; nobody starves |
| cmt waitables and Waiter (`impl/details/waiter.cpp`, `impl/waitable.cpp`, `mutex.cpp`, `semaphore.cpp`, `event.cpp`, `notifier.cpp`, `pulser.cpp`) | flag or counter and owner, list of links; per wait its links and mode | wait, waitAny, waitAll, boolean expressions, raise, reset, lock, unlock, destruction | an unlock offers itself to one waiter after the other, and each acceptance changes other waiters' lists under the walk; stops and destruction in between | mutual exclusion, no lost wake-up, no link outlives its waiter (which is on a task's stack), waking one wakes one, waiting tasks are served |
| cmt tasks and owners (`impl/task/body.cpp`, `task/owner.cpp`) | owner of a task, list of tasks and of tasks met by a wait in progress | spawn into an owner, ownTo, stop, flush, wait, destruction | `Owner::wait` yields to each task in turn; tasks end, are spawned and change owner during it, and may wait for each other | lists are exact; everybody is told to stop; a wait returns, and then nobody runs on |
| cmt futures and promises (`include/dci/cmt/details/future/state.hpp`, `promise.hpp`, `future.hpp`) | mode, two reference counters, two boxes of continuations | resolve, cancel, copy and drop of both handles, then, chain, canceled | all of it nests: a continuation may drop the last reference to the state that is calling it | counted exactly, deleted once, resolved once, abandoned means cancelled, resolved means delivered |
| sbs signals (`core/sbs/src/impl/box.cpp`, `subscription.cpp`, `owner.cpp`) | a doubly linked list, the enumerators of activations in progress | push, activate (with and without removal), remove, destruction of box and owner | handlers connect, disconnect, activate, throw, suspend and destroy the box they are called from | an activation calls those that were there and still are; nothing dangles, nothing leaks |
| utils intrusive list (`core/utils/include/dci/utils/intrusiveDlist.hpp`) | a ring of two pointers per element | push, remove, each, flush | callbacks of each and flush change the list | a list is a sequence; so far assumed by the modules above |

The parts meet as follows. `Waiter` blocks a task with `Scheduler::hold` and wakes
it with `Scheduler::ready`; `Body::stop` wakes it with `ready4Stop`. `task::Owner`
drives its tasks with `Scheduler::switchTo`. `State` (futures) raises an `Event`
for tasks that wait and activates two `sbs::Box`es for continuations, which run on
the stack of whoever resolved it. `poll::Service::run` calls `executeReadyFibers`
and hands timers, descriptors and awakers to handlers in pool fibers;
`net::stream::Channel` is a handler of a descriptor and passes `Bytes` on by moving
their chunks; a `stiac::LocalEdge` reads and
writes through a channel and turns messages into calls of interfaces, which are
signals of sbs. A `ppn::Node` gives a channel to a handshake, which sets a stiac
protocol up on it and turns it into a link. `Lis` says which peers it needs;
`demand::Registry` draws one and offers it to `Joining`, which looks its address up
in the table of rdb, where `Reest` has put it, and asks the node to join it; the node
tells `Reest` how that went, and so the circle closes.

### Above the foundation

| Part | What is there to check | Status |
|---|---|---|
| poll (`core/poll/src/impl`): a wheel of 63 buckets of timers, the list of due ones, the list of ready descriptors, the list of woken awakers, a pool of fibers | timers re-arm and stop each other from handlers; a handler that waits occupies the pool's fiber; another thread wakes the loop while it decides to sleep | `Clocking`, `PollLoop` (partly) |
| stiac (`module/stiac/src/localEdge*`, `core/stiac/include/dci/stiac/link`): two tables of numbered links per edge, with zombies | removals, answers and cancels of the two ends cross; numbers are taken again | `Stiac` (partly) |
| net (`module/net/src/stream`): send buffer, remembered readiness, receive granula, connection state | edge-triggered readiness is told once; every signal re-enters the channel from the middle of its loops | `NetChannel` (partly) |
| bytes (`core/bytes/src`): lists of chunks, shared by copies until one is altered, and the cursors in them | an alteration relinks, splits, copies and deletes chunks that other cursors point into; whole chunks change hands between objects | `Bytes`, `FlatBytes` (partly) |
| host: manager, modules, services | the life of a module and of the run loop around the scheduler | planned |
| mm: allocator and stacks | free lists; page protection is the operating system's | planned |
| ppn-node, ppn-node-link: sessions with a task each, waiters for a join, the set of connects in progress, handshakes and links | a task goes on some time after its future was resolved, and the link may be gone by then; workers leave their waiters to each other; who tells that a session is closed changes hands | `Node` (partly) |
| ppn connectivity (demand, joining, reest): needs, satisfactions, bans and priorities; an instance with a task per peer that is pursued; ratings of addresses and the records made from them | three services share one goal through timers, signals and records, each with a view that is some milliseconds old; whoever gives up must let go of everything that keeps the others from trying again | `Demand`, `Reest`, `Joining` (partly) |
| ppn discovery, transports, NAT traversal | rendezvous, mappings that expire | planned |
| ppn topology LIS | convergence of the ring | planned, after the links |
| aup: update catalogue | synchronisation of the catalogue | planned |
| ppn services, www | depend on the links and on stiac, or are parsers | not planned yet |
| utils conversions, crypto, idl compiler, config, exception, logger, primitives, himpl, test, integration, qml, gui, examples, build scripts | pure conversions, numerical code, generated code, glue, presentation | not modelled |

## Modules

Every module names a variable after the member it stands for (the comment at the
declaration says which) and an action after the function. `Bad...` operators are
deliberate slips for the mutation checks and are used by nothing else. Strings,
values and errors are abstracted away; control is not.

**Scheduler** — `scheduler.cpp`, `fiber.cpp`, `body.cpp`. One step is one call of
the scheduler up to the next piece of user code: `Yield`, `Hold` and
`TaskCompleted` include the dequeue of the next fiber (`dequeueReadyFiber`) and
the switch to it, because nothing can happen in between. `fresh` are the fibers
that `Fiber::alloc` has not been asked for yet. `root` says what the root context
was doing when it switched away. `hold` is a set because its order is never used.

**Waiting** — one operation that can wake somebody is a walk over the links of its
object: `Raise`/`Unlock` begin it, each offer is a step (`OfferAccepted`,
`OfferRefused`, `OfferThrows`), `WalkEnds` concludes. `op` is the walk in
progress; user code runs when it is `Idle`. Which ready task runs next is left
open, so that the safety results hold for any order. `held` and `won` are ghosts:
what a task believes it has locked, and what was granted to it in its sleep.
A wait is a record of mode, links and, for expressions, the satisfying sets.
`scene` is what the program is made of: the waitables it has, those that it may
destroy, and whether it stops tasks. It is chosen in `Init` and never changes.

**TaskOwner** — extends Scheduler with owners and composes their actions with its:
`Spawn`, `OwnTo` and `Complete` contain the scheduler's step, `Elsewhere` are the
scheduler's steps that owners do not see. `Owner::wait` is cut where it switches
away; `frame` holds its locals for each context that is in one. `program` says which
calls the program makes and whose owner it changes; it is chosen in `Init` as well.
`OwnTo` passes on tasks that have not started, too, and `crashed` says that it has
dereferenced their null fiber, after which nothing runs, see [Findings](#findings).

**Signal** and **Sbs** — `Signal` is the promise of a signal in terms of a sequence
of handlers; `Sbs` is the code with its pointers `first`, `last`, `nextInBox`,
`prevInBox` and its enumerators. Since handlers may suspend, activations
interleave freely. `ImplementsSignal` is the refinement: the handlers
of Signal are the list that the pointers form (`List`), and an enumerator maps to the
part of it, from its next to its last, that it has still to call (`Left`).

**Future** — the state shared by Promise and Future. Since everything nests,
`work` is the call stack: a sequence of calls to be finished, the innermost first;
an operation pushes what it still has to do (`Execute`, for instance, pushes the
walk over the cancel continuations, the walk over the continuations and the
release of the counter it holds). User code is allowed to act whenever the stack
is empty or a handler is on top, and a handler may do whatever other code may.
Boxes behave as `Signal` promises. A value and an exception resolve alike.
`Tame` restricts the program, see [below](#what-is-checked-under-a-restriction) and
[Findings](#findings).

**Clocking** and **PollLoop** — the timer wheel is a record with operators for
`start`, `stop`, `update`, `rollBucketsTo` and `flushReady`; `PollLoop` is the loop
around it. `pc` is where `Service::run` stands. Handlers run in actors: the fibers of
the pool, the task of an awaker, and the program's main task; one actor works at a
time, may call anything, and may wait (`Suspend`) in the middle of the list it is
flushing. `Mark`, `List` and `Write` are the three steps of `Awaker::wakeup` in
another thread; `Kernel` and `Time` are the environment. The list of
ready descriptors is a sequence, and `PushBack` what pushing makes of it, for somebody
who is in it already as well; `torn` remembers such a push, after which a walk over the
list may go on for ever, and fairness does not promise that the loop comes back from it
(`Walks`). `Mishaps` names what the code does not cope with, and an action asks `May`
before it does such a thing, see [below](#what-is-checked-under-a-restriction). The
asserts of the code are not guards: `dbgAssert` does nothing in a release build and
warns in others (`dbg.hpp:16`, `:23`).

**Stiac** — two `LocalEdge`s and the messages between them, in order. A link has
the same number at both ends; `links[e]["local"]` is `_localLinks`. Each message is
handled in one step, as `LocalEdge::input` does; each carries, as a ghost, which
link the sender meant, and `RightLink` compares. The data of calls is left out:
what matters is that an answer ends the call it belongs to. `Destroy` drops an edge
without notice.

**NetChannel** — `stream::Channel` with `SendBuffer`. `stack` is the call stack, as
in Future: a signal pushes a `user` frame, from which the handler may call every
method again; `connectedSockReady` is a frame that goes through `write`, `read`,
`eof`. A system call is a step, and the peer (`PeerSends`, `PeerReads`, `PeerCloses`,
`PeerResets`) moves between any two. `Poll` reports the mask of the moment and
forgets the edge, so that the channel lives on what it remembers in `lrs`. The two
lines that set all flags but one (`|= ~rsf_eof`, `|= ~rsf_error`) are modelled as
they are. `Init` has both a channel that is to connect and one that was accepted.

**FlatBytes** and **Bytes** — `FlatBytes` is the promise: an object is a sequence of
bytes, a Cursor or Alter a position in one. `Bytes` has the chunks with `_next`,
`_prev`, `_begin` and the bytes from `_begin` to `_end`, the buffers with
`_firstChunk`, `_lastChunk` and `_size`, the buffer of each object and the four
members of a `User`. Since the operations nest (`removeTo` removes here and writes
there, and each write may copy a shared buffer first) they are functions of the
state as a record, `Now`; an action puts the result in place with `Becomes`.
`Owned` is `copyBufferBecauseOfWrite`, `Removal` is `removeImpl`, `Spliced` is the
`write` of a list of chunks. A loop that fills or walks chunk after chunk is its
result. `ImplementsFlat` is the refinement; the value of an object is what its list
holds. Bytes that are copied to memory are not recorded: the same code copies to
objects, where they are. `Slips` names the calls that the code gets wrong, see
[Findings](#findings); an action asks `May` before it makes one.

**Demand**, **Reest**, **Node**, **Joining** — one service each, and `Joining` composes
them: it contains the actions of the other three and adds to each what Joining hears
of it (`Shake` is `HandshakeCompleted` with the handler of `joinedByConnect`, `Break` is
`LinkDown` with that of closed). `Demand` is the registry: `priority` is what the last
flush computed, `changed` who waits for the next. `Reest` keeps of a rating only its
sign, which is free wherever the history decides; `known` are the records with an
address. In `Node` a session goes from spawned over connecting and shaking to joined;
`future` is what its task waits for, resolved by `Resolved` and `HandshakeCompleted` and
acted upon later. The transport and the peer are external. `Joining` has the instances
with the task of each. A peer has one address. The demands that an instance holds are
the satisfactions that the registry counts, so one variable, `sat`, is both.
`turnedAway` is a ghost, see [Findings](#findings).

**ListLemmas** and **Task_proofs** (Scheduler and TaskOwner), **Waiting_proofs**,
**Sbs_proofs**, **Future_proofs**, **PollLoop_proofs**, **Stiac_proofs**, **Net_proofs**
(NetChannel and Joining) — the proofs, see below.
**MC_...** — instances.

## Runs

| Run | Instance | Checks |
|---|---|---|
| `scheduler` | 3 tasks, 3 fibers, fairness | `ListsAgree`, `StoppedNeverHeld`, `NeverEntered`, `StopDelivered`, `QueuedRuns` |
| `waiting` | 3 tasks in either of two programs: a mutex, a semaphore with two places and an event, waits for one, for all and for any, with stops and with the mutex destroyed; or two events, a notifier, a pulser, a recursive mutex and an expression with a negation | `Exclusive`, `Conserved`, `NoLostWakeup`, `LinksMatchWaiters`, `WakesOne` |
| `owner` | 2 tasks and the root, 2 owners, in one of three programs: stop and destruction; all calls; stop, wait and ownTo; fairness | `OwnersAgree`, `StopReachesAll`, `StopWaits`, `WaitReturns` |
| `sbs` | 3 subscriptions, 2 activations, owners | `DeletedInTime`, `ImplementsSignal` |
| `future` | 3 states linked by two chains in a row, then and canceled on the first, at most 2 handles of each sort, `Tame` | `Counted`, `AssertsHold`, `NoUseAfterDelete`, `Settled`, `ResolvedOnce` |
| `poll_loop` | 2 timers (one repeats), intervals none, 0 and 2, a wheel of 3 buckets, a descriptor, an awaker, 2 pool fibers, fairness | `WheelExact`, `SleepsIdle`, `Served`, `StopEnds` |
| `poll_timer_lost` | 2 timers that may be stopped when due | violation of `TimersTick`, see Findings |
| `stiac_links` | one end makes 2 calls, cancels one and uses an interface, the other passes 2 interfaces; either may be destroyed; fairness | `NoFails`, `LinksPair`, `Answered` |
| `stiac_collision` | 2 calls, both cancelled | violation of `NoFails`, see Findings |
| `bytes` | 2 objects of up to 3 bytes, 2 Alters, chunks of 2 bytes, at most 3 chunks | `Consistent`, `ImplementsFlat` |
| `net_channel` | 2 units each way, 3 other calls, a kernel buffer of 1 unit, fairness | `NothingLost`, `ClosedOnce`, `Flows` |
| `connectivity` | 1 peer, needed on and off, 1 stranger who may answer in its place, 2 sessions, fairness | `PrioritiesFollow`, `ToldClosedOnce`, `SatisfiedArePursued`, `OnlinesAreUp`, `JoinsAreServed`, `Pursued` |

Why the bounds are enough to be interesting: three tasks are the least for one
that runs, one that it wakes and one that waits behind it, and the least for a
walk that goes on after an accepted offer; three fibers let every task have one
and be reused. Two owners and the root make mutual waits and waits of a task for
its own owner. Two activations with three subscriptions make an enumerator whose
next, last and middle element can each be removed by the other activation. Two
states suffice for a cancellation that crosses a chain and comes back; the third, with
a chain of its own, is the least for a result that hangs on the result of a running
chain, which is what `Tame` has to speak of. There is no
bound on the depth of nesting in `Future` other than the number of continuations.
Two timers on a wheel of three buckets make every way a bucket is taken apart, with
points on and between boundaries; two fibers are needed for a handler that waits
while another goes on. `MaxClock` and `MaxCalls` (PollLoop) bound real time and the
calls of user code. `Quota` (Stiac) bounds what each end does; two links of each
sort suffice for a number that is taken again while messages for it are under way.
`MaxSends` = 2 with `BufsMax` = 1 makes data that does not fit in the buffers, and
`MaxCalls` = 3 (NetChannel) lets receiving be switched on, off and on again.
Three chunks are the least for a removal that has a neighbour on either side, and
chunks of two bytes have a beginning, a middle and an end; `MaxSize` and `MaxChunks`
(Bytes) leave room for a copy of a shared buffer of two chunks, which becomes one,
but not for a copy that needs two chunks. The bytes are
never looked at, so two of them suffice, one of which stands for unwritten memory.
Two sessions are the least for one that answers in another's place, or is accepted
while another connects; one stranger for an address that leads elsewhere. `Call`
keeps one session free for those who join, and a session is taken up again only when
no answer names it. `MaxSats` (Demand) is 2, for a peer that is offered again before
the flush has seen that it is satisfied; one more offer would be let go at once.
`MaxBans` is 1, and a weight may be zero. Peers share
nothing but the random draw, which fairness of `Offer` stands for, and so one suffices.
`MaxCount` (TaskOwner) stops ownTo from feeding a wait with the same task for
ever, `MaxRecursion` (Waiting) bounds recursive locking, `MaxHandles` (Future)
copies of handles. A task is spawned once and never again, so state spaces are finite.

Deadlock is not checked: a program in which every task has ended, or sleeps
because nobody will raise what it waits for, is a legal one; what must not happen
is stated as `NoLostWakeup` and the liveness properties instead.

Symmetry is used in the runs without liveness properties only, over tasks, fibers,
owners, objects and cursors, which are interchangeable in the initial state and the
constants. `bytes` also has a view that replaces the addresses of chunks by their
places in the lists: the code never compares addresses of different lists. The view
keeps everything that `Consistent` looks at, so that no inconsistent state hides
behind a consistent one.

### Fairness

- *Scheduler*: weak fairness of `ExecuteReadyFibers`, `ExecuteNext` and
  `RootReturns`, because the poll loop calls `executeReadyFibers` for ever and
  these are code without a choice; weak fairness of "the running task yields,
  holds or completes", because tasks are cooperative and a task that never gives
  the processor away blocks everything by design.
- *TaskOwner*: the same with the steps of `Owner::wait`; the task's leaving is
  strongly fair because it is not enabled while the task is inside a wait.
- *PollLoop*: the thread of the loop goes on as long as it is not in epoll_pwait or
  over, nor walks a torn list; `wakeup` is finished by its thread; epoll_pwait is not interrupted for ever
  (strong, as EINTR may come any number of times).
- *Stiac*: the transport delivers; the callee resolves its futures.
- *NetChannel*: code and handlers go on, the loop polls, and a peer that is there
  reads. Nothing is assumed of the peer's sending or closing.
- *Joining*: tasks that are ready and timers that are started run (weak); the draw is
  random, so a peer that can be drawn again and again is drawn (strong); bans end.
  Nothing is assumed of the transport, the peers, or those who need and discover.
- *Waiting*, *Sbs*, *Future*, *Bytes*: none; only safety is stated.

`StopDelivered` needs no more than that. `QueuedRuns` assumes that from some point
on nobody calls ready, stop or switchTo, since `_ready` comes before spawned and
yielding tasks and a stream of wake-ups does starve them, by design. `Served`
assumes that handlers that wait come back; `Answered`, that both edges live;
`Pursued`, that the peer is discovered again and again (see Findings).

### What is checked under a restriction

- `Conserved` and `NoLostWakeup` speak of the time before the first stop. A stopped task throws
  out of its wait and forgets a mutex that has just been granted to it, and a
  stopped raiser throws in the middle of its walk (`OfferThrows`): then they do not
  hold. The repository does not say who should release the mutex.
- `WakesOne` speaks of raise and unlock; a reset goes on to tell all who wait for the
  notifier not to be raised.
- `StopReachesAll` and `StopWaits` speak of programs that only stop and destroy. A
  flush below a stop of the same owner that still waits clears the request for tasks
  that join later.
- The program does not destroy an owner below a wait on it, a Promise or Future
  below one of its own methods, or a box from the destructor of a handler of it;
  destructors of continuations that are dropped uncalled do nothing to futures.
- `WaitReturns` speaks of programs without ownTo: two tasks that are passed back and forth
  between owners keep an `Owner::wait` going.
- `future` is checked with `Tame`: while the continuation of a chain runs or is being
  destroyed, the program neither cancels the result of the chain, nor a result that
  hangs on it by further chains, nor moves its promise elsewhere (`Busy`). A program of
  chains that are attached, resolved and cancelled from outside is tame.
- The recursive mutex is checked alone (see Findings).
- `poll_loop` is checked with `Mishaps = {}`. Each mishap is one thing that a program,
  the kernel or another thread does and that the code has no answer to; the model
  follows the code into it, and then TLC finds a property violated:

  | Mishap | What happens | Violated | On the instance of `poll_loop` with |
  |---|---|---|---|
  | `stopsDue` | user code stops or re-times a timer that is due | `Served` (and `TimersTick`, `poll_timer_lost`) | this mishap |
  | `zeroRepeats` | a repeating timer has the interval 0 | `Served`, `StopEnds` | this mishap |
  | `wakesAmid` | a handler returns while another thread stands between marking its awaker and listing it | `Served` | this mishap |
  | `relists` | epoll has news of a descriptor that is still in the list | `Served`, `StopEnds` | this mishap, two descriptors, no timers, no awakers, `MaxCalls` = 7, `MaxClock` = 0 |

  `StopEnds` survives `stopsDue` and `wakesAmid`: a loop that spins still looks whether
  it was stopped. `AlwaysSleepsIdle` is proved for any `Mishaps`.
- `stiac_links`: one end cancels, once, and the other passes the interfaces. After
  a crossing of cancel and answer a late end message names a number that may have
  been taken again; a second cancel, or an interface of the same end, is then
  removed too early (`stiac_collision`).
- `bytes` leaves out the calls of `Slips`, moves from an object to itself, and
  altering an object that shares an empty buffer (`Copyable`: its copy is no buffer
  at all, which `alter.cpp:913` dereferences).
- `net_channel`: a channel is not dropped below `doRead`, and no descriptor is
  opened in a handler whose number `doRead` would go on to read. That an ended
  channel closes its socket is not stated: it does not hold, see Findings.

## Findings

Checked by runs:

- **A stopped timer makes the next one hang** (`poll_timer_lost`). `flushReady`
  (`clocking.cpp:214`) calls a fiber only when `_readyAmount` differs from the amount
  it noted last, and a stop of a due timer does not correct the note. The next timer
  that becomes due is not ticked, and the loop spins without polling, because the
  distance to the next point is 0.
- **Two crossings of cancel and answer break an edge** (`stiac_collision`). Each end
  removes its link on the other's message and still sends an end message
  (`future.ipp:93`). The caller may have taken the number again and begun to remove
  that link too: the late end removes it while its answer is still on its way, and
  the answer then fails the edge ("bad link requested").

Found while modelling, and left out of the passing runs by a named restriction:

- **A descriptor is pushed into the ready list twice** (`polling/epoll.cpp:191`).
  `execute` pushes whoever has news without a look at whether he is in the list. He can
  be: a handler that waits leaves the list half taken, the loop goes on, and epoll has
  more news. With two descriptors ready in one epoll_wait, the handler of the first
  waits, and news of the second comes meanwhile. `pushBack` (`intrusiveDlist.ipp:288`)
  then links him to himself or cuts off those behind him, and `popFront` may return him for
  ever, so that the loop at `polling.cpp:25` does not end; a stopped service does not
  leave. `Mishaps = {"relists"}`.
- **An awaker is unreadied before it is listed.** `wakeup` marks and lists in two steps
  (`awaker.cpp:114`). When a handler of the awaker returns in between, `emitWokenIfNeed`
  finds it marked, removes it from a list that it is not in (`awaking.cpp:69`) and clears
  the mark; the other thread then lists an awaker that is not marked. Nobody takes it
  out: `woken()` returns true in every round, and the loop spins and never polls.
  `Mishaps = {"wakesAmid"}`.
- **A repeating timer with the interval 0 stops the loop** (`timer.cpp:202`): each tick
  puts it back into the list of due timers, which `Bucket::flush` (`bucket.hpp:81`) empties
  in a loop. `Mishaps = {"zeroRepeats"}`.
- **ownTo of a task that has not started** (`body.cpp:169`). `Body::stop` asks whether the
  task has a fiber, ownTo does not: given to a stopping owner by a task, it calls
  `Scheduler::ready(nullptr)`, which dereferences it (`scheduler.cpp:167`); in the root
  context null equals the current fiber, and Stop is thrown out of a call about another
  task. `owner` and `OwnersAlwaysAgree` follow the code into both.
- **A chain whose handler cancels its result is destroyed twice.** `Future::chain`
  attaches to its result a function that does `delete this` (`future.hpp:607`). When
  the handler calls `out.resolveCancel()`, as `host/manager.hpp:79` does whenever the
  source was cancelled, this happens inside `Subscription::activate`, which reads
  the object afterwards (`subscription.cpp:69`) and deletes it again. `MC_Future` with
  `Tame = FALSE` violates `NoUseAfterDelete`. Nor need it be the result itself: with
  chains from a to b and from b to c, a handler of the first chain that cancels c
  makes c withdraw the second chain, which was the last to have a future of b; b is
  cancelled in turn and deletes the first chain while it runs. `CountedWhileSafe`
  shows that this double deletion is the only way in which the counters can go wrong.
- **A recursive mutex is granted to several tasks at once** (`mutex.cpp:151`): the
  function given to `each` returns nothing, so the walk over the waiters goes on
  after one has accepted. `Holders` of a recursive mutex has two members after one
  unlock with two waiters.
- **A recursive mutex that is acquired on behalf of a sleeping task by the root
  context has no owner** (`mutex.cpp:71`): `tryLock` records the running fiber, which
  is the raiser and not the waiter, against the assert at `:136`.
- **A channel may keep its socket after close()** (`channel.cpp:449`). A `readv` that
  returns 0 sets all flags but eof, rsf_close among them, and `close()` then takes the
  socket for closed. If the event with the peer's FIN has been reported already, no
  event follows and the socket stays open until the channel is destroyed; otherwise
  the next event meets `dbgAssert(_connected)` (`:507`). Adding
  `ending # "no" ~> sock = "closed"` to `Flows` shows the former.

- **Removing from the inside of a chunk corrupts the object.** When the removed bytes
  neither begin nor end a chunk, `removeImpl` moves the rest of the chunk down and
  does not lower `_end` (`alter.cpp:747`): the last bytes appear twice, and the
  buffer's `_size` is less than what its chunks hold. The assert on the next line says
  otherwise, but `dbgHeavyAssert` is defined to nothing. `MC_Bytes` with
  `Slips = {"cutInside"}` and `Cap = 3` violates `Consistent`.
- **The first discovery of a peer is lost on an instance that waits for it.** It wakes
  the instance at once (`instance.cpp:79`), Reest writes the address into the record
  50 ms later, and the write wakes nobody: the instance finds no address and waits on.
  `Pursued` without its premise is violated.
- **An address that leads to another peer parks its instance** (`instance.cpp:186`):
  no link, no error, satisfactions held, `_hasAddress` still true, so that neither the
  registry nor a discovery wakes it. `turnedAway` marks such instances, and
  `SatisfiedArePursued` and `Pursued` except them.
- **A worker erases the mark of another's connect** (`node.cpp:573`), so that two
  connects to one address can run, against the comment at `:550`.

- **bytes**, the other values of `Slips`: chunks put into the middle of a chunk make a ring
  (`alter.cpp:506` gives the constructor next and prev in the wrong order); a moving
  write of a longer object counts the bytes that it has cut off (`:441`); the same
  write inserts, or overwrites when the source is shared (`:406`); `removeTo` an
  Alter that is not at the end overwrites with parts of chunks and inserts whole
  ones (`:651`); `prepareWriteBuffer` and `Cursor::read` to an Alter write into a
  shared buffer; after a commit that ends with a chunk, `read` finds nothing and
  `remove` takes the wrong bytes; the cursors of the source of a moving write, and
  of the target of a move assignment, are left pointing into chunks that have gone.
  `Slips = {"moveUpTo"}`, for one, violates `Consistent` after four steps: the last chunk
  that is kept still points to one that was deleted.

## Proofs

The theorems hold for every value of the constants: any sets of tasks, waitables,
owners, subscriptions, states, continuations, timers, peers or sessions, any number of
links between two edges, and any bound. `Spec` is that of the module
named first (`OwnerSpec` and `JoiningSpec` where it has that name), without fairness.

| Module | Theorem | Statement |
|---|---|---|
| `Task_proofs` | `TypeCorrect` | `Spec => []TypeOK` |
| | `ListsAlwaysAgree` | `Spec => []ListsAgree` |
| | `StoppedIsNeverHeld` | `Spec => []StoppedNeverHeld` |
| | `StoppedIsNeverEntered` | `Spec => NeverEntered` |
| | `OwnersAlwaysAgree` | `OwnerSpec => []OwnersAgree` |
| | `StopAlwaysReachesAll` | `OwnerSpec => []StopReachesAll` |
| | `StopAlwaysWaits` | `OwnerSpec => StopWaits` |
| `Waiting_proofs` | `AlwaysExclusive` | `Spec => []Exclusive` |
| | `LinksAlwaysMatchWaiters` | `Spec => []LinksMatchWaiters` |
| | `OneIsEnough` | `Spec => WakesOne` |
| | `ConservedHolds` | `PlainWaits` implies `Spec => []Conserved` |
| | `NoWakeupLost` | `PlainWaits` implies `Spec => []NoLostWakeup` |
| | `OnlyStoppedEverThrow` | `Spec => []OnlyStoppedThrow`, the second half of `NoLostWakeup`, for any waits |
| | `WaitingTypeCorrect` | `Spec => []TypeOK` |
| `Sbs_proofs` | `RefinesSignal` | `Spec => ImplementsSignal`: Sbs refines Signal |
| | `AlwaysDeletedInTime` | `Spec => []DeletedInTime` |
| | `TypeCorrect` | `Spec => []TypeOK` |
| `Future_proofs` | `ResolvesOnce` | `Spec => ResolvedOnce` |
| | `CountedWhileSafe` | `Spec /\ []Safe => [](Counted /\ AssertsHold)` |
| | `TypeCorrect` | `Tame` implies `Spec => []TypeOK`: the unsigned counters never wrap |
| | `CountedHolds` | `Tame` implies `Spec => []Counted` |
| | `AssertsNeverFail` | `Tame` implies `Spec => []AssertsHold` |
| | `NothingUsedAfterDelete` | `Tame` implies `Spec => []NoUseAfterDelete` |
| | `AllSettled` | `Tame` implies `Spec => []Settled` |
| `PollLoop_proofs` | `AlwaysSleepsIdle` | `Spec => []SleepsIdle` |
| `Stiac_proofs` | `NeverFails` | `Restrained` implies `Spec => []NoFails` |
| | `LinksAlwaysPair` | `Restrained` implies `Spec => []LinksPair` |
| `Net_proofs` | `NothingEverLost` | `Spec => []NothingLost` |
| | `AlwaysClosedOnce` | `Spec => []ClosedOnce` |
| | `ChannelInvariant` | `Spec => []NetInv` |
| | `PrioritiesAlwaysFollow` | `JoiningSpec => []PrioritiesFollow` |
| | `AlwaysToldClosedOnce` | `JoiningSpec => []ToldClosedOnce` |
| | `SatisfiedAreAlwaysPursued` | `JoiningSpec => []SatisfiedArePursued` |
| | `OnlinesAreAlwaysUp` | `JoiningSpec => []OnlinesAreUp` |
| | `JoinsAreAlwaysServed` | `JoiningSpec => []JoinsAreServed` |
| | `JoiningTypeCorrect` | the types, but for priorities being naturals |

`ListLemmas` has the facts they share about `Append`, `Tail`, `RemoveAt`, the removal of
an element and concatenation of lists without repetitions.

### Assumptions

- `NullAssumption`, `OwnerAssumption`, `NodeAssumption`, `AnswerAssumption`,
  `SbsAssumption`: a null pointer, and what stands for nobody or for an answer that is
  not a session, is none of the objects.
- `WaitingAssumption`: every waitable has one of the kinds, a semaphore has a place,
  and what the program waits for are lists of waitables. `ConservedHolds` and
  `NoWakeupLost` assume `PlainWaits` besides, which restricts the waits of the program
  and which the waits of the run meet (`PlainAssumption`): no waitable occurs twice in
  one wait, a recursive mutex is waited for by itself, and an expression becomes untrue
  through events only. None of it is enforced by the code, and beyond it they can fail.
  Whether a recursive mutex is available is asked of the running fiber (`mutex.cpp:44`),
  which during an unlock is the raiser and not the waiter: a waitAny for a recursive
  mutex that the raiser holds and for the mutex that it unlocks takes the former, and
  the latter stays locked by nobody. An expression that negates a notifier is not told
  when another waiter consumes the notifier.
- `FutureAssumption`: states and continuations are different things, continuations of
  `then` and `canceled` have a source and chains a result too, no two chains the same,
  because `Future::chain` makes the state of its result itself. The theorems that are
  marked so assume `Tame`, a constant that restricts the program and not the code;
  `ResolvesOnce` and `CountedWhileSafe` do without.
- `PollAssumption`: the pool has fibers, fibers and descriptors are finitely many, and
  the main task, fibers and tasks of awakers are different things.
- `TwoEdges`, `QuotaNat`: a connection has two ends, and each makes any number of links.
  The theorems of Stiac assume `Restrained` besides: an end that cancels calls does so
  once, and passes no interface. The code enforces nothing of the kind; with two
  cancels `NoFails` is false (`stiac_collision`).
- `DemandAssumption`: weights are naturals (the code has them unsigned); the bound on
  satisfactions is not zero.
- `NetAssumption`: the limits of the send buffer are ordered as in `channel.hpp`, the
  kernel takes at least one unit, and the bounds are naturals.

### Arguments

Each is an inductive invariant, shown by a lemma per action, from which the
properties follow.

- *Scheduler*: `Consistent == TypeOK /\ ListsAgree`. Neither half is inductive:
  `Ready` appends the fiber of a task to a list, which keeps the type of the list
  only if a held task has a fiber; and a fiber taken from the head of a queue leaves
  every list only if it is in no other and there only once. There is one lemma for
  each way the processor changes hands (`RunReady4StopConsistent` and its like, joined
  in `RunNextConsistent`). The safety theorems then follow from `StepMoves`, which
  says what a step may do to the state of a task.
- *Waiting*: `WaitingInv == Control /\ Walking /\ AllPlacesKept`. `Walking` says that
  the rest of a walk holds waiters only, each once: an accepted offer takes the
  accepting waiter out of all lists, the one that is walked over included, and a walk
  that met a link twice could grant twice. `PlacesKept` is what `Exclusive` needs in
  the middle of an unlock: while a mutex that nobody has accepted yet is on offer, its
  counter stands at one although nobody holds it. `Conserved` and `NoLostWakeup` hold
  between operations, and `Steady == Told /\ (NobodyStopped => Attentive)` says what of
  them holds in between. `Avail` is what waiters will find of a waitable when the walk
  over its links is over, if nobody takes it before; `AllPatient` says that nobody
  could be satisfied with that, except for those whom the walk has yet to ask, and
  they only with what is on offer. So whoever a walk leaves unasked, because it ends
  with the first that accepts, has nothing to expect of it. `AllExact` counts grants,
  with the mutex on offer as one that nobody has yet.
- *TaskOwner*: `OwnerInv == Below /\ Lists /\ Stops`, on top of `Consistent`. `Lists`
  joins the lists of owners with the frames of the waits in progress: `_waiting` is in
  use exactly while some context is in the wait of that owner. `Stops` needs that
  whoever was met by the wait of a stop has been stopped and cannot run on
  (`MetHaveStopped`), which is `StoppedNeverHeld` of the scheduler seen from above.
- *Sbs*: `SbsInv == Typed /\ Chained /\ Owning /\ Framed /\ Living`. `Chained` says
  that there are a list c which the pointers form and, for each activation, a part
  t[a] of it, from `next` to `last`, that is still to be called (`Listed(c, t)`). Every
  operation on the pointers is shown to be an operation on c and t: removing a
  subscription from the ring takes it out of c and, by the corrections that
  `Box::remove` makes to the enumerators, out of every t[a]. Since c and t are unique,
  they are also the refinement mapping (`List` and `Left`), and so the lemmas of the
  invariant carry the refinement: each step of Sbs is the step of Signal of that name
  or changes nothing that Signal has.
- *Future*: `IInv == Shape /\ Counts /\ Tidy`, in layers each of which needs the one
  before. `Shape` holds of every program: boxes list what is attached, and what the
  call stack names exists. `Counts` says that each counter is what refers to the state,
  calls that have still to give something back included, and what keeps the state as
  it is: every call that will return to a state rests on a counter of it that is held
  further down the stack (`Sound`), and what is left in the boxes of a resolved state is
  about to be called (`Delivering`). A step keeps `Counts` if no continuation is
  destroyed a second time in it (`Safe`). That it is not is due to `Tidy`, and there
  `Tame` comes in: a chain that runs or is being destroyed has one marker on the stack,
  and the results that hang on it form a tree of open states (`Tree`), which all calls
  above the marker leave alone (`Shielded`). The tree is made of attached chains, and
  it cannot come back to the chain's own source, because chains have no rings
  (`Ordered`: a rank that grows along them). So neither the handler nor anything that
  it sets off at any depth resolves the result, and only the result destroys the chain.
- *PollLoop*: `IdleInv == LoopType /\ ActorsFit /\ Quiet /\ Callable /\ OneFree /\
  Carried /\ Marked` follows each reason to be awake to the sleep that it forbids.
  `_needExecInFiber` stays raised only while no fiber of the pool waits (`Callable`); the
  loop calls executeReadyFibers and spawnFiberIfNeed before it looks, so that nobody
  runs (`Quiet`) and a fiber waits (`OneFree`). While descriptors are listed a fiber is on
  its way to them (`Carried`). An awaker that is marked is listed, or about to be, and
  the event descriptor is written after that and read before the list is taken
  (`Marked`), which is why a wake-up from another thread between the look at the list
  and epoll_pwait is not lost.
- *Stiac*: `StiacInv` takes each number of each edge for a conversation: the link L
  that the edge has under it, the link R of the peer, and what is on its way, F there
  and B back. `HearL` and `HearR` say what either end may still hear; each is true of
  its end alone, so that it holds on when the other is destroyed. `Tie` joins them: the
  link of the maker is made and not yet heard of (`Made`), known to both (`Known`), or
  gone at the other end (`Left`), and a link that only the other end has is closed and
  waits for what ends it (`Late`). A number goes through links of several
  generations, and `Ordered` says what may follow what in a queue: once a link is
  made, nothing more is said there of an earlier one. Only the end that answers a cancel may
  cross the making of the next link and arrive there; it meets no zombie then, and this
  is where `Restrained` is needed. There
  is one lemma for each thing said and each thing heard, about L, R, F and B only; the
  lemmas about actions show that a step is one of these for one number and changes
  nothing under any other. `Bounded` says that a number is free for every link that
  may still be made, and `UsedOnly` that a new link is of a generation never seen.
- *NetChannel*: `NetInv == Typed /\ Stacked /\ Told /\ Fresh /\ Flagged /\ Conveyed`.
  `Stacked` describes the call stack: at most one closed() is under way, and a look at
  eof in the middle of the stack stands directly below a doRead. `Flagged` says that
  remembered flags are true of the kernel, and that whoever is about to act on the
  end of the peer has nothing left to read: this gives the last part of `NothingLost`.
  `Told` says where closed() stands: to come, on the stack, or done.
- *Joining*: `JoiningInv == RegistryInv /\ ReestTypeOK /\ SessionsInv /\ InstancesInv`,
  one part for each service. Added to the properties are who may be told that a
  session is closed (`TasksTold`), that links and marks of connects belong to
  sessions (`LinksHeld`, `MarksHeld`), and that nothing goes on before the start and
  after the stop (`Quiet`). `MarksHeld` is what `JoinsAreServed` rests on: a worker that
  leaves its waiters to whoever has marked the address leaves them to somebody.

### Only model-checked

- Liveness (`StopDelivered`, `QueuedRuns`, `WaitReturns`, `Served`, `StopEnds`,
  `Answered`, `Flows`, `Pursued`): fairness and ENABLED are out of the prover's reach.
- `Conserved` and `NoLostWakeup` once a task was stopped do not hold at all, see
  [above](#what-is-checked-under-a-restriction).
- The sums of Demand (that a priority is a natural): induction over a set.
- `WheelExact`: rolling the wheel forward is a fold over buckets, and what it does for
  every input is an induction over data.
- `Consistent` and `ImplementsFlat` of `Bytes`, whose lists of chunks are followed by a
  recursive function, for the same reason.

## Limits

- `enumerateFibers` (diagnostic), the context-switch engines, stack handling.
- `Waiter` with a callback instead of a task (`when`), a waitable that occurs
  twice in one wait, and a stop that ownTo withdraws while a wait is waking up.
- `resolveAs`, `continueAs` and continuations that suspend their task.
- Argument transfer through signals, and wires with return values.
- poll: registration and destruction of timers and
  awakers during the run, waiting through setRaisable, asyncSelect (Windows).
- stiac: the stages between edge and transport, pause and start, serialisation.
- net: datagram channels, the accept loop of the server, options, buffer sizes.
- The ring of pointers of the intrusive list: modules use sequences with the order
  of reads of `remove`, `each` and `flush`.
- bytes: a prepared buffer that is kept across other calls, comparison, text.
- ppn-node: start-up, acceptors, NAT mappings, local addresses, payloads of a link; the
  inside of the handshake. connectivity: the values of ratings, several addresses of a
  peer; Sample leaves the exact ends of intervals out, where an element of priority 0
  can be drawn (`probabilityQueue.cpp:113`, one random number in 2^53); objects that are
  destroyed below their own handlers (`statIA.cpp:111`, `local.cpp:153`).
- Not modelled: host, mm, aup, the other ppn modules, www. They are ordinary
  sequential code over the parts above, or wait for the links that stiac gives
  them; the numerical code (crypto), the code generator (idl), glue and
  presentation have no states that a model checker would explore.

## Plan

1. Scheduler, Waiting, TaskOwner, Sbs with Signal, Future, Clocking, PollLoop,
   Stiac, NetChannel, Bytes with FlatBytes, Demand, Reest, Node, Joining — written.
2. Proofs: of Scheduler, Waiting, TaskOwner, Sbs, Future, PollLoop, Stiac, NetChannel and
   Joining — done: every safety property of the runs, but for those named
   [above](#only-model-checked).
3. Later: the two-pointer ring of IntrusiveDlist as an implementation of a sequence;
   `when`, repeated links, `continueAs`; the server's accept loop; the handshake of
   ppn-node-link on top of Stiac; the life of a module in the host's manager.
