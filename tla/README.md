# slog-multi in TLA+

[slog-multi](../src/README.md) builds `slog.Handler`s out of `slog.Handler`s: it fans
records out, fails over, balances, routes, recovers and pipes them through
middlewares.  This directory models that program in TLA+, checks the models with
TLC and proves what matters most with TLAPS.

Run a check with `tlc -config fanout.cfg Fanout.tla` (section 3 lists every run with its
module and its bounds) and a proof with `tlapm FanoutProofs.tla`.

## 1. The system

A handler has four methods.  `Enabled(level)` says whether it wants records of a
level, `Handle(record)` takes one and returns an error, `WithAttrs` and `WithGroup`
derive a new handler.  `slog.Logger` calls `Enabled` and then, if the answer is yes,
`Handle`, from whatever goroutine logs.  Nothing in slog-multi starts a goroutine or
takes a lock: a composite handler is immutable after its construction and is shared
by all goroutines, and each call runs on its caller's goroutine.  Children,
predicates, callbacks and middlewares are the user's code: they may fail, panic,
hang, and change their answers.

| component | source | state | operations | what makes it correct |
|---|---|---|---|---|
| fan-out | `multi.go`, `error.go` | slice of children; per call: loop index, `errs` | `Fanout` (flattens), `Enabled`, `Handle`, `WithAttrs`, `WithGroup` | each enabled child gets the record once, whatever its siblings do; every failure is in the joined error; the call ends |
| failover | `failover.go`, `error.go` | slice of children; per call: loop index, `err` | as above | priority order; nothing after the first success; no record lost without an error; the last error is returned |
| pool | `pool.go`, `error.go` | slice of children; per call: `start`, loop index, `err` | as above | every child is reached once from every start; the available child nearest behind the start takes the record; no record lost without an error |
| first match | `firstmatch.go` | slice of routes | as above | only the first matching route is served; a disabled match ends the call; predicates run once |
| routable handler | `router.go` | predicates, inner handler, its own copy of groups and attributes | `Handle`, `isMatch`, `WithAttrs`, `WithGroup` | predicates see the attributes the inner handler will log |
| router builder | `router.go` | slice of routes, mode | `Router`, `Add`, `FirstMatch`, `Handler` | a router has the routes added to it; a built handler does not change |
| predicates | `router_predicate.go` | none | `LevelIs` ... `AttrKindIs` | each means what its name says |
| error recovery | `recover.go` | callback, inner handler | `Enabled`, `Handle`, `WithAttrs`, `WithGroup` | failures are told to the callback, errors come back; panics stop |
| pipeline | `pipe.go`, `middleware.go` | slice of middlewares, which `Handler` empties | `Pipe`, `(*PipeBuilder).Pipe`, `Handler` | the chain is what was added, in order |
| inline handlers, inline middlewares | `handler_inline*.go`, `middleware_inline*.go` | user functions; groups and attributes | the four methods | the wrapped method is called, derived handlers stay wrapped |

They interact by calls only.  A composite calls `Enabled` and `Handle` of its
children in a loop; `try` (`error.go`) turns a panic of a child's `Handle` into an
error, but a child's `Enabled` and a first match's predicates run outside of it.  A
router builds a fan-out of routable handlers, or a first-match handler of copies that
skip their predicates.  What is shared is memory: routers derived from one another
share an array of routes, a pipe shares its middlewares with its caller, and the
children of a composite share attribute slices, the arrays of groups, and the back of
a record.

What is hard to test here: a level that moves between `Enabled` and `Handle`;
combinations of failing, panicking and disabled children; the wraparound of the
pool; a callback that panics inside a deferred function; the aliasing of slices
between builders, which depends on their capacity; a child that writes into memory its
siblings have; derivations of composites of composites, where one forgotten child,
wrapper or group shows only in one combination.  `PROJECT.json` lists these hazards with
the line where each bites and the property that covers it, or why none does.

## 2. The modules

| module | models | builds on |
|---|---|---|
| `Dispatch` | what all four dispatchers do: goroutines in calls of one shared handler, the `Enabled` loop, one turn of a `Handle` loop, `try` | |
| `Broadcast` | abstract: what a fan-out promises | |
| `FirstSuccess` | abstract: what a failover and a pool promise | |
| `Fanout` | `FanoutHandler` | `Dispatch`, `Broadcast` |
| `Failover` | `FailoverHandler` | `Dispatch`, `FirstSuccess` |
| `Pool` | `PoolHandler` | `Dispatch`, `FirstSuccess` |
| `FirstMatch` | `FirstMatchHandler` and `isMatch` | `Dispatch` |
| `Recovery` | `HandlerErrorRecovery` | |
| `GoSlice` | Go slices over shared arrays, `append` | |
| `RouterBuilder` | `router` | `GoSlice` |
| `PipeBuilder` | `PipeBuilder` | `GoSlice` |
| `Attributes` | attributes, groups, records, and how they are put together | |
| `Predicates` | the eight predicates | `Attributes` |
| `HandlerTree` | every handler as a value, and what its `Enabled`, `Handle`, `WithAttrs` and `WithGroup` do | `Predicates` |
| `Logger` | a composition built, derived from and logged to | `HandlerTree` |
| `Meaning` | abstract: what a derived composition means | `Logger` |
| `MCLogger` | the compositions TLC tries | `Meaning` |
| `Sharing` | slices, groups and records in the hands of several children | `GoSlice` |
| `FanoutProofs`, `FailoverProofs`, `PoolProofs`, `FirstMatchProofs`, `RouterBuilderProofs`, `SharingProofs`, `LoggerProofs` | proofs | the module of the name |
| `MiddlewareProofs` | proofs | `PipeBuilder`, `Recovery` |

The system is modelled three times, each time with what one kind of question needs.
`Dispatch` and the modules on it have *goroutines and levels*: one composite, children
that are opaque, every interleaving.  `HandlerTree` and `Logger` have *composition*: all
the handlers in each other, with attributes, groups and predicates, one call at a time,
which is enough since goroutines share nothing but levels.  `Sharing` and the builders
have *memory*: one composite and the arrays its children can reach.

**Dispatch.**  `pc[g]` is where goroutine `g` is: at rest (`idle`, or how its last
call ended: `dropped` by `Enabled`, `returned`, `panicked`), in the `Enabled` loop, at
the entry of `Handle`, at the head of the loop of `Handle`, or inside a child.  One
step is one turn of a loop up to the next call of user code, so that goroutines
interleave and levels move (`SetLevel`) between any two questions asked of a child.
A call starts with `Enabled`, as from a logger, or with `Handle` right away, as from a
test or a parent.  `fate` and `fresh` are history: what happened to each child in
the call, and whether no level moved since it began.  A record is its level and an
error is the child it came from.  `Visit`, `Settle` and `Exhaust` are the common parts
of the loops; each dispatcher gives them the child at its turn and what to do after it.

**Fanout, Failover, Pool, FirstMatch.**  One action per step of the source: the
`Enabled` loop (`FanoutEnabled` ...), the entry of `Handle` (`Handle`, `HandleEmpty`),
the turn up to the child (`HandleVisit`, `HandleTry`; `isMatch` and `HandleMatched`), the
child's return (`HandleCollect`, `HandleAttempted`, `HandleReturn`), the loop's end
(`HandleReturn`, `HandleGiveUp`, `HandleNoMatch`).  Slices count from 1 in the models.

**Recovery.**  The wrapped handler returns or panics (`Handle`); the callback runs in
the body or in the deferred function and may panic in both (`Propagate`,
`RecoveryPanics`, `Recovered`).

**RouterBuilder, PipeBuilder.**  A slice is an array and a length (`GoSlice`); two
slices may share an array.  `append` doubles a full array, as the runtime does for
the small slices of one-pointer and two-pointer elements used here.  Routes and
middlewares are numbers in the order they were made.  `PipeBuilder` runs `Handler`
one middleware at a time, since each may panic.

**Attributes, Predicates.**  An attribute is a key with leaves, each a path of keys and a
typed value, so that groups in groups and their merging are sets of paths.
`UniqAttrs`, `AppendAttrsToGroup` and `AppendRecordAttrsToAttrs` are slog-common's, modelled from
their use in `router.go`: the first, which the second calls, keeps of the attributes of one key
the last, the third keeps all.  A message is its set of words.  The predicates count as the code does.

**HandlerTree, Logger.**  A handler is a record with its kind and its fields; `Fanout`,
`FirstMatch`, `InlineMiddleware` and the other constructors do what the code's do
(flattening, unwrapping a single child, copying routes with `skipPredicates`), and every
kind has its four methods.  A handler calls those of another one without knowing its type:
`Enabled`, `Handle`, `WithAttrs` and `WithGroup` are CONSTANT operators, `EnabledOf`, `HandleOf`,
`WithAttrsOf` and `WithGroupOf` pick the method of a type, and `DynamicDispatch` says that
the former are the latter.  `MCLogger` makes them so (`MCEnabled` ...), and TLC follows the
tree.  `Build` and `Nodes` (`BuildOf`, `NodesOf`) are closed in the same way.  No operator
that the proofs are about is declared RECURSIVE.  `Sink` is a handler of the user's, which
writes attributes in the groups that are open when they come.
What the user's code does in a call is `env`: which handlers are off, fail or panic, and
what a pool draws.  A call's outcome is the list of user code it called, with what each
was given, and how it ended.  In `Logger` a composition is built, derived from up to
`MaxSteps` times (`With`, `WithName`) and logged to (`Log`).  In `Meaning` `Applied` says what
the result should be, by giving every handler the derivation on its own, with no flattening
or rewrapping on the way: the abstract meaning that the derived handler is compared with.

**Sharing.**  Attributes are cells of arrays and a group is an array of its own.
`WithAttrs` gives each child in turn the slice or a copy, as the composite does; `Handle`
the record or its clone.  A child keeps the slice, appends to it, writes over it (the GDPR
middleware of `examples/pipe`), copies it (an inline handler), or adds to its record at
any later time (`AddAttrs`, with slog's note when it finds the space taken).

Operators whose comment begins with "Mutant" are not part of the models: each is the
form a definition would take with a plausible bug, and shows that the property it
is paired with in `PROJECT.json` can fail.

## 3. The runs

| run | module | bounds | result |
|---|---|---|---|
| `fanout` | `Fanout` | 2 goroutines, 0 or 2 children, 2 levels | passes |
| `failover` | `Failover` | 1 goroutine, up to 3 children, 2 levels | passes |
| `pool` | `Pool` | 1 goroutine, up to 3 children, 2 levels | passes |
| `first_match` | `FirstMatch` | 1 goroutine, up to 3 routes, 2 levels | passes |
| `recovery` | `Recovery` | 2 goroutines | passes |
| `recovery_nil` | `Recovery` | 1 goroutine | violated |
| `router_builder` | `RouterBuilder` | 7 routers, 5 routes, 1 handler | passes |
| `router_fork` | `RouterBuilder` | the same | violated |
| `pipe_builder` | `PipeBuilder` | 4 middlewares, 2 builders, 2 handlers | passes |
| `logger` | `MCLogger` | all of `MCCompositions`, 3 derivations, 2 records, every mood of every child | passes |
| `attr_value` | `MCLogger` | the same | violated |
| `sharing` | `Sharing` | 5 composites, up to 3 children, 5 behaviours | passes |

*What passes.*

- `ServesExactlyTheEnabled`, `NoSilentLoss`: if no level moves during a call, the right
  children got the record or an error says so.  `PriorityRespected`, `GoesAround`,
  `OnlyTheFirstMatchIsServed`: who is asked, in which order, and who is not.
  `PredicatesRunOnce`.  `NearestAvailableTakesIt`: the child of a pool that takes a record is
  the one nearest behind the random start among those that are enabled and do not fail, so
  the load is even as long as all are, and a child that is not available has its load taken
  over by the next.
- `ImplementsBroadcast`, `ImplementsFirstSuccess`: the detailed modules step as the
  abstract ones do, whatever the levels do.  `CallReturns`: a call ends.
- `CallbackHearsEveryFailure`, `PanicsAreContained`, `ErrorsPropagate`: the recovery handler.
  The last is about errors the callback was told of without a panic; what is returned
  otherwise is `recovery_nil`'s question.
- `ChainsKeepTheirRoutes`, `BuiltHandlersAreFrozen`, `PrivateBuildsAreExact`,
  `CallersSliceIsKept`: which ways of using the builders are safe.
- `DerivedActsAsComposed`: deriving commutes with composing.  `PredicatesSeeWhatIsLogged`:
  the attributes a route keeps for its predicates are those its handler writes, group by
  group, of values that clash (`Clash`: one path, or one below the other) the last.
  `DisabledHearNothing`, `EnabledIsKept`: `Enabled` through several levels of composites.
  `DistinctAttrsAreAllThere`: the counting predicates mean what they say as long as no key
  occurs twice.
- `DerivedAttrsAreOwn`, `RoutesSeeWhatTheirHandlerKeeps`, `RecordsAreOwn`: what children do
  with their slices and records does not reach their siblings.  The first and the last
  name what they leave out: children that write into groups, which all copies share; two
  children that append, or one that writes, behind a failover or a pool, which hand out
  one slice; and a recovery handler's callback that adds to a record together with the
  handler it recovers.

*What is violated.*  Each of these runs states what a comment in the source says.
`recovery_nil`: `Handle` returns nil after a panic, of the wrapped handler or of the callback
that was being told of an error (`recover.go:34` and `:89`).  `router_fork`: the
second of two `Add`s on a router of three routes removes the route of the first
(`router.go:38`).  `attr_value`: an attribute that occurs twice, on the logger and on the
record for instance, stands for one that is missing (`router_predicate.go:145`).

Seen while reading, without a run: delivery is sequential although `multi.go:15` speaks of
parallel; the load of a child of a pool that is not available falls on its successor alone
(`NearestAvailableTakesIt`) and is not spread "evenly across all available handlers"
(`pool.go:27-28`); `pipe.go:20` has the last middleware see a record first, while
`pipe.go:62` and the code have the first; the clones of `multi.go:96-97` are shallow, so
children share the arrays of groups.

*Why the bounds are enough.*  Three children give every child of a loop one before
and one behind it, and the pool a wraparound that skips one; with two levels a
child may be enabled or not and may change.  Goroutines share nothing but the
children's levels, which `SetLevel` moves at any time, so one goroutine meets every
interference; `fanout` checks with two that their calls keep apart, and the proofs of
section 4 hold for any number.  Five routes fill an array of four and move beyond it, and
the fork at three routes is the first that finds room to overwrite; seven routers allow
a fork with a `FirstMatch` on one side.  Four middlewares allow a builder over the caller's
two (with room for a third or none), one of its own, and additions to both after a
build.

`MCCompositions` has every composite over every other, beside a child that is bare, recovers or
routes; every wrapper in every composite and around every composite; fan-outs of none, one
and two in one another; and a route for each of eleven uses of the predicates (a twelfth
panics when it is constructed).  The proofs are about all others too, except for
`DerivedActsAsComposed`.  Three derivations are
the shortest that open a group, add attributes in it, and add to it once more, where the
merging of slog-common begins; the empty group name changes nothing and is tried
everywhere.  `Additions` repeats the key `a`, in one addition and in several, and has an
attribute with the name of the group; the records repeat keys of the logger.  In `Sharing` a record holds `Front` = 1 attributes
by value where slog holds five: what matters is whether the front is full and what is
behind it.  Three children let two interfere around a third.

*Fairness.*  `FairSpec` of `Fanout`, `Failover`, `Pool` and `FirstMatch` has weak fairness on
the steps of a goroutine inside a call, since the Go scheduler runs every runnable goroutine,
and on the return of a child's `Handle`: `CallReturns` is about children that come back,
for a child that hangs keeps its caller.  Nothing is assumed about the start of calls
or about levels, which may move for ever; `CallReturns` holds because a turn of the loop
always moves on.

*Deadlock* is not checked in the runs of the builders, which stop at their bounds, and of
`Sharing`, which is over when each child has had its turn.

## 4. The proofs

The proofs are for any number of goroutines, children, routes, levels, builders and
middlewares.  The assumptions are on the constants alone: bounds are natural numbers
(`DispatchAssumption`; `RouterAssumption`: at least one router; `PipeAssumption`: at least
the caller's two middlewares; `SharingAssumption`: two children, and a record with at
least one attribute by value), and the kinds and behaviours of `Sharing` are those it
models.  `LoggerAssumption` says what a composition is made of (`Composition`: nothing derived
yet, a name stands for one of the user's handlers), that attributes and groups are ones, and
that `WithAttrs` is given some attributes, none of them a group (`Addition`), which may repeat keys.
The theorems about `Logger` also assume `Recursion`, see below.  Every invariant of a passing
run is proved but `DerivedActsAsComposed`.  TLC agreed to the `IInv` of `PipeBuilder` and of
`Sharing` on small instances before they were proved, and to that of `Logger` on the run's.

| module | proves | the invariant behind it |
|---|---|---|
| `FanoutProofs` | `TypeCorrect`, `FailureIsolation` (`ServesExactlyTheEnabled`), `Refinement` (`ImplementsBroadcast`) | children behind the counter are settled, the enabled ones have the record, `errs` holds exactly the failures so far |
| `FailoverProofs` | `TypeCorrect`, `PriorityOrder`, `LossIsReported` (`NoSilentLoss`), `Refinement` (`ImplementsFirstSuccess`) | while the loop runs and `err` is nil, every child behind the counter was disabled |
| `PoolProofs` | `TypeCorrect`, `WalkGoesAround` (`GoesAround`), `LossIsReported`, `LoadGoesToTheNearest` (`NearestAvailableTakesIt`), `Refinement` | the failover's, seen through the walk around the slice; who was settled wanted the record and failed, or did not want it |
| `FirstMatchProofs` | `TypeCorrect`, `FirstMatchServed`, `NoDoubleMatching` (`PredicatesRunOnce`) | routes behind the counter were asked once and did not match, those ahead were not asked |
| `MiddlewareProofs` | `RecoveryTypeCorrect`, `EveryFailureIsHeard`, `NoPanicEscapes`, `ErrorsReachTheCaller` | each place of a goroutine goes with few stories of its call |
| `RouterBuilderProofs` | `TypeCorrect`, `ChainsSafe` (`ChainsKeepTheirRoutes`), `HandlersFrozen` (`BuiltHandlersAreFrozen`) | the family tree of routers |
| `MiddlewareProofs` | `TypeCorrect`, `PrivateBuilds` (`PrivateBuildsAreExact`), `CallersSlice` (`CallersSliceIsKept`) | who shares the caller's array, and what a build has taken off its builder |
| `SharingProofs` | `TypeCorrect`, `RoutesSee` (`RoutesSeeWhatTheirHandlerKeeps`), `DerivedAttrs` (`DerivedAttrsAreOwn`), `HeldRecords` (`RecordsAreOwn`) | who can write into which array |
| `LoggerProofs` | `TypeCorrect`, `PredicatesAgreeWithTheLog` (`PredicatesSeeWhatIsLogged`), `TheDisabledAreSpared` (`DisabledHearNothing`), `EnabledKeepsItsPromise` (`EnabledIsKept`), `PredicatesMeanAll` (`DistinctAttrsAreAllThere`) | every route agrees with the sinks behind it; a derived handler has the user's handlers, routes and wrappers of the composition |
| `LoggerProofs` | `DistinctValues`, `DistinctKinds`, `MergingKeepsTheLog`, `DerivationKeepsWhatIsSeen` | none, they are about operators |

*The dispatchers.*  The properties speak of ended calls and are not inductive; `IInv` adds
what a goroutine knows in the middle of one: in the `Enabled` loop that no child behind
the counter wants the record (`EnabledInv` of `Dispatch`), in the `Handle` loop what the table says.  There is a lemma
for each action; `UntouchedKeepsInv` deals with the goroutines the action leaves alone.
The refinements go the same way: the `Seen...` lemmas say how a step of the abstract
module looks through the mapping, and one lemma per action names the step it maps to,
or that nothing is seen of it.  The failover's `err` holds no more than the last failure,
so its invariant is about what a nil `err` says; `PriorityInv` also covers calls that a
panic ended half-way.  The pool's loop visits `(start + j) % n`: `Turn` says at which turn
a child is visited, `TurnOfSlot` and `SlotOfTurn` that it is the inverse of the walk, and
with that the pool's loop is a failover's.  A child's turn grows with its distance from the
start, so whoever is nearer than the child that took the record was settled before and was
disabled or failed (`AskedInv`, `EndInv`), which is `NearestAvailableTakesIt`.

*Recovery.*  A call has a handful of stories (what the wrapped handler did, what the
callback was told, where it panicked), and `CallInv` lists which may have led to where the
goroutine is.

*RouterBuilder.*  `AppendWritesOneCell` says which cell an `append` writes.  Who has that cell
in its slice was derived from a shorter router of the same array; by `Family` that one is
an ancestor, or the two have a common one, and an ancestor with two children makes a
router `Forked`.  So a router that is not forked keeps its routes (`RoutesKept`), and one
derived along a line is not forked (`LinearIsNotForked`).  Handlers are frozen because no
router has a handler's array (`HandlersApart`).

*PipeBuilder.*  The properties speak of builders between two builds.  A build is over before
the next call of any builder, but a panic may end it in the middle.  `GivenKept` splits what a builder was given in two, the
list it still has and the chain that the build in progress has taken off its end (`Parts`).
`Apart` says that two builders share an array only if both got the caller's, so an `append`
disturbs nobody who has a list of its own.  The caller's two elements need `LongEnough`:
whoever still has the caller's array is no shorter than the caller's slice, and appends
behind it, until `Handler` has emptied it or a panic has cut it short.  A
builder emptied like that writes over the caller's list when it is added to, which is why
`CallersSliceIsKept` asks for no such builder.

*Sharing.*  Four arrays are there at the start, and the invariant says who may write into
them: into the two groups only a GDPR middleware (`OriginalsKept`), into the attributes only
the children of a composite that hands them out uncopied (`KeptApart`, `AttrsKept`), into the
room behind the record only the one holder of a record that was not clipped (`HeldKept`,
`RoomKept`).  Every other array is written by who allocated it.  `AttrsKept` and `HeldKept`
carry the preconditions of the properties, since without them the cells do change: two
children that append to the slice of one failover write into one cell.  What a slice shows
is compared cell by cell (`Has`), and a text only where the groups in it are known to be
kept.  `Fixed` holds what no step changes, the number of attributes included, and `Grown`
and `Kept` what a child's step leaves of the heap, so that the lemma of each kind of child
is used for all composites.

*Predicates.*  If no key occurs twice, the attributes that fit inject into the keys, and an
injection between sets of one size is onto: the pigeonhole principle makes counting as
good as checking (`DistinctValues`, `DistinctKinds`), and so for every route of every
composition (`PredicatesMeanAll`).

*Logger.*  The theorems hold for any set of compositions, of any depth and width, any
additions, groups, records, moods and draws.  Their hypothesis is `Recursion`: on the
handlers of the tree (`Handlers`) the operators that follow it are what their definitions
say.  These equations have a solution, since each gives a handler's answer from those of
the handlers it has, which are one level below; TLC runs with the solution itself.  A
recursive operator is out of the provers' reach and an equation is not, and an induction
over the tree becomes one over its levels: `Tree` is unfolded (`TreeUnfolds`), a set that has 0
and the successors of its elements is `Nat` (`Induction`, from the well-foundedness of finite
sets), hence a property that each handler inherits from the handlers it has (`Kids`) is one of
all handlers (`KidsInduction`).  Four inductions carry the rest:

- *Derived handlers are rebuilt* (`Rebuilt`).  `WithAttrs`, `WithGroup` and the constructors make a
  handler of the same kind over what they make of the handlers it has, except that a
  fan-out takes in the fan-outs among them and drops itself if one remains.  So fan-outs are
  not counted (`Inner`), and what the others keep of themselves (`Tags`: kind, name, hooks) is
  the same before and after: nobody is lost, nobody unwrapped (`AttrsKeepTheHandlers`,
  `GroupKeepsTheHandlers`, `BuildKeepsTheHandlers`).
- *Attributes reach the sinks* (`AttrsReachSinks`, `GroupReachesSinks`).  Where no middleware adds
  anything, each sink behind a handler gets the attributes in its groups.  A route merges
  them into its own list, whose keys stay distinct.  What the list writes loses whatever
  clashes with an added value and gains what was added, of each key the last
  (`MergingKeepsTheLog`), and so do the values that count of what a sink writes (`Latest`,
  `LatestOfBoth`); so the routes that agreed with the sinks behind them still do
  (`DerivationKeepsWhatIsSeen`, `RoutesAgree`).  Under that are what `UniqAttrs` returns
  (`UniqIs`), paths and their prefixes (`ClashBelow`), what an addition writes in its groups
  (`AdditionWrites`), and what of an old group remains (`ReplacedIs`, `ClashesAre`).
- *`Enabled` is any of them* (`EnabledIsAny`): through all levels, where no middleware answers
  itself, a handler is enabled if and only if one at its end is.
- *`Handle` delivers* (`Delivers`, `HandleDelivers`): an enabled handler calls only those at its end
  that are enabled, and one of them at least if there are no routes.  There is a lemma for
  each kind.  The loops of failover and pool stop at a handler that was enabled or reach
  the end (`FirstSuccessDelivers`); the pool's meets every child from wherever it starts
  (`PoolMeetsAll`), which takes the uniqueness of remainders (`OneQuotient`).

The invariants of `Logger` speak of the last record and are not inductive; `IInv` has what
they need: the handler in use is a handler, its routes agree, its tags are those of
the composition (`Twins` turns that into names and hooks), and the event is what it makes
of the record.  `CanCall` ties the moods of `env`, which are given by the names in the
composition, to the derived handler.

Model-checked only:

- liveness (`CallReturns`), since the prover handles neither fairness nor `ENABLED`;
- `DerivedActsAsComposed`.  `Applied` walks the composition with a recursive operator, and what it
  says is equality of all calls with all they were given, also what the predicates of a route
  saw and answered.  A route keeps one group where its meaning has the group once for each
  `WithAttrs`, and `AttrValueIs` counts attributes: the two may differ for a route that
  asks for a group and something else, after a derivation that adds to the group twice.  It is a statement about the
  compositions and predicates TLC tries, not one for all;
- the violated properties, which are false.

## 5. Not modelled

- Panics of the constructors and methods on nil functions and nil handlers, which a program
  meets when it starts.
- Groups among the attributes that a logger is derived with, and `slog.LogValuer`s.  The routes'
  merging is modelled for plain attributes in open groups, with the de-duplication of
  slog-common; what it does to group values of `With` is not.
- Values whose comparison panics in `AttrValueIs`; `FirstMatch` lets any predicate panic.
- The sample programs under `examples/`, which only wire handlers together, and `errors.go`,
  which formats a value.  Of `gdpr.go`, which keys are personal data: in `Sharing` all are.
- What slog's own handlers do with a record, formatting and output; contexts and deadlines,
  which slog-multi only hands on; performance; the tests, which were read as statements
  of intent.
