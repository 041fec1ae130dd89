# Asks: a verification development

This directory models the Go implementation of Asks, the service that holds
questions, choices and notifications until the person at the machine decides
them. Paths are relative to the repository's root; `go/…` is the Go module.

Run `tlc -config ChoiceBook.cfg MCChoiceBook` for a model, and
`tlapm ChoiceBookProofs.tla` for the proofs. `PROJECT.json` maps every
definition to the lines it models and lists the runs, the mutants that show each
property can fail, the findings, the hazards and the theorems.

## 1. The system

Programs ask; the person decides; the decision is a durable record. One process
(`asksd`, or a runtime that embeds the package) owns one JSON file. Every
operation is one compare-and-swap edit of that file under one mutex, `Book.mu`;
what lives in memory is a map of channels that wakes blocked calls.

```
program ── ipc ──> application.Host ──> receivers ──> Book ──> file (CAS edit)
person's tool ───^     32 slots,        long polls,    |  \
assistant ───────^     35 s calls       pages, tokens  |   `-> `decided`: id -> channel
delegate ────────^                                     `-> rights service (external)
old programs ── ipc ──> Service (asksd) ──────────────^
```

| component | state | operations | what makes it hard |
|---|---|---|---|
| Legacy `Book` (`go/book.go`) | the file's `asks`; `decided` channels | Ask, Answer, Forget, List, Get, Decided, settle | an answer between the record and the channel |
| Legacy service (`go/service.go`) | listener, `live`, `closed`, WaitGroup | loop, serve, ask, administer, Close | Close races accept; blocked asks; a panic ends the process |
| Application `Book` (`go/application_book.go`, `go/expiry.go`) | questions, admissions, lifetimes | Ask, Observe, Release, changeApplication, readApplication | expiry applied in memory by reads, durably by edits; the wall clock steps |
| Operator side (`go/operator_book.go`, `go/questions.go`) | answers, kept flags, tombstones | answer, retire, withdraw runtime-bound | answer, dismissal and expiry in any order |
| Typed permissions (`go/typed_permission.go`) | questions with an effect digest | request, withdraw a settled one | sharing one pending request among keys, scopes and purposes |
| Ordinary choices (`go/choice_book.go`, `go/shared_choice_book.go`) | choices, the service-time floor, the answer audit | request, decide (three routes), acknowledge, observe, history | two clock readings per edit; a clock set back; collection; retention |
| Notifications (`go/notification_book.go`) | notifications, audit rows per program | post, replace, displace, decide, withdraw, acknowledge, scheduled post | held and posted ones, tags, hourly bounds, a program turned off, wakeups |
| Long polls (`go/application/receiver.go`, `choice.go`, `notification.go`) | a subscription each | read, subscribe, wait, read again | lost wakeups; channels closed twice |
| Host (`go/application/host.go`, `go/serve.go`) | listener, 32 slots, WaitGroup, settings | Listen, Enable…, Serve, Close, call | slots held by long polls; shutdown; a second Serve |
| Operator pages (`go/application/operator.go`, `choice_operator.go`, `notification.go`, `responder.go`) | epoch, presentation key | list, continue, read, act on what was presented | a page continued against another revision; a right that ends in between; a restart |
| Permission flow (`go/application/permission.go`, `responder.go`, …) | none of its own | request, recheck, withdraw what is settled, answer, effect after the edit | the rules change at any moment between the steps |
| Typed clients (`go/client/`) | a paged listing's restart | validate replies; read a list to its end | a listing restarted on a gap |
| Formatting and tools | none | `publisher.go`, `tiers.go`, `wire.go`, `errors.go`, `scripthost.go`, `cmd/`, `tools/` | none |
| Generated code (`go/abstraction`, `rs`, `py`, `cpp`, `javascript`) | none | encoders and stubs | none |

What makes each correct, in a line:

- **legacy**: a pending question is one record; a kept answer is not asked again;
  what an ask was told stands; a blocked ask ends; Close ends and leaves nobody served;
- **questions and permissions**: asked once; a key reads the answer to what it
  asked; the first answer stands; a dismissed name is never asked again; every
  edit leaves a file that the next read accepts;
- **choices**: an outcome once reported stands until acknowledged or its replay
  deadline, with a clock that moves either way; a reference has one occurrence;
  the audit loses nothing silently;
- **notifications**: an outcome stands, at most so many live and one per tag,
  a bounded rate, silence once a program was turned off;
- **long polls**: no wakeup lost, none early, no channel closed twice;
- **host**: Serve returns only when no call runs and none can begin; it returns
  after Close whatever the calls wait for; long polls do not fill it for good;
- **pages**: a list that ends is one revision; nothing is disclosed or done
  without the right; nobody acts on what another host showed; listing ends;
- **permission flow**: no request waits for a decision that was made; an answer
  stands; its rule is written once, for a record that is there.

`PROJECT.json` has the whole list of hazards, each at its line.

## 2. Modules

| module | models | stands on |
|---|---|---|
| `ChoiceContract` | what choices promise: service time only advances; a decision is made once, before its deadline | — |
| `ChoiceBook` | the choice partition and the answer audit, every operation, and edits of the other partitions as `OtherEdit` | `ChoiceContract` by `Contract` |
| `Waiters` | `decided`, `settle`, `Decided` and the long polls of the receivers | — |
| `QuestionContract` | what questions promise: names, occurrences, how each ends | — |
| `QuestionBook` | catalogue questions and typed permission requests | `QuestionContract` by `Contract` |
| `NotificationContract` | what notifications promise: how each lives and ends, at most `MaxLive` shown, one per tag | — |
| `NotificationBook` | the notification partition, who waits on it, and the block that turns a program off | `NotificationContract` by `Contract` |
| `LegacyService` | the plain Book, asksd's connections, Close, crash, restart | — |
| `Host` | the application Host: settings, Serve, slots, calls, Close | — |
| `Pages` | paged lists, their cursors and client, presentation tokens, rights of operators and delegates, restarts | — |
| `Permissions` | consent between the Book and the rights service: requests, the owner's pass, responders, the rule of an allow, crashes | — |
| `MC*` | their instances for TLC | the module named |
| `ChoiceBookProofs`, `QuestionBookProofs`, `NotificationBookProofs`, `LegacyServiceProofs`, `WaitersProofs`, `PermissionsProofs`, `HostProofs`, `PagesProofs` | the theorems about each and their proofs | the module named |

### How the state corresponds

**A call is a step.** `Book.mu` is held over the read, the edit and the settling
of channels, and the file is replaced whole, so one call of the Book is one
action in `ChoiceBook`, `QuestionBook`, `NotificationBook` and `LegacyService`.
A crash between two calls loses nothing those modules hold durable, so only the
modules with memory have a restart: `Waiters`, `LegacyService`, `Pages` and
`Permissions`. What takes `Book.mu` several times is several steps: a long poll
reads, subscribes and reads again (`Observe`, `Subscribe`, `Reply`), a legacy ask
records, subscribes and reads, a page is read and then disclosed, an answer is
recorded and then applied.

**The file is a record.** `file.choices[r]`, `file.asks[i]` and `file.notes[r]`
are the retained rows; an absent row is `Absent` or `None`. Request contents are
model values: their fields are what the guards read (deadlines, options,
actions, tags, effect digest). Digests, wording, byte limits and JSON are left out.
In `Pages` the file is the sequence of its records, each an ID and whether it is
live, acted on or over.

**The clock is an input.** A reading of the wall clock is any member of `Clock`,
chosen anew at each reading, because it may be stepped either way. An edit of
the application Book reads it twice, first to collect (`Openings`), then in the
handler (`Readings`), and the two may be in any order. Choices and notifications
keep a durable floor (`ChoiceTimeMs`; `file.floor`) below which no reading counts,
`Noted` raises it; questions have none, and expire by the raw clock. `Pages` has
one bit for it: whether a reading is past the end of every live record.

**Edits open with collection.** `Openings` (`ChoiceBook`, `NotificationBook`) is what
`changeApplication` does before the handler: expire questions, collect
choices, notifications and audit entries. Whether that is written depends on what
follows, as in the code: an error discards it. `Waiters` has the lapse itself as
state: `Elapse` is the clock passing an occurrence's end, `SetBack` the clock set back
before it, which undoes the lapse until an edit has written it. By then the lapse may have closed a
channel, so `doubted` keeps what was told of it.

**What is reported and not retained.** A request or post whose deadline has passed is
answered with `expired` and admitted nowhere. That reply is in `told` as a `lapsed`
outcome of that very request, and `ToldStands` demands that the request is never
admitted afterwards, also with the clock set back. The same reference with a
later deadline is another request and may be admitted (section 3).

**Settling may panic.** `settle` closes a channel, and closing the closed channel that
`Decided` keeps in the map panics: in an edit of the application Book the dispatcher recovers, what
was to be settled after it is not, and the edit stands. `Waiters` derives where
(`SettleAfterEdit`). `NotificationBook` has it as a possible outcome of every
edit that settles (`Commit`), since the closed channel may be a question's; `skipped` has the channels
that such a panic left open. In `LegacyService` the panic ends the process (`Die`).

**Reads may fail.** Every Book call that edits returns the error of its read and changes
nothing. `Book.get` drops it, so `Decided` and `Get` find no record: with `ReadFails`
TRUE, `Waiters` and `LegacyService` let each of those reads fail.

**The Host's calls** are reduced to what holds a slot and for how long: a long
poll, a decision that wakes it, an Ask that makes something pending, or a call
that returns at once. A dialled connection waits until `Accept` takes it or the
listener closes; `call`'s deferred
steps are two (`ReleaseSlot`, `Leave`), because admission watches the slots and Serve
the WaitGroup.

**Rights and rules are another process.** The rights service, and the runtime
that drives it, are external and are modelled from the calls the code makes to
them. In `Permissions` the rules of an effect are `open` (consent is needed) or
`decided`, and change at any moment, also inside an edit: an edit that consults
them takes two steps with `mu` held. A policy revision is a flag, whether the
rules changed since it was read. The right of a responder comes and goes, so any
of its calls may be refused. In `Pages` each caller's right is one bit that flips at
any moment, and a delegate's page is composed record by record, with the right
asked for each and again for all of them before the reply. In `NotificationBook` a
block is a step of its own, and an edit that asks for it (a post, an act) sees it
or does not: a block between that look and the write is ordered after the edit.

**Cursors and tokens** are what they bind: a cursor is the prefix it must match
(list, epoch, caller, rows of the revision) and an offset, a presentation token
is the ID and the epoch whose key signed it. Hashes are taken to be injective and
keys not to be guessed. A list is the rows of its kind in the view's order; that
filter is written by indices (`Selected`), so that the prover can reason about it.

**One key in `Permissions`.** Sharing a request among keys, scopes and purposes is
`QuestionBook`'s; `Permissions` has one program and, in its instance, one key used
by two calls.

**Histories.** `admitted`, `told`, `recorded`, `horizon`, `shown`, `lapsed`,
`blind`, `first`, `posts`, `skipped`, `panicked`, `doubted`, `misread`, and `Permissions`'
`written` (the receipts of the rights service) are not in the program's memory.
(`NotificationBook`'s `waiting` is: the open channels of `decided`. Its
`off` has the rights service's block together with whether a withdrawal took
all that was live.) They record what happened for the properties and no guard
reads them, but for the bounds on new occurrences and, for `written`, the rights
service's own look at its receipts. `NotificationBook` forgets from `told`
and `posts` what no property can look at again (`Recall`), and `QuestionBook` from
`lapsed` what is no longer pending.

## 3. Runs

Passing:

| run | question | states |
|---|---|---|
| `host` | Does Serve return drained, after Close and only then for good, whoever polls, calls Serve twice or closes when? `TypeOK` (with the bound on slots), `ReturnedIsDrained`, `NoneAfterStopped` (action property), and under fairness `ServeEnds`, `FullDrains` | 126 234 |
| `pages` | Is a list that was read to its end one revision, disclosed under a right that held, acted on as this host showed it, and does reading it end? `WholeList` (with `TypeOK`), `UnderRight`, `ActedOnShown` (action properties), `ListEnds` (fairness) | 791 144 |
| `permissions` | With rules that change at any moment, is any request left waiting, any answer withdrawn or overruled, any rule written twice or for a record that is gone? `TypeOK`, `NoneStranded`, `WrittenOnce`, `AnswerKept`, `ReplyStands`, `CompletedIsRetained` (action properties), `SettledLeaves` (fairness) | 228 070 |
| `choice_book` | Do choices keep what they reported, with two references of different deadlines, three routes of decision and a clock that jumps, and does the audit evict, age and tell without a silent loss? `FileValid` (with `TypeOK`), `ExpiryCommitted`, `OneOccurrence`, `ToldStands`, `AuditComplete`, and `ImplementsContract` (refinement of `ChoiceContract`) | 70 092 |
| `waiters` | Do edits and long polls lose a wakeup or give an early one, with a clock that is set back and reads that fail? `WokenIsSettled`, `OpenIsUndecided` (with `TypeOK`) | 20 583 |
| `question_book` | Are questions asked once, answered for what was asked, and is the file readable at the admission bound? `Readable` (with `TypeOK`), `AskedOnce`, `AnswersWhatWasAsked`, `ReleaseIsCurrent` (action property), `ImplementsContract` (refinement of `QuestionContract`) | 57 658 |
| `notification_book` | Do reported outcomes, rates, bounds and tags hold over posting, holding, displacing, deciding and failed edits, is a program that was turned off silent, and does the person's decision wake who waits for it? `FileValid` (with `TypeOK`), `ToldStands`, `RateKept`, `SilentOnceOff`, `DecisionWoken`, `ImplementsContract` (refinement of `NotificationContract`) | 44 957 |
| `legacy_service` | Does asksd keep one record per question, tell what stands unless a read failed, end blocked asks and end Close? `AskedOnce` (with `TypeOK`), `ToldIsTrue`, `ClosedServesNone`, and under fairness `BlockedAskEnds`, `CloseEnds` | 538 706 |

Violations, each a disagreement between a sentence of the repository and its
code, quoted in `PROJECT.json` under findings:

| run | property | what the counterexample shows |
|---|---|---|
| `waiters_released` | `WaitersReleased` | a question that expires between a long poll's read and its `Decided` leaves a closed channel in the map; the next edit panics closing it again, and does not wake the waiters of the answer it recorded |
| `question_lapsed` | `LapsedUnanswered` | a question that a call took to be expired takes an answer after the clock steps back; the call may be a starting runtime's `WithdrawRuntimeBound`, which then writes nothing, and the question its predecessor's |
| `notification_woken` | `WokenOnResult` | `PostScheduledNotification` displaces a notification and does not wake its poster |
| `notification_rate` | `RateKept` | with more programs than audit rows, the row that makes room takes its hour along, and its program begins the hour anew |

What the models show besides, with no run of its own:

- An `expired` reported for a request that was never admitted does not stand for its
  reference: with a later deadline (`Ask`) or expiry (`Post`) it is admitted, and may be
  decided. `CONTRACT.md` (ASK-W5, ASK-N3) has changed content answered with `conflict` and
  a terminal outcome stand until the replay deadline. `ToldStands` demands what the
  code keeps: the request that was reported is never admitted.
- A failing read as a blocked legacy ask subscribes or wakes tells it "the question was
  withdrawn" (`go/service.go:164`) of a record that is pending or answered. `ToldIsTrue` excepts
  exactly the records of which a read failed (`misread`).
- A transient forward reading of the clock collects audit entries in an edit that
  does not commit that time. `AuditComplete` is relative to the times edits
  collected at (`horizon`), not to the floor.
- `WithdrawProgramNotifications` passes over a live notification that its own
  reading finds past its expiry and does not record that, so a clock set back
  leaves it live. `SilentOnceOff` speaks of withdrawals that took all that was live.
- Forgetting an answer that raced a blocked legacy ask closes its channel twice,
  and the panic ends asksd; so does an answer to a question whose ask failed to
  read it as it subscribed. `LegacyService` has those steps (`SettleOrDie`), beside
  crashes at any moment, and its properties hold across both.
- A connection that was accepted and not yet registered when `Service.Close` ran is
  still open when Close returns (`stage` is `"returned"` and a connection is
  `"accepted"`); nothing is served on it and the loop closes it.

### Bounds, and why they are enough

- **Deadlines and clocks** are a handful of ticks (`MCClock` is `0..4` or `0..5`,
  two ticks in `QuestionBook`). The order of a reading with a deadline, the
  floor and the other reading is all that guards test, and the ranges have a tick on both sides of every deadline, but
  for the replay deadline of the held notification, which lies past the clock.
- **Requests** are few: in `choice_book` the second reference has one content, whose
  deadline is its replay deadline; in `question_book` both keys of one program ask a permission
  and a catalogue question, and the other program the runtime-bound one; in `notification_book` one of the two programs
  can be turned off.
- **References, occurrences, connections**: two of each, three where a
  displacement, eviction or third name needs one. Actions touch one occurrence
  and, through the capacities, the others as a group.
- **Capacities** (`MaxAdmissions`, `MaxAnswers`, `MaxLive`, `MaxPerHour`,
  `MaxNotifiers`) are 1 to 3, so that the boundary is reached in a few steps.
  `notification_book` has a row for every program, which `RateKept` needs;
  `notification_rate` has one for two, and the theorems about the partition hold
  for any number.
- **New occurrences** are capped by `MaxIssued` (`QuestionBook`, `Permissions`,
  `Pages`) and `MaxAsks` (`LegacyService`). Choices and notifications need no cap:
  references are constants.
- **`Host`** has two call slots for three connections and two attempts to Serve,
  so that slots run out with one connection left, and two calls can hold them all
  while a third would decide what they wait for.
- **`Pages`** has pages of one record over three records, two notifications and a
  question or the other way round (`MaxIssued`), so that every list has a second
  page, and one restart (`MaxEpoch`). `PageSize` bounds what a page may hold and the byte bound may end it earlier; the client's limit of
  64 pages is never reached, because 1024 admissions and a mebibyte end a list first.
- **`Permissions`** has two calls of one key, one responder call, one effect of each
  kind and two occurrences: a pass, a late admission and an answer to race it.
- `MaxReplay`, `Retention`, `Lifetime`, `RefuseFor` and `Hour` are one to three ticks,
  so that each elapses with other things still pending.
- Symmetry is used only in runs without a temporal property, over model values
  that the instance treats alike.
- Deadlock checking is off in `Host.cfg` alone: a Host that was closed and drained
  has stopped. Elsewhere a clock reading, a restart or a read is always possible.

### Fairness

The application Book is a passive object: each call returns, and no property of
`ChoiceBook`, `QuestionBook`, `NotificationBook` or `Waiters` says that anything must
happen. Their specifications are safety specifications. (A long poll's timer is
an action of `Waiters`; that it is bounded by thirty seconds is not modelled.)

Elsewhere fairness is what the Go scheduler and runtime guarantee. Nothing is
assumed of people or programs: nobody must ask, answer, forget, hang up, close,
start or change a rule.

- `LegacyService`: weak fairness of an accepted connection's registration, a
  goroutine whose channel or connection is ready (`Proceed`), the first line's
  timer, a read from a closed connection failing, and the steps of Close. A
  question may stay pending, and its ask blocked, forever; `BlockedAskEnds` speaks
  of asks whose question is over, `CloseEnds` of the service being closed.
- `Host`: weak fairness of each goroutine's next step, the receive deadline and a
  failing Accept on a closed listener among them. `ServeEnds` does without the
  timers of long polls; `FullDrains` names them as its assumption (`TimersRun`).
- `Pages`: a call that began is served and the client asks for its next page.
  `ListEnds` assumes nothing of writers, who may change the list at every page.
- `Permissions`: whoever holds `Book.mu` lets go of it (weak), and the owner's pass,
  which waits for that mutex, gets it in the end (strong: `sync.Mutex` hands itself
  over after a millisecond's wait). `SettledLeaves` is for behaviours that stop crashing.

## 4. What is proved

Eight modules have theorems, each for every value of the constants that meets
the named assumptions of its module (TLC evaluates them on every run):

| module | theorem | statement |
|---|---|---|
| `ChoiceBookProofs` | `TypeCorrect`, `FileStaysValid`, `ExpiryIsCommitted`, `AdmittedOnce`, `ToldIsFinal`, `AuditLosesNothing` | `Spec => []TypeOK`, `[]FileValid`, `[]ExpiryCommitted`, `[]OneOccurrence`, `[]ToldStands`, `[]AuditComplete` |
| | `Implementation` | `Spec => ImplementsContract` |
| | `ContractDecidesInTime`, `ContractDecidesOnce` | `Spec => []Contract!DecidedInTime`, `Contract!DecidedOnce` |
| `NotificationBookProofs` | `FileStaysValid`, `ToldIsFinal`, `StaysSilent` | `Spec => []FileValid`, `[]ToldStands`, `[]SilentOnceOff` |
| | `RateHolds` | with no more programs than audit rows, `Spec => []RateKept` |
| | `Implementation` | `Spec => ImplementsContract` |
| | `ContractResultFits`, `ContractWithinBounds`, `ContractEndsOnce` | `Spec => []Contract!ResultFits`, `[]Contract!WithinBounds`, `Contract!EndsOnce` |
| | `ResultWakes` | no step gives a result unheard by who waits for it, but a scheduled post, which displaces one, and a settle that a panic kept from it |
| | `DecisionWakes` | `Spec => []DecisionWoken` |
| `QuestionBookProofs` | `StaysReadable`, `NobodyAskedTwice`, `AnswerFits` | `Spec => []Readable`, `[]AskedOnce`, `[]AnswersWhatWasAsked` |
| | `ReleasedWasShown` | `Spec => ReleaseIsCurrent` |
| | `Implementation` | `Spec => ImplementsContract` |
| | `ContractNamesStand`, `ContractAnswersOnce` | `Spec => []Contract!NamesStand`, `Contract!AnsweredOnce` |
| `PermissionsProofs` | `TypeCorrect`, `NoneLeftBehind`, `RuleWrittenOnce` | `Spec => []TypeOK`, `[]NoneStranded`, `[]WrittenOnce` |
| | `AnswersStay`, `RepliesStand`, `RuleOfARetainedAllow` | `Spec => AnswerKept`, `ReplyStands`, `CompletedIsRetained` |
| `LegacyServiceProofs` | `OneRecordStands`, `NobodyMisled`, `NothingServedAfterClose` | `Spec => []AskedOnce`, `[]ToldIsTrue`, `[]ClosedServesNone` |
| `HostProofs` | `TypeCorrect`, `ReturnsDrained` | `Spec => []TypeOK`, `[]ReturnedIsDrained` |
| | `StoppedForGood` | `Spec => NoneAfterStopped` |
| `PagesProofs` | `ListsAreWhole` | `Spec => []WholeList` |
| | `OnlyUnderRight`, `ActsOnShown` | `Spec => UnderRight`, `ActedOnShown` |
| `WaitersProofs` | `WokenReadsOutcome`, `NoLostWakeup` | `Spec => []WokenIsSettled`, `[]OpenIsUndecided` |
| | `ReleasedUnlessPanicked` | `Spec => [](WaitersReleased \/ panicked)` |

Each module proves `Invariance`, `Spec => []IInv`, first, and the rest from `IInv`.
The theorems reach what the instances cannot: any number of references,
programs, connections, callers, occurrences and slots, any clock, any bound.

### The invariants, and why each is needed

**`ChoiceBook`.** `TypeOK` is not inductive: collection compares a deadline that
only a retained request has, and a reference is admitted once only because the
floor has passed the replay deadline of everything that was dropped. `IInv`
joins `GoodFile` (each record has the fields its state fills, and an expired one
rests on a floor at its deadline), the types of the histories, and `Occurrence`
(a reference is admitted at most once; if it is admitted and absent, the floor is
at its replay deadline). Every step has one `Shape`: all references age from the
old file to some `g` (`Ages`), and at most one makes one move at the new floor
(`Moves`). One lemma per action shows the shape; one shows that the shape preserves
`IInv`; and the same shape maps to a step or stutter of `ChoiceContract`. For
`FileValid`, `FileInv` adds to it what the validator compares (`SoundFile`: times
in order, an answer after its admission, the bounds), and for `AuditComplete` that
an entry recorded is held, older than the horizon allows or behind the
watermark (`AuditInv`), which an eviction keeps because it raises the watermark to
the time of the entry it drops.

**`NotificationBook`.** As for choices, a step has a shape: it only ages (`Aging`),
or it ages to some `g` and then one record ends or is acknowledged (`Finished`),
all that a program has live is withdrawn (`Silenced`), a held one is shown and the
oldest displaced (`Delivered`), or one is admitted, with what it replaces and
displaces withdrawn (`Admitted`). `IInv` is `GoodFile` (records valid for their
state at the floor, at most `MaxAdmissions` held and `MaxLive` posted of each
program, audit rows sorted and within their bounds), the types of the histories,
`SilentOnceOff` and `ToldStands`. Each shape keeps the file good, revives nothing of
a program that is off, leaves what was told as it was, and is a step of
`NotificationContract` or time passing in it; the mapping speaks of one record at a
time (`Owed`), because collection changes many in one step. `RateHolds` adds `Tallied`:
after any time of the last hour before a program's latest admission, its row
counts at least as many admissions as there were. The row may forget older ones,
which is why the bound on hours that are over is kept in the invariant for itself
(`InHour`). It assumes that there are no more programs than rows; without that the
run `notification_rate` shows it false. `ResultWakes` goes action by action: `Wakes` says
that nobody is left waiting for what the step gave a result, but for channels that a
panic in the settle loop passed over (`skipped`); the one action without
it is `PostScheduled`, which is the disagreement that the run `notification_woken`
shows. From it, and from a scheduled post recording nothing that the person did,
follows `DecisionWakes`: an open channel of what the person decided is a skipped one.

**`QuestionBook`.** `IInv` is `Good`, which is a conjunction of the types (`FileType`), that
what is in the file was issued (`Issued`), that every record has a name (`Owned`), that
a key names one occurrence (`OneKey`), that an answer was offered (`Offers`), the
bounds (`Room`), and then what the properties say of pairs: one standing record of a
scope's words (`OneInWords`), one pending request of an effect (`OneOfEffect`), and a
name whose record means what it asked (`Meant`). `Owned` is needed for the bound: a
record costs at least one name. `Issued` is what makes a new record new. `ReleasedWasShown`
is about releases that name an occurrence; `ReleaseAnsweredApplication` names none and may take an
answer nobody was shown, and `blind` says which step did.

**The contracts.** What a contract promises follows from it alone: `Fit` (choices) and
`FittingAll` (notifications) say of each status that it fits its reference at the
contract's time, a step makes of it what follows from it (`Contract!Follows`), and time
comes before the move. They add types to the promise, since the contract's `EXCEPT`
needs to know its record. For the bounds of notifications a step is split
into what it only ages or withdraws (`Leaves`), which can add to nothing, and the one
that arrives (`Arrival`): either there was room when time had passed, or one shown
left for it. For questions the dropped occurrences of a step and their names are one
set (`Moved`), whichever of expiry, withdrawal and release dropped them. `Implementation`
carries each promise to the Book, so no run checks them again.

**`Permissions`.** `NoneStranded` is not inductive: it needs that an evaluation that is
still fresh says what the rules say, or that a pass over the requests is due
(`Current`). `WrittenOnce` needs who holds the Book and for what (`Locked`), that the
record whose rule is being written is the one that was read (`Pinned`), and that a
responder's first allow belongs to one call whose rule is not yet written (`Owed`).
`ToldNamed` ties what a key was told to the occurrence it names.

**`LegacyService`.** `IInv` has the types, what each connection is at (`AllFit`: the
record it waits for, whether it is over once it woke, that what it told is what
the file says, each unless a read of that record failed: `misread`), that an open channel belongs to a pending record (`Channels`), that one record of a
question stands (`OneStands`), and `ClosedServesNone`.

**`Host`.** That a Serve returns drained needs that there is one loop (`OneLoop`), that
whoever is past `accepting` finds the listener closed (`ClosedListener`), that every
connection is counted where it is (`Counts`) and that no loop admits from `OnStopped` on (`Ended`).

**`Pages`.** `WholeList` speaks of lists that ended; the invariant says what a caller
has before that (`Fits`). Between pages its cursor binds the rows its attempt began
with (`Binds`) and what it has is a prefix of them up to the cursor's offset, or, for
a delegate, a choice of live rows among those before it (`Come`). During a call the
rows that were read are the ones the attempt began with: a cursor that is accepted
has the prefix of the revision that is read, and equal prefixes have equal rows
(`ReadFits`). That is also why a restart between two pages does no harm: its epoch
is in the prefix. `ActedOnShown` needs that a token held is of this epoch or an
earlier one, and of this one only for what was shown (`Shows`). `WholeList` and
`ActedOnShown` lean on lemmas about what a filter by indices keeps (`SelectedRows`):
order, distinct IDs, and no action that was not there.

**`Waiters`.** `OpenIsUndecided` needs that an occurrence somebody waits for once
existed (`Began`: a channel is made for it only then), and `WokenIsSettled` that who
woke has an outcome or was woken in vain (`WokenOver`). What is in vain is exact:
`doubted` gains an occurrence only in a `Subscribe` whose read failed on a pending one, and in a
`SetBack` of a lapse that had closed its channel or woken a call that did not yet read again.
`ReleasedUnlessPanicked` needs that, unless an edit panicked, who waits
has an open channel and an open channel has a question that is not over (`Held`); the
panic is what the run `waiters_released` finds.

### Assumptions

They are the shape of what the code accepts and of how data is represented, and
are named where the constants are declared: deadlines and bounds are numbers and
positive where the code has a positive literal; a request meets the validator that
runs before anything else; `None` is none of the values it stands beside
(`NoneAssumption`, `UnsetAssumption`), as a nil is told from a value. Some are worth
a word:

- `QuestionBook`'s `RequestAssumption` says that a typed permission request offers no
  option whose answer is kept. A proof attempt needed it: with one, an answer of
  a request could stand and be shared. The code has it, since the options of a typed
  request are allow and refuse (`go/typed_permission.go:233`) and only a catalogue
  entry can keep an answer (`go/questions.go:200`).
- `LegacyService`'s `QuestionAssumption` says that there is a question; with none
  nothing can be asked and the records have no type.
- `Pages`' `PagesAssumption` says that there is a notification, for the types of a
  caller that wants none, that notifications and questions share no ID, and that
  no ID is the value a stale token reads as.
- `Permissions` keeps the names of those who hold the Book apart, and needs one
  occurrence to be possible.

### What stays with TLC

- **Liveness**: `ServeEnds`, `FullDrains`, `ListEnds`, `SettledLeaves`, `BlockedAskEnds`,
  `CloseEnds`. The prover has neither fairness nor ENABLED within its reach.
- **Induction over data**: nothing above needs it. Sequences that grow (audit rows)
  are reasoned about by index, and sets by cardinality.

## 5. Not modelled

- **The rights service and the runtime** are another repository. `Permissions`,
  `Pages` and `NotificationBook` have the calls the code makes of them and let
  their answers change at any moment; what the rules say of one another is theirs.
- **Other lists**: choices, answers and notifiers page by the same cursor code as
  the lists of `Pages`. Reads of one question and the typed clients that validate
  one reply change nothing.
- **Byte bounds** of partitions and rows: an edit over them is an aborted edit,
  which the modules have; which edits abort is not derived from sizes.
- **Daily counts** of a notifier's audit row: nothing reads them to decide.
- **Migration** of the nine earlier file profiles, and parsing altogether. A file is
  migrated in memory, as it is decoded, and written so by the first edit that
  commits; there is no step in between to interleave with.
- **Identifiers** are taken to be fresh. A legacy record has three random bytes
  and no check, which `PROJECT.json` lists as a hazard without a property.
- **External code**: the IPC listener and its sessions (`listen`) and the CAS file
  library. The models use what the callers rely on: an edit is atomic, `Gone` and
  `WaitContext` are done once a connection or the host is closed, a caller's
  identity is what it is.
- **One check of the decoder**: that an answer to a typed request given by a
  responder carries that responder's rule; attributions are not in the records here.
- **Crashes of the application Book's modules**: `ChoiceBook`, `QuestionBook` and
  `NotificationBook` have no crash, since their calls replace the file whole; a
  restart is `WithdrawRuntimeBound` in `QuestionBook` and `Restart` in `Waiters`.
- **Cursors of another list or caller**: in `Pages` each caller continues its own list.
- Pure formatting, the catalogue's wording, script host attribution, the
  command-line tools, and generated code in five languages. The generated Go alone
  (`go/abstraction/asks/api/rec.go`) is 21 641 of some 30 100 lines of Go, which no
  share of mapped lines can make up for; of the written Go, about a third is mapped.

## 6. Plan

Done, in order: `ChoiceBook` with `ChoiceContract` and its proofs; `Waiters`;
`QuestionBook` with `QuestionContract`; `NotificationBook`; `LegacyService`;
`Host`; `Pages`; `Permissions`; `NotificationContract` and the refinement to it;
programs turned off in `NotificationBook`; the delegate's list in `Pages`.

The modules are complete as far as the code has state of its own. What could
still be composed is `Permissions` with the expiry of `QuestionBook`, and `Host` with
the channels of `Waiters`, whose long polls it has only as slots.

Theorems done, in order: `ChoiceBook`, `Host`, `Permissions`, `Waiters`, `LegacyService`,
`QuestionBook`, `NotificationBook`, `Pages`, wakeups in `NotificationBook`, `Waiters` with
reads that fail, and the promises of the three contracts (section 4). Every safety
property that a passing run checks is stated by a theorem.
