# PrivaParse in TLA+

PrivaParse replaces personal data in text by placeholders (`[[PERSON_A1]]`)
before the text leaves the machine, keeps the values in a local SQLite vault,
and puts them back into the answer. This directory models it in TLA+, checks
the models with TLC and proves the central results with TLAPS. Paths below are
relative to `src/`.

## 1. The system

| Component | Source | State it keeps | Operations |
|---|---|---|---|
| Vault | `privaparse/database/repository.py`, `models.py`, `cipher.py`; `parser/entity_resolver.py`, `parser/pseudonymizer.py` | four SQLite tables: entities, surface forms, mappings, mapping entries | `pseudonymize_batch` (resolve, create mapping, adopt, commit), `get_or_create_entity`, `record_surface_form` |
| Reversal | `parser/reverse_mapper.py`, queries of `repository.py`, `engine.reverse` | none; reads the vault | `reverse`, `find_mapping_for`, the four verdicts, the tolerant pass |
| Engine | `engine.py` | lazily built detector, default engine, sessions | `detect*`, `pseudonymize*`, `reverse`, `close` |
| Detection | `parser/detection_pass.py`, `merge.py`, `markdown.py`, `backstops.py`, `validators.py`, `normalizer.py`, `gliner_detector.py`, `detector.py`, `registry.py` | tables of validators and normalisers, the loaded model | mask, chunk, propose, threshold, merge, trim, sweep |
| Detection cache | `gateway/cache.py` | an LRU of spans per (fingerprint, text), hit counters | `get`, `put`, `detect_many` |
| Gateway | `gateway/server.py`, `extract.py`, `adapter/`, `upstream.py`, `auth.py`, `errors.py`, `direct.py`, `metrics.py` | the engine, the cache, counters | one route body per protocol, the direct API, authentication |
| Streaming | `gateway/restore.py`, `sse.py`, `stream.py`, `stream_responses.py` | text held back, tool-call fragments, the bytes of an unfinished event | `feed`, `flush`, the relays |
| Secret log filter | `app/logging.py` | a bounded ordered set of values | `register`, `scrub` |
| Catalogue, configuration | `app/catalogue.py`, `app/config.py`, `app/device.py` | immutable after loading | load, merge, validate |
| Command line | `app/main.py` | a child process and a daemon | `run`, `serve`, `reverse`, ... |
| Evaluation | `evaluation/` | none | scoring of detectors |
| Migrations | `database/migrations/` | the schema version | `upgrade`, `downgrade` |

How they interact.  A request enters the gateway's route body, which walks the
JSON for every string (failing closed on what it does not know), sends the
strings as ONE batch to `pseudonymize_batch` on a worker thread, writes the
pseudonymised strings back, forwards the request, and restores the answer under
the mapping of that batch, whole or event by event.  The worker threads share
the detection cache, the engine's detector and the log filter without locks;
the vault they share through SQLite only, each with a session of its own, and so
do any other processes (`privaparse pseudonymize` beside a running gateway).

What is hard here: batches of several threads or processes interleave between
the lookup of a value and its insertion; each row is durable before its batch
is; a failed or killed batch leaves rows behind; a placeholder of an earlier
turn comes back in a later one; a placeholder is split over stream events; a
stream ends in any of five ways; unlocked shared structures are read while
another thread evicts from them; two launchers share a port and each owns only
what it started; a file outlives the build it was written for.


### What makes each part correct

- **Vault**: names and values are one-to-one under any race; no suffix is lost
  or reused after a rollback; a placeholder a caller was handed keeps its
  meaning; every placeholder in an answer can be restored under its mapping with
  the spelling it replaced; nothing readable is stored for an irreversible
  value; every call ends.
- **Reversal**: a document comes back as it was written, under its own mapping
  and no other; the four verdicts are right although they are several queries.
- **Start-up**: nobody reads a half-filled registry; the model is loaded once;
  the nested locks never leave everyone waiting.
- **Detection**: accepted spans do not overlap, lie outside code, and say what
  the document says; what was detected does not silently disappear; an exact
  match stands; repeats are found; an entity on a chunk border is seen whole.
- **Cache and gateway**: nothing a protocol does not exempt leaves in clear; the
  request keeps its shape and can be sent again; an answer shows only words of
  its own mapping; the cache stays within its capacity.
- **Secret log filter**: no line is written with a value that was registered
  when its scrub began; only the oldest values are forgotten.
- **Catalogue**: what a build says of a type is in force unless the file speaks
  of it.
- **Command line**: no gateway is left behind or taken away; none is on the
  network without a key.
- **Streaming**: nothing is lost, repeated, moved or left unrestored, however
  the stream is cut and however it ends.

## 2. The modules

Built in this order, the most important behaviour first.

| Module | Models | Composes |
|---|---|---|
| `Ledger` | what the vault promises (`models.py`): abstract specification | |
| `Vault` | `pseudonymize_batch` over SQLite, one action per statement | implements `Ledger` |
| `VaultInvariant`, `VaultProofs` | the inductive invariants and the proofs | `Vault`, `Ledger` |
| `Reversal` | `reverse`, `find_mapping_for` beside writing sessions | extends `Vault` |
| `DirectApi` | `direct.py`: bodies, responses and counts around those calls | extends `Reversal` |
| `ReversalInvariant` | the invariant of a reversal beside writers; its proofs are the last part of `VaultProofs` | `DirectApi`, `VaultInvariant` |
| `Startup` | the first calls of a cold process | |
| `SecretLog` | `logging.py`: the registry of values and the lines scrubbed of them | |
| `ProcessProofs` | proofs about what the threads of a process share | `Startup`, `SecretLog` |
| `Placeholder` | `placeholder.py`: suffixes, rendering and reading back | |
| `Catalogue` | `catalogue.py`: builds, an operator's file and the merge of both | |
| `Launcher`, `LauncherProofs` | `serve` and `run` of `main.py`, with keys (`config.py`, `auth.py`) | |
| `HoldBack` | `restore.py` character by character | |
| `PlaceholderProofs` | proofs about names and about the hold-back they must fit | `Placeholder`, `HoldBack` |
| `StreamText` | the hold-back in halves of a placeholder | |
| `SseRelay` | the framing loop of `sse.py`, the protocol a parameter | |
| `ChatStream`, `ResponsesStream` | `stream.py`, `stream_responses.py` | `SseRelay`, `StreamText` |
| `Streams` | the relay of either protocol (`adapter/protocol.py`), and what both promise | `ChatStream`, `ResponsesStream` |
| `FlattenProofs` | induction over the numbers, and lemmas about `FlattenSeq` | |
| `StreamProofs`, `ReplyProofs` | the invariants of the two relays and the proofs | `Streams`, `FlattenProofs` |
| `Chunks` | `chunk_text` | |
| `Masking` | `markdown.py` | |
| `Detection` | a whole detection pass | `Chunks`, `Masking` |
| `DetectionCache` | the LRU without a lock | |
| `DetectionProofs` | proofs about the chunks, the pass and the cache | `Detection`, `DetectionCache` |
| `Extract`, `ChatAdapter`, `ResponsesAdapter` | walks over JSON, write-back, both protocols | |
| `Gateway` | the route body for concurrent requests | `Extract`, both adapters, `DetectionCache` |

`MC*` modules give the constants their values for TLC. Parts that share no state
are checked in one run, one part in each behaviour: `MCProcess` (`Startup` and
`SecretLog`), `MCPlaceholders` (`HoldBack`, `Placeholder`, `Catalogue`),
`MCStreams` (the two protocols of `Streams`). A definition named
`Mutant...` is a faulty variant of the definition after it: what a plausible bug
would look like, and what one of the properties must catch. `PROJECT.json` maps
every definition to the lines it stands for.

### Vault

The four tables are `entities`, `forms` and `mappings` (whose elements are the
sets of entries), beside the rows of the open transaction (`newEntities`,
`newForms`, `newEntries`; `lock` says whose it is). A session's program counter
stands before the statement it sends next: `FindEntity` (the SELECT),
`ReadSuffix` (SELECT MAX), `InsertEntity` / `CollideEntity` / `RefindEntity` /
`GiveUp` (the INSERT in its SAVEPOINT and what follows an IntegrityError),
`FindForm`, `InsertForm`, `CreateMapping`, `AdoptExisting`, `Commit`; `Busy` is
the busy timeout and `Abort` an exception or the death of the process at any
point. Two facts about pysqlite shape the model, and both come from how
`repository.py` uses it: `begin_nested()` outside a transaction sends only
SAVEPOINT, so releasing it commits that one row, and after a failed SAVEPOINT
the transaction stays open and keeps the write lock. `answers` is the history of
what callers were handed.

### Reversal

One call of `reverse` beside the sessions of `Vault`: choose a mapping
(`FindMapping`, for the newest `Limit` mappings that cover the text), read its
table, then one query for each token left standing. Calls of `reverse` only
read, so one stands for all. `DirectApi` puts `POST /privaparse/reverse` around
it (`RefuseBody`, `PostReverse`, `AnswerReverse`) and adds
`GET /privaparse/vault`, whose four counts are four queries (`Count`); the
writing sessions are its `POST /privaparse/pseudonymize`.

### Startup

Threads begin by `pseudonymize_batch` (import the pseudonymizer, ask for the
detector) or by loading a catalogue. `owner` holds the detector's lock, the
registry's lock and Python's lock per module; `Read` is the lookup of a
validator while a catalogue is checked.

### SecretLog

A thread registers a value (`Register`, then `Touch`, or `Insert`, `CheckBound`
and `Evict`) or scrubs a line (`StartScrub`, then `ScrubNext` for each value,
then `Emit`). Each access to the `OrderedDict` is a step. An iterator raises at
its next step once another thread has changed the order (`ScrubRaises`), and
`Touch` raises if the value has been evicted.

### Placeholder, Catalogue

`Placeholder` counts through the suffixes: `written` goes from each suffix to
the next one of the documented order, and `EncodeSuffix` computes it from the
index. `Catalogue` has three kinds of steps between two starts of a process: the
operator writes a file (`Edit`), another build is installed (`Upgrade`), the
process loads (`Load`). A YAML value is a record of one shape, so that the file
can hold any value at any place.

### Launcher

`port` says who listens, `gate` what became of each gateway, `pc` how far each
run has come, `child` its command (`CommandNotFound`: there is none). `Bind` succeeds for one process only.
`CtrlC` reaches the whole process group of a run, `Kill` stands for every end
that runs no `finally`. Keys are a value of each sort: none, a good one, one
with a blank, one that is no text.

### Streaming

`HoldBack` receives pieces of one to three characters, each `[`, `]`, a name's
letter or other text. In `ChatStream` and `ResponsesStream` a placeholder has two halves, `p1`
and `p2`, so that what the hold-back has to do there is keep a trailing half.
`SseRelay` adds the ends of a stream: a terminal event, `[DONE]`, bytes that run
out between events, inside one or inside a character, a connection that raises,
and a lookup that fails for a block. A `rewrite` that raises, as one of a
terminal event does over a NaN (`write_back`, called at
`stream_responses.py:270`), is `ConnectionDrops` before that event: the client
gets the flush and then the error.

A run of `ResponsesStream` is an output text or a refusal, and `LeftStanding`
names the readings of a value that the code relays with the provider's
placeholders: a refusal in `response.output_item.done` and in the terminal
event, where both walks look for the `text` of a part, and
`response.content_part.done`, which falls to the default branch (`PassedOn`). No
property claims these are restored. `EveryReadingAgrees` demands that they say
what the deltas said, in the provider's words; `WholeIsRestored` is about every
other reading. The numbers of the events (`Sequenced`) must only grow, which
`NothingAfterTheEnd` says beside the rest of the order.

### Detection

`Cut` runs the chunk loop, `Propose` lets the model report any whole tokens of
the chunks with any type and score and with offsets that are one off (which
`_locate` repairs), `Merge` adds the backstops and filters, `Choose` is a turn
of the greedy choice, `Sweep` the search for repeats, and `Finish` the end after
the second merge.

### DetectionCache, Extract, adapters, Gateway

Each access to the `OrderedDict` and to the fingerprint is a step of
`DetectionCache`, so that a thread may evict between another's lookup and its
`move_to_end`. `Extract` represents JSON as trees whose leaves are texts, in
clear or hidden; the adapters are the walks of both protocols as functions on
such trees, refusals included. A string counts as serialised JSON only where the
code parses it, in the arguments of a function call; anywhere else, an
`mcp_call`'s arguments among it, it is a text. `Gateway` runs a request through
walk, batch, write-back, hint, upstream and restore; a batch's
cache accesses interleave with those of the other requests.

## 3. Runs

| Run | Question | Distinct states |
|---|---|---|
| `vault` | races on suffixes, values and spellings; catalogues change between calls, placeholders are replayed, retries run out; liveness; refinement of `Ledger` | 203,405 |
| `reversal` | round trip, scoping, verdicts, lookup and counts while two sessions write | 601,026 |
| `reversal_own_document` | finding: ADR 0005 on irreversible placeholders | |
| `process` | half-filled tables, double loading, deadlock, a failing build; lines scrubbed while the registry changes | 234,807 |
| `placeholders` | every text of up to eight characters cut in every way; every suffix of one or two letters and the first of three; every value for every setting of a file over three builds | 463,264 |
| `catalogue` | finding: empty values take types out of detection | |
| `streams` | two interleaved choices, or an output text, a refusal and a function call with every way to read them, and every end of a stream | 470,519 |
| `chat_stream_end` | finding: bytes that run out inside an event | |
| `detection` | thirteen documents, any two spans of the model | 202,636 |
| `sweep_every_form` | finding: the sweep and upper and lower case | |
| `gateway` | every body shape of both protocols; concurrent requests over one cache entry | 171,941 |
| `launcher` | two runs and a serve on one port, signals at any moment, every sort of key; liveness | 121,185 |

### Bounds, and why they are enough

- **Vault**: the races are between two sessions about one row, and the theorems
  cover any number of them. `MaxBatches` 3 is a batch, a rival and a later one
  that reuses their rows. `MaxRetries` is 1 for the code's 5, so that `GiveUp`
  happens at all: the theorem `GiveUpUnreachable` says it needs that.
- **Reversal**: the limit of 50 covering mappings is scaled to 1, so that the
  limit matters with two mappings; the finding's run has the code's 50. Bodies
  have every kind of value in every field.
- **SecretLog**: a registry of three values for 512 and two threads, four
  values of which one lies within another.
- **Placeholder**: indexes up to the first suffixes of three letters, over both
  carries before them; names that begin or end like a suffix.
- **Catalogue**: one file, with one setting of one type given any of fifteen
  values, or the types, or the whole, in any of three places, over an upgrade
  that adds types and one that changes labels.
- **Launcher**: two runs race; the theorems cover any number.
- **HoldBack**: names of two letters; eight characters are a placeholder with a
  false start before it. The lenient mode, which holds more, runs in the same
  run.
- **Streams**: three chunks of two choices, or five events of an output text, a
  refusal and a call: a start, a middle and an end in any interleaving, or one
  value in all its repetitions. Each delta of a response ends one placeholder
  and begins the next, so that two make a placeholder across the cut between
  unfinished ones.
- **Detection**: a window of 8 and an overlap of 2 for 512 and 128;
  `_MIN_SWEEP_LENGTH` and `_MIN_TRIM_LENGTH` are 2 for 3, the repair window 2
  for 64. Two proposals at a time are what overlap, clash and cut are about.
  Two single backticks never stand side by side.
- **Gateway**: the loads `any`, `hinted` and `images` are one request of any of
  538 bodies (each field with each kind of value, flat and nested) with
  any of 22 answers; `three` and `two` are three or two requests at once,
  of one or two texts, over a cache of one entry, so that almost every access
  can be overtaken by an eviction. A load ends after its `total` requests.

`gateway` is symmetric in the threads: nothing tells these apart, and it checks
no liveness. The other runs have no symmetry.

`CHECK_DEADLOCK FALSE` stands where a behaviour really ends: when `MaxBatches`
calls or a load's requests are over, when a stream is closed, when a pass or a
reversal is done, when the last suffix is written, when every run has ended. In
`process`, where waiting for each other is the question, deadlock is checked.

### Fairness

`Vault`: weak fairness of each session's statements. A call that has begun runs
on a thread the operating system schedules, and a wait for the write lock ends
with the lock or with SQLite's busy timeout, which is a step as well (`Busy`).
`Startup`: strong fairness of each thread, since a lock that is released again
and again is some day given to whoever waits. No call is assumed to begin.
`Launcher`: weak fairness of what a process does by itself, since processes are
scheduled and every wait of `run` has a deadline but the one for its command; a
command ends once it was told to, and nobody has to launch, stop or signal
anything. The other modules state safety only.

## 4. Proofs

Forty-nine theorems in eight modules, for every value of the constants, under
named assumptions which TLC evaluates for each run: `NoneAssumption`,
`CatalogueAssumption`, `BatchAssumption`, `RetryAssumption`, ... of `Vault`;
`BodyAssumption` of `DirectApi` (a string in `text` is a sequence of tokens, one
in `mapping_id` names a mapping, written or not); `Modules`, `Locks` of `Startup`;
`ValueAssumption`, `LineAssumption` of `SecretLog` (the lines to scrub are made
of their own words); `ChunkAssumption`; `DetectionAssumption`,
`BackstopAssumption` of `Detection` (what a gate of `backstops.py` lets through
is not made of brackets, quotes and blanks alone); `LengthAssumption`, `PieceAssumption` of `HoldBack` (what may be
held back has room for the longest name and its suffix, which is what
`max_placeholder_length` computes); `NameAssumption`, `IndexAssumption` of
`Placeholder` (type names match `TYPE_NAME_RE`, and there are fewer than
9 * 26^7 entities, which is how many suffixes have eight characters);
`GateAssumption`, `SettingsAssumption` of
`Launcher`; `FiniteAssumption`, `KeyAssumption`, `TextAssumption` of `Streams` (an
answer has finitely many choices, runs and calls, refusals are runs, a run is no
call, and a provider, which was only ever shown placeholders, sends no values).

**Vault.** `OneName` is not inductive: that a suffix is free when it is
inserted depends on what the session read, and when. `Inductive`
(`VaultInvariant`) adds for each session what it may rely on between two
statements: its arguments (`CallOK`), that its own MAX + 1 cannot be overtaken
while it holds the lock (`RaceOK`), that a picked suffix is the next one or taken
since (`SuffixOK`), and that what it resolved cannot be rolled back under it
(`HeldOK`); and for the tables `PendingOK`, `FormsOK`, `MappingsOK`, `AnswersOK`,
`OneName` and `SuffixesDense`. The step proof asks four questions in turn: the
types, what other sessions relied on, what the session relies on next, and the
tables. From it follow `TypeCorrect`, `NamesUnique`, `NoSuffixLost`,
`OneRetryAtMost`, `GiveUpUnreachable`, `AnswersKeepMeaning`, `NoWayBack` and
`EntriesAlwaysResolve`. Entities are mapped to names and mappings to archives
of the ledger: `NothingTakenBack`, and `VaultImplementsLedger`: every statement of
every session is a step of `Ledger` or a stutter.

`AnswersRestorable` relates an answer to the mapping written for it, statements
later and beside other sessions. `Answering` says for each session that the
usages it has collected are those of the texts before its cursor, in their first
spellings (`UsagesOK`), and that the entries it has drafted are those of its
usages and of the answers replayed to it (`DraftOK`); and that every committed
mapping belongs to an answer (`MappingsAnswered`): `AnswersCanBeRestored`.

**Reversal.** `Reporting` (`ReversalInvariant`) says what one query of
`engine.reverse` has settled for the next: that the table it read is the
mapping's still (`TableOK`), that each token before the cursor is restored or
judged (`ReportOK`), and that a placeholder handed out before the call which was
not irreversible at the first of the two existence queries does not become so
before the second (`BetweenQueries`). It is inductive beside any steps of the
vault only together with `Inductive` and `Answering`, which a reversal, being
read-only, cannot disturb. From these: `ReverseIsSafe` for the call alone, and
`DocumentsComeBack`, `NothingOfOthers`, `VerdictsSettled`, `LookupIsComplete`
behind the direct API, where `Replying` ties the response to the call.

The four counts of `GET /privaparse/vault` are of four states of the vault.
`Counting` keeps, after the first, the set of entities it was of: what had been
handed out lies in it, and it lies in all that is counted later. The counts by
type together are no more than that set, as their rows can be numbered type by
type; and each value handed out that can be restored is the entity of some
spelling, of which there are therefore as many (`FormsOfHanded`): `TotalsAgree`.

**Startup.** `IInv` joins the types, what the flag of the registry promises
(`FlagOK`) and what the holder of the detector's lock knows (`LockOK`), for any
import graph: `StartupTypeCorrect`, `TableWhole`, `ModelOnce`.

**SecretLog.** A line is clean at the end because a value that was registered
when the scrub began is still to come or is in the line no more
(`LinesInvariant`); that scrubbing one value never brings another back is a
lemma about `Replace`, whose recursion is a function and is followed by taking
the least index at which a claim fails. `NewestKept` needs `Registry` (the
registry is a suffix of the history of what was entered) and `Counted`: its
length exceeds the bound by at most the threads that are about to look, and,
once a value was forgotten, falls short by at most one for each other thread.
`LogTypeCorrect`, `WrittenLinesClean`, `NewestRemembered`.

**HoldBack.** `HoldInvariant`: what the provider has sent is what was given on
and what is held; the client was shown the first part restored on its own; and
no placeholder that the text may yet come to have lies across the cut. The last
part is the heart (`KeepClear`): the pattern's leftmost match starts at or
before every unfinished placeholder, and a match longer than any placeholder
contains none. `RestoredApart` then says that restoring in two parts is
restoring the whole: `ReadAsIfWhole`.

**Streams.** None of the five properties of the two relays is inductive: each
speaks of what a client has, and none of what the relay keeps. `StreamInvariant`
(`ChatInvariant` of `StreamProofs`, `ReplyInvariant` of `ReplyProofs`) ties the
two, for each run of text and each call (`ChoiceOK`, `KeyOK`): what the provider
has said of it is what the client was given and what the relay holds
(`Relayed`), that no placeholder lies across the two, and that what it was given
is restored unless a lookup has failed (`Delivered`). Once the last word on it
was said, nothing is held. Once the stream is over, it has all that was said of
every choice and key (`ChatEnded`, `ReplyEnded`), but where the bytes ran out
inside an event, which is the finding of `chat_stream_end`. The order in which things
reach a client, and that what repeats a value repeats it truly, restored or in
the provider's words, are `ChatOrder`, `ReplyOrder` and `Agreement`; `Numbering`
says that the numbers of what was sent grow and lie below the next one. A step either adds one event, of which one lemma for
each branch of `rewrite` says what of each value it carries and what the relay
keeps of it, or ends the stream by a flush, of which a lemma says that it hands
over every debt once. The text is a concatenation of the values of the events
that a client can read, so the proofs rest on how `FlattenSeq` treats appended,
regrouped and single parts (`FlattenProofs`), and on `Restored`, which restores
two texts apart as together if no placeholder lies across the cut. `FlattenSeq`
is a recursive function; its lemmas follow from `FromBelow`, an induction over
the numbers that is a statement about sets and so needs none of the library's
theorems that take an operator. `StreamsKeepTheirWord` is the invariant; from it
`StreamsLoseNothing`, `StreamsEndLast`, `StreamsRestoreWhole`,
`CallsLeaveInOnePiece` and `ReadingsAgree`, for any choices, runs, calls and texts,
any length of the stream, and every end of it.

**Placeholders.** `Letters` is a recursion over quotients, followed like that of
`SecretLog` by the least number at which a claim fails. `WordsInOrder`: what
follows a word as the docstring has it (`NextWord`, with its carries) is the word
of the next number, since a word that ends in Z carries into the word before it.
`SevenLetters` bounds a word by its number. `RenderedSplits` is about reading: no
underscore stands behind the type's own, so the greedy pattern backtracks to that
one, however much the type's name looks like a suffix itself. With `Counted`,
which ties the suffix written to the number counted: `NamesReadBack`.

**Detection cache.** `WithinCapacity` is not inductive: it does not tell a put
that adds an entry from one that replaces it. What is inductive, `Excess`,
charges every entry above the capacity to a thread: to one that has yet to move
the entry of its key (`StandingKeys`: two threads that put the same key are
charged for it once) or to one that has yet to look whether the cache is too long
(`Late`). `CacheInvariant` says besides that a key stands once (`OnceEach`) and
with the spans of its own block (`TheirOwn`), in the dictionary as in what a call
has learnt (`LocalsRight`): `CacheBounded`, and `HitsAreTheirOwn`, for any number
of threads and every KeyError. `CacheSpec` lets a call come at any time with any
blocks; the run `gateway` checks `WithinCapacity` where the batches of requests
make those calls.

**Chunks.** `ChunksInductive` says that every short range that ends before the
next start, with the overlap, lies whole in a chunk (`Covered`):
`ChunksTypeCorrect`, `ShortRangesSeen`, and `LoopStrides` from the step alone.

**Detection.** `PassInvariant` says of every span at every stage that it is
placed right (`Placed`, then `Sound`), that accepted spans are disjoint, and,
for the second merge, that what the first accepted meets no other candidate
(`Kept`): `SpansDisjoint`, `SpansReplaceable`, `SecondMergeKeeps`, `ViewSeen`.
The data of the model, the patterns and the catalogue are arbitrary.
Then the greedy choice: `ChoiceInvariant` says that every
candidate is still pending or accepted, or overlaps an accepted span it does not
precede, in the first merge and in the second, and `GatesPassed` that a backstop
span is one its gate let through: `ProvenBoundaries`, `DetectionsLeaveATrace`.
`RepeatsReplaced` needs besides that the sweep proposes every occurrence that
overlaps no earlier one.

**Launcher.** `NoStrayGateway` needs that a run has no gateway before it starts
one (`OwnOK`); `ServedWhileItRuns` needs that the port belongs to the one
gateway that has bound it (`PortOK`) and that a gateway which is shutting down
has lost its owner or was signalled (`HeldOK`). Together, for any number of runs
and all settings: `LauncherTypeCorrect`, `NothingStrays`, `HeldGatewaysServe`,
`GuardedWherever`.

`EntriesAlwaysResolve`, `NothingTakenBack`, `SecondMergeKeeps` and
`HitsAreTheirOwn` are proved and in no run: the proofs say more than a small
instance would.

**Only model-checked.** Liveness (`CallsEnd` twice, `TornDown`) and whatever
needs ENABLED. `BracketedRecovered`, whose counts go through SelectSeq, an
operator the provers cannot unfold. `Extract`, the adapters, `Gateway` and `Catalogue` use RECURSIVE
operators, and no module with a theorem reaches one. Recursion that is
written as a function is within reach, where a claim can be followed from index
to index without an induction theorem, as in `SecretLog` and `HoldBack`.

## 5. Where the sources disagree with the code

Four findings have a run whose counterexample shows them:

1. `reverse_mapper.py:58` demands that a mapping cover irreversible
   placeholders too, which no mapping holds; `docs/adr/0005-irreversibility-is-read-from-the-vault.md:56` says it
   filters them out. Line 3 of that ADR calls it "accepted, not yet
   implemented", so this is the part of the decision that the code has yet to
   follow; the verdict "irreversible" is in place. `privaparse reverse` without a mapping fails on a document
   of one's own (`reversal_own_document`).
2. `sse.py:169` writes the flush behind the bytes of an unfinished event, and
   `sse.py:165` raises on half a character: held text and collected calls are
   lost, against `docs/testing.md:66` (`chat_stream_end`).
3. `merge.py:366` sweeps for one of several accepted surfaces that differ in
   case; `docs/configuration.md:30` says every accepted form
   (`sweep_every_form`).
4. `catalogue.py:208` and `:214` take an empty value for none at all:
   `placeholder_types: []` in an operator's file loads a catalogue that detects
   nothing, and `PERSON:` with nothing behind it a type without labels, where
   line 9 says that a file never replaces the built-in catalogue and that a
   type is removed by `enabled: false` (`catalogue`).

Others are built into the models without a run of their own, because nothing
more than the step is needed to see them:

- `restore.py:59`: in lenient mode a bare name is not held back, so the head of
  a longer name is restored, against `reverse_mapper.py:128`.
- `pseudonymizer.py:122` speaks of one transaction; each SAVEPOINT commits alone.
- `entity_resolver.py:101`: a span of separators stays in clear, where ADR
  0005:74 speaks of an error.
- `repository.py:256`: only 50 mappings are looked at, which `docs/api.md:165`
  does not say.
- `repository.py:290` answers "irreversible" for an entity whose first spelling
  is not committed yet, against line 280 ("now or later").
- `reverse_mapper.py:192` says "foreign" for an entity no mapping has,
  against `docs/api.md:189`.
- `stream_responses.py:258` (`_restore_item`) and `adapter/responses.py:388-390`
  (`extract_answer`) restore the `text` of a part, and a refusal has none: it is
  restored in its deltas and in `response.refusal.done`, and keeps its
  placeholders in `response.output_item.done` and in the terminal event.
  `response.content_part.done`, which repeats a finished value too, passes as it
  came (line 184). Lines 5-9 say that the API repeats every completed value and
  that each reading is restored, since a client may read any.
- `stream_responses.py:184` passes on every other event as it came: those of
  reasoning, and the deltas of an `mcp_call`'s arguments, which requests
  pseudonymise and `response.output_item.done` restores.
- `stream.py:72` restores `content` only, so the `refusal` of a streamed delta
  keeps its placeholders, where `adapter/openai.py:306` restores that of a whole
  answer.
- `sse.py:113` replaces CRLF in each chunk by itself: a CRLF that two chunks
  divide stays, so that two events may be taken for one, which is then relayed
  as it came. Framing is not modelled.
- `backstops.py:3` says that "a backstop span survives only where no model span
  overlaps it"; `merge.py` lets an exact span, which a backstop's is, win over a
  model's. The model, and `ExactStands`, follow the code.
- `stream.py:67` skips a choice without a delta before it looks at its
  finish (line 77).
- `cache.py:90`, `:102`, `:104`: an eviction between two accesses raises
  KeyError, and a request that nothing is wrong with fails.
- `logging.py:45` evicts values that line 66 promises to scrub for good.
- `logging.py:42`, `:50`: a KeyError or RuntimeError of the shared dictionary
  leaves the logging call and ends the request.
- `logging.py:52`: "Anna" scrubbed before "Anna Schmidt" leaves " Schmidt".
- `main.py:733-741`: a gateway that `run` starts "always comes up keyless"; a key
  in `.env` reaches it, and `run` then waits until it gives up.
- `main.py:765`: between the start of the command and the handlers a SIGTERM
  ends `run` and leaves the command, against lines 760-763.
- `main.py:691`: a program that answers 200 to anything passes for a gateway.
- `main.py:574`: of two runs that start together, the one whose gateway bound
  the port takes it away from the other's command when it ends.
- `restore.py:83`: the hold-back allows for enabled types only.
- `reverse_mapper.py:126-133`: the tolerant pattern of `[[A_B_C1]]` also finds a
  standing `[[A_BC1]]` of another entity, where a type's name extends another's
  by capitals, and it runs over values just restored as well.
- `catalogue.py:164`: `placeholder_types:` with nothing behind it raises
  TypeError. `labels: person` becomes six labels of a letter each, and
  `version: true` passes for 1 (line 183).
- `catalogue.py:304`: a label listed twice in one type is refused as "claimed by
  both" that type and itself.
- `repository.py:297`: a count may include values whose batch is not committed
  yet, since each SAVEPOINT commits alone.
- `extract.py:223`: NaN or Infinity in a tool's arguments makes `write_back`
  raise; the request ends with 500, or the answer keeps its placeholders.
- `responses.py:362` onwards: the `input` of a custom tool call is
  pseudonymised in requests and not restored in answers.
- An unhashable `type` in a request raises TypeError: 500 instead of 502.

## 6. What is not modelled

Digests and timestamps; the identity cipher; metrics, headers and the status
and health routes; thresholds and the other scalar settings; the commands that
print what the engine returns; the normalizers and validators, pure functions
on one text that `Detection` and `Vault` take as given; the evaluation harness;
the one migration. `PROJECT.json` gives the reason for each.

## 7. The plan from here

1. `Gateway` with the vault's retries instead of an opaque batch, and with the
   stream relays instead of a hand-over.
2. The normalizers and validators against reference definitions over bounded
   texts.

A new property takes the place of a weaker one, so that the runs stay as many
as there are questions.
