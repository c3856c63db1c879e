# nostrogotho: a TLA+ verification project

nostrogotho is a Nostr relay in C: one process, one thread, a mongoose event loop in front of one SQLite
file. This directory holds TLA+ modules that model its write path, its queries, its connections, and how messages
are parsed, checked and written, TLC configurations that check them on small instances, and TLAPS proofs for every value of the constants.

Paths below are relative to the repository, whose sources live in `src/`; `storage.c:624` is
`src/storage.c`, `nip09.c:162` is `src/nips/nip09.c`.

## 1. The system

### Parts, their state and how they interact

| Part | State | Operations | Interacts with |
|---|---|---|---|
| `server.c` connections, subscriptions | list of `(connection, id, filters)` | open, close, `REQ`, `CLOSE`, `COUNT`, `EVENT`, timer, shutdown | calls plugin hooks, the dispatcher, `send_records`; the mongoose loop calls it |
| `nip01.c` dispatcher | none | validity, size, created_at window, dispatch by kind; replacement of replaceable and addressable events | called by `handle_event`; calls listeners, which call the storage |
| `nip09.c`, `nip62.c` | none | deletion requests, requests to vanish | listeners of kinds 5 and 62 |
| `nip40.c` | none | refuse, withhold, sweep expired events | three plugin hooks; timer calls `purge_expired` |
| `nip42.c` | list of `(connection, challenge, pubkey)` | challenge on connect, `AUTH`, "-" tag, teardown | asked by `nip17.c` for the key of a connection |
| `nip17.c`, `nip67.c`, `nip45.c` | none | delivery of gift wraps, hints of EOSE, COUNT | hooks of query and broadcast |
| `nip13.c` | minimum difficulty | refuse events without enough work | hook before dispatch |
| `storage.c` | database file: `event`, `delegation`, `backfilled_delegation` | insert, five deletes, sweep, query and count, open and migrate | autocommit statements on SQLite |
| `main.c` | configuration | start, SIGINT, cleanup | |
| `crypto.c`, `nip26.c` | none | `check_event`: ids, signatures, its own scanner of tags, delegation tokens | called by the dispatcher |
| `json_util.c` | a builder's buffer of 64 KiB, `pos` | JSON in: events, filters, arrays; JSON out; the size an event will have | `handle_message`, every answer |

One event is a path through most of them: a message is parsed, plugins may veto it, `nip01_process_event`
checks it and hands it to the listener of its kind, which runs a *sequence* of SQL statements; the OK goes
out, and an accepted event is offered to every subscription.

### What is hard about it

Nothing runs in parallel, and yet:

- **A handler is not atomic in the store.** There is no transaction around "delete the older versions, insert
  the new one", "delete the targets, store the request", "insert the row, index its delegations". Any statement may
  fail, and the process can die between any two.
- **A failure has few words.** `insert_record` says false for a duplicate and for a full disk; a scan that
  breaks off looks like one that ended; `query_events` does not look at what `send_records` returns.
- **One question is answered twice.** Filters are evaluated as SQL, where a tag is a pattern in a text, and again in memory,
  where it is an array; authority to
  delete is decided by one key and the delete is run with another; what is withheld depends on the event
  and what is hinted on the filter.
- **Pointers come back.** Subscriptions and NIP-42 records are found by the address of a connection.
- **One text is read twice.** The gate walks an event's tags with mongoose, `check_event` with a scanner of its own; what
  the one lets through and the other does not see is a delegation nobody verified.
- **A size is told before it is.** An event is accepted if what will be written of it fits the buffer; the
  writer, in pieces, stops where it does not, and both count the same bytes by different code.
- **Limits bind.** 10000 rows a sweep, 500 rows and one extra a query, 256 parameters a statement, 20
  subscriptions a connection, and `int` for `created_at`.

`PROJECT.json` lists each of these under `hazards`, at the line where it bites.

### What makes each part correct

- *Write path*: an event is removed only by the authority of a newer version, a deletion request or a
  request to vanish, or by expiry; OK true without qualification means the event took its full effect; what a
  publication took away is owed to something the relay holds.
- *Index*: no entry without its event; after migration no delegation without its entry.
- *Collector*: what has expired goes in the end, and nothing else does.
- *Queries*: `finish` means nothing is missing; a count is no less than the number of matching events, and that number where the
  filters of the request do not overlap.
- *Checking*: an event with a delegation is valid only if its token is signed, for its author, and allows it; both scanners
  see the same tags.
- *Messages*: a filter asks for what its object says; what is admitted goes out whole; nothing overruns the
  buffer; every message is answered.
- *Connections*: nothing outlives its connection; a gift wrap goes only where its recipient has proved to be.

## 2. Modules

| Module | Models | EXTENDS |
|---|---|---|
| `NostrEvent` | `event_t`, tag lookups, predicates of NIP-01, 09, 13, 40, 62; the cast to `int` | |
| `Storage` | tables, the rows each delete selects, writing statements with cascade | `NostrEvent` |
| `EventStore` | **abstract specification**: what may enter and leave, and what an answer means | `NostrEvent` |
| `Publish` | the write path statement by statement, the sweep, stop, crash, start, migration; its properties; INSTANCE of `EventStore` | `Storage` |
| `Query` | filters: matching in memory, the SQL, limits, pages, counts | `Storage` |
| `Relay` | connections, subscriptions, authentication, replay, broadcast, hints, composed with the write path | `Publish`, `Query` |
| `JsonBuilder` | the fixed buffer: every call byte by byte counted, escapes, the size foreseen | |
| `Delegation` | NIP-26 conditions and tokens, and what a token allows | |
| `TagParsers` | the gate of `json_parse_event`, `check_event` and `parse_tags_json` token by token | `Delegation` |
| `FilterParser` | `json_parse_filter`, `collect_filters` in both layouts | |
| `Wire` | one message from its receipt to the last byte of its answers: composes the three | `TagParsers`, `FilterParser`, `JsonBuilder` |
| `MCPublish`, `MCRelay`, `MCWire` | events, filters, connections, texts for TLC | `Publish`; `Relay`; `Wire` |
| `PublishProofs` | types, soundness and completeness of the index | `Publish`, `TLAPS` |
| `PromiseProofs` | refinement of `EventStore`; removals are owed; accepted requests are carried out | `PublishProofs` |
| `RelayProofs` | the relay is the write path; connections, subscriptions, gift wraps | `Relay`, `PublishProofs` |
| `FinishProofs` | what an EOSE and a COUNT answer promise | `RelayProofs`, `PromiseProofs` |
| `Recursion` | induction over numbers and lists, and that recursive definitions are functions: lemmas only | `WellFoundedInduction`, `TLAPS` |
| `TagProofs` | lemmas: the text of the tags, its two parsers, conditions | `TagParsers`, `Recursion` |
| `FilterProofs` | lemmas: one filter of one object, the loop of `collect_filters` | `FilterParser`, `Recursion` |
| `WireProofs` | types, the buffer, sizes, tags, delegations, filters | `Wire`, `TagProofs`, `FilterProofs` |

`Relay` and `Wire` are two views of `server.c`. In `Relay` a message is one step and what matters is the store and who is
connected; in `Wire` the store is a choice among the answers it can lead to, and what matters is the message itself.

### How state and actions correspond to the code

*Events* are records. A tag is a sequence whose first element is its name; the further elements are values of
the type the code reads out of them: ids, keys, numbers, urls, coordinates. An `"a"` value is
`<<kind, pubkey>>` or `<<kind, pubkey, d>>`, any other length stands for text `parse_a_tag` refuses.
`Stripped` maps a url to the url without trailing slashes. `work` is the number of leading zero bits.
Content and signatures are not carried: the outcome of `check_event` and of the size limits is the bit
`valid` of `Publish!Receive`, which TLC and the proofs let be anything.

*Tables* are sets: `event` of rows, whose `created_at` has gone through `ToInt`, `delegation` of pairs.
The delete statements are named for what they select (`ByKindAndPubkey` is
`delete_record_by_kind_and_pubkey`); the two that select first and then delete the ids found are one step,
as nothing runs in between and the second statement's condition is the ids alone.

*Texts of tags*: column `tags` holds the text as its author's client wrote it, and `LIKE` looks at nothing else. `TagsText` gives, for
each id, of each tag what `LIKE` can tell of it: `raw`, the texts of its elements with their escapes unresolved, and `blank`, the
white space among them. `Folded` is the texts with capitals and the same in small letters, as `LIKE` does not
tell the two apart. `HasPair` is the pattern of `append_tag_like_condition` (two elements, no blank or one space behind the comma, in whatever
case), `PurgeCandidates` and `MigrationCandidates` are the scans for a word anywhere in the tags. What `matches_filter`,
`nip40_event_is_expired` and the listeners read is the tags themselves. `TextIsOfTags` ties the two: a text has the tags and elements of its event.

*Handlers*: `pc` is where the handler that runs stands, `cur` its event, `todo` what its loop has still to
visit, `failed` and `result` its local variables; `before` is history, the table when the handler began.

| pc | stands for |
|---|---|
| `down`, `backfill` | no process; `storage_init_sqlite3` migrating |
| `idle` | the event loop, between two handlers |
| `replace` | `nip01_replace_event` or `nip01_replace_addressable_event` is due |
| `targets` | the loop of `nip09_delete_targets` |
| `vanish` | `delete_all_events_by_pubkey` of `nip62_listener` is due |
| `insert`, `index` | the INSERT of `insert_record`; the loop of `store_delegations` |
| `reply` | the listener returned, the OK and the broadcast are due |
| `purge` | the loop of `purge_expired_sqlite3` |

`Faults` says what can go wrong in an instance: `read` (a SELECT fails, or a scan breaks off and passes for
complete), `delete`, `insert`, `index`, `mark` (those statements fail), `crash` (the process dies at any
pc). `Stop` is SIGINT, which the loop notices between handlers only (`server.c:510`). Committed statements
survive both.

In `Relay`, messages are handled at `idle` and a publication runs to its end before the next is looked at,
so subscriptions do not change in the middle of a publication. `asked`, `proved`, `got` and `told` are
history: challenges sent, keys shown, events delivered, EOSEs sent, each forgotten with its connection. A
refused message changes nothing and is no action; so is `COUNT`, which `CountRecords` answers
from the state: what may be counted is a constant of its own, `CountLists`, and the property asks for every answer in every state. The REQ that is refused for want of room or for an invalid filter leaves an older
subscription of the same name in place, as `handle_req` returns before `remove_subscriptions`.

In `Wire`, a thread is in `handle_message` unless `Quiet`. `phase` is the loop `check_event` or `parse_tags_json` is in, `p`
where it stands in the text of the tags; `collecting` is the loop of `collect_filters`; `outbox` holds the messages
still to be written and `builder` is the writer of one.

- A *tag's element* is a sequence of symbols as they stand in the text, where a backslash and the symbol after it are one
  escape. `text` is made of tokens: brackets, commas, strings, and one blank, which `gap` places. The blank is
  `"blank"` for space, newline and tab, `"return"` for a carriage return.
- A *conditions text* is the sequence of its parts between ampersands, each with its key, its operators and its number.
  A part is `plain` if its value is written as `snprintf` writes a number: `kind` is compared as text, a time as a number.
  `Token` is the set of the tokens that are signed. `genuine` is the id and the signature of the event.
- A *filter object* is the sequence of its fields; their items are told apart by what the parser asks of them.
  `TagField` is the set of the names that begin with `#` and go on: each of them names a tag, and the values of `#e` and `#p` must be hex.
- A *text that is written* is a sequence of runs `<<width, how many>>`: 1 byte plain, 2 a short escape, 6 for
  `\u00XX`. `EscapeRun` takes a run in one step, as far as it fits. `whole` and `cut` are history: every byte that should
  be in the buffer is, and a NUL stands before its end.

`AnswerEvent` and `AnswerRequest` choose among the answers that policies, listeners, the store and the subscriptions may
lead to; a reason is 40 characters, which is as good as any other length that fits.

## 3. Runs

Deadlock is checked in every run but `MCReturn`, where standing still is the finding.

| Run | Instance | States | Shows |
|---|---|---|---|
| `MCReplacement` | two profiles, one of two versions, two authors; four articles, with one, two, and an empty `d` tag; an ephemeral event | 5570 | newer versions take exactly the older ones away; OK true means what it says |
| `MCRequests` | notes, an article, a profile, a gift wrap to oneself, a delegated note; three deletion requests, by ids, kind filter and coordinates; four requests to vanish, from here, there, all and none; deletes fail | 192954 | an unqualified OK true means everything asked for is gone; nothing goes that no held event accounts for, boundaries of time included |
| `MCFaults` | one or two events of every listener and of the sweep, a legacy database; crash, read, delete, insert, index | 112480 | soundness of the index and refinement of `EventStore` survive everything |
| `MCLifetime` | three databases, empty and of an older version, delegations to nobody, one and two; events expiring at 1, 5 and 9, one with two expirations, and one that has the word in another tag, one more in all than a sweep may visit; protected and worked events; mark fails; clock to 3 | 12048 | the migrated index is complete; what expired is swept in the end, nothing else is |
| `MCSubscribe` | one connection, two names, one subscription allowed; a list of two filters and a filter with limit 1; profiles of two versions, spaced and compact tags, a "p" tag in capitals; six lists to count, by authors, kinds, ids, times and tags, apart and over each other; clock to 1 | 125928 | `finish` misses nothing, limits hold; no count is too low, and where no two filters ask for one event it is exact |
| `MCPrivate` | two connections, a stored gift wrap and an ephemeral one, three challenges, a random source that fails | 127356 | gift wraps reach proved recipients only; who asks for them and is told of no more has authenticated and got all that are stored for its key; nothing outlives its connection |
| `MCWire` | tags empty, repeated, with escapes, one more than the limits; tokens signed, forged, with five elements, seven conditions, one with `kind=01`, against three kinds and five times; a blank at every place; contents of every width, sizes of 65535 to 65537 with the margin; names of 3, 100 and 101 characters with every escape; filter objects with every field right and wrong, at the limits and one beyond, tag fields other than `#e` and `#p`, alone and in lists | 31133 | delegations are verified and the two parsers agree; filters say what was asked for; the foreseen size is what is written; what is admitted goes out whole; every message is answered |

The other five runs show the code doing otherwise than a comment or document says; each is a finding of
`PROJECT.json`, with the line quoted.

| Run | Property | The code | The text |
|---|---|---|---|
| `MCDelegator` | `DelegatorDeletes` | deletes by the delegator's key, which matches no row | `nip09.c:122` |
| `MCStarvation` | `ExpiredSwept` | always sweeps the same first rows | `storage.h:149` |
| `MCHinted` | `FinishIsComplete` | replays tags of exactly two elements only | `nip67.h:24` |
| `MCReturn` | `EveryMessageAnswered` | does not move on from a carriage return in the tags | `json_util.c:720`, `crypto.c:727` |
| `MCControl` | `ArrivesUncut` | writes a NUL after `\u00XX` (`json_util.c:419`), where `strlen` ends the message | `json_util.c:385` |

More disagreements were met while modelling. The modules do what the code does in each case; no run is
spent on them.

| The code | The text |
|---|---|
| asks whether the author or a delegator deletes before it comes to the p-tag delete of a gift wrap (`nip09.c:145`), so a recipient is turned away | "recipient-authorized gift-wrap deletion", `README.md:140`; `storage.h:130` |
| drops in memory (`server.c:216`) what the SQL found by delegator | `storage.c:872` |
| hints by the kinds a filter names (`nip17.c:26`), withholds by the event's | `NOSTR_COMPATABILITY.md:169` |
| reads a limit of 0 as 500 (`storage.c:817`) | `nostrogotho.h:95` |
| lets 64 hex digits through only as an id or author of a filter (`json_parse_filter`) | "support ID and author prefixes", `README.md:134`, `nostrogotho.h:89` |
| asks for a page size of 1 MB, which SQLite ignores, as its maximum is 64 KiB | "is the SQLite maximum", `storage.c:1199` |
| stores an older version of a replaceable event that arrives late beside the newer one, and both of one `created_at` (`nip01.c:166`) | "only the latest event is retained", `nip01.c:155`; "the lexical id tie-break (lowest id wins)", `nip01.c:158` |
| takes an empty identifier in a coordinate for a replaceable event's, whatever the kind, and deletes articles of every identifier (`nip09.c:108`) | "Replaceable event (e.g. kind 0, 3, 10000-20000)", `nip09.c:109` |
| answers "duplicate" for every failed insert (`nip_plugin.c:82`) | "Returns a duplicate result when the event already exists", `nip_plugin.h:156` |
| finds a tag in its text only without blanks or with one space behind the comma, and without escapes (`storage.c:682`), where the gate and `matches_filter` take any | "compact or spaced JSON", `storage.c:670`; "all matched events sent", `nip67.h:24` |
| takes capital for small letters when it looks for a tag (`storage.c:707`): a replay is filtered again in memory, a count is not | "Add one exact tag-element match", `storage.c:668` |
| counts an event once for every filter that selects it (`storage.c:1092`) | "the number of events matching query filters", `nip45.c:10`; "aggregated into a single count", `NOSTR_COMPATABILITY.md:114` |
| answers `finish` for a filter with too many criteria, which it did not run (`server.c:234`) | `nip67.h:24` |
| gives the `auth` hint without a challenge when no random bytes can be had (`nip17.c:44`) | "Relays MUST ensure an AUTH message ... is sent before the EOSE", `nip67.h:61` |
| measures a subscription's name before it is escaped (`nip01.c:96`): 100 characters of which 47 or more are escaped do not fit the margin | "The 160-byte margin covers the ... wrapper", `nip01.c:94` |
| compares `created_at` modulo 2^32 (`storage.c:273`), so an older event may remove one from after 2038 | `storage.h:106` |
| counts an escape of two bytes as one when it measures an element, so the end of one with escapes is dropped (`crypto.c:557`); an element without escapes is read alike | "mirrors parse_json_string", `crypto.c:543` |
| verifies delegation tags of four elements and more (`crypto.c:736`), indexes and honours those of two and three | `json_util.c:717` |
| sends tags as `null` when they do not fit; the size check admits no such event, but a database may hold one | `json_util.c:897` |
| hashes the text of the tags as it was sent, blanks included (`crypto.c:687`) | NIP-01's canonical form |
| counts 3, 2, 2, 1 bits for a first nibble of 1, 2, 3, 4 to 7 and none for more (`crypto.c:805`) | 3 for 4, 2 for 5 to 7, 1 for 9 to 15, `crypto.c:771` |
| restricts nothing for a list of a filter that is empty or no list at all | "all criteria are AND'd", `nostrogotho.h:86` |
| leaks what a refused filter had allocated (`server.c:304`) | "caller is responsible", `json_util.h:239` |
| wants every bound on `created_at` met (`nip26.c:63`), one of several kinds | "Multiple values for same key are OR'd", `nip26.h` |
| has no bound in SQL for a negative `until`, and one in memory that lets nothing through: such a COUNT counts what its REQ would not send | "Maximum created_at (0 = no limit)", `nostrogotho.h:94` |
| links plugins at the head of `nip_plugins`, without effect so far | "in registration order", `nip_plugin.h:130` |

### Bounds, and why they are enough

- *Events*: an event set has, for each comparison the code makes, events on both sides of it: same and
  other author, kind, identifier, older, equal and newer, tag there, missing, repeated. The interplay of more
  than two publications comes from history: any event may be published again and again, in any order.
- *`MaxNow`*: the clock moves past every expiration but the late ones in `MCLifetime`. Elsewhere time plays no part.
- *`MaxPurge`* (10000 in the code) is as large as the number of events in play, or less to show the cap: in `MCLifetime` one row has to
  wait for another sweep.
- *`IntMax`* is far beyond every time.
- *`MaxLimit`, `MaxParams`, `MaxSubscriptions`* are small enough to be reached.
- *`MaxChallenge`* bounds the challenges drawn; connecting stops when they are used up, so that two
  connections can come, go and come back before that.
- *`BufferSize`, `Margin`, `MaxSubId`, `MaxContent`, `MaxTokenLength`* have the values of the code: widths are numbers and cost
  nothing. The sizes of events lie one byte around what the check admits.
- *`MaxTags`, `MaxElements`, `MaxElement`, `MaxItems`, `MaxFilters`, `MaxValues`* are 2 to 6 in `MCWire`, and exceeded by one. The code
  asks of 100 or 256 what the model asks of 3. As in the code there are no more tags allowed than elements of one, on which
  the second parser's own limit of tags rests.

Symmetry is not used: authors and events are told apart by the filters and requests.

### Fairness

`MCLifetime` and `MCStarvation` use `FairSpec`. `WF(Listener)`, `WF(Migration)` and
`WF(PurgeRow \/ PurgeEnd)`: the thread runs the handler it has entered to its end, since every loop of a
handler is over a finite list. `SF(PurgeBegin)`: `mg_mgr_poll` looks at the timers in every turn,
whatever messages arrive, so a due sweep is not put off for ever although each message makes it wait. The
timer repeats every 60 s and for good. Clients, the clock and a restart owe nothing, which is why
`ExpiredSwept` lets a relay that is down off. The row must also have `created_at <= now`, which the sweep demands and
an upper limit
on `created_at` makes true in time.

`MCWire` and `MCReturn` use `WireFairSpec`: `WF(Handle)`, the thread takes the next step of `handle_message` while there is one.
Clients owe no message. A loop without a step that moves it on is no step: it is what `EveryMessageAnswered` is violated by.

## 4. Proofs

`tlapm` checks every leaf; the provers used are Z3, Zenon and LS4. The theorems hold for every `Event`,
`Legacy`, `Faults`, limit and clock bound, finite or not, under the assumptions named in the modules
(`IdIsHash`: an id names one event; `EventIsRecord`; `LegacyIsEvents`; the types of the limits and, for `Wire`, of what is
received: `WireInput`, `PartsAreParts`, `MarginIsNat`, `ParserLimits`). Every safety property of a passing run is a theorem.

| Theorem | States | Assumes besides |
|---|---|---|
| `TypeCorrect` | `Spec => []TypeOK` | |
| `IndexIsSound` | `Spec => []DelegationSound` | |
| `IndexIsComplete` | `Spec => []DelegationComplete` | no `crash`, `index` or `read` fault (`NoneIsLost`), no `delegation` written with an escape (`DelegationIsPlain`) |
| `PromiseKept` | `Spec => KeepsPromise` (refinement of `EventStore`) | `InRange` |
| `RemovalOwed` | `Spec => []RemovalIsOwed` | `InRange`, no `insert` fault |
| `RequestCarriedOut` | `Spec => []RequestHonoured` | `InRange`, `NoneNamesItself`, no `read` fault |
| `RelayIsPublish` | `RelaySpec => Spec`, so that all of the above hold of the relay | |
| `RelayTypeCorrect` | `RelaySpec => []RelayTypeOK` | |
| `NothingIsLeft` | `RelaySpec => []NothingOutlivesConnection` | |
| `GiftWrapsReachRecipients` | `RelaySpec => []GiftWrapsToRecipient` | |
| `FinishMeansAll` | `RelaySpec => []FinishIsComplete` | `Ordinary` |
| `GiftsAreAllReplayed` | `RelaySpec => GiftsAreReplayed` | `Ordinary` |
| `CountIsExact` | `RelaySpec => []CountIsOfMatches` | `Ordinary`, `Countable` |
| `WireTypes` | `WireSpec => []WireTypeOK` | |
| `BufferHolds` | `WireSpec => []NeverOverruns` | |
| `SizeForeseen` | `WireSpec => []SizeIsExact` | |
| `AdmittedArrives` | `WireSpec => []AdmittedIsSentWhole` | |
| `GateIsEnough` | `WireSpec => []AcceptedAlwaysParse` | |
| `AllTagsAreScanned` | `WireSpec => []ScannedWhole` | |
| `DelegationFailsClosed` | `WireSpec => []TokensAreVerified` | |
| `FiltersAreKept` | `WireSpec => []FiltersAreAsAsked` | |

`InRange` says every `created_at` fits an int; beyond it the cast in `storage.c:273` puts newer events before older ones.
`NoneNamesItself` says no event's id is among its own `"e"` targets, which would be a hash that contains
itself. The conditions on faults exclude exactly those under which the property is false
of the code: an insert that fails after the delete leaves a removal owed to nobody; a target that could
not be read passes for one the relay does not know; an entry is lost with the process, with its statement, or with the rest
of a scan.
`DelegationIsPlain` says that a delegation tag's name is written as it is read: the migration looks for the word in the text.

`Ordinary` is `InRange`, no `read` fault, filters within the limits of a query (`Answerable`), tags named by a
filter that are pairs, without escapes and with no blank or one space behind the comma (`WrittenAsPairs`: what `MCHinted`
violates), numbers for expiration dates, and a finite older database. `MCSubscribe` and `MCPrivate` satisfy it.
`Countable` is what keeps a query from selecting what does not match: `NoDelegations`, as a query for an author also counts what was published
on his behalf; `Unescaped`, as a text may spell an escape that a filter spells too and means another value by; `CaseTellsNothing`, what is
asked for differs from what tags say by more than capital letters (a count of p tags with "alice" would also count that of "Alice"); `ParsedLists`, lists of filters are sequences and their
times natural numbers. `MCSubscribe` satisfies all of it.

The arguments:

- *Types and index.* `DelegationSound` is not inductive alone. `SoundInv` adds `TypeOK` and that the entries still
  to be written belong to rows that are held (`IndexedIsHeld`): the row is inserted before
  `pc = "index"`, and nothing deletes while `store_delegations` runs. Deletes keep soundness by the cascade,
  which `DeleteRows` is one lemma about, used by every action that deletes.
- *A complete index.* `CompleteInv` says where a missing entry can be: in the work left of `store_delegations` or of the
  migration (`Covered`). A delete takes the entries of its rows and no other row's, because a table has one row of an id
  (`RowOfId`). The migration starts with the rows whose text names a delegation, and those are all that have entries
  (`IndexedAreCandidates`).
- *Refinement.* `PromiseInv` adds `Dispatched` to `SoundInv`: at `replace`, `targets` and `vanish` the event in
  hand is of the kind whose listener got there, so what `Replace`, a target or `Vanish` selects is what
  `Authorises` allows. Each action is then a step of `EventStore` or a stutter: deletes are `Discard`,
  `Insert` is `Hold`, `Indexed` and the refusals are `Decide`, `Reply` and a crash are `Settle`, the sweep is
  `Expire`. The lemmas that turn rows into events rest on `IdIsHash` and, for the comparisons of time, on
  `InRange`.
- *Removals.* `Owed`: while a publication runs, what is missing from `before` is authorised by the event in
  hand; at `replace` and `vanish` nothing is missing yet; and at `reply` either nothing is missing or that event is in
  the table.
- *Requests.* `HonouredSoFar`: no row is reached by a target of the loop already visited (`Visited`), and at
  `insert` and `index` the event in hand has authority over no row but itself (`Clear`), both unless
  `failed`; an unqualified accept at `reply` keeps `Clear`. The lemmas that say a listener's deletes select all
  that its event has authority over are the converse of those of the refinement.

- *The relay.* Each action of `RelayNext` is an action of `Next` or leaves its variables alone (`RelayStep`), which is
  `RelayIsPublish`. `RelayInv` adds to `SoundInv` what connects the tables to the sockets: a client record belongs to an open
  connection to which its challenge was sent, and its key, if it has one, was shown there (`ClientsOK`); subscriptions are
  finitely many, of open connections, with one name each and no more than the limit (`SubscriptionsOK`). The step that needs
  counting is `SubscribeKeepsSubscriptions`: either the name is taken and replaced, or there was room. A delivery is
  proved where it is made: `nip17_can_deliver` asks for the record's key, and `ClientsOK` turns it into one
  that was shown on this very connection.
- *Answers to queries.* `MatchIsSelected`: what `matches_filter` accepts, the SQL selects: the pattern finds the pair in the text. `PageIsWhole`: a page with no row
  left over is all that was selected, by counting. So a replay that says `finish` delivered all it may (`ReplayIsWhole`). After that
  the subscription lives on: `NothingMissed` says that every public event in the table it asked for was delivered, or is the event in
  hand, between its insertion and its broadcast (`Awaited`). Inserted events become awaited, a broadcast gives them to everyone who listens,
  time only closes events (`OpenBefore`), and what is forgotten is forgotten with its subscription.
- *Counts.* `PairIsTag` is the converse: a pair found in the text is a tag. What is counted is pairs of a filter and a row; their
  projection to rows is onto the matching ones, so there are no fewer, and one to one if no two filters ask for one event
  (`CountIsOfPairs`).
- *The buffer.* `pos < BufferSize` is inductive only for calls that never write more than they ask room for, and the
  calls depend on what was received. `WireInv` says of every call in the outbox and in the builder that it is of that
  kind: brackets ask for what they write; `snprintf` of a key and a number asks for 128 bytes, and
  `DigitsBounded` and the lengths of the keys bound it; strings and tags ask run by run. It does not depend on the size
  check, so nothing overruns whatever is stored.
- *Recursive definitions.* The provers cannot instantiate an induction theorem over a predicate, so `Recursion` states
  induction for sets (`NatSetInduction`: the predicate is the set of what satisfies it), from the library's `WFMin`, and
  recursion for functions from functions to functions (the lemma `RecursionByRank`). Each recursive definition a proof about `Wire` needs gets its
  equation from there: the text of the tags by `ClosingEquation`, the filter that is read by `FilterEquation`, the conditions by
  `ConditionsAreChecked`, `escaped_length` by `EscapedEquation`. That is why these definitions are recursive functions
  and no folds.
- *Sizes.* `SizeInv` says that the message in the writer is that of an admitted event, and of its twelve calls which one is
  due. `Begins` is the table of where each of them begins in the buffer; `EventProgress` ties `pos` to it, and inside a string to
  what is left of its text. At the end of the table stands what `json_serialized_event_size` foresees (`SizeForeseen`). A call
  ends no later than the last one, and that no later than the buffer if the size was admitted and the name fits the margin:
  hence no call is cut (`AdmittedArrives`).
- *Tags.* `ParserInv` says where the parser stands: what is left of the text is what stands before the n-th tag (`InTags`), or
  before the m-th element of it (`InElements`), whether or not a blank has been passed, and what has been read until then are the tags and
  the elements before (`Scanned`, `HasRead`). So the next token tells how much is left, and as the gate let no more tags
  and elements through than the scan has room for, no refusal of the scan can happen (`GateIsEnough`) and all is
  scanned at the end (`AllTagsAreScanned`). That rests on `MaxTags <= MaxElements`, 100 and 256 in the code: the second parser's
  limit of tags is that of elements. Symbols without escapes are read as they stand (`PlainIsRead`).
- *Delegations.* In the loop of `check_event`, the tokens among the tags before `next` are signed, for the author and
  hold (`Verified`). `HoldsIsAllowed`: what `nip26_check_conditions` makes of the parts, one after the other, is what the parts
  say, by induction over them.
- *Filters.* `FieldFollows` says what one field changes in a filter, and `ObjectSays` by induction over the fields that each
  part of the filter is that of the field of its name. `Collected`: after k objects the filters are those of the
  first accepted ones, in their order, and only a full array leaves one out.

Model-checked only: liveness (`ExpiredSwept`, `EveryMessageAnswered`), which the prover does not reach. The properties of the
runs that find a violation are false of the code; `FinishIsComplete` and `CountIsOfMatches` hold where the assumptions of their theorems do.

## 5. What the properties do not say

- `RemovalIsOwed` fails under `insert` faults and `RequestHonoured` under `read` faults, see above.
- `DelegationComplete` fails under `crash`, `index` and `read` faults; `storage.c:72` accepts a missing entry. What is
  proved under all of them is that no entry is wrong.
- `FinishIsComplete` fails under `read` faults: `send_records` takes any end of a scan for the last row.
- `LIKE` sees a text as a sequence of tags' elements here. A filter's name or value with a quote, a backslash or JSON punctuation in it could make
  a pattern that spans elements, and an element that ends in an escaped quote could look like the end of a pair: neither is modelled.
- `ExpiredSwept` and `DelegationComplete` are about tags whose names are written as they are read. One that is written with
  an escape (`"expir\u0061tion"`) is honoured when it is read, and found neither by the sweep nor by the migration.
- A deleted event can be published again: the relay does not look for a deletion request when one
  arrives, and no document says that it does. `RequestHonoured` speaks of the moment of the OK.
- `ScannedWhole` compares values, and `TokensAreVerified` speaks of events, where no element has an escape: elsewhere the two
  parsers read different values, see section 3. The number of tags and elements agrees in any case.
- `AdmittedIsSentWhole` is about broadcasts; `send_records` writes rows by the same calls.
- `FiltersAreAsAsked` compares filters whose lists are lists and not empty.
- `WireInput` describes what is received, beyond types, by one restriction of substance: no object has two fields of one name
  (`IsValue`), see section 6. `PartsOf` must know the conditions of every token, and nothing else is asked of it.
- An author list is a set here; one that names an author twice binds him twice.

## 6. Not modelled

- *SHA-256, Schnorr, hex*: stateless, a bit or a number of an event here. *Surrogates and UTF-8* in strings; *the fields of
  an event* other than its tags, whose parsing fails or succeeds as `malformed`.
- *Search strings* in queries: content is not carried. *The 2048 and 4096 byte buffers* of the SQL text: a second cap with the
  effect of the parameter table's.
- *A filter that names a field twice*: the second list of `ids` or `authors` starts over with an array of its own and counts on
  from the first, which is undefined, so `IsValue` leaves such objects out. *A subscription id that is no string*, and
  the 256 tag fields of one filter.
- *`AUTH` and `CLOSE`* in `Wire`: `Relay` has them. *Messages of more than `MAX_WS_MESSAGE_LENGTH`*: a notice.
- *Power loss*: WAL with `synchronous = NORMAL` may lose committed statements; only the death of the process
  is modelled.
- *NIP-11, HTTP upgrade, command line, logging, memory allocation.*
- *SQLite, mongoose, secp256k1*: vendored, modelled from how the relay uses them. They are nine tenths of the lines under
  `src/`; the relay itself is some 7400.

## 7. Plan

Done, in this order: `NostrEvent`, `Storage`, `EventStore`, `Publish` with its runs and proofs; `Query`, `Relay` with
their runs; `JsonBuilder`, `Delegation`, `TagParsers`, `FilterParser`, `Wire` with their runs; the proofs about `Relay`, the
index and the answers to queries; those about `Wire`, and with them a theorem for every safety property of a passing run.

To come:

1. *Refinement for queries*: an abstract subscription ("everything held and everything new, once") which
   `Relay` implements where the findings do not bite, proved from `NothingMissed`.
2. *Power loss*: a `Durable` part of the tables and a crash that falls back to it.
3. *`Pow`*: `count_leading_zero_bits` against its definition. *Search* in `Query`.
