# TLA+ models of yuca

yuca is an in-memory search library in C++11: an application hands it documents
with keys in groups, and asks queries. It has no threads of its own. What makes
it hard to test is failure in the middle of a call (every allocation may throw),
object identity (equal keys and documents are different objects, and a cached
one stands for its equals), and checkpoint files that several processes write,
load and lose power over. These are what the modules are about.

Paths below are relative to the repository.

## Inventory

| Component | State | Operations | Interacts with | What makes it correct |
| --- | --- | --- | --- | --- |
| Document (`src/yuca/document.*`) | `group_2_keyset_map`, five property maps | `addKey`, `removeKey`, `removeGroup`, properties | retained by pointer in the Indexer; edited by its owner | a group it names has a key (it need not: see Findings) |
| Key, StringKey (`key.*`) | group, string, hash of both | comparisons, implicit assignment | compared by hash in every set and cache; one object may be in a document, a cache and a posting map at once | equal keys are one key to the index; a cached object does not change under it (it can: see Findings) |
| ReverseIndex (`indexer.*`) | `keyPtrCache`, `spkey_to_spdocset_map` | `putDocument`, `removeDocument`, `clear`, lookups | one per group, in `Indexer::reverseIndices` | cache and postings agree, nothing empty stays |
| Indexer (`indexer.*`) | `docPtrCache`, `reverseIndices` | `indexDocument`, `removeDocument`, `clear`, copy | calls ReverseIndex, reads Documents | lookups are exact; a call takes effect as a whole or not at all; a copy answers alike and shares nothing |
| Search (`indexer.*`) | none (const) | `search`, `findDocuments` | reads postings, then the documents' own keys | any keyword in a group, every group; ranked; a limit is a prefix |
| Levenshtein (`utils.hpp`) | one column | `levenshteinDistance` | adds to a search score | equals the edit distance |
| Collections (`utils.hpp`) | Set, List, Map | add, put, remove, subList... | everywhere | no-throw replacement, self-arguments, bounds |
| Snapshot codec (`snapshot.cpp`) | bytes, budgets | `serialize`, `deserialize` | reads and builds Indexers | round trip, limits, bulk build equals replay |
| Snapshot files (`snapshot.cpp`) | file, temporary name | `save`, `load` | file system, other processes, the application that restarts from it | the path always names a whole checkpoint; what a save returned for is not lost |
| XXH64 checksum (`snapshot_checksum.h`) | none (four lanes in a call) | `snapshotChecksum` | codec, snapshot files | reads every byte once, notices a change |
| Random numbers, time and text helpers (`utils.hpp`) | none | pure calls | search, clients | library calls |
| Diagnostics, Java bindings, tests, fuzzers, benchmarks, scripts | none of the library's | | clients | |

The hard behaviours are listed with their lines under `hazards` in
`PROJECT.json`, each with the properties that would catch it.

## Modules

    IndexSpec             what an index promises (abstract)
    Indexer               Document keys + ReverseIndex + Indexer, step by step
      MCIndexer           instance for TLC
    IndexCopy             the copy constructor on any state of Indexer (EXTENDS it)
      MCIndexCopy         instance for TLC
    SharedKeys            one reverse index whose key objects their owners change
      MCSharedKeys        instance for TLC
    Orders                sorting, by a relation that says what comes before what
      OrdersProofs        a strict order has one sorted sequence; least numbers, induction
    Search                queries on the state of Indexer (EXTENDS it and Orders)
      MCSearch            instances for TLC
      IndexProofs         Indexer: inductive invariants, safety, and that it implements
                          IndexSpec; on top of it, queries are exact and ranked, and a
                          copy answers alike and shares nothing
    SnapshotFile          save and load on a file system with crashes
    LoadRace              loads while the file is rewritten in place (EXTENDS SnapshotFile)
      MCSnapshotFile      instance for TLC of both
    Session               an application on top of SnapshotFile (EXTENDS it)
      MCSession           instance for TLC
      SessionProofs       whole checkpoints, no litter, loads are atomic, what was saved is not lost
    SnapshotFormat        encode: the payload of an index (EXTENDS Orders)
      SnapshotFormatProofs  how long an encoding is, of which pieces, and how much text it holds
      SnapshotCodec       decode, step by step (EXTENDS it)
      MCSnapshotCodec     instances for TLC
      SnapshotCodecProofs budgets, postings, what is read is what is kept, loading undoes saving
      SnapshotLimitsProofs  what is accepted is what is within the limits
    Levenshtein           the distance loops, a cell per step
    Checksum              the checksum loops, a pass per step
      MCPureLoops         instance for TLC of both
      PureLoopsProofs     the column is exact; every byte is read once, changes show
    Collections           Set, List and Map, loops an element at a time
      MCCollections       instance for TLC
      CollectionsProofs   loops act as on a copy of their argument

### Indexer

A call is a sequence of steps cut at the allocations that can throw, because
that is where the code can stop half-way; `noexcept` code is one step. `pc`
names the next step:

| pc | code (`src/yuca/indexer.cpp`) | steps |
| --- | --- | --- |
| `idle` | the owner's turn | `AddKey`, `RemoveKey`, `RemoveGroup` and their failures, `Invoke` |
| `index` | 278-288, `prepareGroups` | `PrepareIndex`, `IndexUnchanged`, `IndexThrows` |
| `post` | 289-300, `putDocument` | `PublishGroup`, `PutDocument`, `CacheDocument` and the throw of each |
| `rollback` | 301-304 | `Rollback` = `erasePostings(groups, doc)` |
| `replace` | 305-307 | `ErasePrevious` = `erasePostings(old_groups, previous)` |
| `remove`, `clear` | 321-342 | `RemoveDocument`, `RemoveUnknown`, `Clear`, and their failures |
| `returned`, `threw` | | how the call ended; `Resume` returns to the owner |

Document and key *objects* are the elements of `Docs` and `Keys`; `IdOf`,
`GroupOf` and `HashOf` say which are equal. A key's string appears only as the
hash of group and string, because the code compares nothing else; a hash
collision is therefore the same situation as two equal keys. The iteration order
of the code (sets of pointers) is left open. Documents are edited only while the
index does not retain them, which `indexer.hpp:180` demands of callers.
`AddKeyThrows` and `RemoveKeyThrows` leave the state the code leaves: a group
without keys.

`IndexSpec` is the promise: at most one document per ID, a lookup returns the
retained documents that carry the term, and each call takes effect at one
instant or, when it throws, not at all. The refinement mapping reads the answers
from the real postings whenever no call is running; inside a call the abstract
index is that of before it.

### IndexCopy

The copy constructor (`indexer.cpp:230-245`) copies each document of the original
and hands the copy to `indexDocument`, so that the module is `Indexer` run a
second time: its variables are the original's while `stage` is `original`, and
the new index's from `BeginCopy` on (the original is const meanwhile).
`CopyDocument` makes the copy of a document, group by group (`removeGroup`, and
`addKey` of a copy of each key), and starts `indexDocument` for it, whose steps
are `CopyStep`; `CopyThrows` is a throw in the loop or out of `indexDocument`,
`EndCopy` the end of the loop. `DocCopy` and `KeyCopy` name the objects that are
made, one for each object copied; nothing else is assumed of them than that
they are new and equal. `source` and `promised` keep what the original retained
and answered. The copy starts from every state between two calls, so that
documents share posting lists under each other's keys, and some were replaced
or rolled back.

### SharedKeys

`Indexer` takes a key object's group and hash as given. They are not: the index
keeps the key object itself, the first of its equals, in `keyPtrCache` and as the
key of the posting map (`indexer.cpp:89`), and the implicit assignment of a
StringKey writes to that object. `SharedKeys` is one reverse index with the
contents of key objects as a variable: `IndexDocument`, `RemoveDocument` and the
owner's `ChangeKey`, allowed while the documents that hold the object are not
retained, as the manual asks. The
posting map is ordered by the address of its keys and does not mind; the key cache is
under the ID a key had when it was cached.

### Search

`search` is const, so it is an operator on a state of `Indexer`, evaluated
between calls: `Request` is the constructor of `SearchRequest` as a recursive
function over the tokens, `FindDocuments`, `Appearances`, `Intersected`, `KeywordScore`,
`Score` and `SearchResults` are the numbered stages of `Indexer::search`. Scores
are exact fractions where the code has doubles (the sums of small integers and
1/distance compared here are told apart by doubles). The distance of a document's property
from the query is a parameter, any number or "none". `InOrder` of `Orders` is
`std::sort`, by a relation: what TLC's `SortSeq` computes is not defined for the
prover, and a relation can be quantified over in a lemma. The reference the results
are compared with (`IsWanted`, `Hits`) is stated over the positions of the query
and the documents' keys; it mentions neither postings nor requests.

### SnapshotFile

One step per system call of `TemporaryFile` and of `load`: `CreateTemporary`
(mkstemp), `Write` (possibly short), `SyncAndClose`, `Rename`, any of which may fail,
and the destructor: `Cleanup`, or `RemoveFails` when the system does not remove the
file, which neither the destructor nor the constructor's handler notices
(`snapshot.cpp:151` and 155 ignore what `std::remove` returns, and
`docs/manual.md:84` promises no more than an attempt). Such a file counts as
`abandoned`, as does that of a saver that was killed. `Open`, `Read` and `EndRead`
are `load`. A file is a sequence of cells, the first being the header. The
directory, its last version on disk, the contents and the synced files are
separate, so that `PowerLoss` can drop a rename and unsynced data independently;
`Kill` ends a process between two calls. XXH64 is taken to distinguish the
payloads that meet.

`BeginCopy`, `CopyCell` and `EndCopy` are a foreign program copying another
checkpoint into the file in place: it truncates the file first or writes over
what is there, writes cell by cell, and cuts off the rest. One such program runs
at a time, and it gets to its end or falls with the machine: a program that was
killed halfway, with another one writing over what it left, is not modelled.
`WriteBack`, `PowerLoss` and `Kill` are external to the library as well. `OwnNext`
are the steps without the foreign program, `Next` all of them.

### LoadRace

`load` has no lock and reads piece by piece, so that the pieces it meets under
foreign writes may be of one checkpoint although the file never was that
checkpoint: a program may write over the file behind the reader, or in front of it,
with a longer file's end still in place. `LoadRace` adds to `SnapshotFile` the history
`held`, the checkpoints that the opened file has been since a loader opened it. What
`load` returns must be one of them (`LoadIsAtomic`). The checksum does not give that,
since it is right for cells gathered at different times; the check for the end of the
file after the last read does (`AtEnd`, `snapshot.cpp:361`).

### Session

One saver and one loader of `SnapshotFile` become an application: it loads when
it starts (`LoadStep`, `LoadReturns`; without a file it starts empty), changes its
index and saves it (`ChangeAndSave`, `SaveStep`), and dies or loses power at any
step. An index is the set of changes that went into it, so that `acked`, the
changes in saves that returned, can be compared with what is in memory after any
number of restarts. A power loss takes from `acked` what the directory on disk
does not have yet, which is what `docs/manual.md` leaves open; a kill takes
nothing. The session's steps are steps of `SnapshotFile` without the foreign program
(`SessionStep` in `SessionProofs`).

### SnapshotFormat and SnapshotCodec

`SnapshotFormat` is `encode` as an operator: `Payload(index)` is the sequence of
bytes after the header, built as the code builds it (lengths before text, keys
sorted, maps in the order of their names, signed integers modulo the width of a
word). An index is given by its contents: the implicit group and, per document
ID, the key strings of each group, one for every key object, and five property
maps (`IsIndex`). Bytes are `0..Base-1` and integers `WordBytes` long. Sorting is
`InOrder` of `Orders`, by lexical order; key objects that have one string come in
any order, because they are written alike.

An index that is saved satisfies `SourcesAssumption`: IDs and values have the range of
their types, key IDs are hashes as a `long`, and the payload is shorter than the
largest `size_t`. `LimitsAssumption` says that limits are `size_t` and bytes are bytes.

`SnapshotCodec` is `decode`: `reader` holds the position, the charged text and
the value read last, and the operators of the same names are the methods of
`Reader`; a `require` that fails makes the step `Reject`, which stands for the
exception that destroys everything decode has built.

| pc | code (`src/yuca/snapshot.cpp`) | steps |
| --- | --- | --- |
| `header` | 272-278 | `ReadIndex`, and the external `Change` of a byte |
| `document` | 281-286, 320 | `BeginDocument`, `Finish` |
| `group` | 287-293 | `BeginGroup`, then `BeginProperties` |
| `key` | 294-302 | `ReadKey`, `EndGroup` |
| `property` | 223-231, 309-318 | `BeginProperties`, `ReadProperty`, `AddDocument` |
| `decoded`, `rejected` | 321, 34-36 | the end |

Subtractions of used from allowed amounts wrap as `size_t` does (`Left`), so that
`BudgetsHold` is what keeps them right. A changed payload comes with a matching
length and checksum: what those reject is the subject of `SnapshotFile`. The
variant that replays `indexDocument` (`snapshot.cpp:309`) is a benchmark seam;
`Indexer` models the call it makes.

### Levenshtein

`BeginCharacter` and `FillCell` are the outer and inner loop bodies of
`levenshteinDistance` over the one column it keeps. The reference distance
(`Edits`) is not the recursion the code unrolls: it is the cheapest way to pair
off characters of the two strings in order and to delete and insert the rest.

### Checksum

`Block`, `LeftLane`, `HalfLane` and `LastByte` are the four loops of
`snapshotChecksum`, a pass per step, with the state for two inputs that differ in
one byte. A word has 8 bits instead of 64 and a byte 2 instead of 8, so that a
lane is 4 bytes, a half lane 2 and a block 16; the primes are the code's
modulo 2^8, still odd, and rotations and shifts an eighth of the code's, rounded up.
`EveryByteOnce` depends on none of that; `ChangeIsDetected` depends on the steps
behind the last block being bijections of the result, which odd factors,
rotations, exclusive or and additions are at every width.

### Collections

Objects of the three classes and every operation that changes one. Operations
without a loop are one action each. `Begin`, `Visit`, `Return` and `Throw` are the
loops of `addAll`, `removeAll` and `putAll`: the argument may be the object itself,
its elements are read where the loop has got to, and copying one may throw. `Cleared` is
the check `this == &other`; `Argument` is the copy `putAll` makes (`entrySet`). The
reference for a loop (`Expected`) counts occurrences in the two contents at the call.
An index or bound outside of a list throws without effect, so that those
actions are only enabled inside.

## What TLC checks

| Run | Instance | Shows |
| --- | --- | --- |
| `index_calls` | 3 documents, two of one ID; 3 keys, two equal; 2 groups; symmetry of the equal ones | exact answers, findability inside calls, no orphaned reverse index, refinement of `IndexSpec` |
| `index_copy` | 3 documents, keys k1 = k1x and k2 in one group, and a new object for each copy | shared postings and the key cache; the inductive invariant; a copy answers alike and shares nothing, wherever it throws |
| `search` | 2 documents, 3 keys, 2 groups, every query of up to 4 tokens | results equal the reference, ordered by hits and then by ID |
| `ranking` | 3 documents, every assignment of distances 0, 1, 2, none | limit = prefix, closer not behind |
| `file_race` | 1 loader, 2 and 3 cells; 2 savers and 2 temporary names, or 1 of each and 2 foreign rewrites | complete path, own temporary file, no litter but what the system refuses to remove, a load returns what it opened or, under rewrites, what the file was at one moment, termination |
| `session` | an application with 2 saves, 2 temporary names, 2 and 3 cells | what a save returned for is not lost |
| `codec` | 5 indexes, each of 6 limits at 0..110, 16-valued bytes, two-byte integers; under two of the limits any one byte set to one of 5 values, appended or cut | accepted exactly when within the limits, round trip, charged = retained text, budgets, nothing dropped, bulk postings |
| `pure_loops` | all pairs of strings of up to 4 characters out of 2; inputs of 1 to 40 bytes of 4 contents with any one byte changed | every cell of the column, at every step; every byte read once, changes in the last block noticed |
| `collections` | 2 objects of any classes, lists of up to 4 of 2 values, unsigned up to 7 | loops act as with a copy of their argument, valid iterators, `subList` |
| `shared_keys`, `half_keyed`, `rank_by_matches` | small | the findings below |

Bounds. `Indexer` has none beyond its sets: calls and edits repeat without
limit. Two documents of one ID are what replacement and removal by an equal
object need, the third shares their postings; a key equal to another shows
canonicalisation, a key in another group shows publishing and unpublishing;
every throw is reachable after every prefix of a call. Queries of four tokens
can name a group, return to it and repeat a keyword. `MaxSaves` = 1 call per
saver: a saver that starts again differs only in the file it creates, and the
second saver stands for it. Two names are what a collision of a new temporary
file with a forgotten name needs; three cells allow short writes and two
checkpoints of one length. Other programs write in `file_race` only, while there is
one saver (`MCCopiesWithOneSaver`). Two rewrites are needed there: the first makes the
file longer than the length that was noted, the second writes over it with a shorter
checkpoint, whose cells are then all there before the file ends behind them.
In `session`, `MaxSaves` = 2 allows a save after a restart from a save, over a file
left by one that died; restarts, loads and kills repeat without limit. In `index_copy`
a copy is made once, from every state; a document the original does not retain has no
keys at that moment (`OnlyRetainedHaveKeys`), because the copy does not read it.

The indexes of the codec run have each kind of property at its extremes, empty
names and strings, key objects that share a string, a group in several documents
and negative IDs. The largest takes fewer than 110 bytes, so that `MaxLimit` =
110 puts every limit below, at and above what each of them needs. `Base` = 16
and `WordBytes` = 2 keep a word (0..255) larger than any length or limit that
occurs, as 64 bits are in the code, while a changed byte can still make a count
larger than what follows it. One changed byte reaches each check; the weak hash
(a string's last byte) lets a renamed group pass the key check, so that duplicate groups are met.
40 bytes are two blocks and every rest of a third. Strings of four characters give the column of `Levenshtein` its first, inner and
last cells and several carries of the diagonal. `Collections` starts from empty
objects and reaches every content within `MaxSize` = 4, which lets an element
occur often enough for `removeAll` to take some and leave some; `ULongMax` = 7
lets a start and a length of lists of that size wrap around.

Deadlock is checked for `Indexer`, `Search` and `Collections`. `SnapshotFile` and
`Session` stop when all calls allowed by `MaxSaves` are done, and `LoadRace` with them, so those runs switch the
check off; so do those of `SnapshotCodec`, `Levenshtein` and `Checksum`, which are
single calls that return, and `IndexCopy`, which stops after its copy.

Fairness is assumed only of a saver that is running (`WF_vars(SaverStep(p))`):
a thread that is not killed keeps executing. `SaveTerminates` needs no more,
since each write makes progress (`written > 0` is required at
`snapshot.cpp:176`) and nothing waits. An endless `EINTR` is not modelled.

## What is proved

For all values of the constants, from the named assumptions on them (functions
have their types, null values are not elements):

- `IndexProofs`, on `Indexer`. The invariant between calls says nothing of the middle of one,
  so `IndInv` describes it: `NothingStale` (a document in a posting list is
  retained, or the one being added, or the one being replaced, and has a key of
  that list), `NothingMissing` (what is retained, and what the running call has done,
  is posted), `CallIsConsistent` (what the locals hold), and
  `CacheMatchesPostings`. It is inductive, with one lemma per action; lemmas on
  `erasePostings` (`EraseMatches`, `EraseKeepsOthers`, `EraseRemoves`) serve
  rollback, replacement and removal alike. From it follow `TypeCorrect`,
  `CacheIsSound`, `RetainedIsAlwaysFindable` and `AnswersAreAlwaysExact`.
  `IndexAlwaysHasOwner` needs a second invariant, `OwnerInv`: in the middle of a
  call a published reverse index belongs to a retained document, to the one being
  added, or to the one being replaced, whose groups were noted before.
  `Refinement` is `Spec => ImplementsIndexSpec`: each step maps to a step of `IndexSpec`
  or a stutter, using `AnswersAreExact` before and after.
- `IndexProofs`, on `IndexCopy`. `CopyInv` adds to `IndInv` that the objects of the two indexes
  are apart (`Apart`), and that the new index retains copies only, is being given
  one under an ID it does not know, so that there is never a document to replace,
  and posts no key of the original (`NewIndex`). Every step of `Indexer` keeps `IndInv`
  by `NextKeepsIndInv`, so that only the copy's own steps are new. From it follow
  `CopyIsAnIndex` (all that is proved of an index holds of a copy, half-built ones
  included), `CopyAlwaysAnswersAlike` and `CopyNeverShares`.
- `OrdersProofs`. For a strict order on a finite set `InOrder` exists and is unique, the
  place of an element is the number of those before it (`PlaceIsRank`), and a first
  part of the sequence is that of the elements of least rank (`FirstInOrder`).
  `LeastNumber` and `Induction` state induction over numbers for sets, so that it is
  a lemma to cite: a proof by induction is about the set of the numbers for which all is well.
- `IndexProofs`, on `Search`. For every query of any length over any tokens, between calls:
  the request is what the positions of the query say (induction over the query),
  cardinalities of finite sets turn the appearance count into the quantifier, and so
  `Results` are exactly the retained documents with a keyword in every group
  (`SearchIsAlwaysExact`). The score and the ID make a strict order of the documents,
  whatever the distances are, from which `MoreHitsAlwaysFirst` (by hits, then by ID),
  `LimitIsAlwaysPrefix` and `CloserNeverBehind` follow.
- `SessionProofs`. `NameInv` (a saver that knows a name has its own file under
  it) gives `TemporaryFilesAreOwn` and `NoSaveLitters` (a temporary file is that of a
  running save, of one that was killed, or of one whose file the system refused to
  remove: no other failure leaves it). `DataInv` (what the path
  names, now and on disk, was synced; synced files are complete and left alone;
  a file is not synced before its saver has written it) gives
  `PathIsAlwaysComplete` and `LoadsWhatWasOpened`, for any number of processes.
  `LoadsAreAtomic`, on `LoadRace`, is for any number of foreign rewrites. `CopyInv` says
  that a saver writes only to files nobody else knows (`Private`, `Unshared`), and that a
  rewrite has written the cells it counts. `Reading` is what a loader in the middle of its
  reads can rely on: if the cells it has are those of a checkpoint that the file was not
  since it was opened, then a cell still to be read is another one (`Missing`), or all
  are there but in a longer file, over which that checkpoint is being copied (`Overlaid`).
  The first never completes the checkpoint, and in the second the file does not end
  where it should.
  On top of `FileInv`, `SessionInv`: while the application is down, the
  path has all that was acknowledged and a running load reads what the path names;
  while it is up, its memory has it, and a running save writes all of the memory.
  `NothingSavedIsEverLost` follows for any number of saves, restarts and power losses.
- `CollectionsProofs`. `CollectionsInv` says of a running loop that it has visited a
  first part of what its argument had at the call, also when the argument is the
  object itself and grows meanwhile, that no other object has changed, and that the
  object holds what it would have been given from a copy of that part. From it follow
  `LoopsLeaveArgument` and `LoopsActOnACopy` at every step, for contents of any size;
  `SubListsAreExact` needs only that start and length are clamped before they are added.
- `PureLoopsProofs`. `LevenshteinInv` describes the column in the middle of a
  pass: new cells up to the one being filled, old ones behind it, and the old one on the
  diagonal. That such a cell is the fewest edits (`Edits`, a minimum over pairings)
  needs that a cheapest pairing of two prefixes either pairs their last characters
  or leaves one of them out, and the converse. For the checksum, `ReadInOrder`
  says that the difference of size and position never wraps, and `ChangeInv` that the
  results of the two inputs are equal until the changed byte is read and
  different from then on: products with the odd primes, rotations, exclusive ors and
  additions are one-to-one (`TimesIsOneToOne`, `RotateIsOneToOne`, `XorIsOneToOne`,
  `PlusIsOneToOne`), and so are reading a word and mixing one in. This is for
  words of 8 bits, inputs of any size and contents.
- `SnapshotCodecProofs`. `BudgetsAlwaysHold`: one lemma per method of `Reader`
  says that it keeps the charged text within its budget and, for counts, what it
  returns within the maximum it was given; with them `BudgetInv` (types and
  budgets) is inductive, so `Left` never wraps. `BulkPostingsMatch`: adding the
  postings of one document to exact postings leaves them exact, because a
  document ID that is read is above all retained ones.
  `ChargedTextIsAlwaysRetained` and `NothingIsEverDropped` are for any bytes. `UseInv`
  says at every step that what the reader has counted, of bytes and of text alike
  (`Measures`), is what the documents built so far take (`IndexUse`), and the
  part of a document and of a group that is being read, and the names that have a
  reverse index. Each step adds to the part what it reads: a key, a property, or a
  document is new, so that sums over finite sets grow by its share (`SumType` and the
  lemmas ending in `More`). At the end no part is left. That the bytes an index takes are
  the length of its encoding (`PayloadLength`) is a fact about `encode`: integers are
  `WordBytes` long, pieces that are joined add their lengths, and sorting by lexical order
  (a strict order, `NamesAreOrdered`) keeps each name and key, once; these facts about
  `encode` alone are in `SnapshotFormatProofs`.
  `LoadingGivesBack` is `RoundTrip` at every step, for any saved index that fits in memory.
  `BackInv` says that, while nothing was changed, what is built is
  the first part of the saved index (the documents before the current one; of that one,
  the groups, keys and properties before the current ones, in the order of the file),
  and that the payload not yet read is the encoding of the rest. For every operation
  of `Reader` a lemma ending in `Back` says that it takes off the payload what
  `encode` appended and returns it: `ReadIsWritten` for words of any width,
  `SignedIsRestored` for the sign, `CountBack` for counts. At the end the rest is
  empty, the index is the saved one with its keys in order, and since sorting
  these again changes nothing (`SortedKeysStay`), saving it gives the same bytes.

- `SnapshotLimitsProofs`. `LimitsAreExact` is `LoadsExactlyWithinLimits` at every step,
  in both directions. What is accepted is within the limits: `CountInv` says that the totals of
  keys and properties count what was built and what was announced, and that every
  document, string and byte so far is within its limit. What is within the limits is not
  rejected: `BackInv` says what each step reads next, so that the check can only fail on
  a limit, and the part of the index that has been read is a part of the saved one
  (`RoomFor` and the lemmas ending in `Room` and `Part`), whose bytes, text, keys and
  properties are no more than the whole has. Neither invariant is enough alone: a limit is
  checked before what it counts is read, so that the count announced must be known to be
  that of the saved index.

Only model-checked: `SaveTerminates` (liveness under fairness, out of reach of the
prover).

## Findings

- A key object that stands for its equals in a reverse index may belong to a
  document that was removed. Its owner may change it then, by the contract of
  `docs/manual.md:53`, and the next removal erases the cache entry under the key's new
  ID (`indexer.cpp:126`): another document is no longer found (`shared_keys`). An owner
  who treats key objects as immutable altogether, as `docs/manual.md:58` advises
  on copies of documents, does not meet this.
- A failing allocation in `addKey` leaves a document with an empty group.
- Such a document can be saved but not loaded: `encode` writes its empty group,
  which `decode` rejects and `docs/development.md:211` excludes from the format
  (`half_keyed`).
- `indexer.hpp:250` says results are sorted first by matches; the code sorts by the
  sum of matches and a bonus of up to one (`rank_by_matches`).
  `docs/manual.md:110` has the formula as coded. Distances 0 and 1 give one bonus,
  so `CloserNotBehind` speaks of a farther distance of two or more.

## Plan

Done, in this order, because every other part reads it: the index and its
failures, search, the file protocol, the codec, the distance and the
collections; then the copy constructor, the application on top of the files, key
objects that change, and the checksum. Next:

1. `SnapshotCodec` from the states of `Indexer`, so that the index that is saved is
   one that calls have built.
2. The checksum theorems for words of any width: `Checksum` has 8 bits where the code has 64.

## Not modelled

- The properties of a document beyond what the codec writes and the distance
  search takes: plain map entries that retrieval never reads.
- In the codec, the variant that replays `indexDocument` (a benchmark seam), and
  allocation failures in `encode` and `decode`, whose state is local to the call.
- A move of an index that throws while it copies the implicit group: nothing is
  promised of its source.
- `SearchResult::id`, which nothing in the library reads and the manual calls not
  unique.
- `maxRand`, `timeInMillis`, `split` and `startsWith`: library calls without state.
- Diagnostics, Java bindings, tests, fuzzers, benchmarks, the demo and scripts:
  clients, or text output. The tests were read as statements of what is promised.
