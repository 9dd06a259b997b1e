# Bruinbase: specifications and proofs

Bruinbase is a small database in C++: SQL commands on tables of (key, value)
records, each table kept in a record file `T.tbl` and, if the user asked for
it, a B+tree index `T.idx`. This directory holds TLA+ modules of the whole way
of a command, from the characters of its line to the pages of its files; TLC
configurations that check them on small instances; and proofs that TLAPS checks
for every value of the constants.

## Contents

1. [The system](#the-system)
2. [What is hard about it](#what-is-hard-about-it)
3. [Modules](#modules)
4. [How state and actions correspond to the code](#how-state-and-actions-correspond-to-the-code)
5. [Runs](#runs)
6. [Fairness](#fairness)
7. [Proofs](#proofs)
8. [Where the code and its documents disagree](#where-the-code-and-its-documents-disagree)
9. [What is not modelled](#what-is-not-modelled)
10. [Plan](#plan)

## The system

| component | source | state | operations | what makes it correct |
|---|---|---|---|---|
| PageFile | `PageFile.{h,cc}` | per object `fd`, `epid`; shared by the process `readCache[10]`, `cacheClock` | `open`, `close`, `read`, `write`, `endPid` | a read returns the page last written; the cache never speaks for another file; `epid` is the file's length |
| RecordFile | `RecordFile.{h,cc}` | a PageFile, the end record id `erid` | `open`, `close`, `append`, `read`, `endRid` | an append-only log whose record ids stay valid for ever, across reopens and crashes |
| BTreeNode | `BTreeNode.{h,cc}` | `mymap` (keys with record or page ids), the page's last page id (`nextpage`, `firstpage`) | `insert`, `insertAndSplit`, `locate`, `locateChildPtr`, `initializeRoot`, `read`, `write` | nodes are sorted, fit a page, splits keep what they should |
| BTreeIndex | `BTreeIndex.{h,cc}` | a PageFile, `rootPid`, `treeHeight` (stored in page 0 by `close`) | `open`, `close`, `insert`, `locate`, `readForward` | a sorted set: every inserted entry is found, in order, also from the tree that is on disk |
| SqlEngine | `SqlEngine.{h,cc}` | the files of the running command | `run`, `select`, `load` | a SELECT answers with the loaded records, with the index or without |
| SQL parser | `SqlParser.y`, generated: `SqlParser.tab.{c,h}` | the stacks of states and values, the look-ahead, strings handed out by the scanner | `sqlparse`: shift, reduce, recover; one grammar rule per command | each line is executed as it was written, once, at its end; a line with an error is passed over whole |
| scanner | `SqlParser.l`, generated: `lex.sql.c` | the input buffer, the automaton's last accepting state and place | `sqllex` | the tokens are the longest matches, wherever reads cut them |
| command line | `main.cc` | none | calls `SqlEngine::run` | |

Interactions are calls only. The program has one thread: `SqlEngine::run` calls
`sqlparse`, which asks `sqllex` for one token after the other and calls
`SqlEngine::select` or `load` at the end of each line; they open a RecordFile and a
BTreeIndex by name, and these two own a PageFile each. What the components
share is the static read cache of PageFile, keyed by file descriptor, and
through it the kernel's descriptor table; and the files themselves. BTreeIndex
and RecordFile never call each other; SqlEngine puts the record ids that
`append` returned (or will return: `load` inserts into the index *before* it
appends) into the index. Errors are `int` codes from `Bruinbase.h`.

Neither PageFile, RecordFile nor BTreeIndex has a destructor, and `select`
does not close its reader of the index. An object that goes out of scope
while open leaves its descriptor and cached pages behind (action `Abandon`).

## What is hard about it

Nothing runs concurrently; the difficult interleavings are those of calls with
failures and with the end of the process. `PROJECT.json` lists each at its
line; in short:

* **The cache is keyed by descriptors** which the kernel hands out again, a
  write invalidates a single slot, and a miss claims its slot before the read.
* **Recovered positions.** `epid` is read at `open` and then counted along;
  `erid` is recomputed from the last page; root and height are as old as the
  last `close`.
* **An insert is up to `2 * treeHeight + 3` page writes**, and the program may
  end between any two of them. The pages are then newer than page 0.
* **Return codes.** `rc = seek(pid) < 0` turns -1003 into 1, some callers test
  `rc < 0`, others `rc != 0`, many do not look: an index page that was not read is
  skipped, a page 0 that was not read is a new index.
* **Rare boundaries.** A nonleaf node splits for the first time after more
  than a hundred splits of leaves; a full last page, the overflow of
  `pid * PAGE_SIZE` and of the cache clock, and key 0, which marks the end of
  a node.
* **Uninitialised members.** The `nextpage` of the first leaf, the `firstpage`
  of a split-off nonleaf node, the `IndexCursor` and the `RecordId` of `select`.
* **Two files that must agree.** `load` inserts into the index before it appends
  the record, looks at no code of an open or an insert, and a later load without
  INDEX extends the table alone; `select` trusts any index whose file exists.
* **Tables and buffers of generated code.** Offsets that overlap, default
  reductions in front of errors, strings with no owner while an error is
  recovered from, tokens that the end of the buffer cuts, and a terminal at
  which neither the scanner nor the parser may read one character or token more
  than it needs.

## Modules

| module | models | extends / instances |
|---|---|---|
| `Bruinbase` | the result codes | |
| `PageFile` | PageFile with cache, clock, descriptors, failing system calls | instance of `PageStore` |
| `PageStore` | *abstract*: files are sequences of pages | |
| `LRUList` | *abstract*: the replacement policy | |
| `RecordFile` | RecordFile over a page store of one file | instance of `AppendLog` |
| `AppendLog` | *abstract*: a log of records | |
| `BTreeNode` | what the node operations compute, as operators | |
| `BTreeNodeObject` | one node as a state machine over these operators | extends `BTreeNode` |
| `BTreeIndex` | BTreeIndex, page write by page write | extends `BTreeNode`, instance of `SortedIndex` |
| `SortedIndex` | *abstract*: a sorted set of entries | |
| `SqlEngine` | `load` and `select` over a table and its index | extends `BTreeNode` |
| `SqlRules` | the rules of `SqlParser.l`, as predicates on texts | |
| `SqlTokens` | *abstract*: cutting a text into longest matches | |
| `SqlScanner` | `sqllex`: the tables of flex and the input buffer | extends `SqlRules`, instance of `SqlTokens` |
| `SqlGrammar` | *abstract*: lines of the grammar and what they call | |
| `SqlParser` | `sqlparse`: the tables of bison, the actions, error recovery, strings | extends `SqlGrammar` and implements it |
| `MCPageFile`, `MCRecordFile`, `MCBTreeIndex`, `MCSqlEngine`, `MCSqlParser`, `MCSqlScanner` | instances for TLC | |
| `PageFileProofs`, `RecordFileProofs`, `BTreeNodeProofs`, `BTreeIndexProofs`, `SqlEngineProofs`, `SqlParserProofs`, `SqlScannerProofs` | theorems and proofs | extend the component and `TLAPS` |
| `BTreeNodeLemmas` | least elements, runs along a sequence and the folds they are; lemmas on the operators of `BTreeNode` | extends `BTreeNode` and `TLAPS`; extended by the proofs of nodes, index and engine |

The layers are joined by refinement: `PageFile` implements `PageStore` (checked
in `pagefile_sharing`, proved by `PageFileProofs!Refinement`), so `RecordFile`
and `BTreeIndex` work on the page store alone, a sequence of pages, and not on
descriptors and slots. The one behaviour of `PageFile` that is not a page store
(after a failing read(2) the cache holds a page under a wrong name) is carried
into `RecordFile` as the set `poisoned`. `SqlEngine` works on the log that
`RecordFile` is shown to be, where record n has the n-th id, and on an index of
one leaf, which is all of `BTreeIndex` that the questions about `load` and
`select` turn on; what a failed read does to the cache below both is carried
into it as the set `claimed`. `SqlScanner` hands tokens to `SqlParser`, which hands calls to
`SqlEngine`; each of the three takes whatever the one before may hand on.

## How state and actions correspond to the code

Names are those of the source. An action is a whole call of a function, split
where the program's end in between leaves a different file; a call that fails
has an action of its own, named `..._fails`, with the code it returns. `map` in
`PROJECT.json` names the lines of every definition.

**PageFile.** `disk` and `fdTable` are the kernel's: `LowestFree` is open(2)'s
choice of a descriptor, a write past the end leaves a hole of zeros (`Put`).
`pf_open`, `pf_close`, `pf_write`, and `pf_read_hit` / `pf_read_miss` for the
two paths of `pf_read`. `IsVictim` is the victim scan, `Stale` the invalidation
that stops at the first match, `Tick` the `int` clock with its wrap-around.
`Exclusive` is how SqlEngine uses the layer: a file is open through one object
at a time. `RecordFile::open` and others are preceded by checks of `fd` that
the `_fails` actions cover. When close(2) fails the descriptor is kept.

**RecordFile.** `open` recomputes `erid` from the last page (`EndOf`); `append`
reads the page it adds to unless it starts one (`NeedsRead`), counts, copies
the value cut to its slot (`Stored`), writes, and advances `erid` (`Next_`).
`append_unwritten` is the path on which `pf_write` returns 1: for an object that
is not open, as `load` ignores what `open` returned, and for an open one from the
page `SeekLimit` on. `PagesRead` of a poisoned page is any page of records (the
buffer may have held a page of another file, which need not even be one of
records; no property depends on it).

**BTreeNode.** A page is its entries and its last page id; an entry with key 0
is taken for the end (`Loaded`). `Locate` returns the place from 1, 0 when
there is none. A leaf's split goes through the sibling's own `insert`, last
entry first, as in the code (`LeafSplit`), and that of a nonleaf node hands up
the middle key and drops its page id (`NonLeafSplit`).

**BTreeIndex.** `insert` and `insertHelper` become a machine with the program
counter `pc`: `descend` reads the path from the root into `stack`, which is the
recursion; then one action per page write:

| `pc` | actions | code |
|---|---|---|
| idle | `insert_first` (writes the empty first leaf), `insert` | `insert` 76-94 |
| descend | `descend`, `descend_fails`, `leaf_unread` | `insertHelper` 114-164, 117-127 |
| leaf | `leaf_insert`, or `leaf_split` (writes the sibling) | 121-136 |
| left | `leaf_link` (writes the leaf) | 137-147 |
| up | `nonleaf_insert`, or `nonleaf_split` (writes the node), or `new_root` | 165-182, 95-102 |
| sibling | `nonleaf_sibling` (writes the new nonleaf node) | 172-178 |

`up` is what a call of `insertHelper` hands to its caller. `Crash` ends the
object in any of these states; it is the end of the program for a writer and
the reader that `select` drops. `locate` and `readForward` move the
`IndexCursor`. History variables (`entries`, `crashed`) only say what was
inserted, and whether an insert was cut short.

Memory that nobody set is a value of `UninitPid`, 0 (fresh memory) or `Wild`, a
page id outside every file, or of `UninitHeight` for the `treeHeight` that the
constructor leaves alone. The `nextPid` of `locateHelper` (235), unset when the
node could not be read, leads off the file (-1). The link of page 0 (`InfoPage`)
is such memory too, and nobody follows it. A slot that a failed read leaves
claimed is not modelled here: a page reads as what it is or not at all. Other stale
values, a page of this very file among them, are possible in a build and not
covered; nor is a *writer* that takes its root from such memory, after a load that
ended before it ever closed the index (a reader that does is).

**SqlEngine.** `load` is a step for the opens, one for each index insert
(`load_insert`), each append (`load_append`) and each line that is none
(`load_bad_line`), and `load_end`; `crash` can come between any two. What an
open or an insert answered is kept where the code keeps it, nowhere: `job` only
says whether the objects are open. `erid` is the end record id of the table
object, (0, 0) for one that is not open. `tree` is the leaf that the load's index
object works on and `root` where its `rootPid` comes from: from page 0
(`"saved"`), when every write of the leaf is at once in the index (`chain`), or
from an insert that found no root (`"new"`), when the leaf becomes the index only
with `close`; so page 0 that cannot be read at `open` makes a load build a new
tree over the old one. An insert goes on with what it read of the leaf
(`LeafRead`), an empty node when it could not, and an append with what it read
of the table's last page (`TableRead`).

`select` chooses its way as the code does (`UsesIndex`, `Start` with its
-1 for "no = condition"), then `select_index` or `select_scan` for each tuple:
the conditions in their order with the `done` of the index's loop and the
difference that overflows (`Tested`, `Minus`), up to `select_end` or
`select_fails`. `IndexOnDisk` is what a read of the leaf sees,
key 0 being the end. The cursor is a place in it, 0 behind the last entry, or
`NoWhere` when nobody set it and the memory leads to no leaf: then
`readForward` returns 0 for ever with the record id as it was (`UninitRid`).
`read_leaf` is the read of the leaf in each `readForward`, which looks at no
code: from a leaf that could not be read nothing comes, the cursor moves on and the
record id stays. `Unread` is the page of `open` or `locate` that could not be read,
after which the cursor is one that nobody set.

`claimed` are the pages whose slot of the cache a failed read of this command has
left claimed ("table", "leaf", "info"): the next read may return the buffer's old
content (`OldRow`, `OldLeaf`), or find the slot reused and the page in order, and
a write of the page frees the slot. A command opens its files on descriptors of
its own, so `claimed` starts empty.

An `int` overflow is undefined in C++; both the exact difference and the one cut
to its width can happen. History variables (`orphans`, `spoilt`, `past`, `base`)
say what went wrong, so that a property can say what follows from it and what does
not; `Astray` says the same of a running select.

**SqlParser.** The tables are those of `SqlParser.tab.c`, entry by entry, and
`Shift`, `Rule`, `Goto` read them as `yybackup` and `yyreduce` do. `yylex` is
the call of `sqllex`: any token of `Token`, with a fresh string of `heap` if it
has a text (`strdup`). One action per kind of rule, each with its `free` calls;
`recover` is `yyerrlab` to `yyerrlab1`, `abort` and `accept` the two returns,
`reduce_quit` the third. The report of a syntax error is kept in `told`, that of a
wrong attribute name, which the action of a rule makes, in `misnamed`. For an empty
right-hand side `yyval` is what lies above the top of the value stack (`tab.c`
1420), where `Val` takes the top: no rule reads the value of a symbol that can be
empty. `line` and `call` are the variables of the grammar:
what has been read of a line, and what the end of it called. A value of the
stack is a string, a number, a condition or a list of them, and a token without
a text leaves the old `yylval` in place, as the union of the code does.

**SqlScanner.** The tables are those of `lex.sql.c`; `yy_ec` is written by
ranges. `yy_match` is the loop that follows the automaton to where it stops,
`rule_action` the switch with the copy each rule makes (`Value`), `read_more`,
`last_match` and `end_of_file` the three ends of `yy_get_next_buffer` with what
the switch does after each. Positions are offsets in `yy_ch_buf` instead of
pointers, and the two marks behind the text are two zeros.

## Runs

| run | module | question | result |
|---|---|---|---|
| `pagefile_cache` | MCPageFile | Is what is cached what is on disk, and is the policy LRU? | holds |
| `pagefile_sharing` | MCPageFile | Are two objects on recycled descriptors a page store? | holds |
| `pagefile_read_fault` | MCPageFile | Does a read that reports success return the page? | violated after a failed read(2) |
| `recordfile_log` | MCRecordFile | Is a record file an append-only log? | holds without failing reads of pages |
| `recordfile_faults` | MCRecordFile | Do pages stay packed, the end exact and stored records in place whatever fails, also at the page where `seek` overflows? | holds |
| `node_splits` | BTreeNodeObject | Do nodes sort, split, find and reload correctly? | holds |
| `index_exact` | MCBTreeIndex | Is a tree without splits of inner nodes a sorted set, with crashes anywhere? | holds |
| `index_inner_split` | MCBTreeIndex | What of it survives inner splits, equal keys and unread pages? | the chain of leaves does |
| `index_lost_subtree` | MCBTreeIndex | Are inserted entries found behind an inner split? | violated |
| `engine_commands` | MCSqlEngine | Do table and index agree, does a select answer with what it should, and does every command end, when opens, reads, writes and the program fail? | but for the exceptions that the properties name |
| `parser_commands` | MCSqlParser | Do the tables of bison execute the grammar's lines, and only these, with every error handled and every string freed once? | holds |
| `scanner_tokens` | MCSqlScanner | Do the tables and the buffer of flex cut the input into the longest tokens of the rules? | holds |

The properties of the passing runs:

* `CacheCoherent`, `NoCachedFreeFd`, `OneSlotPerPage`: the three facts that
  together make a cache keyed by descriptors safe. `OneSlotPerPage` is what the
  early stop in `pf_write` relies on; `NoCachedFreeFd` what opening a file on a
  recycled descriptor relies on.
* `CacheIsLRU`: refinement of `LRUList`; `StoreSpec`: refinement of
  `PageStore`.
* `EpidExact`: the remembered length is the file's.
* `Packed`, `EridExact`: recovery of the end of the records, at every boundary
  and behind every failure; from the overflowing page on, ids are given out that
  have no record, and only those. `RidsAreStable`: an action property; a stored
  record stays where it is and what it is whatever fails, unless a read of its page
  failed: then an append may write an old buffer over it. `LogSpec`: refinement of
  `AppendLog`.
* `SplitSorted`, `LeafKeepsEntries`, `NonLeafHandsUpMiddle`: splits against
  bags of what went in. `ChildCovers`, `LocateCounts`: the two searches against
  definitions by sets.
* `LookupsExact`: whatever has been inserted, in whatever order, and however
  far the current split has got, every lookup from the object's root finds
  exactly the least entry from its key on. `SavedRootFinds`: so does every
  lookup from the root and height in page 0, although the pages are newer.
* `IndexSpec`: refinement of `SortedIndex`; an insert of many page writes takes
  effect at one of them, and `readForward` visits the entries in order.
* `ScanLeavesTheLeaves`: a scan gets past the last leaf.
* `ChainSorted`, `ChainKeeps`: what holds of the chain of leaves even where the
  tree above it has lost parts.
* `IndexNamesRecords`: the insert that comes before its append leaves entries
  without a record behind when the program ends or the append fails; every other
  entry names a record with its key, for all loads together. Two more exceptions
  come from the cache slot that a failed read leaves claimed: an entry that an old
  buffer brought into the leaf, and a record over which an append wrote one.
  `IndexComplete`: the index has every record as long as every load was WITH
  INDEX, came to its end, wrote its pages of the index and read those it went on
  from, and brought no key 0; the same exception for overwritten records. Each
  exception is real: without it the run finds a counterexample.
* `AnswerOnce`: a select, on either way, gives no record twice and none that
  does not meet all conditions; through the index it can give one twice when an
  entry has no record or the search has gone astray (a page of the index not read,
  a cursor not set). `MissesExplained`: the exact list of what a
  select leaves out, which is the difference between the two ways.
  `ErrorsExplained`: where an invalid record id comes from.
* `LoadStores`: what a load that returned has stored. `CommandsEnd`: a command
  comes to its end, but for a select whose cursor is off the leaves, or that goes
  on with a leaf it could not read.
* `ImplementsGrammar`: the pushdown automaton of tables, with its recovery,
  executes each line of the grammar once, with the arguments that stand in it,
  and no line that has an error. `ErrorsTold`: a line that is rejected is reported,
  and of a line that is executed only a wrong attribute name. `LinesAnswered`:
  a line is answered without a token behind it. `HeapExact`: no
  string is freed twice or used after it was freed, although values are copied
  and the look-ahead is kept through errors; `OnlyErrorsLose`: strings are lost
  only with a line that is given up. `TypeOK` of the parser also says that the
  stacks stay far below `YYINITDEPTH` (200) however long the input is.
* `ImplementsTokens`: the scanner cuts the text as the rules say.
  `ReadsWhenNeeded`: no read while the token at hand cannot become longer.
  `TypeOK` of the scanner: the automaton stays inside the buffer, and the place
  to back up to, which is static, belongs to the token at hand. `BufferFits`: the
  unsigned count of characters to read never passes below 0. `ScanEnds`: the end of
  the input is reached.

### Bounds

* `pagefile_cache`: one file, one descriptor, pages 0 to 2 of the file, the id
  -1 and page 3, at which `seek` overflows, a cache of two, a clock up to 7.
  Three pages and two slots are the least at which replacement, invalidation of
  a later slot and a page with two slots can differ from the right behaviour;
  a clock of 7 lets every slot be
  claimed, touched and replaced more than once. `NoWrapSpec` keeps the
  behaviours in which the clock does not run over.
* `pagefile_sharing`: two files, two objects and two descriptors, so that each
  object can get the other's descriptor and pages, one page each. The clock
  wraps (`ClockMax = 1`): the page store does not depend on it.
* `recordfile_*`: pages of two records, up to three pages: an empty, a
  half-full and a full last page and two page boundaries. `recordfile_log`
  leaves out failing page reads, which break it (below), and stays below the
  overflowing page. In `recordfile_faults` `SeekLimit = 3` and `MaxPages = 4`: an
  open object fills the three pages and appends at the fourth, which is not
  written, and whose second record fails in its read. Values are two there, one of
  which its slot cuts.
* `node_splits`: a leaf of 3 (even number of entries at the split) and a
  nonleaf of 4 (odd), three keys and two ids, so that equal keys meet.
* `index_exact`: leaves of two, nonleaf nodes of four entries, five keys in
  every order, three opens. The tree reaches height 1 with up to four leaves,
  splits anywhere along the chain, and does not split a nonleaf node. Three
  opens are load, load, select, or load, crash, select.
* `index_inner_split`: leaves of one and nonleaf nodes of two entries, six
  entries of five keys; inner nodes split, and the tree reaches height 2.
* `index_*`: no writer opens an index that a crash left behind (`open`), which
  would lose entries (below); no run lets a page write of an insert fail. Where
  inner nodes split (`index_inner_split`, `index_lost_subtree`), `MaxOpens = 1`:
  an insert that goes to page 0, through a `firstpage` that nobody set,
  overwrites the root and height in it, and no index like that is opened again.
* `engine_commands`: two loads of up to three lines out of three files that have
  a negative key, key 0, a line without a comma and one that is too long; keys come
  twice when a file is loaded again. Every comparator, conditions on key, value and
  neither, up to three at a time; `int`s of three bits, so that differences
  overflow. Two loads are the least at which the index and the table can come apart
  and a later load builds on it. What can fail is each `open`, each read of a page
  of the table or the index, each write of one, and the program during a load; a
  table whose `open` could not read the last page counts as one that is not open.
  Three records are on a page, so that most appends read it. An old buffer of the
  cache has one of two rows at each place, or is a leaf of two entries that no line
  of the files makes, whose link is 0, the leaf itself, or none; it leaves room in
  the leaf for the lines to come. A cursor that nobody set is behind the last entry,
  at the first one, or nowhere. Astray, a select may read one record until `eid` has
  run through all `int`s: `out` is then cut at `MaxAstray`.
* The index is one leaf. Each `readForward` reads it again, so that behind a good read it
  stays in the cache and in the code its next read does not fail; the model
  lets it fail at any call, which stands for the first read of each further leaf of
  a longer chain.
* The memory of a fresh node is 0, or leads off the file: a leaf that could not be
  read has no link onward. Other values would send `locate` on to other pages, or
  into a recursion that does not end.
* `parser_commands`: every sequence of tokens, of any length; a select has at
  most two conditions (`MaxConds`), the second with the comparator of the first or
  with `<`, and a table is not called like an attribute (`MCOffered`). The
  theorems are for any such bound. There are
  as many strings as the longest line needs at a time, three; errors lose some,
  and when all are lost the input goes on with tokens that have no text.
* `scanner_tokens`: every text of up to three pieces of a list that has every
  word, its beginnings and what comes close to it, with a buffer of three
  characters that grows as it must, so that every token is cut at every place,
  from a terminal and from a file. No NUL: the marks cannot be told from it
  otherwise, and the code has paths of its own for it that are left out.
* Violation runs use the smallest instance that shows the behaviour.

The bounds that stand in guards: `MaxOpens` (and the crash before `open`),
`MaxPages`, `ClockMax`, `MayRead`'s bound on a cursor that leads nowhere,
`MaxRows`, `MaxLoads`, the room in the leaf (`load`, `LeafRead`), `MaxAstray`,
and `Bounded`. `CHECK_DEADLOCK` is off in `parser_commands`, where the parser
returns, and in `scanner_tokens`, where the input ends; it is on everywhere
else.

## Fairness

A program may end, and a further command or token may never come: no action of
a caller or of the input is fair. What is fair is the code's own going on.

* `index_exact`: `WF_vars(readForward)`. `select` calls `readForward` in a loop
  (`SqlEngine.cc:116`) as long as it returns 0 and does nothing in between that
  could block, so a `readForward` that can be called is called, unless the
  reader ends (which `select` may also do early, when a condition on the key is
  behind it: `Crash`). `ScanLeavesTheLeaves` says that the cursor gets past the
  last leaf; it would fail if two leaves led to each other. What it finds there
  is the last leaf's link: 0, and the loop ends, or the link that nobody set.
* `engine_commands`: `WF_vars(LoadStep)` and `WF_vars(SelectStep)`. A command
  that runs is the only thread and waits for nothing but files. `load`,
  `select` and `crash` are not fair.
* `parser_commands`: `WF_vars(Step)`, everything but the call of `sqllex`: a
  terminal may never give another token, and a line must be answered all the
  same (`LinesAnswered`).
* `scanner_tokens`: `WF_vars(Next)` for `ScanEnds`, over inputs that end.

## Proofs

TLAPS proves, for all values of the constants that satisfy the modules' named
assumptions (any number of files, objects, descriptors, slots, pages, records
per page, any fan-out, any load files and queries, any old buffers, any strings
and texts, any bound on the number of conditions and on the tokens that come, any
input of the scanner and any sizes of its buffer and of its reads):

| theorem | statement |
|---|---|
| `PageFileProofs!Invariance` | `Spec => []IInv` |
| `TypeCorrect` | `TypeOK` of PageFile, whatever fails |
| `EpidIsExact`, `PageHasOneSlot`, `FreeFdIsNotCached` | the invariants of the `pagefile_*` runs, whatever fails |
| `CacheIsCoherent` | `CacheCoherent`, if read(2) does not fail |
| `Refinement` | `Spec => StoreSpec`, if read(2) does not fail |
| `RecordFileProofs!TypeCorrect`, `PagesArePacked` | whatever fails |
| `EridIsExact` | `EridExact`, whatever fails and for any `SeekLimit` |
| `RidStability` | `RidsAreStable`, whatever fails |
| `ImplementsLog` | `LogSpec`, if neither page reads nor `pf_open` fail and `MaxPages <= SeekLimit` |
| `BTreeNodeProofs!NodesSorted` | a node and its page are sorted and fit the page (the inductive invariant) |
| `LocateIsExact`, `ChildIsExact` | `LocateCounts`, `ChildCovers` of the `node_splits` run |
| `LeafLosesNothing`, `NonLeafLosesMiddle` | `LeafKeepsEntries`, `NonLeafHandsUpMiddle`, as bags of entries |
| `SplitsSorted` | `SplitSorted`, if a nonleaf node holds two entries or more |
| `BTreeIndexProofs!Invariant` | the inductive invariant of the index, as long as no inner node is split |
| `Lookups`, `SavedRoot` | `LookupsExact`, `SavedRootFinds` |
| `InsertsAreFound` | `InsertedFound`, which `index_lost_subtree` shows to fail once an inner node is split |
| `ImplementsSorted` | `IndexSpec`: the pages are a sorted set of entries |
| `ChainIsKept`, `ChainInOrder` | `ChainKeeps`, `ChainSorted` |
| `TypeCorrect` | `TypeOK` of the index |
| `SqlEngineProofs!TypeCorrect` | the types of the table, the leaf and the variables of `load` |
| `EntriesNameRecords`, `IndexIsComplete` | `IndexNamesRecords`, `IndexComplete`, for any `Fault`, any old buffers of the cache |
| `ErrorsAreExplained` | `ErrorsExplained`, for any `Fault` and any memory that nobody set |
| `AnswersAreExact`, `MissesAreExplained` | `AnswerOnce`, `MissesExplained`, for every query, any `Fault` and any memory that nobody set |
| `LoadsStore` | `LoadStores`, for any `Fault` |
| `SqlParserProofs!TypesHold`, `HeapStaysExact` | `TypeOK`, `HeapExact` of the parser, for any `MaxConds` and `Offered` |
| `GrammarImplemented` | `FairSpec => ImplementsGrammar`, for any `MaxConds` and `Offered`: the tables execute the lines of the grammar, and only these |
| `ErrorsAreTold`, `OnlyErrorsLoseStrings` | `ErrorsTold`, `OnlyErrorsLose` |
| `SqlScannerProofs!Invariant` | the inductive invariant of the scanner |
| `TypeCorrect`, `Fits` | `TypeOK`, `BufferFits` of the scanner, for any input without NUL |
| `ReadsAsNeeded` | `ReadsWhenNeeded`: nothing is read that is not needed |
| `ImplementsTokensSpec` | `FairSpec => ImplementsTokens`: the tokens are the longest matches of the rules |

Type invariants that are proved are not run as well, but for those of the parser,
the scanner and the index, which are both.

**PageFile.** None of the invariants is inductive alone. `EpidExact` needs
`Ownership` (nobody else writes to an object's file), which needs the kernel's
choice of a free descriptor; these and the types form `Base`, proved first, one
lemma per action. `NoCachedFreeFd` is what makes `CacheCoherent` survive an
`open` (no slot speaks for the new descriptor yet), `OneSlotPerPage` what makes
it survive a write (the slot that is invalidated is the only one with the
page), and `Ownership` what makes it survive a write through another object.
`IInv` is `Base` with these three. `CacheCoherent` is in it under the condition
`"read" \notin Fault`: the run `pagefile_read_fault` shows that it needs it.
The refinement maps an object to the file behind its descriptor; a step maps to
`StoreBind`, `StoreRead`, `StoreWrite`, `StoreFail` or a stutter, one lemma for
each group, and a hit is a `StoreRead` by `CacheCoherent`.

**RecordFile.** The invariant joins the types and `Packed` with where `erid`
stands in relation to the last page's count, for an open object. `AppendShape`
states once what an append does to the file (it fills a slot of the last page,
or adds a page of one record), and both the invariant and `RidStability` follow
from it. Failing reads do not disturb `Packed` but do disturb the content of
slots, hence the exception in `RidsAreStable`. The refinement maps the pages to
the sequence of the records in them, page by page: the n-th record is the one
with the n-th id, which is where `Packed` is needed, and an append makes that
sequence longer by one. An open whose read of the last page failed would take
`erid` for (0, 0), hence the hypotheses of `ImplementsLog`.

**BTreeNode.** `locate` and the inserts stop at the first entry that is larger
(or not smaller): the least element of a set of places. That there is one is
proved once, in `BTreeNodeLemmas!Least`, without induction over an operator: the
intervals `1 .. k` that end in the set have a smallest one, as the strict subsets
of a finite set are well-founded. What an insert returns is sorted by cases on
the place, and what stays in the node after a split, or is read back from its
page, is the front of a sorted sequence. The sibling is a fold of inserts. A fold
is a *run*, a sequence of states that each follow from the one before and an
element; a formula that holds at the start of a run and goes from each state to
the next holds at its end, again by `Least`, taken of the places where it does
not. Along the run of a split the sibling is sorted, lies above what
stays, and its bag of entries is that of the entries taken so far.
`NodesSorted` is what makes the two searches exact: on an unsorted node the first
larger key says nothing about the others.

**BTreeIndex.** The theorems have the form `Plain` gives
`Spec /\ [][~nonleaf_split]_vars => P`. `Plain` says that no page read or write
fails, no key is 0 and none comes twice; the second conjunct, that no inner node is
ever split. Both are needed: a split inner node loses a subtree (the finding of
`index_lost_subtree`), and the sections on equal keys and key 0 below say what is lost
with them. They leave the fan-outs, the keys and their order, the number of opens,
crashes between any two writes, and memory that nobody set free, and `index_exact`
is an instance of them in which the tree gets its inner node and fills it.

`Inv` is `Types` with `Shape(n, c, x)` for some `n`, `c`, `x`: the leaves are the
pages `c[1] .. c[n]`, linked in this order, with the keys going up along them
(`Linked`, `Ordered`); the root is the leaf, or an inner node that has the leaves as
its children, each behind a key that stands between its neighbours (`Inner`,
`Divides`), except for at most one leaf `x`, the one that a split has written and not
yet handed up. `LookupsExact` alone is not inductive: it says nothing of the
links, nor of the nodes in `stack` and `up`, which are written back later
(`Writing`: they are still what the pages hold, and the new entry goes where the
search went). `SavedRootFinds` needs that the root in page 0, older than the pages,
is the present root or was its leftmost leaf when that was all there was
(`Grows`); a lookup that comes in too far left then finds the rest along the links.
A lookup is a recursive function, but the trees of `Shape` have height 0 or 1, so it
is unfolded once or twice; what follows along the links is the least place on the
chain that has an entry large enough (`Least`). A split cuts a leaf into `Halves`; that the
leaves with the two halves in it are ordered and hold what they held and the new
entry is one lemma about sequences of leaves (`Spreads`, `Gains`), used by
the step that writes the sibling, the one that links it, and the two that put it under
a parent.

The refinement needs two more invariants: `Calls`, the types of what a caller sees, and
`Reads`, that the reader's cursor is a place on the chain. `ContentIs` shows that the
entries a walk along the chain meets (`Visible`) are those of the tree. Each write of an insert
is then a stutter or the one step at which the entry appears: the write of a leaf, or
the link to its new sibling.

**SqlEngine.** `Types` has besides the types what stands under the index's files
and objects: an open table has its end record id behind its last record, a load whose
root is that of page 0 works on the leaf that is saved. `NamesInv` is `Types` with
`IndexNamesRecords`: in state `append` the pending entry names the next record, if
the table is open and the append succeeds; else the entry becomes an orphan, and an
append of an old buffer adds to `spoilt` what it overwrites. `CompleteInv`
joins `IndexComplete` with the reason it survives: without a mishap the index
object is open, the leaf it reads shows all of it (no key 0 in it), and
the entry of each line is there before its record. `CursorInv` adds to `NamesInv`
the types of the cursor and `ErrorsExplained`: as long as the search is not astray
`readForward` returns an entry of the leaf, whose record can be read unless it is an
orphan, by `IndexNamesRecords`.
For `AnswerOnce` the records in `out` are those of the places that the cursor has
passed (`Passed`), in order and each once, as no two entries name the same record
(`Unique`), and each was accepted by the conditions, which is
a run along the conditions; for `MissesExplained` each record that was passed is
in `out`, was refused, or is one of the exceptions, and the loop ends early only
behind the last key that a condition admits, the leaf being sorted (`Ordered`).
`LoadStores` follows the lines that the load has taken: the records of the table are
those of earlier loads and then those of the lines, without the ones that are none;
as long as no append has failed, no slot of the table is claimed.

**Parser.** The tables are constants and the prover looks things up in them: lemmas such
as `ShiftTable`, `GotoTable`, `TopTable` say what holds of every state, symbol or
rule. The invariant `Inv` has three parts. `Path`: each state of the stack lies above one
that it can be reached from, which with a least and a greatest depth for each
state bounds the stack by 12, and which puts under a state that reduces exactly the
right-hand side of its rule (`HandleOnTop`). `Typed`: the value at each place is
one that its symbol has, so a rule finds strings, numbers, conditions where it
takes them. `Exact`: the strings that the places and the look-ahead own are
allocated and different. A reduction keeps it since the new value owns strings of
the right-hand side, each once, and only what it does not own is freed
(`Replaces`); the other direction, that each string of the right-hand side is
owned by the new value or freed, gives `OnlyErrorsLose` (`ReduceLoses`).

**Grammar.** The refinement keeps `line`, `call` and `result` as they are, so what
there is to show is that the line ends, is rejected, calls and quits when the
grammar says so. `Running` says while the parser runs how the stack stands to the
line: `Reads`, each place of the stack has a token of the line at which it ends
(`At`), and its symbol and value say what the tokens up to there say (`Spells`): a
string has the token's text, a list of conditions has those of the line. A
rejected line has its error behind it, on the way through the recovery
(`GivenUp`), and `Reported` relates `yyerrstatus`, `told` and `before`. One lemma
per action shows that it keeps `Running`, steps as the grammar does and reports as
`ErrorsTold` says (`Obeys`). The point where the tables meet the grammar is
`Decide`: in each state of a path that reads the line, the symbols that
are shifted are exactly those with which some line of the grammar goes on, and none
where a reduction comes first; the select lines of every length have their
symbols place by place (`SelectPlaces`), so no induction over the number of
conditions is needed. The invariant was checked by TLC over the
states of `parser_commands` before it was proved.

**SqlScanner.** `yy_next` is a recursive function along `yy_def`, but no chain is
longer than two, so `NextIs` replaces it by `Follow`, which looks at three
entries at most. The link between the tables and the rules is `Says(s, t, n)`:
behind the first n characters of t the automaton may be in s. It is either
behind a part of one of the 33 keywords and signs, whose characters and states
`SqlScannerProofs` lists, or, when the text begins none of them, in a state of a
name, an integer, a string, blanks, a single character, or nothing. `StepSays`
says that each transition keeps this, from the tables, by cases over the lists;
there is no induction over words in it, as a text is looked at by its first n
characters for any n. `Means` says that `yy_accept` is then the first rule that
matches these n characters and that any one character is a token; `StuckIsLast`
that where the loop ends (`yy_base` = 145) no longer text is one, so that the
early stop of flex loses nothing; `OpenIsExtendable` that elsewhere the text may
still become a longer one. A run over the buffer is a recursive function of the
characters (`Run`); what holds along it follows from `UpTo`, the least-element
argument again.

The invariant `ScanInv` has, before `yy_match`, that the run stands behind n
characters of the text at hand (`Scan`) and remembers in `yy.last` its longest
token so far (`Remembers`); after it, that the run has settled on a token
(`Settled`) or met the mark (`AtEnd`). The text is what is left in the buffer
and what is not read, so that a move of the buffer and a read do not change it
(`Assoc`), a rule's action takes the token off it (`RestOf`), and the run over
what was kept stands where the first one stood (`Previous`). `FoundSettled` and
`FoundAtEnd` are what `yy_find_action` finds in both cases, and all four
properties are read off them. `GrownIs` is the arithmetic of the buffer: some
doubling leaves a place to read into, and `num_to_read` is at least 1. That the
input has no NUL is `InputAssumption`. `MCSqlScanner!WordsAreSpelled` compares
the codes of the words in `SqlRules` with their spelling in `SqlParser.l`.

**Only model-checked.**

* Liveness (`ScanLeavesTheLeaves`, `CommandsEnd`, `LinesAnswered`, `ScanEnds`),
  which is out of the prover's reach.
* `CacheIsLRU`: its mapping sorts the slots with a recursive library operator.
* The index behind a split of an inner node, with pages that cannot be read, or with
  equal keys (`ChainSorted` and `ChainKeeps` in `index_inner_split`).
  There a lookup goes down a path of any height, and what it finds would be an
  induction over that height.

## Where the code and its documents disagree

With a run that shows it (details in `PROJECT.json`, "findings"):

* `PageFile.cc:179`: after a failed read(2) the next read of the page returns
  the old buffer with code 0.
* `BTreeNode.cc:330`: the split of a nonleaf node loses the subtree of the
  middle key. `SELECT COUNT(*) FROM xlarge` answers 12249 where
  `project2-test/output.txt:116` has 12278.

Known from the models, without a run of their own:

* `locate` returns 0 and leaves the cursor unset when no key is large enough, or
  when it could not read its way to a leaf (`BTreeIndex.cc:205`): a select then
  depends on memory nobody set. It ends at once with an empty answer, or starts at
  another entry, or reads one record over and over until `eid` has run through all
  `int`s. `readForward` returns 0 for a page it could not read
  (`BTreeIndex.cc:255`), with key and record id as they were and `eid` one further:
  select repeats a record and skips an entry, or, at the first call, reads with a
  record id that nobody set. The exceptions in `AnswerOnce`, `MissesExplained`,
  `ErrorsExplained` and `CommandsEnd` say so (`Astray`).
* `open` of an index whose page 0 cannot be read leaves the root unset
  (`BTreeIndex.cc:36`): a load then builds a new tree and saves it over the old one,
  and all earlier records are gone from the index.
* `append` behind a failed read may write an old buffer of the cache over the stored
  records of the page (`RecordFile.cc:194`, `PageFile.cc:179`), and `insert` over
  the entries of the leaf (`spoilt`, and the entries among `orphans` that came with it).
* Only `close` stores root and height (`BTreeIndex.cc:54`); a load that did not
  end, followed by another, loses entries that had been closed.
* Failed page writes of an insert are not reported (`BTreeIndex.cc:124`, 136,
  164): `load` goes on, and the entry is not in the index.
* `load` inserts before it appends (`SqlEngine.cc:303`): a crash or a failed
  append leaves an entry for a record that was not stored, and the record that
  is stored next takes its place and answers for its key too. When the table
  could not be opened, the first line's entry names the first record of the table
  and all others the second (`SqlEngine.cc:301`), as the first append returns 0
  without a write.
* A select through the index misses what a scan finds: negative keys
  (`SqlEngine.cc:66`), records of a load without INDEX, key 0 and what comes
  behind it, further records with the key of an = condition.
* `key - atoi(value)` overflows (`SqlEngine.cc:126`) when the two are far apart.
* A name that is no attribute is reported and the select runs all the same
  (`SqlParser.y:120`), with a number that is neither 1 nor 2 as the attribute;
  its conditions compare with the difference of an earlier one, or with nothing
  that was set. `SqlEngine.h` says that an attribute is 1 or 2.
* A line that is too long ends a load, a line without a comma is passed over
  and a load file that is not there loads nothing: `load` returns 0 each time.
* An error behind another is not reported for three tokens, which can be a
  whole line (`yyerrstatus`); the strings of a line with an error are lost.
* When `cacheClock` overflows, new stamps are smaller than old ones and the
  page just read is replaced first. Coherence does not depend on it.
* `append` stores nothing and returns 0 and an id at the page where
  `pid * PAGE_SIZE` overflows, and for the first record of an object that never
  opened: `pf_write` returns 1, and `append` looks for `< 0` (`RecordFile.cc:209`).
* A node that holds key 0 reads back without it and all entries behind it.
* Equal keys: a lookup goes to the right of the separator and misses those to
  its left; and two equal separators can end up in the wrong order, after which
  later keys go to the wrong leaf (`ChainSorted` is stated for distinct keys, and
  until a crash).
* The first leaf's `nextpage` is never set (`BTreeIndex.cc:81`) and travels to
  the rightmost leaf. When it is not 0, a scan goes on behind the last leaf at
  a page that cannot be read: `readForward` looks at no code, returns 0, leaves
  key and rid as they were and counts `eid` up, so `select` repeats its last
  entry instead of ending.
* A leaf that cannot be read is overwritten with the new entry alone
  (`BTreeIndex.cc:121`, action `leaf_unread`).
* A `load` that inserts nothing stores the root -1 in page 0 (`TreeSaved`).

## What is not modelled

* `main.cc` calls `SqlEngine::run` and keeps no state. `keyRec.h` and
  `BTbuff.{h,cpp}` are not used by the program.
* Of `SqlParser.tab.c`: the growth of the stacks (`TypeOK` of `SqlParser` says
  that it is never reached), the debugging code, and the messages; of `lex.sql.c`: the
  functions for several buffers, for `yyless`, `input` and strings, which nobody
  calls, and the paths for NUL characters. Neither models memory that runs out.
* `SqlEngine` has one table and an index of one leaf; lookups and scans through
  several leaves are what `BTreeIndex` is about, which in turn leaves out the cache slot
  that a failed read of an index page leaves claimed. What is printed is the sequence of
  records (`out`), not its layout. The parsing of a load line to key and value
  (`parseLoadLine`) is in the lines themselves.
* The read and write counters of PageFile and the timing in `SqlEngine::run`
  are statistics. `printstats` prints.
* A close(2) that fails yet releases the descriptor, as on Linux; a page that
  is written in part; and a kernel that loses writes at a crash of the machine.
  The crashes here are ends of the process.
* Stale memory that happens to hold a page id of the same file.

## Plan

The order follows dependence and importance; all of it is in place.

1. `PageFile` with `PageStore` and `LRUList`; its proofs.
2. `RecordFile` with `AppendLog`; its proofs.
3. `BTreeNode`, `BTreeNodeObject`.
4. `BTreeIndex` with `SortedIndex`; its proofs.
5. `SqlEngine`; its proofs.
6. Proofs about nodes: `BTreeNodeLemmas`, `BTreeNodeProofs`.
7. `SqlParser` with `SqlGrammar` and their proofs (`SqlParserProofs`).
8. `SqlScanner` with `SqlTokens` and `SqlRules` and their proofs
   (`SqlScannerProofs`).

What is left:

* What the chain of leaves keeps behind a split of an inner node, as theorems.
* The variant of `PageFile` in which a failing close(2) releases the descriptor.
* `SqlEngine` over a chain of several leaves, with the link that nobody set.
