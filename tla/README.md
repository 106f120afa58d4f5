# Specifications of cartograph.nvim

TLA+ models of the part of cartograph.nvim that may damage somebody's source
tree: the write path. "Merge clones, move functions, extract modules, previewed
as diffs, applied through a journal, undone byte-exact" is what the project
promises; these modules say what that means, step by step as the code does it,
TLC checks it on small instances and TLAPS proves the core of it for all.
The graph that every plan is computed from is extracted by worker processes while
the user already browses it, and that is modelled too, as is the Go tool beside the
editor, helmprov, from its scanner to its recorder: it claims to say which node of a
Helm template wrote which byte, and from which values.

## 1. The system

Lua paths are below `src/lua/cartograph/`.

| component | state it keeps | operations | hard behaviour | what makes it correct | status |
|---|---|---|---|---|---|
| transaction journal, `journal.lua` | one JSON file per entry (`pending`, `applied`, `aborted`, `rolled_back`; before- and after-texts, hashes) under a directory per project root | begin, commit, abort, list, last, rollback, redo | crash between any two file operations; two hosts on one root; failed opens whose result nobody reads; drift by other programs | before-content is recorded before a byte moves; undo restores exactly; drifted files are refused; entries explain the tree | `UndoHistory`, `Txn` |
| transaction apply, `txn.lua` | none of its own: reads the plan, the store, the tree | verify, stage, apply, execute | files change between plan, preview and apply; failure in the middle of the write loop | refused unless generation and stamps are those planned; all or nothing, or at least recorded | `Txn`, `AgentPlans` |
| agent write verbs, `agent.lua` | plan registry (`M._plans`, at most `PLAN_CAP`), plan counter | `txn_plan_*`, `txn_preview`, `txn_apply`, `txn_undo`, `txn_save`, `txn_load` | a handle used long after the graph moved; registry at its cap; a cockpit user on the same host | what is written is what was previewed; nothing unpreviewed is written | `AgentPlans` (recipes planned) |
| store, `store.lua` | graph, `generation`, move-set, destination, staged transaction, navigation | ingest, stage/unstage/clear, set_txn, resolve_ref | anything that waits pumps the event loop, and a deferred refresh may ingest meanwhile | staged ids never outlive their graph | `AgentPlans` (staging, generation) |
| refresh, `refresh.lua` | relink memo | files, all, hotswap, splice, relink | what a definition means to files that are not read again; must not run while something is staged; ids remapped under navigation and working set | a spliced graph is the extracted one; an honest account of what changed; one generation per graph | `Splice` (how), `GraphCache`, `AgentPlans` (when) |
| cockpit commands, `commands/` | none | Move, Merge, Apply, TxnClear, Undo, Redo | share the store with the agent | as above | `AgentPlans` |
| planners, `moveapply.lua`, `optapply.lua`, `clonemerge.lua`, ... | none (a plan: touched files, stamps, generation, edits) | plan, precheck, consume | offsets from the graph, stamps from the disk | edits fit the bytes they are applied to | what they record, not which lines |
| graph cache, `cache.lua`, `shards.lua`, `stampcache.lua` | a shard per file and a manifest on disk, the save on its timer, the sweep put off | open (warm or not), load, save, background save, collect | the end of a session in any save; shards of one graph under the manifest of another; shards that cannot be written or read | a cached graph, repaired, is the graph an extraction would make | `GraphCache` |
| parallel extraction, `parallel.lua`, `worker.lua` | a priority queue and its cursor, one worker process per lane, the growing graph, the failed slices, a repaint timer | order, slice, pull, merge, demand, repaint, finish | a worker dies at any moment; answers in any order; files change, are saved and are demanded meanwhile; the last callback must know that it is the last | the same graph as a sequential extraction: every file once, from one reading, in the order of the fileset | `Extraction` |
| template scanner, `tpl/parse/lex.go` (Go, below `src/tools/helmprov`) | position, item start, their lines, parentheses, the state function | one state function per kind of item | lines counted where text is read and where it is skipped; trim markers that share their space with the text | every item has its line; only white space is trimmed; scanning ends | `Lexer` |
| template parser, `tpl/parse/parse.go`, `node.go` | three items of look-ahead, variables in scope, depth of ranges and parentheses, the trees by name | one function per production; printing of nodes | decisions after reading ahead; two parsers on one scanner; definitions inside anything | nothing is lost; a tree prints as it parses; scopes and jumps are right | `Parser` |
| template set and engine, `tpl/template.go`, `engine/engine.go` | the map of templates, one copy per running `tpl`, counters of includes | parse, associate, clone, include, template, tpl | Go's map order; failures that unwind or are absorbed at any frame | which file defines a template does not depend on luck; `tpl` leaks nothing | `Engine` |
| template provenance, `tpl/exec.go`, `tpl/prov.go`, `cmd/helmprov` | a recorder: output spans, reads, arms, guards being explored; the executor's variables and writer | render, explore untaken arms, render symbolically | exploration shares the executor with the real render, in the middle of it; everything leaves by panic | spans tile the output; exploration leaves the render alone; one render sees every read | `Render` |
| tactics, suppressions, `tactic.lua`, `suppress.lua` | a sequence of journal entries; comments in files | run, rollback | rollback of several entries stops midway; writes without a journal | | planned |
| extraction providers, analyses, lints, panes | graph facts, buffers | | | | not modelled: pure functions over syntax, and rendering |

How they interact. A planner reads the graph (offsets) and the tree (stamps) and
returns a plan. The cockpit keeps one in `store.txn`, an agent up to `PLAN_CAP`
in its registry. `txn.apply` verifies the plan against the present, consumes
what the planner had staged, computes before- and after-texts, opens a journal
entry holding the before-texts, writes the files, seals the entry with the
after-texts, clears `store.txn` and asks `refresh.files` to read the files
again, which ingests a graph with a new generation unless something is still
staged. Undo and redo go to the journal directly and refresh afterwards. Several
hosts (an editor, one or more agent servers) may do all this on one root; they
share the tree and the journal directory, and nothing else. The graph itself comes
from a (parallel) extraction: its main loop merges what the workers answer, folds it
into the store's indexes on a timer, and ingests and caches the finished graph. A
graph that still grows says `partial`, and refresh, apply and the queries that need
all of it look at that. An editor that opens a tree it has seen before loads the cached
graph, diffs the files' stamps against the manifest's, and splices what changed, as a
refresh does. helmprov shares nothing with the editor: the scanner gives
items to the parser, the parser trees to the set, the engine executes them, and the
executor reports to the recorder.

## 2. Modules

| module | models | extends / instantiates |
|---|---|---|
| `UndoHistory` | the abstract history: apply, undo, redo and outside edits as atomic steps over a tree and a journal | |
| `UndoHistory_proofs` | its theorems | `UndoHistory`, `TLAPS` |
| `Txn` | the write path, file operation by file operation, several hosts, crashes and failures | instantiates `UndoHistory` (refinement) |
| `Txn_proofs` | its theorems, and that it implements `UndoHistory` | `Txn`, `TLAPS` |
| `AgentPlans` | from a plan to a write: registry, staging, generation, refresh | |
| `AgentPlans_proofs` | its theorems, for any registry size and any files | `AgentPlans`, `FiniteSetTheorems`, `WellFoundedInduction`, `TLAPS` |
| `Extraction` | workers, merge, demand, repaint and hand-over of a streaming extraction | |
| `Extraction_proofs` | its theorems, for any number of files and workers | `Extraction`, `FiniteSetTheorems`, `TLAPS` |
| `Splice` | the nodes and identifier edges of a graph: extraction, and the splice of changed files; no variables | |
| `GraphCache` | sessions over one tree and one cache directory | `Splice` |
| `GraphCache_proofs` | what a splice makes of any graph that agrees with its files, and the theorems of the sessions, for any files and faults | `GraphCache`, `FiniteSetTheorems`, `TLAPS` |
| `Lexer` | the scanner of templates, one action per state function | |
| `Lexer_proofs` | its theorems, for every text | `Lexer`, `FiniteSetTheorems`, `TLAPS` |
| `Parser` | the parser of templates and the printer of its trees | |
| `Engine` | the set of templates and the calls that are executed over it | |
| `Engine_proofs` | its theorems, for every chart | `Engine`, `FiniteSetTheorems`, `TLAPS` |
| `Render` | helmprov's executor and recorder, step by step, and its two renders | |
| `RenderOuter` | what a render that explores looks like from outside the arms it explores | `Render`, which it also instantiates with no exploring (refinement) |
| `RenderReads` | a call that explores, then one with other values | `Render` |
| `Render_proofs` | the theorems of both renders, for every chart and limit | `RenderOuter`, `SequenceTheorems`, `FiniteSetTheorems`, `FunctionTheorems`, `TLAPS` |
| `MCUndoHistory`, `MCTxn`, `MCAgentPlans`, `MCExtraction`, `MCGraphCache`, `MCLexer`, `MCParser`, `MCEngine`, `MCRender` | symmetry sets, state constraints, texts and charts for TLC | the module named |

### UndoHistory
`disk` is the tree, `log` the journal (an entry's `status`, the files it
touches, their before- and after-texts; `Absent` is the code's
`before == false`). `Apply`, `Undo`, `Redo` are `txn.execute`,
`journal.rollback`, `journal.redo` with their guards: the newest applied entry,
the lowest rolled-back entry above every applied one, drift on any file refuses
the whole operation. Rollback compares hashes of `now or ''`, so a missing file
is compared as the empty text (`AsText`); redo compares presence too. `edited`
and `origin` are history variables: which files somebody else changed, and the
first tree.

### Txn
Each host has an operation in flight, `op[h]`: a program counter, the entry it
works on and the files still to write. `io.open(path, 'w')` truncates, so
opening a file and filling it are two steps, and so are opening an entry and
writing it. A crash loses the host's memory and leaves the files; which
program points may crash and which calls may fail are constants, so that each
run says what it assumes. `alloc_id` creates the entry file with `O_EXCL`,
taking the first free id from the clock's on: `IsNextId`. `stained` is a
history variable: files an interrupted or failed operation touched.

The refinement mapping reads the history off the files: an operation happens
when its entry's new status is on disk. Until then its files count as they were
(`ViewDisk`), and what a dead or failed operation leaves counts as an edit by
somebody else.

### AgentPlans
Texts are versions, a file's stamp is its version (`sec:nsec:size` in the code:
two writes of the same size within one tick of the clock are told apart here
and not there). A plan carries stamps of the disk and, as `seen`, the versions
its offsets come from. `Commit` is the whole of `txn.apply` on success,
`FailMidway` its failures after the checks. A streaming extraction, unsaved
buffers and durable refs are left out.

### Extraction
A callback of the editor's main loop is one step; a worker reads its slice file by
file, so that a file may change before, between and after. A row `Row(f, t, k, n)`
stands for all that file `f`, read when it held `t`, puts in the graph's lists, with
its rank in the sorted lists and the merge that brought it; a stamp stands for what
is kept by file. `Pull` is `pull`: the next slice of `order` to a lane, between one
file and an even share of what is left (`NextSlice`; the code ends a slice by bytes).
`Answer` and `Fail` are the callback of a worker that ended; the last of them runs
`finish_phase1` in the same step (`IsLast`, `FinishPhase1`). `Demand` is a file the
user descends into, `Hold` and `Repaint` the timer, `Save` and `Refresh` a buffer
written meanwhile and the refresh the save defers. `EarlySaves` says whether that
refresh may run before the first chunk is shown: the code lets it (section 6), the
passing run and the theorems about the rows assume it does not. `had` is a history variable.
Left out: audit, relink and the id pass, which are functions of the rows in their
order; telemetry; files skipped by their name; the columnar and folding options, which
are off by default.

### Splice and GraphCache
A text is the set of its identifiers: definitions and mentions, each on a line. `Extract`
is a cold extraction; `IdEdges` are the edges of its id pass, which depend on how many
definitions of a name there are in the whole graph, and so on files that did not change.
`Splice` is `refresh.splice`, part by part: what it removes, remaps, reconciles
(`Worthy`, `Candidates`), derives anew (`Derived`), and the files it reports (`Dirty`).

`GraphCache` has one session at a time (`open`), which ends (`Quit`) or dies inside a
shard (`DieWriting`) at any moment; the save on its timer is shard by shard
(`SaveShard`), the manifest last. A save in the middle of an open blocks everything else
(`Free`). A stamp is kept as how it compares with the file now: `none`, `old`, `now`; so
two contents of one file always have two stamps, which is what mtime and size are for.
The manifest knows shards by their length; here it knows the shard, so that what is left
of a newer save never passes for the older one (section 6). `missed` is a history
variable. Left out: calls and what relink makes of them, several languages, scopes and
lexical binding, the streamed load, the index-only cache, staged work, two sessions at
once.

### Lexer
Each state function of `lex.go` is an action; `NextItem` is the parser asking. A
symbol is a class of characters, a delimiter or a word, and positions count symbols.
`next` and `backup` count newlines in and out, so a run scanned with them is counted
as a whole; what the code skips by adding to `pos` is counted where the code counts
it. Every error of the scanner is an item, as in the code.

### Parser
The parser is recursive and so is the model: an operator per production passes the
state of the parse (`Start`) on, with the look-ahead buffer as the code has it
(`Backup2`, `Backup3`). A step of `Next` parses one node of the text's top level. An
error is a field that ends every loop. `PrintNode` and the operators around it are
the `writeTo` methods. Declares RECURSIVE operators and is only model-checked.

### Engine
`ParseFile` and `AddParseTree` are `Template.Parse`: the trees of a file are added one
by one in any order, as Go iterates over a map. What a tree does when executed is
left open: a frame may call (`Include`, `CallTemplate`, `Tpl`), return or fail at any
step, a failure unwinds the frames (`Unwind`), and a node that is explored absorbs it
(`Absorb`). A failure is an error the engine raises: a Go runtime error of the
engine passes `errRecover`, skips the decrement of the count of includes, and may then be
absorbed by exploring (`prov.go:195`); it is left out, and `IncludesCounted` does not
speak of it. `sets` has the engine's set and one copy for each running `tpl`.

### Render
The executor is Go recursion over trees; here it is a machine with a stack. A frame is a
list of nodes that `walk` is in: its `kind` says for what it is walked (the file, an if,
an iteration of a range, its else, a template, an include, an untaken arm), and `caller`
is the state at its node, of which the code keeps in locals and deferred calls what it
restores. `s` is the state of the execution: output, variables, depth, the counters of
`includeFun`, the values themselves, and the recorder. A step walks a node or leaves a
frame. A panic is the field `panic`: each frame takes it (`EndArm` any, `EndIteration` a
continue, `EndRange` a break, `Hole` an error in a symbolic render) or lets it pass and
restores what its deferred calls restore (`Unwind`). What `main` does is `RenderFirst`,
`RenderAgain` with exploring, `EndRender`, `Exit`.

Text is a sequence of pieces, "<no value>" two of them; a value is absent, one of two
present ones (also the length of what a range runs over) or, in a symbolic render, unknown.
Left out: evaluation of expressions (an action reads one path or `$x`), dot, `tpl`, the dots
and values attached to spans, several files.

`RenderOuter` maps a render that explores to one that does not (`Render` with
`MaxGuards <- 0`): inside an untaken arm it is seen as it was when the outermost arm was
entered, and of the recorder only what is not an arm's is seen. A helper
function that changes the values (`set`) is not undone by the code; `SetsValues` is the one
step a render that does not explore does not have. `RenderReads` follows a
call that explored by one with any other values on the same chart (`CallAgain`).

## 3. Runs

| run | question | bounds and why they are enough |
|---|---|---|
| `undo_history` | do the applied entries explain the tree, and does undo walk it back? | 2 files, 2 texts (one empty), 3 entries, edits bounded by a constraint: an entry with one above and one below, each touching the same or another file |
| `txn_crash` | does the write path keep the promises of `UndoHistory`, whatever crashes or fails? | 1 host, 2 files (one written, one not), 2 entries (one under another); every program point but `mark` may crash, opening a file or an entry may fail; files that a dead or failed operation leaves stand for drift |
| `txn_hosts` | what do two hosts still guarantee, and what is written over between a look at the files and the write? | 2 hosts, 1 file that is not there yet, 2 entries, edits at any moment, crashes around truncated files and before sealing, deletes that fail |
| `agent_plans` | does what is applied match what was reviewed? | 2 files, 1 symbol, cap 1, 2 plans, 2 writes per file, 2 generations: a plan can be evicted, outlived by its graph, and overtaken by a write |
| `extraction` | is the streamed graph the one a sequential extraction would give, and does it come? | 3 files, 2 workers, slices of one or two, two orders of attention, one change of a file to a text, a bundle or nothing, one held repaint: a lane gets a second slice, answers cross, either worker or both fail, and a file changes between two readings of it |
| `graph_cache` | is a loaded, repaired or spliced graph the one an extraction would make, whatever became of the saves before? | 3 files: one defines a variable, on one line or the next, or has another variable that uses it, one has a function that uses it, one is absent or defines it too; 3 changes of files, refreshes of up to 2 files, warm opens with at most one changed file; any shard may be torn, one may fail to open: a name becomes unique, ambiguous and nobody's, and a save is superseded, dies or is half done |
| `lexer` | are lines right, is only white space lost, does scanning end? | every text of up to 4 symbols outside actions, contents of up to 2 (strings, numbers, parentheses: 3) symbols in them, closed or not |
| `parser` | is anything lost or accepted that should not be? | texts of up to 3 of twenty-one pieces (declarations, an assignment, every control word), of 5 of the control pieces, and pipelines of up to 3 items behind every kind of start |
| `engine` | which definition counts, who sees it, are includes counted? | 3 files at two depths that define the same two templates, empty or not, 3 strings for `tpl`, 4 frames |
| `render` | is exploring invisible outside of the arms explored, whose is every byte, and does exploring see every read that other values cause? | a file with an if or range in another, in its body or its else, in front of other nodes, any arms of one node, break and continue at both depths, all three kinds of call to a helper that fails, explores or includes itself, templates that are not there, text that spells "<no value>" across nodes, calls of `set`: some 530 charts; two paths with three values each, so that every arm is taken and not taken; templates to depth 3, includes 3 deep, both limits reached; arms are explored 3 deep at most, so that no read is missed for the limit of 4 (the theorems are for any limit) |
| `torn_entry`, `extraction_save` | two places where the code and a comment disagree (section 6) | the least that shows it |

The `Txn` and `UndoHistory` runs say `CHECK_DEADLOCK FALSE`: ids are bounded by `MaxId` and
a quiet host with no ids, nothing to undo and nothing to redo has no step left; the `Parser`
and `Engine` runs too, as a text that is parsed and a chart that is rendered are the end;
and `graph_cache`, whose changes are bounded. Bounds are constants named in the modules
(`MaxId`, `MaxSeq`, `MaxVersion`, `MaxGen`, `Initial`, `Editable`, `Orders`, `MaxChanges`,
`MaxHolds`, `MaxFrames`, `Versions`, `MaxEdits`, `Batch`). Type invariants that are theorems
are not run as well, but for that of `Render`, which says more. Symmetry over files (and
hosts) is used only in runs whose initial values and editable sets do not tell them apart;
`txn_crash` uses it with a PROPERTY that is safety.

What the passing runs show:

* `Explained`, `Chained`, `UndoNeverStuck`, `AllUndoneIsOrigin`: the journal is
  a history of the tree although redo does not follow the order of undos.
* `EvidenceFirst`: from the first byte an apply moves until it seals its entry,
  the entry's file holds every before-text and nobody else's record.
* `Recoverable`: whatever is applied, undone, redone, refused or interrupted
  (except in the window of section 6.1), the first text of each file is in the
  oldest entry that names it. It is run for two hosts and one file; the theorem has it for
  any number of both, with every crash and failure of `txn_crash` besides.
* `OverwritesOnRecord`: whoever comes between a host's look at the files and its writes,
  a text it writes over is in an entry, or in the hands of an apply under way. What may be
  lost is a text put since the look into a file that other programs change or that an
  operation died or failed on (section 6).
* `ImplementsHistory`: all of the above survives the decomposition.
* `AppliedAsReviewed`: preview does not look at stamps and apply does not look
  at the preview, yet the stamp CAS makes the two agree.
* `StagedIdsAlive`, `GenerationNamesTheGraph`: the generation is a sound name
  for a graph, and the freeze keeps staged ids from outliving it.
* `ExplorationInvisible`: whatever untaken arms do - assign, break, fail, call
  templates that call themselves - the bytes, spans, variables, depth, counters, taken reads
  and taken arms are at every step those of a render that does not look at them; only the
  values may be changed, by `set`.
* `SpansTile`, `FinishKeepsBytes`: every byte of a file has one node, before and
  after the removal of "<no value>", wherever the text spells it.
* `TypeOK` (Render): a render leaves no counter, guard or buffer behind, whatever
  panicked in it, and no jump leaves its template.
* `SeesEveryRead`: one exploring (or symbolic) call reports each read that any values
  would cause, if nothing failed in it, and in charts without jumps and `set`.
* `OneExtraction`, `SameAsSequential`: whichever worker dies, whatever is demanded,
  saved or changed meanwhile, the graph handed over has every file once, with the stamp
  of the reading its rows are from, in the order of the fileset.
* `UnparsedListed`: the list of unparsed files, which is merged beside the rows, has every
  file whose rows are a bundle's, agrees with the rows of a refreshed file, and has no
  file that never was a bundle; what it may have besides is in section 6.
* `Accounted`, `Finishes`: no position of the queue is lost or worked on twice, no lane
  idles while there is work, the last callback knows that it is the last.
* `ShownMatches`: the indexes, fed by deltas on a timer and by demands past it, are
  those of a full ingest as of their baseline, and a delta they lack has its repaint.
* `IndexFresh`: once the session has read every file as it is, its definitions and its
  mention index are those of the files, however it came by them.
* `NothingStale`, `Converges`: nor has it an edge that an extraction would not make, and
  it lacks only those to names in `missed` and those of files without functions: what
  the count of definitions per name gets wrong, and nothing else.
* `HonestAccount`: what an open does not save again is on disk as it should be.
* `LinesAreRight`, `InOrder`, `TrimsOnlySpace`, `Terminates` (Lexer): every item and
  error has the line it starts on, and nothing but white space at a marker is lost.
* `RoundTrip`, `NothingLost`, `VarsScoped`, `JumpsInRange`, `DefinitionsKept` (Parser):
  look-ahead, nested parsers and definitions neither lose, swap nor invent anything.
* `HighestWins`, `SeesEnclosing`, `Isolated`, `IncludesCounted` (Engine): the set of
  templates does not depend on map order, `tpl` sees its callers and changes nothing of
  theirs, and only real recursion meets the include limit.

## 4. Fairness and liveness

The write path claims none: every operation is started by a person or an agent and
runs to its end in one callback, and nothing retries.

`Lexer.Terminates` assumes that the scanner, a loop, goes on. `Extraction.Finishes`
assumes weak fairness of `StartLane` - the loop that starts the lanes is one piece of
straight code - and, lane by lane, of `Work`: a worker is an operating-system process
that reads on, answers or dies, and its exit callback is run. The code has no timeout
for a worker that hangs, so that one does not is an assumption, not something the code
sees to. Nothing is assumed of timers, users or other programs.

## 5. Proofs

Every theorem is about `Spec` of its module for every value of the constants that meets
the module's assumptions: the empty text is a text, absence is not, `MaxId` is a natural
number (`UndoHistory`, `Txn`); `PLAN_CAP` and the number of generations are positive
(`AgentPlans`); a project has finitely many files and a file finitely many identifiers,
with one definition to a line (`Splice`); nodes have the fields their kind has, and a
break or continue stands in a range, which the parser sees to (`Render`). A theorem that
needs more of the environment names it as a hypothesis.

`UndoHistory_proofs`: `Explained` alone is not inductive: undo replaces the
texts of an entry by its `before`, so one must know that `before` is what the
next older entry wrote (`Chained`); and `Chained` is preserved by redo only
because redo picks an entry above every applied one and its drift check makes
the tree equal to its `before`. `AfterIsText` (no entry records a deletion) is
what lets the comparison of an absent file as '' be used. The inductive
invariant is `IInv == TypeOK /\ Explained /\ Chained /\ AfterIsText`. Undo
peels the top (`UndoPreserves`), apply and redo both push an entry on top
(`PushPreserves`). `UndoNeverStuck` and `AllUndoneIsOrigin` are consequences.

`Txn_proofs`: `EvidenceFirst` is a claim about the entry file of a host that
applies, and what could break it is another host. So the inductive invariant
`IInv == TypeOK /\ Owned /\ Alone` says whose file is whose. `Owned`: from its
reservation on, the entry an apply works on is `torn` or `pending`, and from its
header on it holds exactly the before-texts the host computed. `Alone`: of two
operations on one entry file neither is an apply. It is preserved because a
reservation takes a file nobody has (`O_EXCL`, `IsNextId`), and undo and redo
start only on entries that are `applied` or `rolled_back`, which an owned one is
not. `HostStep` is the common part: a step of one host that spares the files the
others own and keeps apart from them takes nothing from anybody. `EvidenceFirst` holds
for any number of hosts, any crash points, any failing calls and any clock.

`Recoverable` is about files and entries that several operations put out of step, so `RInv`
follows the evidence. `Held`: what an entry says its files held outlives every rewrite of
its file, because an operation that writes has the entry in memory too. `Packed` and
`Newest`: from the clock on ids are taken in order, and where one may be given back it is
the last, so a later change never gets an id below an earlier one. `Witnessed`: a text an
apply is about to record is the first one its file had, or a first one is on record already.
`Traced`: whatever changed or was ever named has its first text in the first entry that
names it. Each step is shown to lose nothing of any entry (`Steady`) or to add one. The
hypotheses are the two ways the code has to lose evidence:

- `"mark" \notin CrashPoints`: no host dies while it rewrites an entry in place (the run
  `torn_entry` is the counterexample);
- `OneWriter`: one process takes ids, or writing a new entry never fails. With two hosts
  and such a failure TLC finds the order of entries broken: A reserves 1, B reserves 2,
  A cannot write its entry and gives 1 back, B applies under 2; the next apply of the
  file gets 1, and the first entry that names the file holds a later text.

`OverwritesOnRecord` cannot rest on what the host saw, since the code reads first and
writes later and anybody may come in between. So `WInv == Copied /\ Viewed /\ Known` says
where texts come from. `Known`: a file that only operations changed holds a text of an
entry, of an apply under way, or the first one. `Viewed`: the text a host did look at is
in its entry (for undo, as after-text). `Copied`: the after-texts a host has of an entry
are those of its file. Every step keeps the record (`Follows`): no entry loses a text, and
an apply's texts pass into its entry at the seal, but for those of files it failed or died
on. What a write puts down is on record before (`FillsFromRecord`), so `Known` stays. It
holds for any hosts and edits, under the two hypotheses of `Recoverable`.

`WritesImplementHistory` is the refinement `Spec => ImplementsHistory`: what one user sees
of reservations, file writes, failures and crashes is a behaviour of `UndoHistory`. The tree
seen (`ViewDisk`) shows a file as before while an operation is at it, the journal seen
(`ViewLog`) only entries that are applied or rolled back. `VInv` says what an operation in
flight has done by its program point (`Fits`) and that the step of `UndoHistory` it stands
for is still allowed (`Due`). Every step up to the seal changes nothing seen; the seal is
the step of `UndoHistory`; an operation that stops half way is an `Edit` of the files it got
to. The hypothesis is `OneUser`: one host, nobody else writing, a file that is to go can be
deleted, no death in the rewrite of an entry. TLC finds the refinement violated as soon as
any of the four is dropped. The prover treats a theorem of another module as opaque under
`INSTANCE`, so the last, purely logical step - what `UndoHistory_proofs` shows of every
behaviour of `History!Spec` it shows of the view - is left to the reader.

`AgentPlans_proofs`: nothing in the code compares a plan's stamps with its
preview, so `AppliedAsReviewed` needs what both have to do with the tree. `Sound`
says of every plan that its stamps are not newer than its preview, that the
preview is not newer than the tree, and that its generation is not ahead of the
store's. Then a plan whose stamps still match was shown the tree as it is
(`ShownIsBase`): versions only grow, and the stamp is below the preview which is
below the stamp. `StillSound` carries `Sound` through every step that only adds
versions and gives a changed graph a new generation; that is all the world may
do (`WorldKeeps`). The invariant is `IInv == TypeOK /\ StagedIdsAlive /\ AllSound
/\ AppliedAsReviewed`. `EvictionInOrder` needs `Registry` besides: plan ids, held
or dropped, never pass the counter; `KeepsTheNewest` is about the set `stash_plan`
drops, of any set of ids. `EvictionInOrder` is only
proved, for any cap; no run checks it.

`Extraction_proofs`: two invariants. `WorkInv == TypeOK /\ Slices /\ Counted /\
IsFiniteSet(acc.rows)` is about workers, queue and lanes, and holds whenever refreshes
run. `Slices`: what a lane has is a piece of what left the queue; `Counted`: the code's
counter is the number of busy lanes. With it `Accounted` is inductive: what a lane is
given lies beyond what any lane has (`HeldBelow`, `LaneTakes`), and `done` and the lanes'
positions add up to the cursor (`Reslice`). `ShownMatches` needs `Turned`: a merge numbers
its rows past all turns before, so the turn of the last ingest splits the rows into those
the indexes hold and those they lack (`StepShows`), and every step that adds rows without
ingesting them leaves a repaint due (`AfterMerge`). Nothing is assumed of these.

`IInv == WorkInv /\ Kept /\ RowsKept /\ OneExtraction /\ UnparsedListed` is about the rows:
they are added by answers, demands, the failed slices and refreshes, and each path must
neither drop a file nor add it twice. `Kept` is the bookkeeping that makes the result
complete: every position before the cursor is with a lane, or its file is among the failed
or the arrived, or was not there at some moment; when the queue is drained and the last lane
ends, only the last three are left. That it is the last (`OnlyLane`) follows from `Counted`.
`RowsKept` says that before the hand-over all rows belong to arrived files, which is what
lets `merge_chunk` skip by arrival (`MergeGood`), and `SortedRows` what the canonical order
makes of them. `AlwaysOneExtraction`, `AlwaysUnparsedListed` and `AlwaysSameAsSequential`
assume `EarlySaves = FALSE`: with early refreshes they are false (section 6).

`GraphCache_proofs`: that the graph is that of the files. A splice is right only for a graph
that agreed with its files before, so agreement is stated file by file, of graphs that may
be older than some of their files (`Consistent`): the definitions and mentions of a file
read as it is are those of its text (`Indexed`), its edges are ones the id pass makes
(`Sound`) and go to nodes that are there (`Closed`), and they are all the id pass makes
(`Whole`) but for the ones section 6 says the code misses (`Excused`). `SpliceConsistent`
says that `M.splice` takes such a graph, with the files that changed read again, to one that
agrees with all of them. It turns on the count: a name that is not worthy has one definition
after the splice exactly if it had one before (`Unworthy`), and a file that is not a
candidate mentions no other names, so its edges only follow the definitions that were read
again.

A warm open makes the graph of what is on disk, so agreement is invariant only of three
graphs together (`Agrees`): the one in memory, the one that loading all shards of the
manifest would make, and the one the save in flight is about to put there. What a load
makes of the second, without the shards that are deleted, changed or unreadable, can be
spliced (`LoadedSpliceable`): its edges dangle only into files that are read again.
`IndexFresh`, `NothingStale` and `Converges` are consequences, for any files, texts,
edits, ends of sessions, torn and failing shards and bounds.

That the account is honest is a claim about shards of a manifest an
earlier session wrote. `Inv == TypeOK /\ OwnParts /\ (~open => saving = NotSaving) /\
HonestAccount`. `OwnParts` says that a shard, on disk or in a manifest, holds only nodes of
its file and edges from it; so loading shards and cutting them again gives the shards that
were loaded (`LoadInvertsShard`), and a splice leaves the part of every file alone that it
neither reads, nor deletes, nor reports (`SpliceSpares`).

`Lexer_proofs`: `IInv == TypeOK /\ Here /\ Counted /\ Behind /\ LinesAreRight /\
InOrder`. `Here` says what each state function expects of the symbol it starts at,
`Counted` that `line` and `startLine` count the newlines before `pos` and `start`,
`Behind` that the items given end where the next begins. The lemmas are about counting:
a run (`RunEndIs`) and the newlines of adjacent stretches (`NewlinesAdd`). One lemma per
state function; the scanner of numbers is the long one. `TrimsOnlySpace` is about the
moments between items and needs `TInv`: in every state all that lies before `start` is
in an item or is white space beside a trim marker, the marker or a comment's delimiter.
Four states skip, and each has its lemma (`TextAccounts`, `LeftDelimAccounts`,
`CommentAccounts`, `RightDelimAccounts`); what they skip is a run of white space that ends
or begins at a marker (`RunDropped`), or a comment between its delimiters.

`Engine_proofs`: `HighestWins` speaks of a set that is complete, so the invariant has
`HighestSoFar`, the same of the files parsed so far and of the names already added of
the one in hand; `Ordered` says that the deepest files come first. `SeesEnclosing` and
`IncludesCounted` are inductive with `Shape` (how many sets there are for the frames);
`CountPush` and `CountPop` do the cardinalities.

`Render_proofs`: the stack carries the proof. `IInv` is `Renders`, about renders that
ended, and, while one is under way, `Good` and `Where`. `Good` has four parts. `Chain`:
each frame stands where the one above it came from (`Stands`), and the state its list
runs in differs from its caller's only in what its kind may change (`Runs`: an include
has one counter up by one, an arm does not count and has a guard, an iteration has the
caller's variables below its own); so popping any frame, by its end or by a panic, gives
a state the frame below expects. `Inside`: what is above an arm or an include does not
count output, and there are guards exactly inside arms. `Tiling`: the spans tile the
output that counts - the execution's, or the one the outermost arm or include has set
aside. `Unnoted`: an arm under way has added nothing to what the recorder holds of the
outside. `Where` says that a panic is at a node, and a jump only in a list of a range;
so that no jump reaches a template's frame. Each action has a lemma (`WalkIfGood`, ...,
`UnwindGood`). `TypeCorrect` and `Tiles` follow. TLC checked `IInv` before it was
proved.

`FinishKeeps` needs nothing of the render but that the spans lie in the text. Elements
are picked by rank (`RankType`, `RankMonotonic`); what `Shift` takes off an offset is
the number of bytes that are cut before it (`ShiftCounts`), as no two cuts overlap, so
that a span's bytes that are kept are the picked text between its shifted ends
(`ShiftKeepsBytes`).

`Invisible` is the refinement: `Spec => Plain!Init /\ ExplorationInvisible`, where the
initial states are mapped to initial states (`PlainInit`). Outside of arms the mapping
forgets reads, arms and notes of arms only, so each operator of the model commutes with
it (`PlainlyEmit`, `PlainlyRecordRead`, `PlainlyAction`, ...) and each action is the
same action of the render that does not explore (`PlainWalkIf`, ..., `PlainEndRender`);
entering an arm is there the end of its if or range. Inside of arms nothing is seen to
move (`PlainInside`): the frames below the outermost arm stay, and so does what its
caller has. Its end gives its caller back but for the values and what arms noted, which
by `Unnoted` is nothing that is seen.

Only model-checked: the properties of `Parser`, whose operators are recursive over trees of
any depth (what they compute for every input is an induction over data, which the prover
cannot do); `SeesEveryRead`, which compares a call with another on the same chart, so that
its invariant would have to hold what an exploration of each list of the chart reports,
again a recursion over the tree; and the liveness properties `Terminates` and `Finishes`.
Every other invariant and action property of a passing run has its theorem.

## 6. Where the code and its words disagree

1. `torn_entry`: `write_entry` truncates the entry's own file before writing
   it. A host that dies in between while committing, undoing or redoing leaves an
   undecodable entry, which `M.list` skips: the files are written and their
   before-texts are gone.
2. `extraction_save`: `begin_stream` points the store at a growing graph that does not
   say `partial` until its first chunk is shown. A file saved in that window is
   refreshed into it, without being marked as arrived, and its queued copy is merged as
   well: the doubled graph is ingested and saved to the cache. `parallel.lua:9` says
   "Semantics are IDENTICAL to sequential extraction, by construction".

Also seen, without a run of their own.

In the write path. Rollback checks all files and then writes all files. "Files that drifted
since are refused, loudly, not clobbered" (`journal.lua:13`) is so of what drifted before
the check: what comes after it is written over. If another host wrote it, it is on record
(`OverwritesOnRecord`); if another program did, it is gone. The model looks at all
files of an undo or redo in one step, and takes `txn.lua`'s comparison of stamps (671) and
the reading after it (478) for one; in `AgentPlans` the write (761) belongs to that step
too, and what may come in between is left to `Txn`. An entry that cannot be written gives
its id back, and with two hosts a later change may take it: it then counts as older than a
change it follows, and the first entry that names a file does not hold its first text. An
apply that cannot open its second file has written the first, and `txn_apply` answers
"nothing was written" (`agent.lua:3397`). A preview compares generations and not stamps, and
may diff the new text at the old offsets (`agent.lua:1898` says it is there to prevent
that); apply refuses such a plan if the file changed after planning. Redo takes the lowest
rolled-back entry above every applied one, which after apply, undo, apply, undo is not "the
most recently undone" (`journal.lua:286`). An agent's apply clears the transaction staged in
the cockpit. A move-set is consumed before a write that may fail. A second move-set plan
with the same symbols and another destination leaves the first applicable.

In the extraction. The hand-over ingests whatever is staged: moves staged while the graph
streams are dropped, though `init.lua:68` says "never discard staged intent silently" of
opening a graph. Opening another graph while one streams leaves the first one's callbacks
running. A file demanded before the first repaint is not extracted at once. A file that is
missing when it is demanded counts as arrived, and the copy a worker has of it is skipped.
The repaint timer sets itself again for ever if a repaint was due when phase 1 ended. The
list of unparsed files is not guarded by arrival (`parallel.lua:325`): the copy of a
demanded file that changed into a bundle before its worker read it is skipped, but its file
is listed with the rows of a text that was parsed, until it is refreshed. So the "two halves
of one fact" of the comment above it (`parallel.lua:318`) may still disagree, in this
direction only; `UnparsedListed` says which it is. Beans, a map without files, are overlaid
unguarded in the same way (`parallel.lua:253`, whose comment accepts it for classes named
twice) and are not in the model, nor is an in-process extraction of the failed slices that
throws (`parallel.lua:750`). A failed assertion in `spawn` within a callback leaves a lane
counted that does not run, and the extraction never ends; so does a worker that hangs. Not
every list is put in the canonical order (`ruby_anc`, as a comment admits). What
`finish_phase1` does after `phase2` comes after the graph was ingested and cached.

In the cache and the refresh. A name whose only definition moves from one file to another
within one splice - a move that was applied is refreshed as one batch (`txn.lua:774`) - has
one definition before and one after, so it is not worth another look (`judge`,
`refresh.lua:275`), and files that only mention it lose their edges to it until they are
read again, though `refresh.lua:258` says that "a new global's inbound uses must APPEAR in
unchanged files". A file that mentions a worthy name and has no functions loses the edges of
its module (`refresh.lua:320`) and is then left out of the pass that makes them anew
(`refresh.lua:430`). The sweep of one save may run inside the next one, with the manifest of
the one before: it deletes the shard of a new file, whose definitions the next open does not
count as removed if that file has changed once more. The length of a shard is all that tells
a newer one from the one the manifest means; of equal length it is loaded and not repaired.
A background save leaves out a shard it cannot open and writes its manifest all the same
(`cache.lua:2966`). Candidates are read from the disk: a file that was edited and not yet
refreshed is indexed by its new text against its old nodes, until it is.

In helmprov. A break or continue in the arm that is taken leaves an if before its
other arm is explored, though `prov.go:8` says "every arm"; in charts with jumps
`SeesEveryRead` fails. The arms are printed from the render that explores, and an
untaken arm that calls `set` changes the values later conditions see: `Arm.Taken` is
then not what "the values took" (`prov.go:51`). A `tpl` that calls itself is counted by
nothing: `maxExecDepth` starts from zero in each.

## 7. Plan

1. Done: the journal and its history, the write path, plans and staging.
2. Done: parallel extraction, with failures, demands and concurrent saves.
3. Done: helmprov's scanner, parser, set of templates, engine and recorder. Left:
   evaluation and its functions, the dots and values attached to spans, origins of
   values, several files over one values map.
4. Done: the graph cache and the splice of identifier edges. Left: calls and relink with
   its memo and early cutoff, the streamed load, the index-only cache, sessions that
   share a cache directory.
5. Refresh: carried navigation and working set, with waits that let a deferred refresh in
   (the reentrancy contract of `store.lua`).
6. Recipes (`txn_save`, `txn_load`) and `tactic.rollback` over `UndoHistory`.
7. Proofs: done for every invariant of the modules without recursion but `SeesEveryRead`, and
   for the refinements of `UndoHistory` and of the render that does not explore. Left: the
   parser, as a machine with a stack like the executor.

### Not modelled
The expression evaluator and functions of helmprov, queries, planners' choice of lines,
extraction providers, analyses, lints: functions of their input without control that
interleaves with anything. Panes and key maps: rendering. Suppressions and tactics:
planned, as above.
