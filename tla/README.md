# A verification development for GLM

GLM compiles a dialect of Lua to native code. It has no garbage collector: the
compiler proves, at compile time, who owns each table, and emits the frees
itself. Tables live in a small runtime that keeps one flat buffer per table,
moves it between the allocator, a reserved range of address space and a hash
map, and lets loops that fill a table write the buffer without a check. The hard
questions are therefore whether a free emitted by the compiler is always the
right one, whether a check the compiler left out was really superfluous, and
whether the passes agree on the type of every cell, which a program never names.
Besides, the compiler keeps a *signal plate*, a mapped file that has to be
readable whatever ends the compiler and wherever. These modules model all four,
run them on small instances with TLC, and prove with TLAPS what the runtime, the
loops compiled on it, the frees of nested tables, the compiled frees and uses and
the plate promise for every value of their constants.

All paths below are relative to the repository; line numbers are in
`PROJECT.json` under `map`.

## The system

A source file goes through passes that each run once, one after the other, in
one process and one thread (`src/main.rs`): lexer, parser, site numbering, shape
analyzer, type checker, lowerer, backend, then clang. A pass runs only when the
one before reported nothing. The compiled program calls the runtime
(`src/rt.rs`, a C ABI) from straight SSA code. There is no concurrency in what
the system computes. What is hard is *order over time*: facts collected in one
pass about all paths, used in a later one about one path; facts collected in one
turn of a fixpoint and used in another; a header field written in one call and
trusted in a call much later.

| component | state | operations | interacts with |
|---|---|---|---|
| runtime table (`src/rt.rs`) | header: data, len, reserve, mode, flag, map; the buffer behind it | new, set, get, len, grow, reserve, free | called by compiled code; header read directly by direct stores |
| runtime deep free | ALLOC_COUNT, the flag, cells that hold handles | free with recursion, `sys_alloc_count` | flag decided by analyzer and lowerer |
| runtime trace, print | mapped counters | bump, print | write-only |
| lexer, parser (`src/lexer.rs`, `src/parser.rs`) | token position, diagnostics | one function per construct | AST to every later pass |
| site numbering (`src/analysis.rs`) | one number per constructor | one traversal | shared by analyzer and lowerer |
| shape analyzer (`src/shape/`) | scopes of bindings (type, alias set, layout), element type and verdict per site, free_sites, freed_sites, do_exit_frees, stored_ctor_parents | walk of each statement, branch merge, loop fixpoint, outer fixpoint, drop_reference, decide_do_exit, detect_fill_loop | facts to checker and lowerer |
| type checker (`src/type_checker.rs`) | scopes, substitutions | check each statement, unify | diagnostics gate; substitutions to lowerer |
| lowerer (`src/lowerer.rs`) | blocks, registers, scopes of registers, birth registers, control depth, loop contexts | lower each statement, phis, frees, fill-loop conversion | consumes facts, produces IR |
| backend (`src/backend.rs`) | register types | one LLVM pattern per instruction | calls of the runtime |
| trace plate (`src/trace.rs`) | on disk: booleans, counters, a histogram per scope, the scope directory, an event ring; in the process: the map, the scope register | init, resets, signal, set, scope enter and leave | signalled by every pass; read by `plate.py`, also after a crash |
| driver, tooling, corpus | – | gates; fuzzer, locks, tests | – |

What makes each of them correct:

- *runtime table*: whichever buffer holds it, a table is a map that is zero
  wherever nobody stored; a buffer is released with the size and by the call it
  was obtained with; `#t` never shrinks and always names a cell that reads zero.
- *analyzer and lowerer, ownership*: an emitted free releases a table that is
  live and that no name will use; what a block lets go of is released; every
  register a free or a use reads is defined on the path taken; the walk ends.
- *analyzer and lowerer, fill loops*: a direct store falls on a cell of a buffer
  the table has, and the converted loop does what the source loop does.
- *deep free*: every table has one releaser, and the count the program can print
  is the number of tables it can reach.
- *element types, checker*: the fixpoints end; types do not change once recorded;
  every access to a cell uses the type and the width its table was made for.
- *trace plate*: at every instant, a kill included, what is on disk can be read;
  between signals it says what this run fired and in which block of the source.

## The modules

    ZeroTable            what a table promises
      ^ implemented by (INSTANCE in GlmTable, proved in GlmTableProofs)
    GlmTable             one table of the runtime      <- GlmTableProofs
      ^ extended by        ^ extended by
    FillLoop             MatrixFill                     compiled loops on that table
      <- FillLoopProofs    <- MatrixFillProofs

    OwnershipProgram <- OwnershipWalk <- OwnershipLower <- OwnershipRun
    parser              analyzer         lowerer            compiled program
      <- OwnershipProofs                            the loop fixpoint
      <- OwnershipWalkProofs <- OwnershipCodeProofs  the whole pipeline

    DeepFree             tables in tables: flag decided by the walk, then run
      <- DeepFreeProofs

    ElementTypes     <- TypeChecker    <- TypedRun
    analyzer's types    substitutions     lowerer's and backend's types, the run

    TracePlate           the compiler's plate     <- TracePlateProofs

In `A <- B`, B extends A; the proofs about loops extend `GlmTableProofs` too. The
`MC*` modules give each of them the finite sets TLC needs.

### GlmTable and ZeroTable

`GlmTable` has one action per entry point of the C ABI, split by the branch the
code takes: `New`, `SetSparse`, `SetUpgrade`, `SetDense`, `SetNothing`, `Get`,
`GetNull`, `Grow`, `Reserve`, `Free`; `TableLen` is `glm_tbl_len`. `span_grow`
and its helpers are pure operators that return the *set* of buffers the growth
may end with: several where the allocator chooses, none where the code aborts.
The header's fields are `len` and `reserve`; `kind`, `bytes` and `commit` record
what the allocator or the kernel really handed out. The code does not keep those
three, and it is right only while its own two fields tell the same story: that
is `SpanAddressable` and `ReleaseFits`. Cells carry a `Garbage` value where
memory was never initialised, so `ZeroTail` (the `write_bytes` after `realloc`)
is something a property depends on. Integers wrap as in the code: `WrapSucc` is
`wrapping_add(1)`, `WrapDouble` is `wrapping_mul(2)`, `Horizon` saturates.

`AllocFails` says whether memory may be refused. A refused `realloc`, `mmap`,
`mprotect` or `mremap` aborts; a refused `alloc_zeroed` is stored as a null
buffer, as the code does. `mremap` is modelled as a growth that keeps the
contents or aborts; which of the two the kernel chooses on a range with two
protections is not decided here.

`ZeroTable` is the promise: a total map from indices to values, zero at first;
a store changes one cell; a read returns it; `#t` only advances and only to a
border; a read through a null handle may produce anything (the repository calls
this BS-9). `AbstractTable` is the refinement: `store` maps to what
`glm_tbl_get` would return at every index, `bound` to `TableLen`.

### Ownership

A program is the sequence of its statements and block tokens; the heap site of a
constructor is its position. `OwnershipProgram` reads one token per step, so TLC
enumerates every program of a family (a *budget* of statement forms and a longest
length); a run checks a set of families. `OwnershipWalk` is the recording walk: one action per statement
form, `frames` for what the enclosing `walk_stmt` calls keep on the Rust stack
(the snapshot before a branch, the loop head), and the loop fixpoint as a jump
back to the body's first token. `OwnershipLower` is the lowerer, statement by
statement, with real blocks, phis and registers. `OwnershipRun` executes the
result one instruction at a time on a heap of tables, every branch free to go
either way, at most `MaxTaken` times along its true edge. The whole pipeline is
one behaviour: read, walk, lower, run.

Conditions and values are not represented, so a branch may go either way; every
path so explored is one that some program of the same shape takes. A program the
checker or the analyzer rejects ends in phase `rejected` and is not run.

### FillLoop and MatrixFill

`FillLoop` runs scripts of stores and fill loops over the table of `GlmTable`:
`Analyze` joins the layout verdict (a far constant key makes it Sparse, a fill
loop overwrites it with Dense), `EnterLoop` evaluates the bound once and calls
`Reserve`, `FillStore` is the direct store when the verdict is Dense, `AheadStore`
a second store of the same turn through `glm_tbl_set`, which may move the buffer
or graduate it, and a direct store outside the buffer is a fault. `MatrixFill` does the same for
`m[i][j] = v` in two loops: the spine is the table of `GlmTable` with handles of
rows as its values, and each row is a buffer grown by the same `SpanGrow`.

### DeepFree

Straight-line programs over names of matrices and of rows. `Walk` does what the
recording walk does to a statement (alias site of a name, `stored_ctor_parents`,
drops, the sites of the block exit) and refuses what the compiler refuses; then
the statements run, and `glm_tbl_free` releases the head of a stack of handles,
pushing the cells of a table whose flag is set.

### ElementTypes, TypeChecker and TypedRun

GLM has no type declarations: the analyzer joins everything stored into a site,
walks the program until nothing moves and once more to record; the checker
unifies what is left unknown; the lowerer and the backend derive from both the
width of a cell, the LLVM type of a register and of each slot. Four passes hold
an opinion about the same cell, and nothing at run time would notice that they
differ.

A type is a nesting of tables over a base (`depth`, `base`), since a table has one
element type; `Pending` and `Conflict` are bases. A program is a straight line of
statements over tables of one cell, written by a family's budget of forms, an
`if` without `else` among them (`maybe`). `ElementTypes` has one action per
statement of the fixpoint's walk (`WalkStmt`), `WalkAgain` for its end,
`RecordStmt` and `RecordDone` for the recording walk and the ledger's gate.
`decide` retypes every name that may hold the site, `walk_assign` decides the
sites a name held before, `elem_type_of_tbl` derives the static type of a matrix
from its children. `TypeChecker` has the substitutions, `unify` in the order the
code tests its cases, and one action per statement. `TypedRun` executes the
lowered program on a heap that remembers for each table the type it was made for;
`access` compares it with the type the last access was compiled for. A register
that reads through a null handle holds anything, and the run stops there.

### TracePlate

One step of a signal is one byte or word stored. `Signal` is the list of the
eight stores it makes: boolean, counter, scope cell, the depth and the parent of
the directory entry, event count, the slot and the scope of the event. `todo`
holds those still to come, and `Kill` may strike at any point between them: it
loses the process (`mapped`, `register`, `todo`, the numbering of scopes) and
keeps the plate. Where the code skips the bytes of an entry that has them
already, `StoreDepth` and `StoreParent` change nothing. `StartRun`, `ResetCounts`
and `ResetScopes` are the three things a run does to the plate it finds. Each is
one step: mapping the file with its header, and each of the two memsets. A kill
in the middle of a memset is not modelled: `KilledRunReadable` and `KilledTree`
speak of runs that fired a signal (`fired`), which is after both, the next run
clears the same bytes again, and a counter zeroed early cannot break
`CountersImplySticky`. `Enter` and `Exit` are the recording walk's entries and
exits of block scopes: a block takes the next byte on its first visit and keeps
it, and all blocks from the 255th on share the byte that means no scope. A
statement may walk a block again (loops) or open another (arms). The passes set
the register as they begin; a gate, a bail or the panic hook ends the run with
its status boolean. Which signal is fired where is left open. `fired`, `inside`
and `home` are what the source and the walk did, for the properties to compare
with; the compiler reads `fired` for its bound `MaxEvents` only.

A kill between the two bytes of an entry leaves a depth with parent 0
(`HalfEntry`). So `ScopeTree` speaks of instants between signals, and of every
instant `KilledTree` says that at most the scope of the newest event is torn.
`DirectoryStable` says of each byte when it may change.

## The runs

| run | question | size |
|---|---|---|
| `table_vm` | all calls on one table, an allocator that never refuses | word of six bits, keys -1, 0, 1, 5, 9, 31 |
| `own_programs` | branches, blocks, drops, loops that rebind; the walk of a loop ends | 2 names, five families of 6 to 9 tokens, 3 turns; 6.7 million states |
| `own_loop_drop` | violation: drop in a loop | 6 tokens of a budget |
| `fill_loop` | fill loops of one table | scripts of up to 3 statements |
| `fill_far` | violation: sparse table, dense verdict | 2 statements |
| `matrix_fill` | nested fills whose rows are roomy | up to 6 by 6 |
| `deep_free` | tables in tables, rows all of one kind | 3 names, 6 statements |
| `deep_mixed` | violation: both kinds in one table | same |
| `trace_plate` | two runs over one plate, killed between any two bytes or not; 2.3 million states | 2 signals, 3 blocks, 4 signals fired |
| `types` | what passes analyzer and checker keeps its cells' types; the walks end | 3 names, nine families of 4 to 6 statements; 1.5 million states |
| `types_hang` | violation: an outer fixpoint that does not end | 4 statements |
| `types_occurs` | violation: a substitution that does not end | 4 statements |

Why the bounds are enough. The table word has six bits with the thresholds
scaled down so that each of them is crossed inside it: `MinSpan` 2, horizon 4,
graduation at 6 bytes, smallest reservation 8, page 4, largest index 31. The key
set holds a negative, a zero, one inside the first buffer, one that graduates,
one past the horizon and the largest index, so every branch of every entry point
fires (TLC's coverage shows it). `GLM_VM=off` (`VmEnabled = FALSE`) has no run of
its own: before a table graduates it is the same buffer, and the proofs hold for
both values; so with an allocator that refuses (`AllocFails`). Two names are the
least for which an alias, a sole owner, and a survivor exist; six tokens hold a
block in a branch or a loop around a constructor, an alias, a rebinding and a
use; three turns of a loop are one more than the two needed for a value to travel
from the entry through the latch and be used. The families with a budget are
longer because the shape they look for needs a branch inside a block followed by
its exit. Three fill statements are enough for a loop after a loop after a store, with a
body that stores at its own key or one, six or nine cells ahead: as far as `Near`
allows behind the smallest span and behind a wider one. The sizes of the matrix
run pass the minimum span, the graduation and both orders of the bounds. Three names are a table, the one it holds and a name for either;
five statements hold a store, a rebinding, a second store and a read. On the
plate, a cap of 2, a ring of 2 and three usable scope bytes are all exceeded by
four signals and three blocks, and two runs are what a stale plate needs; the
theorems hold for 255, 8192 and any program.

What the passing runs leave out is what the violation runs show, or is listed
below them: `own_programs` has no drop in a loop; `NothingLost` speaks of
programs that neither branch nor overwrite a held name (`LetGo`); the scripts of
`fill_loop` are `Near` (no far key before a loop, no store too far ahead in one);
the shapes of `matrix_fill` are `Roomy` (rows within their reservation); both are
also the hypotheses of the theorems;
`deep_free` does not mix kinds of rows (`Unmixed`), binds a name once and stores
a cell once (`StoredOnce`);
in the families of `types` no table may come to hold itself (`ToContain`), a name
is not both stored into tables and copied (`Rebindings`, `Contained`), tables an
`if` joins are not given different elements, and a bare name is bound to tables
only.

TLC checks no deadlock: every behaviour here ends (the program halts, the process
aborts, the plate has seen its runs) or the table is freed.

Fairness. `FFairSpec` and `MFairSpec` assume weak fairness of the whole
next-state relation: one thread that keeps running while it has a step to take.
`FairSpec` of `TypedRun` is narrower: `WF_pc(MoveOn)` says that a walk of the outer
fixpoint, once begun, goes from statement to statement and, at its end, on to the
next walk; nothing is assumed of the reader, so a behaviour that never ends is
one in which the walks themselves never settle. Nothing is assumed about which
way a branch goes. That the loop fixpoint of the recording walk ends is
`HeadsGrow`, which needs no fairness: each further pass over the body starts from
a head that keeps every alias of the one before and has at least one more, and
the sites of a program are finite.

Each property has a mutant: a definition of the model changed as a plausible bug
of the code would change it, written beside the definition and listed in
`PROJECT.json`, under which TLC finds the property violated.

### What the violations show

Each quotes a line of the repository in `PROJECT.json`. In short:

1. `own_loop_drop`: `x = nil x = y` in a loop body frees `y`'s table twice,
   because the free recorded on the first walk of the body is not withdrawn.
2. `fill_far`: a far key before a fill loop: direct stores through a null buffer.
3. `deep_mixed`: one inline row makes the deep free release the named rows too.
4. `types_hang`: `local a = {true} local b = {} if c then a = b end b[0] = 1`:
   the merge after the `if` and the store each undo the type the other gave `a`,
   so no walk is stable and the compiler does not end instead of reporting the
   conflict.
5. `types_occurs`: `local m = {} local x m[0] = x x = m` binds an element to the
   table of itself, and following the substitution recurses for ever.

### Further limits of the code

These were met while modelling. Each is a precondition or a note under `hazards`
and has no run:

- the result of `alloc_zeroed` is not tested (`src/rt.rs:378`), so
  `SpanAddressable` needs an allocator that does not refuse;
- `freed_sites` does not know about paths (`src/shape/analyzer.rs:878`): a
  table dropped in one arm leaks on the other, hence the condition of
  `NothingLost`;
- a store in the body of a fill loop, at a computed key far enough ahead, turns
  the table sparse between two direct stores (`src/lowerer.rs:264`): `Near` says
  how far is safe, the threshold past the span of the loop's bound;
- equal control depth is taken for dominance (`src/lowerer.rs:533`): a site
  made in one loop or arm that dies at a block's exit in a later loop or arm is
  freed through a register that does not dominate it, as in `local y if c then
  y = {} end if d then do local x = y y = nil end end`, where `HandlesDefined`
  fails; such a program has two branches or loops and a block and is longer than
  the families of `own_programs`;
- a do-exit does not add what it frees to `freed_sites`
  (`src/shape/analyzer.rs:855`), so two exits may free one table: in `do local x =
  {} if c then do local y = x x = nil end end end` the inner exit frees it through
  `y`, the outer one through the constructor's register, and `FreesAreSound`
  fails; ten tokens, longer than the families of `own_programs`;
- a loop bound that reads the table the loop fills is hoisted
  (`src/lowerer.rs:317`): the family `BoundInCell` of `fill_loop` checks the
  loop as compiled, which is not the loop the source says;
- rows nobody stored or reserved are written through null, and rows made inline
  are reserved for the outer bound (`src/lowerer.rs:243`, `:276`), so wider
  ones are written past their buffer: the shapes of `MatrixFill` outside `Roomy`;
- a table stored into itself, or two into each other, gets one more level of
  nesting on every walk (`src/shape/analyzer.rs:92`), and the compiler does
  not end;
- the lowerer makes one substitution where a chain may be needed
  (`src/shape/facts.rs:57`), so a table may be made with cells of one byte
  and used with eight;
- a bare name given a scalar in an arm becomes an integer phi over a pointer
  (`src/lowerer.rs:28`).

### Where the documentation disagrees

`documentation.md:36` ("Parser/checker pokes are deliberately scope-less (0xFF)")
and the table at `documentation.md:53` (parser, 69 among its signals: not
scope-tagged) say that no signal of the parser has a scope. The code tags one:
`parse_program` sets the register to scope 0 before it signals `GHOST_BAIL_PARSER`
(69), and its comment (`src/parser.rs:38-41`) says that it means to.
`documentation.md:61-63` sides with the code: the four bail slots name the pass,
"the scope cell names where". The model follows the code: `PassBail` fires in
scope 0, and `DecodeIsLog` (and its theorem) asserts scope 0 of a parser's bail,
the opposite of `documentation.md:36` and `:53`; that it passes does not confirm
those two lines. Every other signal of the parser is in no scope, as they say.
The disagreement has no run of its own.

## The proofs

`GlmTableProofs` proves, from `SizeAssumption`, `PowersAssumption` and
`ValueAssumption` alone:

| theorem | property |
|---|---|
| `TypeCorrect` | `TypeOK` |
| `ReleaseAlwaysFits` | `ReleaseFits`, whatever the allocator refuses |
| `BackingAdvances` | `BackingOnlyAdvances` |
| `SpanAlwaysAddressable` | `SpanAddressable`, if the allocator does not refuse |
| `CellsAlwaysInitialised` | `NoUninitialisedCell`, if the allocator does not refuse |

The assumptions are those the code needs: a cell is at least a byte, the
smallest span is positive, a reservation is a whole number of pages. None of the
properties is inductive by itself. A growth is right only because `len` times the
cell size is what the allocator handed out, so the invariant of `TableInvariant`
joins the type of the buffer, the agreement of header and backing, the content
of its cells, and the fact that a sparse table has no buffer and a dense one no
map. Its proof has one lemma per shape of buffer a growth may return (`Graduate`,
`GrowVm`, `HeapGrow`, then `SpanGrow` from them), one step per action of `Next`,
and under it the conjuncts the action disturbs. The theorems with a condition
state it as an assumption, since the unchecked `alloc_zeroed` makes them fail
without it.

The last part of the module proves `TableImplementsZeroTable`: under the same invariant
every step of `GlmTable` is a step of `ZeroTable` or leaves its variables as they
are, for every word size, threshold and set of values. The lemmas say that a
growth changes no cell as reads see it and only moves `#t` to a cell that reads
zero, and that moving the span into the map changes no read at all.

`TracePlateProofs` proves from `PlateAssumption` alone (signals are numbered from
2, the cap, the ring and the scope byte are positive), for any number of signals,
events, blocks and runs and a kill between any two stores:

| theorem | property |
|---|---|
| `TypesCorrect` | `TypeOK` |
| `CountersAreSticky` | `CountersImplySticky` |
| `KilledRunsAreReadable` | `KilledRunReadable` |
| `ScopesFormATree` | `ScopeTree` |
| `KilledTreesAreWhole` | `KilledTree` |
| `DirectoryIsStable` | `DirectoryStable` |

The invariant grows in layers, each kept by every action given those below it.
`TypeInv` adds to the types that the stack of ids is one longer than the stack of
open blocks, without which the register could not be returned to. `StickyInv`
says that a counter still to be stored has its boolean stored before it.
`ContextInv` says what the register holds in every pass; in the recording walk
(`WalkInv`) it is where the walk is: the ids on the stack are the bytes of the
open blocks, each block's byte its place in first-visit order, folded.
`EventInv` follows one signal through its stores: the newest event is on its way
with the register's scope, the event count is behind while its store is to come,
the first byte of the event is in the ring when one store is left, and the ring
holds the rest (`PlacesDiffer`: two events less than a ring apart
have different places). `DirInv` is the directory, with the entry a signal has
half stored taken for whole (`Whole`): a cell counts only where an
entry is, or is about to be; an entry is the depth and parent the source gives
the block; and a block is opened only below one that has signalled since it was
entered (`Spoken`), the reason why no entry ever names an absent parent. The
statement that opens a block signals before it does, which is the guard of
`Enter`. `HalfStored` says what a half stored entry holds: its depth, and the
parent it gets or none; and that every other entry's parent is in the directory
without it. `EntryKept` (an entry a scope has is the one it would get) and
`DepthStoreHalf` (the depth byte changes only an entry never written) make
`DirectoryStable` true byte by byte. `KilledTree` follows while the process
lives, from `DirInv` and the fact that what is torn is at the register's scope,
which is the newest event's; what is left on disk afterwards is `LeftTree`, kept
until the next run starts and forgets what was fired.

The last part of the module proves `PlateDecodesToLog`: `DecodeIsLog`, from
`PlateAssumption` and the invariant above. The property speaks of instants between signals and is
not inductive: `LogInv` says at every instant of a run what the counters and the
cells of the histogram hold, the number of signals fired (with the cell's scope,
for a cell) among all of them or among all but the newest, depending on whether
the store is still to come (`CountsTold`, `CellsTold`), and where in the order of
a signal's stores the two stand (`CountOrder`). What was fired is a set of
positions, the counter its cardinality up to the cap; that a position more adds
one (`OneMore`) is where the finite-set theorems come in. The ring's part is
`EventInv` once no store is to come.

`FillLoopProofs` proves, from the assumptions of the table and `FillAssumption`
(statements are typed, the counter and the key ahead of it are 64-bit numbers):

| theorem | property | hypotheses |
|---|---|---|
| `LoopsFillBehind` | `FilledBehind` | none: any verdict, key and allocator |
| `DirectStoresKeepTable` | the invariant `IInv` of `TableInvariant` | none |
| `LoopsStayReserved` | `ReservedForLoop` | every script is `Near` |
| `FastStoresInSpan` | `FastStoreInSpan` | every script is `Near`, the allocator does not refuse |

The module reuses the table's invariant although the loops also write the table
past the runtime: a direct store changes one cell, of a buffer the table has, or
ends the program. `LoopInv` says what a running loop has done: cells behind the
counter read as what it stored, the cell at the counter too while the store ahead
is to come, and from the first store on the table can be read (`Solid`). What a
store ahead may do to the cells behind is the content of the lemmas at the end of
`GlmTableProofs`, one per path of a store: whichever buffer or map it moves the
cells to, a read sees the one cell changed (`SparseReads`, `UpgradeReads`,
`GrownReads`, `DenseReads`). `SpanInv` is what makes the direct store safe: the
table stays dense as long as a fill loop is to come, the span covers the bound,
and from the second turn on the cell before the next store ahead. The last is the
reason why only a loop's first turn can store too far ahead: each turn moves the
span along. `Near` is exactly what that argument needs of a program; the compiler
asks for nothing of it, and `fill_far` shows a program without it. A bound read
from a cell is assumed to come from an allocator that does not refuse
(`Fitting`), since a read through a null buffer would give any number.

`MatrixFillProofs` proves, from `MatrixAssumption`, for an allocator that does not
refuse and shapes that are all `Roomy`, `DirectStoresStayInSpan`
(`DirectStoresInSpan`) and `RowsStayFilled` (`RowsFilled`), for every number of
rows and columns. The invariant (`MInv`) says that the spine reads as the handles
of the rows in the order they were made and null behind them (`SpineInv`), so that
no handle is found twice; how many rows there are at each step of the program and
what buffer a row to be written is sure to have (`RowsInv`); where the counters
are (`CountersInv`); and what the loops have written (`CellsInv`). The spine is
the table of `GlmTable` and its steps are taken from the lemmas about it.

`OwnershipProofs` proves, with no assumption but `BudgetsAssumption`, for programs
of any length and any nesting of loops, branches and blocks:

| theorem | property |
|---|---|
| `LoopHeadsGrow` | `HeadsGrow` |
| `WalkFollowsBlocks` | the invariant `BlockInv` |

`HeadsGrow` is why the loop fixpoint ends: the head the walk starts the body from
again is the join of the head before and what the latch found. The latch looks up
the names of the scopes the loop was entered with, so that the join loses nothing
depends on the head, which later turns replace, still binding exactly those names
in each scope: `SameNames`. That needs to know which frame a latch finds, which
depends on everything a body may contain: blocks that open and close, arms that
restore a snapshot, loops inside. `BlockInv` says that a map from token positions
to the openers of the blocks open there (`nest`) exists, that the reader's stack of
open blocks follows it, and that the frames of the walk are, one by one, those of
the openers at the token walked next, a loop's with the same names at its entry
and in its head. A token does one of four things to the nesting (`StayKeeps`,
`OpenKeeps`, `CloseKeeps`, and `ElseKeeps` for an arm), and the jump back to a
body's first token finds there the nesting it left (`LatchAgainKeeps`).

`OwnershipWalkProofs` and `OwnershipCodeProofs` prove what the whole pipeline does,
from the parser's token to the last instruction of the compiled program, for
programs of any length, any nesting and any number of names and branches taken:

| theorem | property | hypothesis on the program |
|---|---|---|
| `OwnershipTypeCorrect` | `TypeOK` | none |
| `OwnershipInductive` | the invariant `IInv` | none |
| `OwnershipUsesLive` | `UsesAreLive` | no drop in a loop (`DropsOutsideLoops`) |
| `OwnershipHandlesDefined` | `HandlesDefined`, but for a free through a constructor's register (`BirthFree`) | none |
| `OwnershipSSA` | `HandlesDefined` | do-exits have nothing to free (`ExitsFreeNothing`) |
| `OwnershipFreesSound` | `FreesAreSound` | both |

The hypotheses are those the code needs. `own_loop_drop` is a drop in a loop. Where
a do-exit frees, equal depth is taken for dominance and a table may be freed by two
exits (both under "Further limits"); moves and uses are of defined registers in
every program, and uses are of live tables whatever the exits free.

`IInv` says that some witnesses exist in each phase; they are what relates a pass to
the one before.

- *Reading.* A layout `L` gives, for each token, how many blocks are open, where
  each of them and its current arm began, and what each scope declares. Each token
  is `Placed` in it by what the one before left; that a block's surroundings stay
  what they were when it was opened (`Around`), and that counting openers and `end`s
  finds the block's end (`Counted`), are carried along (`LayoutGrows`).
- *Walking.* A history `h` holds the scopes the recording walk last came to each
  token with. `Flow` says that `h` at a token covers `h` wherever control may come
  from: the statement before, both arms, the latch and the head of a loop. That
  is no invariant of an unfinished loop, where the head may still grow, so the
  invariant claims it up to the current token only and keeps in the frames what the
  head was (`FrameOK`). When the head has settled (`Stable`), the flow from the
  latch to the head holds as well; when it has not, the walk of the body starts
  again and what was claimed of it is given up. A drop decided in a loop may
  therefore rest on a history that was given up, which is where `DropsOutsideLoops`
  comes in: elsewhere a free is of a sole owner (`SoleDrop`), by the final history.
- *Lowering.* `A` gives for each register the sites whose tables it may hold and
  `H` for each point of the code registers that are defined there. `CodeOK` is the
  validity of the code emitted so far: every instruction reads registers of `H`,
  every phi has an argument for each edge, whose aliases it contains; where the
  program has no drop in a loop, no register still in `H` after a free may hold a
  table of a site it frees. The registers of the names in scope are in `H`, with
  aliases among those of the history at this token (`EnvOK`). Each call of
  `lower_stmt` that has not returned keeps what its blocks will need (`CtlOK`): a
  loop that `find_mutated_vars` found every name its body assigns, so that each
  other name has the register it was entered with; its phis the aliases of the
  settled head.
- *Running.* The machine is somewhere in sound code (`MachineOK`): each defined
  register holds a table of one of its aliases, or null if that is one of them, the
  registers of `H` are defined and, if no drop is in a loop, their tables are live.

The two passes count blocks in different ways (`frames` and `Nesting`), name scopes
and registers in different ways, and the fixpoint revises what it said; the layout
and the final history are the common ground. The proof has a lemma per statement
form of the walk and of the lowerer, and one per instruction.

`DeepFreeProofs` proves, from `NamesAssumption` and `StmtsAssumption`, for any
names and any statements and scripts of any length:

| theorem | property | hypothesis |
|---|---|---|
| `FreesAreUnique` | `FreedOnce` | every program has one kind of rows (`OneKindOnly`) |
| `NamedTablesAreLive` | `NamesAreLive` | the same |
| `CountsAreReachable` | `CountReachable` | the same, and none overwrites anything (`OnceOnly`) |

`OneKindOnly` is what `deep_mixed` shows to be needed. That nothing is
overwritten, which the run assumes throughout (`StoredOnce`), only the count
needs: the compiler frees no table for losing its last name or cell to another.

The free of the run is decided by facts the walk had at the end of the script,
while what the run does at a statement is what the walk saw there. The invariant
(`DeepInv`) therefore says that the facts of every position exist (`History`):
each the one before, judged by one statement; in each a name holds a site of its
kind and none that was given to a release (`FactsInv`); and what was decided by
then is in the facts the walk ended with (`Told`): its drops, its marks, its exit.
Against that history the run is simple. The table of a name is the one its site
made (`EnvInv`, `BirthInv`), a site that was not given to a release has a live
table (`LiveInv`), and the stack of `glm_tbl_free` holds live tables only, none
twice (`TodoInv`). What makes the recursion safe is `HomeInv` and `KindInv`: a row
without a name is in one cell of one table, and a table with the flag has rows of
that sort only, since a flag means an inline row somewhere in the program. So the
children a free pushes are live, and are not on the stack. That the list of frees
at an exit names no table twice is `AscendingLists`, from the cardinality of what
is below each element.

`ALLOC_COUNT` is the number of live tables (`CountInv`): a statement raises it by
the tables it makes, a release lowers it by one. That each of them is reachable at
the end is `HeldInv` and `OwnInv`. A site is given to a release or held by a name,
after the block by one that survives (`HeldInv`); what was given to a release is
released or on the stack (`GoneInv`); a row without a name lies in a cell of a
table with the flag, and when that table goes the row is released or on the stack
(`RowInv`, `FlagInv`). A cell was filled by a statement of the script (`KeyInv`),
so that in a program that overwrites nothing no later store drops a row.

Only model-checked:

- `NothingLost`: that a free is emitted for everything let go is a statement about
  each table's last name, and relates the run to the walk in the other direction
  than `IInv`, which says what a register may hold and not what must;
- `FreesAreSound` and `HandlesDefined` where do-exits free: they fail for longer
  programs ("Further limits"), and hold for those of `own_programs`;
- the type pipeline: types are walked by recursive operators, out of the prover's
  reach;
- liveness (`Finishes`, `MatrixDone`, `WalkSettles`): fairness is out of the
  prover's reach.

## Not modelled

- *Lexing, printing, formatting, precedence, error recovery*: without state, or
  without influence on who owns what.
- *Arithmetic and comparison*: the values of scalars influence no state modelled
  here; a branch goes either way, and cells hold model values. Division by zero
  and of the least integer is undefined in the emitted code
  (`src/backend.rs:492`).
- *Floats, strings, loops and else arms in the type pipeline*: `ElementTypes` has
  two scalar bases and an `if` without `else`; the loop's merge is that of
  `OwnershipWalk`, for alias sets only.
- *The join of layout verdicts over several alias sites*: `FillLoop` has one table
  under one name.
- *The runtime's sidecar of counters*: the first two stores of `TracePlate`, read
  by nobody.
- *Reads through null*: any value, as in the code.
- *Negative loop starts*: `FillLoop` starts at a natural number.
- *Tooling*: the fuzzer, the locks and `plate.py` observe the system.

## Plan

Done: ZeroTable and GlmTable, FillLoop, MatrixFill and TracePlate with their
proofs; the ownership modules with the proofs about the whole pipeline; DeepFree with the
proofs that its frees are right and forget nothing; the type pipeline.

1. Layout verdicts over several alias sites, and the layout a phi inherits.
2. Loops and else arms in the type pipeline, with floats as a third base.
3. The frees of do-exits, for programs whose exits free only what was made in
   their own block and not below.
4. Arithmetic: the width of each operation and where the compiled form differs
   from the source's.
