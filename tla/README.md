# A verification project for the MYGL compiler

This directory holds TLA+ models of the MYGL compiler: of its intermediate representation
(`src/src/mygl-ir`), of the base library that rests on (`src/src/base`, `src/src/include/base`), of the
register allocators beside it, of the front end's syntax tree and checker (`src/src/myglc-lang`) and of the
LLVM pass `src/mem2reg_pass.cpp`; the TLC configurations that model-check them and the TLAPS proofs of their
main properties. Paths are those of `PROJECT.json`: the repository root is `src/`, its own source directory
`src/src/`.

Contents: 1 the system, 2 the modules, 3 observed divergences, 4 runs and bounds, 5 proofs,
6 what is not modelled, 7 plan.

## 1. The system

MYGL is a compiler for a small C-like language. The front end (`myglc-lang`) parses a program into an
AST with scopes and checks its expressions; code generation (`myglc-lang/codegen`) turns the AST into
MYGL-IR; the passes rewrite the IR. Everything runs in one thread: what is hard is not concurrency but
*aliased mutable state*. The same fact is kept in several objects, and code in different classes has to
change all copies, by callbacks and in the right order.

| component | state | operations | hard |
|---|---|---|---|
| `RefList` (`mtb-reflist.hxx`) | two sentinels, nodes with `prev/next/parent/elem`, `_length`; in each element a proxy `self_node` | append, prepend, remove, replace around a node; push/pop; `clean`; iteration | two pointer directions, a length and proxies, all changed by hand; refusals by callbacks |
| `Object`, `owned` (`mtb-object.hxx`) | the count in each object, the pointer in each handle | construct, copy, move, assign, reset, `steal_get` | the old target is released before the source is read; destruction is recursive |
| `IDAllocator` (`mtb-id-allocator`) | a deque of entries, two of them the heads of the stacks of used and unused entries; a counter | `allocate`, `free`, `isAllocated`, traversals | an id is off by two from its entry; entries change stacks |
| mutable registers (`ir-constant-function`, `MutableContext`) | an `IDAllocator`, the registers | enable, disable, `allocateMutable`, `freeMutable` | a register is reused, or replaced if the type differs; clients keep pointers |
| basic blocks and instructions (`ir-basicblock`, `ir-instruction-base`) | instruction list, `_terminator`; `_parent`, `_connect_status`, `_proxy` of each instruction | insertion, `unplugThis`, `removeThisIfUnused`, `set_terminator`, `swapOutEnding`, `appendOrReplaceBack`, `split` | plug/unplug signals in the middle of list operations; operations that go on after a refusal |
| terminators (`ir-instruction-ctrl-flow`) | target slots (default, if_true, cases) and two counted edge sets, `jumps_to` of the source and `comes_from` of the target | setters, replace, remove, clean, swap, plug/unplug handlers | the graph is stored three times: slots, `jumps_to`, `comes_from` |
| use-def (`irbase-use-def`, operand setters of all instructions) | the `Use`s of a user, the list of uses registered on a value, the typed operand fields | operand setters, `swapUseeOut`, `replaceAllUsee`, finalisation | the edge of an operand is stored three times; every class moves it in its own way |
| functions and modules (`ir-constant-function`, `ir-module`, `ActionPred` of blocks) | the block list of a body, its entry, each block's `_parent` and proxy; two maps from names | body enabled and disabled, blocks inserted, removed, replaced, `set_entry`; definitions set, replaced, removed | the entry is protected through the block's parent, not through the list; destruction of blocks that others jump to |
| types (`irbase-type*`) | type objects, the interning set, the map of integer types | requests of the context, sizes and offsets | types are compared by pointer and interned through virtual hashes and equalities |
| constants, `APInt` | value pool | creation, folding | widths |
| graph colouring (`gra-coloring.cpp`) | live states, interference lists, a stack, colours | build, simplify, coalesce, select, spill, rewrite | the graph is taken apart and put together again in every round; termination |
| linear scan (`LinearScan.cpp`) | the pool of waiting variables, active variables, free registers, the counter | `assign`: update, distribute, spill, advance | a counter that starts at any value, erasures in a vector that is iterated |
| mem2reg (`mem2reg_pass.cpp`) | allocas, frontiers, phis and their operands, a worklist of blocks, erased instructions | collection, phi placement, renaming, pruning, in rounds | phis are definitions too; an instruction is erased only when nothing refers to it; termination |
| AST, scopes (`ast-node*`, `ast-scope*`, `ast-parser.y`) | the tree; in each node a scope, in identifiers a definition; tables of names | the grammar's reductions, `register_this`, lookup, `accept` | scopes fill while the tree is walked; a failed call leaves a tree half registered |
| expression checker, indexer (`code-visitors/expr-checker.cpp`, `utils/expr-indexer.cpp`) | none: a value for each expression | folding of operators, constants and elements of initialisers | what is constant; the element an index means in nested, partly filled lists |
| code generation, writer, printer, driver, lexer | - | text in and out | - |

How they interact: a function owns a `RefList` of blocks and a block one of instructions; the list calls
the `ItemActionT` of its element class before and after every change; `Instruction::ListAction` checks the
change and sends `on_parent_plug` and `on_parent_unplug`, `BasicBlock::ActionPred` protects the entry; the
terminator classes update the graph of the two blocks in their handlers, and a block's destructor takes its
terminator off; operand setters update the users of the values; operands, blocks and instructions are kept
alive by `owned` handles; a function's mutable registers are values with users; a module's table owns the
definitions. The parser builds the tree bottom up and hands functions and declarations to the `CompUnit`;
`register_this` then walks it once, and checker and printer are visitors of the registered tree.

What makes each component correct:

- `RefList`: both directions describe the same sequence, and every operation is the sequence operation
  it is named for; the length never under-counts.
- blocks: a connected block has one terminator, at its end; an instruction is in at most one place, and
  its own `_parent`, status and proxy say which one.
- graph: an edge is counted once for each slot that points along it, and equally at both ends.
- use-def: a registered use belongs to a live instruction whose operand is that value; setters keep
  registration and type; a swap and a replacement do what they say.
- bodies and modules: the entry is one of the body's blocks, a block is in one list and knows which; no
  destructor reaches into a freed block; a name means one thing.
- registers: no two clients hold one register, a used one is not handed out, and the context is given up
  only when nothing is held.
- `owned`: the count is the number of handles, nothing dangles, nothing is left over.
- types: two requests for one type get one object; array elements lie apart, aligned and inside.
- allocators: variables in conflict differ, who has room is not spilled, and the program ends.
- mem2reg: every load becomes the value it would have read, the function stays one LLVM accepts, the pass ends.
- front end: an identifier means what lexical scoping says, what is reported registered is registered
  completely, what is folded is constant and worth that, and the walks end.

## 2. Modules

| module | models |
|---|---|
| `RefList` | nodes, sentinels, links, length and proxies of any number of lists; one action per operation |
| `SeqList` | what a list promises: a sequence with insertion, removal, exchange and clearing |
| `BlockCFG` | blocks, instructions and terminators: instruction lists as sequences (what `RefList` was shown to implement), proxies, statuses, target slots, the two copies of the graph |
| `UseDef` | instructions of every class, casts by what their opcode demands, their operands, types and registered uses |
| `IdAllocator` | the entries, stacks and counter of one allocator |
| `MutableContext` | the mutable registers of a function, their clients and their users; instantiates `IdAllocator` |
| `OwnedRef` | owned handles, counted objects, the destructors an assignment sets off |
| `FunctionBody` | functions with bodies of blocks, the callbacks of the block list, destruction, the table of a module |
| `Types` | type objects, the interning context, sizes, alignments and offsets |
| `Coloring`, `LinearScan` | the two register allocators, one action per turn of a loop; `MCAllocators` runs one after the other |
| `Mem2Reg` | the pass over a function, and runs of the function before and after it |
| `AstGrammar` | the tree each grammar rule builds |
| `Ast` | construction, registration and visit of a tree, as a machine with a stack of calls |
| `ExprCheck` | values of expressions over a registered tree of `Ast`, and what the program would compute |
| `MC...` | the TLC instance of each |
| `...Proofs` | the theorems about each, with their proofs; `BackendProofs` has those about both allocators and the mem2reg pass, `ModuleProofs` those about function bodies and types |
| `SequenceFacts` | lemmas the proofs share: insertion, removal and exchange in a sequence, and the least element of a set of numbers |

### RefList

`live` is the set of allocated item nodes, `prev`, `next`, `parent`, `elem` the fields of `Node`, `length`
the field `_length`, `self_node` the proxy of an element. Modifiers are pairs of a node and a list
(`Modifier` says which ones a client can hold, sentinels included). `append`, `prepend`, `remove_this`,
`replace_this` are the modifier operations, the list operations of the same name are these at an end;
`clean` and the length repair in `iterator_at` are actions of their own. The preprocess callbacks
are those of `Instruction`, which refuse an element that is in a list; `BasicBlock`'s `ActionPred` refuses no
insertion, and the bodies of functions have a module of their own. `Contents` maps the lists to
`SeqList` by walking `next` from one sentinel to the other (`Walk`); the run checks the refinement and
`RefListProofs` proves it: each step of the pointers is an insertion, a removal, an exchange or a clearing in the
sequence of one list, or changes no sequence. At which place is left open by `SeqList`, and so not part of the statement.

### BlockCFG

A block's list is a sequence `insts[b]`; `self_node[i]` is the instruction now sitting in the node the
proxy of `i` points to (so that a stale proxy is visible). A node whose proxies would dangle cannot be
removed (guard of `unplugThis`): the model stops where the code has undefined behaviour. `target[t]` maps the slots of a
terminator (`"default"`, `"true"` and the case numbers) to blocks. `jumps_to` and `comes_from`
count edges as `BasicBlock` does. Mounting and unmounting compute the next graph with
`PlugGraph`/`UnplugGraph`, the edits with `Register`/`Unregister`.

### UseDef

A `Use` is an instruction and a position; `operand` is the field it refers to, `users[v][u]` how often the
use is on the list of `v`. `Layout` says for each class what its operands must be and how its setter
treats the old registration when the new value is refused: checked first, answered by `false`, or *late*
(the use is taken off before the check throws). A cast is a class by what its opcode demands of the
operand: `SEXT` and `FPEXT` stand with `ZExt`, `FPTRUNC` with `Trunc`, `UTOF` with `IToF`. `Alloca` has no operand and is one. `Set` is the setter, `Handle` the closure a `Use`
holds, `Swap` is `swapUseeOut`, `ReplaceOperands` is `replaceAllUsee`; they return fields, lists and
whether an exception was thrown, so that one call can make others. No constructor registers a use: that is how the
code is, and why the properties speak of uses that *were* registered.

### IdAllocator and MutableContext

A stack is the set of entries that a walk from its head meets, the least set the links stay in (`Follows`, `Stack`);
`SuccessorsDiffer` says in addition that no walk comes back to where it was.
Entry 0 heads the stack of used entries and entry 1 that of unused ones; id `n` is entry `n + 2`. `allocate`
takes the top of the unused stack or a new entry; `free` moves an entry across. `free` adds 2 to the id and
then asks `isAllocated`, which adds 2 again: whether anything is released depends on the entry two places
further, or on memory behind the deque, where the model lets the answer be either.
`MutableContext` has the registers, the type and index of each `Mutable`, who is `held` by a client,
`stale` (freed but still pointed to) and `used` by an instruction.

### OwnedRef

Variables and the fields of objects are handles; `ref_count` is the count in the object. An assignment is
split where the code is: `Assign`/`reset` is everything up to the end of `unref`, `Destroy` one destructor
(which releases the field of what it destroys, so chains die link by link), and `Copy`, `Move`, `PutNull`
what comes after, when the source is read. `HeldWithout(h)` is what stays owned if handle `h` is left out:
a client may name a source it holds independently of the target.

### FunctionBody

`made` are the functions and blocks that exist, `held` those a client has an owned pointer to, `defined` the
functions with a body, `blocks` and `entry` the body, `parent`, `status`, `self_node` and `target` the fields of a
block (one target at most: what terminators do is `BlockCFG`'s matter), `functions` and `global_variables` the maps
of a module. Insertion takes the function from which the modifier was made apart from the list it really points
into (`InsertInto(f, k, l, b)`), because `get_iterator` pairs the list of a block's parent with the node of its
proxy and nothing compares the two; `ActionPred` gives the new block the parent of that list's last block, and
protects a block from removal by asking its parent for the entry. There is no removal signal: a removed block
keeps its parent and stays `CONNECTED`. `CleanList` is `RefList::clean` on a body. Its loop
steps on before it resets an element, so that the second block dies before the first and the others in their order
(`Sooner`); the destructor of one that was not finalised unregisters its edge *in the target*, which may be gone
(`Reaches`, remembered in `touched`). `~Function` finalises all blocks first, `disableBody` none. A name that is
replaced or erased may be the last owner of a function, whose destruction is part of that step (`Lose`).
`setDefinition` is `setFunction` or `setGlobalVariable`, by kind.

### Types

`obj` is the sequence of type objects, `type_set` and `ity_map` the two tables of the context; `hash` and
`fully_equals` are recursive functions over the objects, class by class as the virtual functions are (array
equality ignores the length, void equals nothing, a pointer type only itself). The hashes are the code's numbers
(`hash_combine`, `value_hash`, `array_hash`, ...) in `size_t`, whose size is `HashSize`: they are linear, and the hash
of a nested array tells the *sum* of its lengths only (section 3). One call of each is an operator of its
own (`get_hash`, `type_equals`) that is given the answers for the parts. A request is one action that registers
its parts and then looks for a twin. `last` has what was asked for, as a *shape* computed without the code's hashes
and equalities, and what was answered. How much of the shape is looked at is in it too (`seen`): `getIntType` leaves the
sign open, and the lengths of arrays are looked at in an array whose element has none (`Told`, `Rigid`: an
array of numbers or of pointers, for instance, but not an array of arrays) and left out elsewhere. Sizes, alignments and offsets are those of `irbase-type.cpp`; `Word` is
the context's word and `GlobalWord` the one a type without a context uses.

### Coloring and LinearScan

One action per turn of a loop of the program. `Coloring`: `build` makes the graph from the live states (only the
first node of a state interferes, with all others and with itself), `simplify` moves node after node to the stack,
`choose` and `spill` take them back with their edges, `rewrite` and `again` lead into the next round; `coalesce` has
nothing to merge, since nothing fills `M_edge`. `LinearScan`: `remove` takes back ended registers, `scan_choose` gives the
register that has been free longest to the waiting variable that ends first, `scan_spill` erases what waits from the
pool through iterators collected before (`Erase`), `advance` counts on. `interval` is uninitialised in the code: it
starts anywhere in `Intervals`. `given` is what the output shows.

### Mem2Reg

`phase` follows `runOnFunction`: collect, analyse and delete dead allocas, insert phis, rename with the worklist,
erase from the back, prune dead phis, and again until there is nothing to promote. `BB` and `it` are the loops over
blocks and over the instructions of one: collecting looks at one instruction a step (`CollectInst`), and so does the
renaming (`RenameAlloca`, `RenameLoad`, `RenameStore`, `PassOver`), between taking a block from the worklist with the
phis at its head (`VisitBlock`) and handing its values to the successors (`FillSuccessors`). `FunctionsAssumption` is
in three parts. `Verified` is what LLVM's verifier makes sure of: one alloca of a variable, in any block, that dominates the
accesses and the stores of its address, and a load whose value is stored dominates the store. Dominance is stated there
without paths: a set of blocks with the entry that is left through the dominating block only. `Reachable` and
`AddressesKept` are *not* guaranteed by LLVM: that every block is reachable, and that no store has the address of a variable
as its value. The pass goes wrong on functions that are not so (section 3), and nothing here is said of them. TLC checks
the assumption for the functions of the run. Allocas outside the entry are in the model: the pass leaves them alone. Values are symbolic: undef, what an instruction computed, a load, a phi. When the pass is done the function *runs*, with its memory and with
the values put in place of its loads at once, on every path; a phi reads its operands at the edge taken, and a new
result of the same instruction has another mark than the one before, so that a value of an earlier turn of a loop
is told from one of this turn. Dominators and frontiers are LLVM's (external), by their definitions.

### AstGrammar, Ast and ExprCheck

A tree is a sequence of nodes in preorder; `AstGrammar` has one operator for each rule of `ast-parser.y`, so that the
programs of the runs are ones the parser builds. What the proofs need of the grammar, and no more, is the assumption
`ProgramsAssumption` of `Ast`: which class can be a child of which (`Under`), that functions, calls and definitions have
their parts in their order (`Shaped`), and that the sequence is in preorder (`ProgramTree`); TLC checks it for the
programs of the runs. In `Ast`, `left` are the items the parser has not handed over yet,
`node` has the fields of each node (`scope`, `definition`, `control_node`, ...), `table` the entries of the
scopes. The recursion of `register_this` and `accept` is a stack of calls, and one step makes the call on top; a call
that fails drops its callers up to the one that ignores the answer, which is recorded in `answer`. A `Variable` registers
its dimensions, where failure is its own (`:162-164`), then its initial value, whose failure it ignores (task `"init"`), and
then enters the scope (task `"add"`). Parents are those the
constructors really set (`Adopted`), pointers that no constructor sets are `Unset`. A climb that never ends
(`Spins`) is a step that changes nothing. `ExprCheck!calculate` is the visitor as a function of the expression:
a value, not constant, thrown, or `Wild` where the code follows a null or unset pointer; `Worth` is what the
expression is worth when the program runs, by C's rule for nested initialisers, without the indexer.

### Calls

In `BlockCFG`, `UseDef`, `MutableContext` and `FunctionBody` the constant `Calls`, in `OwnedRef` the constant
`Misuses`, is the set of public calls, or circumstances of calls, after which the code breaks one of its own promises or has
undefined behaviour. With the empty set the model has every other call; adding a name adds that call. This makes
it possible both to show that the rest keeps its promises and to show what each of these calls destroys and
what survives it.

## 3. Observed divergences

Places where the code departs from its own comments, from its names or from defined behaviour, met while
modelling. One is a finding in `PROJECT.json` with a run of its own (`frontend_fold`). Any other row with a
property can be reproduced: copy the named configuration, put the name in `Calls` or `Misuses` (if there is one) and the
property as its only INVARIANT or PROPERTY. Rows without a property are from reading the source; the model has
the behaviour described, or does not enter it.

### Lists

Two properties of `RefList` are stated that fail after `clean()`: `SelfIterator` (proxies of elements kept
alive elsewhere point to deleted nodes) and `LengthExact` (`_length` is not reset, `mtb-reflist.hxx:650`).
Put one of them as the only INVARIANT of `MCRefList.cfg`.

### Blocks and graph (`MCBlockCFG.cfg`)

| name | call | what fails |
|---|---|---|
| `switch_replace` | `SwitchSSA::replace_target` on a case: `parent->addComesFrom(new_target)` instead of `addJumpsTo` (`ir-instruction-ctrl-flow.cpp:1010`) | `Mirror` |
| `split_front` | `split` at the first instruction: `block_move_all` appends behind the new block's own terminator (`ir-basicblock.cpp:98`) | `SplitPreservesOrder` |
| none | `set_terminator`: `RefList::replace_this` moves no proxy (`mtb-reflist.hxx:749`) | `TerminatorIterator` |
| `edit_detached` | a setter of a terminator whose `_parent` is set but which is not mounted registers its edges, and mounting registers them again (`:232`) | `EdgesExact` |
| `clean_static` | `clean_targets` of a branch or a switch drops edges and keeps the pointers (`:487`, `:1041`) | `EdgesExact` |
| `switch_remove_if` | `SwitchSSA::remove_target_if(TraverseClosure)` unregisters the default target for each case it erases (`:975`) | `EdgesExact` |
| `unplug_ending` | `unplugThis` of a terminator: refused by the list, status written (`ir-instruction-base.cpp:275`) | `SingleOwner` |
| `after_ending` | `append` on the terminator's modifier is accepted (`ir-instruction-base.cpp:97`) | `WellFormedBlocks` |
| `adopt_connected` | a block made with, or given, a terminator that is mounted elsewhere | `WellFormedBlocks` |
| `phi_remount` | a phi is never `CONNECTED` (`ir-instruction-base.hxx:401`), so a second insertion is accepted | `SingleOwner` |
| `replace_plain` | `Modifier::replace_this` on an ordinary instruction moves no proxy | `SingleOwner` |

### Use-def (`MCUseDef.cfg`)

| name | call | what fails |
|---|---|---|
| none | constructors register no use, so `removeThisIfUnused` sees no users (`ir-instruction-base.cpp:280`) | `RemovedOnlyIfUnused` |
| `rhs_as_lhs` | `set_rhs` of a binary instruction or shift compares with the left operand (`ir-instruction-binary.cpp:410`) | `SwapSwaps`, `RegisteredIsOperand` |
| `refused_late` | setters of getelementptr (collection), extract, insert and return take the use off and then throw | `RegistrationKept` |
| `clear_kept` | `ReturnSSA::set_result(null)` and `CallSSA::setArgument(null)` unregister and keep the field | `RegistrationKept` |
| `swap_argument` | the closure of a call argument never assigns (`ir-instruction-call.cpp:20`) | `SwapSwaps` |
| `swap_refused` | a swap to a value the class refuses: registered on the new value, or on none | `RegisteredIsOperand` |
| `phi_edit` | `setValueFrom` of a phi overwrites, `remove` erases, both leave the use on the old value's list | `RegisteredIsOperand` |
| `cast_finalize` | `CastSSA::on_parent_finalize` keeps the registration and never becomes `FINALIZED` | `RegisteredIsOperand` |
| `function_finalize` | `on_function_finalize` of most classes drops operands without unregistering | `RegisteredIsOperand` |
| `destroy_registered` | an instruction destroyed without being finalised leaves its uses on other values' lists | `RegisteredIsOperand` |

Guards, not names, stand for: `UnaryOperationSSA::on_parent_finalize`, which calls its own setter with null
and dereferences it (the action is only enabled without an operand); `swapUseeOut` from or to null, which
does the same; `SwitchSSA` finalisation without a condition. `ReturnSSA` and `BranchSSA` check no type at
creation, and `InsertElemSSA::Create` asks the element for the array's own type (`ir-instruction-insertelem.cpp:14`):
`OperandTyped` has these two as its exceptions.

### Registers (`MCMutableContext.cfg`)

| name | call | what fails |
|---|---|---|
| none | `IDAllocator::free` adds 2 twice (`mtb-id-allocator.cpp:89`): `freeMutable` answers OK and the register stays | `FreedIsFree` |
| `stale_free` | a pointer that was freed is freed again; its index now belongs to another client (`ir-constant-function.cpp:86`) | `HeldStaysAllocated` |
| `reenable` | `enableMutContext` over an existing context drops it (`ir-constant-function.cpp:339`) | `HeldStaysAllocated` |

### Owned handles (`MCOwnedRef.cfg`)

| name | call | what fails |
|---|---|---|
| `self_assign` | `p = p` with the only reference (`mtb-object.hxx:228`) | `NothingFreedIsRead` |
| `through_target` | `p = p->next` if only `p` holds the object: the field is freed before it is read | `NothingFreedIsRead` |

### Functions and modules (`MCFunctionBody.cfg`)

| name | call | what fails |
|---|---|---|
| `disable_jump` | `disableBody` (`ir-constant-function.cpp:291`) drops the blocks without finalising them: a block that jumps to one freed before it, to an earlier one or the first block to the second, unregisters its edge in freed memory | `NothingFreedIsTouched` |
| `free_target` | the last owner of a block that another one still jumps to lets it go | `NothingFreedIsTouched` |
| `set_entry_unlisted` | `set_entry` (`ir-constant-function.cpp:313`) accepts any block whose `_parent` is the function; a removed block keeps its parent | `WellFormedBodies` |
| `insert_listed` | `ActionPred` accepts a block that is in a list already | `WellFormedBodies` |
| `replace_stale` | `replace_this` gives the new block no proxy, and one it had already stays | `WellFormedBodies` |

A removed block stays `CONNECTED`, since the list sends no signal on removal. The comments of `ActionPred` speak of
the first block of a function where the code protects the entry (`ir-basicblock.cpp:22-28`).
`GlobalVariable::CreateDefault` drops its `default_value` (`ir-constant-definition.cpp:111`), and `set_target`
never assigns `_target` (`:135`).

### Types

- `getIntType` ignores the signedness asked for if the width is known, and a width of 256 or more is cut to 8 bits.
- A type made by `getIntType` gets no context, and `get_instance_align` of it dereferences null (used by alloca,
  unary, store and global variables): `ElementsApart` leaves such elements out.
- `VoidType::fully_equals` is always false, so that types made from void, and all pointer types, are never shared;
  array equality ignores the length, which only the hash tells apart. `Interned` excepts types made from void.
- The hash of an array is that of its element plus a constant and four times its length (`irbase-type.cpp:16-28`,
  `:354-360`), and equality ignores the lengths: a context that has made `[2 x [3 x i32]]` answers a request for
  `[3 x [2 x i32]]` with it, though `irbase-type.hxx:302` says to nest arrays for several dimensions
  ("多维数组类型请使用数组套数组来模拟"). The same goes for a function type with such a parameter. With lengths 0 and 3 and
  `Details` for `seen` everywhere in `Types`, TLC finds the first such request; `Interned` leaves these lengths out.
- The owned `getOrRegisterType` reads the pointer it has moved from (`irbase-type-context.cpp:47`); a type of a new
  width made by `makeType<IntType>` does not enter the map, and a later `getIntType` makes a second one.
- The list form of `getMultiDimensionArray` decrements a reverse iterator (`irbase-type-context.cpp:118`).
- `FloatType::canCastTo` switches on its own type id, not on that of the target (`irbase-type.cpp:305`).

### Allocators (`MCAllocators.cfg`)

| property | what fails |
|---|---|
| `LiveTogetherDiffer` | a live state makes edges from its first node only, so two later nodes of a state may share a register (`gra-coloring.cpp`, `build`); with a live state of three nodes in `MCLives` |
| `SpillsWaiting` | `spill` erases through iterators collected before the first erasure, so that a variable that is not waiting may go, or the last one (`LinearScan.cpp:198`) |

`M_edge` is never filled: `coalesce` has nothing to do. `interval` has no initial value; `AllocatorsEnd` shows that the
scan ends whatever it is.

### mem2reg

- A dead alloca is erased and analysed all the same (`mem2reg_pass.cpp:192-197`), and since allocas are collected
  once for every block of the function, a dead one is erased again. The model goes to phase `"undefined"`, or goes on
  where the build may.
- For the same reason a variable has as many phis in a block as the function has blocks; those nobody reads are
  pruned, except dead ones that refer to each other.
- `isPromote` takes a store *of* the address for a store to it (`mem2reg_pass.cpp:123-138`): the alloca is promoted and
  erased while that store uses it. An unreachable block has no node in the dominator tree, which `calcuDf` dereferences
  (`:46-52`). LLVM's verifier accepts both; `AddressesKept` and `Reachable` leave such functions out of the runs and of
  the theorems. `rewriteSingleStoreAlloca` (69-110) is never called.

### Front end

- A `continue` inside a block never finds its loop: the climb starts again at its own parent in every turn
  (`ast-node-statement.cpp:316`). `Halts` has it as its premise (`Spins`).
- A `break` takes the *outermost* `if` or `while` as its control node (`:264-269`); in an else branch it finds none,
  because the constructor of `IfStmt` tests the parameter it has moved from (`:131`).
- `ReturnStmt` dereferences its expression, which a plain `return;` does not have (`:218`).
- The name of a call that no function has keeps an unset `_definition`, which the printer dereferences
  (`ast-printer.cpp:124-130`); a second constant of a name is dropped silently, and the last function of a name wins.
- An element of an array parameter is folded to the constant 0 (`expr-checker.cpp:321`): a parameter is a constant
  variable without an initial value. Run `frontend_fold`: `FoldsConstantsOnly` is violated.
- `AstIndexer` skips a nested list only if the step after it is *below* the goal (`expr-indexer.cpp:94`), so an
  element at the start of the next list is looked for in the one before and taken for zero: `Folded` lets indexed
  elements be zero.
- `list_is_constant` answers false for every nested list (`expr-checker.cpp:209-220`), and a constant array
  initialised by a scalar is dereferenced as a list: the test is of the wrong variable (`:327`). `AstArrayFiller` has no caller.

### Constants (not modelled)

Multiplication and division of `FloatConst` read the left operand's bits twice (`ir-constant-data.cpp:307`, `:318`,
`:329`); `udiv` and `umod` do not test for zero, and `umod` calls the signed remainder.

## 4. Runs and bounds

| run | asks | bounds |
|---|---|---|
| `reflist` | is every operation on pointers the sequence operation it stands for? | 2 lists, 3 elements, 3 addresses: an element can move between lists, an address be reused, a node be first, last, both or in the middle. `MaxLength` 4 caps the length that `clean` leaves behind |
| `blocks` | do blocks stay well formed, with every instruction in one place, and are both copies of the graph exact? | 2 blocks, 2 ordinary instructions, 1 phi, 2 jumps, 2 unreachables, a branch, a switch with a case: each block with a terminator and spare ones to exchange, slots that coincide, self loops. The constraint `Populations` keeps two populations: jumps with any two ordinary instructions or phis, or one jump with branch and switch |
| `calls` | what survives the calls that break the list or the graph? | 2 blocks, 2 ordinary instructions, an unreachable, a switch with a case or (`OneEdited`) a branch, and six breaking calls; lists of at most 2 (`MaxLength`) and counts of at most 1 (`MaxCount`) before a step, because counts can pile up without bound |
| `uses` | do fields, user lists and types stay together? | 1 instruction of each of the 21 classes (five of them casts) beside a load or a cast that can be its operand, 6 leaves covering every type with two ints to exchange |
| `functions` | do bodies keep their entry, and does no destructor reach into a freed block? | 2 functions, 3 blocks, a global, 2 names: a body of three blocks with any jumps, two bodies, a function with two names, one name that changes its kind |
| `mutables` | do the two stacks partition the entries, and does no client lose a register? | 5 `Mutable` objects, 2 types, 3 registers (`MaxEntry` 4): a middle, a top and a bottom entry on each stack, replacement by type |
| `owned` | are counts exact and pointers live through recursive destruction? | 3 variables, 3 objects with a field each, one of them inline: chains of three, cycles, shared targets |
| `types` | does a second request find the first one's object, and do array elements lie apart? | requests built upon void, i32 and each other, up to 3 types beyond the predefined ones (`MaxObjects` 12), so that arrays of arrays are nested and collide: width 33, lengths 0 and 3, one parameter, words of 4 and 8 bytes; hashes of 16 bits (`HashSize` 65536), enough for those of the run to differ where 64 bits make them differ |
| `allocators` | are both allocations proper, is nothing spilled for nothing, do both programs end? | every graph over 5 nodes with 3 colours: K5 and K4 do not fit, rounds with several spills happen; every list of 4 variables in times 0..3 with 2 registers, the counter starting at -1..3: more variables alive than registers, several waiting at once |
| `mem2reg` | does every load become what it would have read, and does the pass end? | 5 flow graphs of 4 blocks (join, loop, loop with exit, join in a loop, doubled edge) with three snippets in two blocks and two in the last, the entry storing or not; two variables that change places in a loop; a loop with an alloca of its own; a single block with a dead alloca |
| `frontend` | do identifiers mean what they should, is registration complete, folding right, and do the walks end? | families of programs put together by the grammar: a declaration before each statement, nested and compound ones; globals, parameters and expressions; two functions in either order that may have one name; each operator over each kind of value; elements of arrays of one and two dimensions, given flat, nested and in part |
| `frontend_fold` | is only what is constant folded? (no: the finding) | two functions that read an element of a parameter |

Deadlock is checked for `reflist` and `owned`. Elsewhere instructions can be used up (destroyed
instructions, mounted terminators), registers can run out, or the program ends: stopping is not an error.
Symmetry is used for sets of interchangeable model values only; no run with symmetry checks liveness.

Fairness: weak fairness of the next-state relation in `Coloring`, `LinearScan` and `Ast`, and of the pass in `Mem2Reg`
(`WF(Pass)`; the run of the function after it may loop for ever). Each is one sequential thread in a loop, or a
recursion, that nothing but its own end stops: the next turn is taken if there is one. `AllocatorsEnd`, `Returns` and
`Halts` are therefore about termination: a round of colouring spills a node that was not spilled before, the
scan's counter passes the last start, each round of the pass removes the allocas it found, the stack of calls empties.
The other components run when they are called, and nothing in the code obliges a client to call; no fairness is
assumed and their properties are safety and action properties.

Stated in the modules and left out of the runs: properties that fail, as section 3 says (`SelfIterator`, `LengthExact`,
`TerminatorIterator`, `RemovedOnlyIfUnused`, `FreedIsFree`, `LiveTogetherDiffer`, `SpillsWaiting`), those the
others rest on and the proofs establish (`ConflictsKept`), and type invariants: those of `RefList`, `UseDef`,
`MutableContext`, `OwnedRef` and `Ast` are proved, that of `Coloring` as a part of its invariant.

## 5. Proofs

Each theorem holds for every value of the constants that the module's named assumptions allow.

| module | theorems | inductive invariant and argument |
|---|---|---|
| `RefListProofs` | `TypeCorrect`, `AlwaysDoublyLinked`, `AlwaysLengthCovers` | links agree in both directions and stay inside one list; a node's parent is its list; the number of items is bounded by the length through the cardinality of the item set |
| | `RefinesSequence` | `Toured`: each list has a *tour*, a sequence of all its nodes, each once, along which `next` leads from sentinel to sentinel. Two walks over as many nodes are one walk (where they first differed, the stop before would lead to both), so that the tour is the walk `Contents` follows (`OneWalk`, `TourIsWalk`). An operation inserts a node into the tour of its list, removes one or keeps it, and `DoublyLinked` says at which place; the other lists keep their nodes and pointers (`StepOn`). What lies along the new tour is then the insertion, removal or exchange in what lay along the old one |
| `BlockCFGProofs` | `AlwaysSuccessorsCovered` (whatever `Calls` is), `AlwaysMirror` (without `switch_replace`) | every step changes the graph by registrations and unregistrations, each of which preserves the relation of the two copies; the invariant is the property itself |
| | `AlwaysTyped` (whatever `Calls` is), `AlwaysWellFormedBlocks`, `AlwaysSingleOwner`, `AlwaysSplitPreservesOrder` (under `ListsRespected`: the six calls that break a list are not made; those that break the graph may be), `AlwaysEdgesExact` (for `Calls = {}`) | `Placed`: types, well-formed blocks, single owners, and `Founded`: blocks that do not exist have no lists, only terminators that exist are in lists, a terminator's proxy never stands on an instruction of another class. A list changes by one insertion or removal at a place a proxy names, by an exchange of endings, or by a split, and a lemma each says what that does to every position. `Exact` adds that the edges recorded at a block are its terminator's targets with multiplicity, and that terminators yet to be made have none |
| `UseDefProofs` | `TypeCorrect`, `OperandsStayTyped` (whatever `Calls` is), `UsersAreOperands`, `RegistrationsFollow`, `SwapsSwap`, `ReplacesAll` (for `Calls = {}`) | `TypedInv`: types, existence of the operands' instructions (an operand was constructed), and operand types together: the type of an operand that is an instruction must not change while it is one. `RegInv` adds that a use is at most on the list of its operand, once, and only at a position its class has, since a dying instruction is asked about no others. A setter, closure or swap in a *sound* state moves one use (`On`) or keeps what is there (`Kept`), class by class; a replacement makes up to three swaps in states the client's conditions were not stated about (`ReplaceStep`) |
| `OwnershipProofs` | `TypeCorrect`, `StacksStayApart`, `HeldIsKept`, `UnusedHandedOut`, `DisabledIfUnheld` (for `Calls = {}`) | the shape of the stacks (`Shape`: each entry's successor is on the same stack, successors differ, used entries know their predecessor, every entry is reached from the head its flag says), the indices of registers, and that the counter is at least the number of used entries clients hold |
| | `OwnersTypeCorrect`, `CountsExact`, `HandlesPointToLive`, `SourceSurvivesUnref`, `NobodyIsLeftOver` (for `Misuses = {}`) | `Good`: counts equal the number of *counted* handles, these point to live objects, what has no count is dying or stolen; the target of a suspended assignment is not counted. `PendingNamed`: that assignment's handles are owned independently of the target. Since the set of live, not dying objects is closed under ownership (`SafeHeld`), the handles survive |
| `ModuleProofs` | `BodiesStayWellFormed`, `NamesStandForOne` (under `BodiesRespected`: the three calls that break a body are not made), `NothingFreedIsEverTouched` (for `Calls = {}`) | `Bodies`: types, `WellFormedBodies` and `ProxiesTrue` (a proxy that is neither null nor stale stands on a node of the list of its block's parent, so that the modifier a client makes from it fits), none of which holds without the others. `Table` adds that functions in the table exist. `Jumps` adds that a jump leads from a block that exists to one that exists: the blocks that go take their jumps along, no survivor jumps to them (`free_target`), and `~Function` has finalised every block of the list, so that the blocks have no edges left when they die, in whatever order |
| | `TypesInterned` | a type is made from types that were there before it (`Founded`), so that the recursions over the parts of a type - hash, equality, shape, being made from void - are well-founded, and whatever is wrong with one type is wrong with a least one. By that argument equality tells everything about two types but the lengths (`EqualAlike`), and the same shape has the same hash (`SameHash`); what has the same shape and is not made from void is therefore found (`AlikeTwins`), and what is found has the same shape but for lengths (`TwinsAlike`). The hash tells the length of an array when equality has told that the elements are alike and these have no lengths of their own (`LengthTold`, by the arithmetic of `hash_combine`). A new object changes nothing about the old ones (`OldShapes`). The invariant `TypesInv`: what a search finds for an object is that object and nothing else (`Distinct`), every object is in the set, the map has every integer type there is under its own width (`Mapped`; without it `getIntType` would make a second one), and the last answer is what was asked for. Requests that ask in two steps (function pointers, two-dimensional arrays) compose answers (`RepliedOn`) |
| | `ElementsLieApart` | no step but those of `TypesInv`: what an element takes (`Aligned`) is the lesser of its size rounded up to a power of two and to words, its alignment the lesser of that power and a word. If the power is the lesser rounding, either both are it or the word divides it, since of two powers of two the smaller divides the larger (`PowersDivide`); else both are multiples of the word (`AlignedApart`). Then the offsets are multiples of multiples (`MultipleRest`) |
| `FrontendProofs` | `LexicalScoping`, `RegistrationComplete`, `VisitEndsWell`, `Typing` | the invariant is about the whole stack of calls (`Walking`). Each call stands for a part of the tree it has still to register (`Root`); any two are for disjoint parts, and within an item of the file the part of the upper one comes first in the source (`Pair`); above a caller that ignores a result there are only calls for what is inside its node (`Caught`), so that a failure drops these and no others; a node with an answer has no call left in it (`Answered`); what is in an item is left to a call, lost under an answer *false*, or done (`Covered`); and what is entered in a table comes before every identifier still to be looked up that it could be known in (`EntriesBefore`). Whatever a `register_this` does is one of two things, to hand what is left of its part to other calls or to none (`WalkOn`), or to fail (`WalkBack`), and each keeps the invariant; the rest is which class does which (`StepOn`, `StepBack` and the lemmas that use them). What a search outwards finds is the innermost entry, by the least scope in which it could be wrong (`Climbing`), since a scope's node comes before what it encloses. `FunctionsLast` (the function kept is the last of its name) and `Parsed` (what is left is the beginning of the file) describe the parser; `Walked` is what `Covered` leaves when the stack is empty, and all the visit needs |
| `BackendProofs` | `ResultIsProper` | every node is in the graph or on the stack, once (`Stacked`); of two nodes in conflict that are not in memory, both are in each other's list, or the lower one on the stack has recorded the other (`Kept`); while colours are given, nodes back in the graph differ in colour from their neighbours (`Selected`). Any graph, any number of nodes, colours and rounds |
| | `SpillsAreCrowded` | neighbours, in the graph or on the stack, are rivals or the node itself (`Bounded`); a node that `select` spills has a neighbour of each colour, which is a pigeonhole argument about its rivals |
| | `RegistersNeverClash` | a free register holds nobody and is free once (`FreeAreIdle`); a variable that was given a register has started, and is still in it or ended before the counter (`GivenAreThere`). Starts and ends are integers, in any order and number; the counter starts anywhere, and the erasures of `scan_spill` may take any variable |
| | `StaysVerified` | `PassInv`, phase by phase. The worklist reaches a block only after every block that all ways to it lead through (`Spreading`, over every set `Around` the entry), and each block reached (`Filling`: at the end every edge has given its phis an operand; a phi's operands from a block and the edges from it are as many, by a bijection between places of two sequences). A load whose value is stored was therefore replaced before the store was looked at, by a value that *stays* (undef, a phi, what an instruction computed, or a load of memory nobody promotes), and the values carried stay too (`Carrying`). The instructions to remove are listed once each, an access after its variable's alloca (`RemovedOnce`), so that erasing from the back never leaves an access without its alloca |
| | `OneRound` | the same invariant: whatever the renaming has been at is listed or erased (`Handled`), it has been at every instruction, and the list of variables has every alloca of an integer in the entry not erased (`Listing`); so none is left (`Cleared`) and the second round collects nothing |

`CountsExact`, `AlwaysLengthCovers` and `SpillsAreCrowded` are the ones for which TLC's small instance says least: they
count, and the proofs go through cardinalities of sets of any finite size. `TypesInterned` assumes (`ConstantsAssumption`) that
the widths clients ask for fit the `uint8_t` that keeps them, as the widths asked for in `src/` do (0, 1 and 32): a width of
264 would be looked up under 264, made as 8 and be a second type of 8 bits; and that four times the longest length is less
than `HashSize`, 2^64 in the code, since beyond it lengths collide too. `ElementsLieApart` assumes (`WordsAssumption`)
that a context's word is a power of two, as machine words are, which the constructor does not check: with words of 6 bytes
an element of 8 would be aligned to 6 and the second one lie at 8. Sizes are numbers in the model and wrap in `size_t`. `StaysVerified` and
`OneRound` assume of the functions what the run's satisfy (`FunctionsAssumption`, section 2), two parts of which LLVM does not
make sure of: they are no statements about functions with unreachable blocks or with a store of a variable's address. And
they say nothing of a function the pass has gone wrong on already (phase `"undefined"`: a dead alloca, section 3). A theorem under `Calls = {}`, `Misuses = {}`, `ListsRespected`
or `BodiesRespected` says what the code does for clients that do not make the calls of section 3: the calls are the ones the
code gets wrong, and each run or theorem with fewer of them excluded says what survives.

Only model-checked, and why:

- `LoadsAgree` of `Mem2Reg`: it compares an execution after the pass with one before it, along every path, in which a block is
  a fold over its instructions, and it rests on dominance frontiers, which are recursive functions. These are inductions over
  data: the library's theorems for it take an operator as a parameter, which none of the provers can instantiate. (Where a proof
  above argues about positions of a sequence, the parts of a type or nested scopes, the least one that is wrong, `LeastNatural`, does instead);
- `Folded` of `ExprCheck`: it compares the result of one recursion over a tree with that of another, by RECURSIVE operators,
  which no module with a proof may reach;
- liveness (`AllocatorsEnd`, `Returns`, `Halts`), which is out of the prover's reach altogether.

## 6. Not modelled

`PROJECT.json` lists every component with its status. Left out on purpose:

- text in and out: lexer, parser tables and locations, the printers' output, writer, driver;
- wrappers and declarations without an implementation (macros, exceptions, builder, visitor, `ValueIDManager`,
  fallback headers), and `InstructionSimplify`, which does not compile;
- in `RefList` the move constructor; in `BlockCFG` destructor signals, the deprecated `clean` and closures of
  clients; in `UseDef` the uses of jump targets and of constant expressions; in `IDAllocator` the constructors
  from lists of ids; in `OwnedRef` a failing moving `dynamic_pointer_cast` (the source forgets its reference, the
  object leaks) and `make_owned`'s handler, which deletes an uninitialised pointer when a constructor throws;
- in `FunctionBody` the arguments and the values of globals; in `Types` conversions; in `LinearScan`
  variables of several ranges; in `Mem2Reg` functions with unreachable blocks or stored addresses, which LLVM accepts; in the front end ranges of
  text, string values, integer overflow and rounding of floats;
- constants, `APInt` and code generation: not yet (see the plan).

## 7. Plan

Next, in this order:

1. `Constants`: the value pool, constant expressions as users, folding at fixed widths (with `APInt`).
2. The uses of jump targets in `UseDef`, composed with `BlockCFG`'s slots, and function arguments.
3. `CodeGen`: what exists of it - variables, scopes and binary expressions.
4. Theorems: parts of the front end's registration that need no induction (a node is registered once, under its parent).
