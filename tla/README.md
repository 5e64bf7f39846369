# A verification development for Sypherc

Sypherc (`src/`) compiles a small C-like language, Sypher, to x86-64 assembly. It is one sequential C
program: `main.c` reads the file, `lex_and_parse` (`parser.c`) builds an AST statement by statement with
the help of the lexer, `type_check_prog` (`type_check.c`) walks it, and `target_codegen_prog`
(`code_gen.c`) walks it again and prints instructions through the back end (`arch/`). Nothing runs
concurrently and nothing is persisted except the output file. What is hard here is *sequence*: state
shared by all recursive activations (the register pool, the state of the call being prepared, the running
precedence, pointers into a tree that is rearranged under them, a tree of contexts that three passes walk
by counting), whose correctness depends on how the nodes of the program happen to nest. A test exercises a
handful of nestings; the models below take all of them up to a bound, and the proofs some of the results
for all of them.

## Inventory

| component | state it keeps | operations | hard part | modelled in |
|---|---|---|---|---|
| lexer (`lexer.c`) | position in the file, current token (one shared buffer) | `lex_token`, `check_next_token` (peek and restore) | end of file: the token buffer is overwritten and not restored | Lexer |
| parser, expressions (`parser.c`) | `curr_expr`, `running_expr`, `running_precedence`, open calls | `parse_tokens`, `parse_binary_infix_op` | the tree is rearranged in place while pointers into it are held; one precedence for a whole statement | ExprParser |
| parser, statements (`parser.c`) | the parsing stack, `*context` in the tree of contexts | `parse_tokens`, `stack_operator_continue`, `lex_and_parse` | stack and context are opened and closed in many places that must match | BlockParser, Contexts |
| environments (`env_funcs.c`) | linked lists of bindings, one per name space and context | `set_env`, `get_env`, the walks up the context chain | the last binding is never compared; shadowing | Env, Contexts |
| AST (`ast_funcs.c`) | nodes with child / next-child links | `node_alloc`, `copy_node`, `add_ast_node_child` | deep copies against aliases | ExprParser |
| type checker (`type_check.c`) | position in the tree of contexts (`context_to_enter`) | `type_check_prog`, `type_check_expr` | must consume child contexts in the order the parser created them | TypeChecker |
| code generator, values (`code_gen.c`) | register pool, `CGContext` chain, call state | `target_codegen_prog`, `_func`, `_expr`, `reg_alloc`, `reg_dealloc` | who frees which register; results read after they were freed; stack offsets against the real stack pointer | CodeGen, Backend |
| code generator, names (`code_gen.c`) | `ctx_next_child`, `local_env`, `local_offset`, label ring | the same traversal, `gen_label`, `map_sym_to_addr` | names looked up in one flat list per function; labels held while others are generated | ScopedGen, Labels |
| back end (`arch/`) | `ArchData`: kind, argument count and saved-RAX flag of the call being prepared | one function per operation, through `platforms.c` | fixed registers (idiv, shifts, calls) against live values | Backend |
| command line (`main.c`, `utils.c`) | options | the three passes in order, `print_error` (prints and exits) | I/O | Compiler (the order) |

Interaction is by calls and shared structures only: the parser and the code generator share the AST and
the operator table; parser, type checker and code generator share the tree of contexts, in which nothing says which
block of the AST belongs to which context; all code
generation contexts share one register pool and one `ArchData`; all copies of a lexing state share one token
buffer.

Correctness, per component. Lexer: no character lost or read twice. Parser: no token lost or moved by the rearrangements, an AST shape the code
generator can rely on, pointers that stay in the tree, a context that goes with the parsing stack. Pool and code generator: registers in use are exactly those of
pending results, none is overwritten before it is consumed, each body returns its last value, each
variable keeps its cell. Back end: the call state describes the call being prepared and the stack is
balanced. Environments and contexts: together, nested scopes; the three walks agree on them. Labels: what is printed
is what was handed out. The full list of what could go
wrong, at the lines where it bites, is `hazards` in `PROJECT.json`.

## Modules

    Operators ---- the operator table (names and precedences)
      ExprParser -- parse_tokens for one expression statement
        ExprParserProofs
      Backend ---- register pool, ArchData, emission functions; EXTENDS X86 and Operators
        CodeGen -- the traversal of the AST with values; EXTENDS Backend and Env
          MCCodeGen -- parameter names for TLC
          CodeGenProofs, ValueProofs, CallProofs
    X86 ---------- the emitted instructions, executed on symbolic values (outside src/)
    Env ---------- the linked-list environments
      Contexts --- the tree of parsing contexts, and the AST as the passes hand it on
        BlockParser -- the statement level of the parser; instantiates ScopeTable
          BlockParserProofs
        TypeChecker -- the walk of type_check.c
        ScopedGen --- the walk of code_gen.c with names and labels; EXTENDS Labels
        Compiler ---- the three passes one after the other
          MCCompiler - types of variables, symmetry and a bound for TLC
          CompilerProofs (EXTENDS BlockParserProofs), WalkProofs
    ScopeTable --- what nested scopes promise (abstract)
    Labels ------- gen_label
    Lexer -------- lexer.c and the parser's use of it
      MCLexer ---- texts for TLC
      LexerProofs

There are two groups, for two questions about the same traversals. In the first, expressions matter and scopes do not:
what happens to the *values*. In the second, scopes matter and expressions are lists of their operands:
what happens to the *names*. ExprParser shows that an expression's tree has its words in the
order in which they were read (`TokensInOrder`), which is what makes the second view of an expression right.

### Values

**X86** is the processor the output is meant for. The repository only prints instructions, so the module
is written from how the emission functions use them. Values are symbolic: a register holds "the value of
pending operand 2", "variable x", "the quotient of two given values" or junk. `Exec` knows what makes
the instructions delicate: idiv needs the dividend sign-extended into RDX, setcc needs a zeroed register,
shifts count in RCX, push and pop move the stack pointer, and everything beyond the stack pointer is lost.

**Backend** has one operator per emission function of `code_gen_x86_64.c` (through `platforms.c`), each
taking the back end record and giving the one after the call: bookkeeping on the pool (`used`), the call
state (`call`, `nargs`, `raxInUse`), the descriptor it returns (`res`) and the instructions, executed at
once on `cpu`. `live` is FALSE while the emitted instructions are jumped over at run time. `err` is the
`print_error` that ended the compilation. The Windows convention is modelled, the only one the code
implements.

**CodeGen** is `target_codegen_prog`, `_func` and `_expr`. The C recursion is the stack `ctl`, one frame
per activation; `vals` are the `result_reg_desc` of finished nodes that are still needed; `cg` is the
`CGContext`. The program is not an input: when the traversal reaches a place for a node, every kind of
node that the parser can put there is possible, so the behaviours are the compilations of *all* programs
with at most `MaxNodes` inner nodes. `AtomWanted`, `ExprWanted` and `RhsWanted` are the shape of
expressions, which ExprParser establishes (`RightOperandsBindTighter`). After each node the registers,
cells and globals are relabelled (`Settle`): the location of the result gets the name of the operand it now is, and
values nobody will look at again become junk. That keeps the state space finite and makes a
lost operand visible at once.

| code | CodeGen |
|---|---|
| `TYPE_INT`, `TYPE_VAR_ACCESS`, `TYPE_DEREFERENCE`, `TYPE_ADDROF`, `TYPE_ARR_INDEX` | `GenInt`, `GenVar`, `GenDeref`, `GenAddr`, `GenIndex` |
| `TYPE_BINARY_OPERATOR` before and after its operands | `BeginBinop`, `EndBinop` |
| `TYPE_FUNCTION_CALL`: setup, each argument, call and cleanup | `BeginCall`, `CallArg`, `EndCall` |
| `TYPE_IF_CONDITION`: condition, statements, end of each body | `BeginIf`, `IfCondition`, `IfStatement`, `EndThen`, `EndElse` |
| `TYPE_VAR_DECLARATION` | `Declare` |
| `TYPE_VAR_REASSIGNMENT` of a variable, through a pointer or into an element | `BeginAssign`, `EndAssign`, `BeginStore`, `EndStore` |
| `TYPE_FUNCTION` with `target_codegen_func` | `BeginFunc`, `EndFunc` |
| the statement loops and the return value | `Statement`, `LastStatement` |

**ExprParser** is the loop of `parse_tokens` on one expression statement. `heap` holds the nodes (`*curr_expr` is
node 1), `running`, `prec` and `stack` are `running_expr`, `running_precedence` and the `res` of the open
calls on the parsing stack. The tokens are chosen as they are read, so all statements of at most
`MaxTokens` tokens are covered, including those cut off by the end of the file and those with a
delimiter where an operand should stand. Actions: `ParseAtom`, `ParsePrefix`, `BeginCall`,
`ParseEmptyCall`, `SkipDelimiter`, `ParseInfix`, `CloseCall`, `NextArg`, `BeginAssign`, `EndStatement`, `EndOfFile`.

### Names

**Contexts** is what the three passes share. `ctxs` is the tree: a context has the chain of its parents,
its children in order and its variables (an `Env` list). `ast` is the AST as the preorder listing of its
nodes: an item for each operand, operator, declaration and bracket of the program. Two fields of an item are in no C node and are read by no
action of a later pass: `at`, the context the item was parsed in, and `means`, the declaration the parser found for its
name. They are what the properties compare the later passes with. `d`, the number of the declaration, is the identity
of the type node that the C code binds.

**BlockParser** is `parse_tokens` with `stack_operator_continue` above the level of one expression. `stack` is the parsing stack, `here`
is `*context`, and `ph` says what can be read next. As before, the tokens are chosen as they are read.

| code | BlockParser |
|---|---|
| a literal, a variable or an element of an array, `:=` behind either, an operator | `ParseInt`, `ParseVar`, `ParseAssign`, `ParseInfix` |
| `@`, `&` | `ParsePrefix` |
| a call, its arguments, its `)` | `BeginCall`, `ParseEmptyCall`, `NextArg`, `EndCall` |
| a declaration, with its initial value as a second statement | `Declare` |
| `if`, `{`, `{ }`, `} else {`, `}` | `BeginIf`, `BeginThen`, `EmptyThen`, `BeginElse`, `EndBlock` |
| `type : ( ) {`, `type : ( ) { }` | `BeginPlainLambda`, `EmptyLambda` |
| `type : ( type : name ) {`, the same with `{ }` | `BeginLambda`, `ParseParam`, `BeginLambdaBody`, `EmptyLambdaBody` |
| the next statement, of a body or of the program | `NextStatement` |
| the end of the file, with nothing open and in the middle of something | `EndOfFile`, `EndOfFileInside` |
| `Undefined symbol`, `Redefined` and the like | `Reject` |

An index is listed before its variable, because in the tree its node is above that of the variable (`Subscripts`). What can follow the
operand of a prefix is what closes or continues something: how an operator nests there is a matter of precedence, which is ExprParser's.

**ScopeTable** is the abstract specification: a stack of tables, the innermost last. `Open`, `Close`, `Reopen` (one scope
ends where the next begins, `} else {`), `Declare` a name once per scope, `Lookup` the innermost declaration.
BlockParser implements it (`ScopesAreATable`) with the refinement mapping `OpenScopes`: the contexts on the chain
of `*context`, each as the function its list of bindings stands for.

**TypeChecker** is `type_check_expr`. Its recursion is the stacks `levels` (a context and its `context_to_enter`) and `frames`
(the type of the list being checked); `cpos` is the node. One action per node kind, and for conditions and
functions one per phase: `CheckIf`, `CheckThen`, `CheckElse`, `CheckBody`, `CheckEnd`. Reading the child of a
context that is not there is `crashed`, not disabled. The prefixes of an operand wait in `pre` until its type is known (`CheckPrefix`,
`TypeOfPrefixed`). A type is a symbol and a pointer level, as `cmp_type_sym` compares them.

**ScopedGen** is the code generator once more: the walk over contexts (`glevels`, with `ctx_next_child` in `next`), the functions being generated with
`local_env` and `local_offset` (`funcs`), and the cell that each of the lookups yields, recorded in `cells` with how far from its beginning an element lies. `SizeOf` is what
`parser_get_type` says a variable takes. A variable is looked for in one way where its value is wanted (`CellOf`) and in another where its address is
(`TargetCell`); `ByAddress` says which. **Labels** is the ring of
`gen_label`, each character of it being the number of the label it was written for.

**Compiler** runs the three one after the other, as `main.c` does.

**Lexer** has the buffer character by character. What the parser asks for is left open: `LexToken` takes a token,
`CheckNextToken` compares the next one with an expected text, `CheckOperator` extends it as `parse_binary_infix_op`
does; `LexEndOfFile`, `CheckAtEnd`, `LexNull` and `EndOfProgram` are the same at the end of the file. All orders of them are checked,
which includes every order the parser uses.

Definitions marked *seeded fault* (`RegDeallocNothing`, `EndBlockKeepsContext`, ...) belong to no
specification. Each is the definition that follows it with one plausible mistake; putting it in the place
of the original must make TLC report the property it is paired with in `PROJECT.json` (`mutants`), which
shows that the property depends on the code being right.

## Runs

`Stopped` is the exited compiler (in Compiler and Lexer also the crashed one), so deadlock checking is on
everywhere and says that no pass ever gets stuck: in every reachable state some case of the code applies.

| run | question | bounds, and what they reach |
|---|---|---|
| `Exprs` | are operands safe in expressions of `< + - * / %`? | 5 operators, 2 statements: the deepest expressions over these operators use one of each of three precedences (four live operands), and every combination of operators around idiv's RAX and RDX |
| `Conditions` | are results of conditions in the same register whichever body runs? | 4 inner nodes, 2 statements per body, 3 scratch registers, so running out is frequent |
| `Calls` | do arguments arrive, and does RAX survive, in and around divisions and stores? | 5 inner nodes, 2 arguments: calls before, after and inside operators, arguments that are expressions, addresses or elements |
| `CallProtocol` | is the shared call state right for internal and external calls? | 3 arguments, 2 calls in sequence or one per operand, shifts among them |
| `Functions` | does every variable keep its cell in its frame? | 4 inner nodes, 3 statements, 1 parameter, 2 locals: functions in functions, assigned, calls with locals live, and addresses of locals, which fail for a global inside a function |
| `Statements` | does the parser keep the words in order, the shape, and its pointers in the tree? | 6 tokens over one operator of each of three precedences: two open calls, three operators, assignments inside arguments |
| `Scopes` | do the three passes agree on scopes and names, and do they end? | 6 items before finishing, one name, types `int` and functions of no and of one parameter: a block in a block, a block beside a block, blocks in conditions and arguments, a name declared before, in and after each of them. One name is enough to see a lookup stop too early or too late |
| `Storage` | does the code generator find each variable where it was put, within what was reserved for it, and print the labels it was given; is what the type checker accepts well typed? | 6 items before finishing, two names, types `int`, a pointer, an array of two and such an array with a pointer level, prefixes and indices, one of them out of bounds; programs with any of these have up to 10 items, which is two locals of a function used once each. A ring of 12 characters, three labels, so that it wraps while a condition holds two |
| `Lexer` | is every character of the file read once? | files of 6 characters over two kinds of white space, two delimiters one of which is an operator alone and doubled, a comment character and a letter: a comment between two tokens, at the end with and without a newline |
| `CallScratch` | (violation) does a statement's value survive a call? | one call beside one operand |
| `LeftOperands` | (violation) does a left operand bind tighter than its operator? | three operators |
| `Shadowing` | (violation) do two variables alive at once have two cells? | one name, 6 items |

`Exprs` also checks `NeverOutOfRegisters` and `Conditions` the type invariant. Without conditions and calls the
parser's shape of expressions, not the number of operators, bounds how many operands are live at once, which is why small
bounds reach every case of the pool: a longer expression repeats the same configurations further right. In `Scopes` and
`Storage`, `MaxItems` bounds what may be begun; whatever is open then is still finished, so the listings get longer than
the bound; an operand can always be a variable. `Constructs` are the kinds of items a run uses; `Storage` has no calls because a call finds its function as
a use finds a variable. `Storage` identifies programs that differ by exchanging the names (`MCSymmetry`), which are only compared, and its properties
are invariants. `MCBound` keeps the longer programs to those of `int` variables alone.

**Fairness.** Compiler and Lexer state liveness. `Compiler!Spec` has `WF_vars(Next)`: there is one process, it waits for nobody and
nothing can stop it but its own exit, so it goes on while it can. `Termination` says that this leads to an end; it
fails as soon as one of the three walks can stay where it is. `EveryScopeGenerated` says more than that every pass ends: the code
generator, which has no record of which context belongs to which body, gets to each of them. The parser of the model
ends because the bound makes the program finite; for the type checker and the code generator the bound plays no part, as the listing they
walk is fixed. `Lexer!Spec` has `WF_vars(Lex)` only: between two turns of its loop, which begins with `lex_token`, `parse_tokens`
looks ahead a bounded number of times, so looking ahead may be repeated but not for ever, and looking ahead alone need not get anywhere. The
modules of the first group state no liveness: there the traversal is bounded by `MaxNodes` and each action consumes from the bound.

**Assumptions about programs.** The properties of Compiler hold under conditions on the program that the code nowhere tests. Each is a
definition of Compiler, and what lies outside is not hypothetical; compiled with the compiler built from `src/`:

| assumption | outside it |
|---|---|
| `Complete` | a file that ends in a block, or a lambda `( ) { }`: the type checker reads a child of NULL, a segmentation fault |
| `NoBlockInCondition` | a condition or lambda inside the condition of an `if`: the context of the outer body was created first, so the walks take the contexts in the wrong order; a segmentation fault, or "Couldn't find information for variable" |
| `NoLateDeclaration` | `int: a`, then `if 1 { a + 1 @int: a 3 }`: the type checker finds the inner `a` for the use before it and reports a type error |
| `NoShadowing` | the run `Shadowing` |
| `NoCapture` | a function that uses a variable of the function around it reads its own frame at that variable's offset |
| `NoPointerArrays` | `@int[2]: p` reserves 8 bytes, `p[1] := 1` is accepted and writes to the word behind them |
| `NoBlockLocals` | a variable declared in a condition outside functions has no storage: the assembly does not link |

`StackMatchesContext` stops at a lambda `( ) { }` (`Unstacked`), where the code drops the parsing stack; `ScopesAreATable`
holds also there. `HeldLabelsIntact` speaks of labels that are `Recent`: with the real ring of 1024 characters that is some 170 labels, and 130
conditions inside one make a program the assembler refuses because a label is defined twice.

## What the violation runs show

| run | what the code does |
|---|---|
| `CallScratch` | a call saves at most RAX, so other live operands are lost in the callee; `1+2*f()` exits with 26, not 11, when `f` computes `2+3` |
| `LeftOperands` | `1 == 2*3 + 4` is parsed as `(1 == 2*3) + 4`: a node of lower precedence becomes the left operand |
| `Shadowing` | a variable declared again in the body of a condition takes the cell of the outer one; with `int: a := 1`, `if n { int: a := 2 a } else { 5 }` and `a` as the body of a function of `n`, the program exits with 2 for `n` = 1. Whether the outer or the inner one is redirected depends on what was declared between them, because `set_env` never compares the last binding |

Each contradicts a sentence of the repository, quoted under `findings`.

## Observed, outside the runs

These contradict no document, so no run states them. The runs that check values leave them out, as `Kinds` and `Ops` of
their configurations show.

* A shift exchanges its count with RCX and then shifts the register that the exchange may have moved: `1+2*3<<1` exits with 2, not 14.
* Division saves RAX and RDX and restores them in the same order, exchanging them, when both are live: `1 + 2*if 1 { 3*if 1 { 4 < 20/4 } }` exits with 10, not 7.
* The arguments of an external call are placed one by one in registers that later arguments are computed in: in
  `e(1, 2, 3)` the third is computed in RCX after the first was put there.
* Two parameters are found in the opposite order of the arguments pushed: `f(9, 4)` of `a - b` is -5. So functions have at most one parameter here.
* `f(3)+4` is parsed as `f(3+4)` and `@p + 1` as `@(p+1)`; reading through a pointer yields the pointer; RBX is used and never
  saved; an assignment to a variable keeps its register for ever; a call as an argument of a call stops the compiler or
  loses the saved RAX; a statement may end with the file.
* A local declared in a body of a condition grows the frame only if that body runs, while `local_offset` always moves.
* Assigning a global variable inside a function, indexing it or taking its address ends in "Unable to find information in code gen context" (`Assignable` of ScopedGen).
* Arrays of all lengths are one type: `int[3]: b` can be assigned to `int[2]: a`, with a warning, and one word is stored.
* Reading an element of an array yields its address, as `TYPE_ARR_INDEX` loads nothing.
* No function is ever bound in `context->funcs`, so the lookup at `code_gen.c:352` always fails and every function gets a generated label.
* A file of comments, and a comment on a last line without newline, are segmentation faults (`CrashesOnlyAtComments`
  says that there are no others in the lexer).

## Proofs

`tlapm` checks every step from the assumptions on the constants alone (`ScratchAssumption`,
`CodeGenAssumption`, `ExprParserAssumption`, `ContextsAssumption`, `LabelsAssumption`, `LexerAssumption`), so for any number of scratch registers up to eight, any
node kinds and operators except where a theorem names the ones it is about, any names, any file, and any bound.

The first group, the register pool and what it is for:

* `CodeGenProofs!TypeCorrect`: `Spec => []CompilerTypeOK`, over the whole language modelled. The inductive
  invariant `TypeInv` strengthens it with what each kind of activation may assume of the operand stack: the bases of the frames ascend,
  so no activation consumes an operand that one of its callers still needs. Its first section gives, for each
  emission function, the registers it may take and free (`BinopReplaces`: an operator frees its two operands and
  leaves exactly its result in use), and for each instruction what it does to the processor.
* `ValueProofs!PoolCorrect`: `Spec => []PoolMatchesOperands` for programs of literals, variables, pointers,
  array elements, operators (division and shifts included) and conditions. `PoolInv` is `TypeInv`, `ExprFrames`
  (only these activations exist) and the property: the property alone does not say that the operands an
  operator frees are the topmost ones, which is what `TypeInv` adds. Calls are excluded because their result
  is in RAX without RAX being marked in use, assignments because they keep their register: the statement is false there.
* `ValueProofs!NeverOutOfRegistersHolds`: `Spec => []NeverOutOfRegisters` for programs of operators over literals, variables, pointers and
  elements, with at least six scratch registers; the code has seven. `DepthInv` says that an operator found at most as many pending operands
  as there are levels of precedence below its own (`Level`). That rests on the shape the parser makes: the right operand of an operator binds tighter.
  Five operands can be pending, and `div_and_mod` copies its divisor into a sixth register. Conditions are excluded since inside a body precedence starts anew:
  there any number of registers is exhausted.
* `ValueProofs!NoRegisterLeaks`: `Spec => []PoolEmptyBetweenStatements` for everything but assignments to variables and external calls, which keep a register
  for good, as the code does. `NoLeak` cannot say which registers are in use, as a call hands on RAX without marking it; it
  says that what is in use belongs to the pending operands, so that at the end of a statement, with none pending, nothing is.
* `ValueProofs!LiveOperandsIntactHolds` and `!ReturnsLastValueHolds`: no instruction emitted for one part of an expression destroys the value of another, and
  the program ends with the value of its last statement in RAX. Both follow from `PoolInv` (two operands never share a register) and `ValueInv`. The
  property says nothing while the code being emitted is jumped over, and must hold again when that code ends; so `ValueInv` says, of the
  condition on the control stack whose body is skipped, that the operands pending before it are still in place, and of the one body that ran that
  its value is in the register both bodies use. Two things are left out (`ValueKinds`, `ValueOps`), where the statement is false, or would need which registers the pool
  hands out and not only that they differ: `deref` keeps the pointer's register, so the value pointed at is never loaded; shifts and divisions need RCX, or RAX and RDX, whose descriptors the
  code does not move along. `Exprs` checks divisions on small programs.

The first group, calls and the stack (`CallProofs`):

* `CallStateCorrect`: `Spec => []CallStateMatches`, over the whole language modelled. Only the innermost call is described by `ArchData`, so the invariant
  `CallsMatch` adds why that is enough: an outer call has no argument yet when an inner one begins (`s[i].n = 0`). A second argument that is a call stops the compiler, and
  a first one leaves nothing to come back to.
* `TypesHold`: `Spec => []TypeOK`, the same for the state of the processor. The emitted code is a recursive function over sequences of instructions; `RunTraces` turns
  a run of it into the sequence of machines it goes through, and from then on everything is about one instruction. Induction comes from `WFMin`: a set of
  counterexamples would have a least element.
* `StackAccountedHolds`: `Spec => []StackAccounted` for programs without conditions and without calls among arguments. The property is silent during
  calls; the invariant `ProcessorInv` is not: the stack pointer is `local_offset` plus what the call being prepared has pushed, its arguments if
  it is an internal one and RAX if it was saved (`InCallWords`). `FramesInv` says that only operators stand between an open call and the code of its argument, so that no declaration can
  come between the pushes. Both exclusions are where the code breaks the statement: a local declared in a body that is
  jumped over moves `local_offset` and not the stack pointer, and a call as an argument forgets that the outer one saved RAX.

The second group and the two parsers:

* `ExprParserProofs!ShapeCorrect`: `Spec => []RightOperandsBindTighter`, for statements of any length over
  any operators. `ShapeInv` adds to the types that statements and arguments are nobody's operand
  (`WholesInv`) and that above `running_expr` there is only an operator whose precedence
  `running_precedence` remembers (`RunningInv`); without them nothing is known of the place where
  `parse_binary_infix_op` puts the new operator. This is the assumption CodeGen makes about its input.
* `ExprParserProofs!WordsInOrder`: `Spec => []TokensInOrder`, and `CallsOnRightEdge`: `Spec => []OpenCallsOnRightEdge`, for the same statements.
  Both come from one invariant, `OrderInv`, of the whole heap. The heap is a finite tree (`Tree`: one parent, one place in it; `Ranked`: every node has a
  rank above those of its operands, so there is no cycle). `running_expr` and the arguments on the parsing stack are on its right edge, each argument below its call (`Calls`); and while an operand
  is expected, the words of every node of the edge end with the gap it will fill. Each action changes one node of the edge and adds at most two; it fills the node (`LeafAt`), gives it one operand more
  (`AddedAt`) or puts it under an operator (`SplitAt`), and for each of these three there is one lemma about the tree, one about the ranks and one about the words. The words of the nodes, the edge and the ranks are existential in `Ordered`,
  not variables of the model. `Words` and `RightEdge` are recursive functions; that the witnesses are their values (`ReadsOnce`, `EdgeIs`) is shown
  with the least rank of a node where they would differ (`WFMin`), as induction theorems that take a predicate cannot be used.
* `BlockParserProofs!ScopesRefined`: `ParserSpec => ScopesAreATable`, the tree of contexts with its lists of bindings
  implements the table of scopes, for programs of any size. `ParserInv` needs three things of the tree and the stack.
  `ContextsInv`: the chain of a context leads from the global context to itself through contexts whose chains
  are its prefixes, so that going to the parent removes exactly the innermost scope (`ParentScopes`). `DepthInv`: the context is
  at least as deep as the blocks on the parsing stack say, so that whatever closes has a parent to go to.
  `ParamInv`: a lambda whose parameter is read has declared nothing, so the parameter is no second declaration, which
  `ParseParam` does not test. The proof has each action do one of seven things (`Idle`, `LookedUp`, `StackLost`, `Declares`,
  `Opened`, `Closed`, `Reopened`), and one lemma for each of these that it is a step of the table or a stutter. `SetEnvFresh`
  is where `set_env` matters: it is called for an unbound name only, and then it does append.
* `BlockParserProofs!StackCorrect`: `ParserSpec => []StackMatchesContext`, from the same invariant, whose `DepthInv` has
  equality as long as no lambda is `( ) { }`.

* `LexerProofs`: the safety properties of the run `Lexer`, for every file, all sets of delimiters, white space and operators that `LexerAssumption` admits, and every order of takes and
  lookaheads: `LexerTypes`, `EveryCharacterLexed`, `WholeWords`, `OverwritesLastTokenOnly`, `CrashCases`. They are proved together
  (`LexerInvariant`), as none is inductive alone: `Standing` says that the position is the end of the current token, which is where the next one has to begin, and
  `Unread` that the buffer from the position on is still the file, although the lexer writes NULs into it. Where a token begins and ends is a search, specified by the
  first position that stops it (`LeastElement`).

The second group, the three passes (`CompilerProofs`):

* `CompilerTypes`: `Spec => []TypeOK`, for programs of any size. What is not obvious is that the later passes never look at an item that is not there, or find
  their stacks empty: that is `CheckInv` and `GenInv`, which say that the frames they have open are those of the words that are open in the listing.
* `CompilerLabels`: `Spec => []HeldLabelsIntact`, for an array of labels of any length and programs with any number of labels. A label is
  kept until the words of its condition or function end, so most of the proof is that the listing is well nested. `WordInvOf` says so without
  recursion: each item is given the list of the words open before it, and each kind of item changes that list in its own way; the witness is carried along
  while the parser adds items, and `HeldIn` says which of the open words its parsing stack stands for. `Matches` says that the code generator
  holds labels for the words open at its position, and no others. The rest is about the ring alone:
  `LabelOK` says of a label that was generated once that either so much was written since (`Gone`) that it is not recent any more, or the array was filled only behind it
  (`FilledBehind`) or also around its end and not as far as the label (`FilledAround`); in both cases its characters are its own. It needs that numbers do not
  get shorter, and `Digits` is recursive: `DigitsEquation` shows that the function exists, `DigitsGrow` that it is monotone, by least counterexample.

The second group, the walks of the type checker and of the code generator (`WalkProofs`). Both passes find the contexts again by counting: they enter
the next child of the context they are in whenever a block begins. The AST does not say which context a block has, so everything rests on how the parser laid both out:

* The layout. A `Spot` is a place between the contexts of a tree: the context one is in and the newest context that exists. `Laid` gives every entry of the AST its spot, and says
  that each entry moves on from the spot before it as its kind demands: a `then`, `else` or `body` enters the next context, an `end` goes back to the parent, everything else stays. `NestIn` says the same of
  what the parser still has open: which entry of the parsing stack stands for which context. `Left` is why counting works: when a block is left, no context below
  it was created that was not entered. The invariant, `LayInv`, is silent once a block stands in a condition or has no body, which is where the code does get lost.
* `CompilerChecks`: `Spec => []CheckedInOwnContext`. `CheckWalk` says that the levels of the type checker are the chain of contexts around the spot it has reached
  (`Checks`), each with the child behind the one that was entered. The children have to be complete and in order for that (`KidsInv`), so that the next child is the next context that was created
  (`NextKidIs`).
* `CompilerGenerates`: `Spec => []GeneratedInOwnContext`, from `GenWalk`. The code generator moves to the next child before it enters one, the type checker when it leaves it; so the two
  invariants differ in where each level stands (`Gens`, `Checks`), and agree at the boundaries of statements, which is what the two properties say.
* `CompilerNames`: `Spec => []CheckedAsParsed`. `NamesInv` says that every binding of a context is a declaration in the AST that was parsed there, one for each name
  (`Variables`), and that for every use there is a place on the chain of its context that bound the name before the use, with everything further in bound after it (`UsesFound`). That is kept
  by every declaration, which adds a binding with a larger number. Where no name is declared after it was used, nothing further in binds it at all, so the type checker, which sees the whole program, finds what the
  parser found; the context it searches is the right one by `CheckWalk`.

Only model-checked:

* liveness (`Termination`, `EveryScopeGenerated`), which is out of the prover's reach;
* `ArgsInPlace` and `LocalsIntact`, which are about the contents of the stack: the proofs about the stack (`ProcessorInv`) follow its pointer and not its words, and
  those about values (`ValueInv`) rest on a pool that matches the operands, which calls and assignments break;
* `AcceptedIsWellTyped`, which needs the grammar of expressions in the AST entry by entry, and that a program with a block in a condition always runs out of contexts;
* `VariablesKeepTheirCells`, which adds the environments of the code generator to those of the parser.

## Not modelled

* `main.c`, `utils.c`: argument parsing, file names, reading and writing files, the text of messages and instructions; that a failed
  compilation leaves part of an output file.
* `parser.c`: `parse_type` and the parameter lists of function types (functions are declared with one of two types), external declarations among scopes, more than one parameter. How characters are glued into operator tokens is in
  Lexer; in ExprParser operators are whole. An argument list ends at `)` or, as in the code, goes on at anything else.
* `type_check.c`: external functions, functions that take or give anything but `int`, arrays of different lengths (which it does not tell apart).
* `ast_funcs.c`: `node_cmp` (a recursive comparison), printing, and `free_node`, which frees nothing.
* `env_funcs.c`: environments that are bound once, types and operators, and `context->funcs`, which nothing binds.
* `lexer.c`: `extend_curr_token`, which nothing calls.
* CodeGen: the memory that is written through a pointer or into an array (which words these are is in ScopedGen), an assignment as left operand, empty bodies, declarations that
  shadow, declarations inside conditions, variables of an enclosing function. Programs are type-checked, so no operand is missing.
* ExprParser: conditions, lambdas and declarations, which open a statement level of their own, modelled in BlockParser; whether a name is declared.
* `arch/`: the frame footers, entry point, `gen_symbol` (never called), and calling conventions other than that of Windows, which the code refuses.

## Plan

1. *Frame layout at run time*: declarations inside conditions in CodeGen, `local_offset` against the stack pointer on each path.
2. *Calls that nest*: an abstract specification of the call protocol with one state per open call, to say where
   the single `ArchData` falls short of it.
3. *Types*: functions of several parameters and of other types than `int`, external functions among scopes, arrays of several lengths.
4. *Proofs*: the contents of the frames (`LocalsIntact`, `ArgsInPlace`) on top of `ProcessorInv`, and `AcceptedIsWellTyped` and `VariablesKeepTheirCells` on top
   of `LayInv` and `NamesInv`.
