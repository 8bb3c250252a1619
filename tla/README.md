# Teeny Tiny BASIC compiler: TLA+ models and proofs

This directory is a formal model of the compiler under `src/`. It holds TLA+
modules translated from its C sources, TLC configurations that check them on
small instances, and TLAPS proofs of what matters most for every instance.
`PROJECT.json` lists the components, the runs, the definition-to-source map, the
mutants that show that each property can fail, the hazards and the theorems.

File references are relative to `src/src/` (sources) and `src/` (documents).

## 1. The system

The compiler is one sequential process. `main` parses its arguments and calls
`compiler_execute` (`core/compiler.c`), which runs a fixed pipeline:

```
file -> file reader -> lexer -> token array -> parser -> AST
AST -> name table (a visitor)        -> variables, labels, literals
AST + tables -> semantic analyzer (a visitor)
AST + tables -> x86 emitter -> batched writer -> assembly -> gcc -> program
```

Every stage hands its result to the next one in memory. All stages report to
one global list of errors (`error_reporter.c`) and carry on after a report; only
after the analyzer does the driver ask whether anything was reported, and then it
gives up before emitting. So each stage has to cope with what an earlier stage
made of a wrong program. There are no threads and nothing is shared between
processes: what is hard here is recovery after mistakes, growing storage with
pointers into it, fixed buffers and fixed widths, and the meaning of the code
that comes out.

### Components

| component | state | operations | what makes it correct |
|---|---|---|---|
| file reader (`common/file_reader.c`) | stream, line buffer of 1000 bytes, line number | read next line | lines are whole or refused; line numbers are true |
| string utilities (`common/string_util.c`) | none (in place on strings) | runs of characters, strip newlines, clean escapes | every escape replaced once, in place |
| lexer (`frontend/lexer/lexer.c`) | place in the line, string state | one branch per class of character | no character lost, tokens longest, locations true, always advances |
| token array (`frontend/lexer/token.c`), arena (`common/arena.c`) | growing array; regions of doubling size | create, three ways to push, allocate | a token is written in its block, texts lie apart, inside their region, and stay put |
| parser (`frontend/parser/parser.c`) | tokens, position, C call stack | one function per rule, recovery | accepts the grammar, builds the derivation, blames the right token, stops |
| AST (`ast/ast.c`) | node array with links, capacity | create root, add child, navigate | a tree in its block, only extended |
| AST visitor (`ast/ast_visitor.c`) | traversal on the C stack | enter, token, exit callbacks; stop | every node once, in order, enter and exit paired |
| name table (`common/name_table.c`) | three hash tables, statement stack, counter | callbacks of one traversal | first declarations, labels of literals apart |
| semantic analyzer (`.../semantic_analyzer.c`) | statement stack, error list | callbacks of one traversal | reports exactly the meaningless programs |
| x86 emitter (`backend/emitter-x86.c`) | label counter | one function per node kind; helper routines | emitted code does what the program means |
| platform (`core/platform.c`, `core/system.c`) | none (tables) | conventions, host, triples, temporary file | only supported targets reach the emitter |
| batched writer (`backend/batched_writer.c`) | 128 KiB buffer, file | write, printf, flush, close | in bounds, nothing lost or reordered |
| driver (`core/compiler.c`, `main.c`, `backend/assembly.c`) | configuration, what is allocated and open, exit code | the pipeline, gcc, cleanup | touches the output only for an accepted program and a supported target; the exit status is true; what is made is released once |
| argument parser (`common/arg_parse.c`) | flags given, values, positional and remaining words | scan of `argv` | every word and letter is read once, as the flags mean |
| error reporter (`common/error_reporter.c`) | list of errors | report, print, destroy | what was reported stops the compiler before it emits |
| AST printing, timer, debug support | none | output | - |

## 2. Modules

| module | models | how |
|---|---|---|
| `Arena` | `arena.c`, `xmalloc` | `arena_alloc` on the regions in arithmetic modulo `SIZE_LIMIT`; the blocks it has returned are a history |
| `TokenArray` | `token.c` | the block of tokens, its capacity and its size in bytes; the characters of the texts, in the arena; growth and pushes that memory may be refused |
| `StringUtil` | `string_util.c` | `RunEnd` is `strspn`/`strspn_callback`; `Clean` is the loop of the escape cleaner on one buffer with a read and a write index |
| `FileReader` | `file_reader.c` | variables are the fields of the handle plus the file; one action per way `filereader_read_next_line` ends: a line, the end of the file, and the two exits |
| `Lexer` | `lexer.c` | one action per branch of the scan loop, every one of which pushes into `TokenArray`. A token carries, as a history, its place in the file |
| `Parser` | `parser.c` | the recursive descent with an explicit stack of frames. A step runs a function from where it is entered, or a callee returned, to its next call or return |
| `Grammar` | the grammar of `parser.h` | reference definition: productions and the tokens that can follow, independent of the parser; extends `Parser` with the properties that compare the two |
| `AstTree` | the links of `ast.c` | operators on the node array: `AddChild`, `LinkLast`, `FirstChild`, and what a tree is (`IsTree`) |
| `Ast` | the storage of `ast.c`, `xrealloc` | capacity, block size and width of sizes; pointers that a moving `realloc` makes stale |
| `AstVisitor` | `ast_visitor.c` | the walk of both passes as a path of open nodes, with the statement stack that both keep |
| `NameTable`, `SemanticAnalyzer` | the callbacks of the two passes | what each does on entering a node and at a token |
| `Frontend` | parser, name table, analyzer in turn | `stage` says which runs; extends the three and instantiates `Parser` |
| `Emitter` | `emitter-x86.c` | assembly lines of every construct, as functions on the AST; `LabelsOf` counts the label numbers a statement takes. A line remembers, as a history, the place of its statement |
| `Platform`, `Words` | `platform.c`; integer arithmetic | the two calling conventions and who may use them, host and targets, the reading of a triple; two's complement, `WORD_LIMIT` words, and `INT_LIMIT` values of a C int |
| `X86` | the instructions the emitter uses | an interpreter of lines: registers with tagged values (a call leaves junk), pushed operands, flags, variables |
| `Basic` | the meaning of a program | the abstract specification: a program is run statement by statement on its tokens, with no tree, tables or assembly |
| `Compiler` | `compiler_execute`, then the run | composes `Frontend`, `Emitter`, `X86`; `Reject` or `Emit`, then assembler and linker, then the machine. Implements `Basic` |
| `InputHelper` | the emitted routine behind `INPUT` | one action per branch of its assembly, with its stack frame, for both conventions, and again at the next `INPUT`. What is typed are words, and a word is the pieces that the field width of `scanf` makes of it |
| `BatchedWriter` | `batched_writer.c` | one action per operation, `fwrite` may be short. Implements `AppendLog` |
| `AppendLog` | the promise of an output | abstract specification: what is written is appended, or the process dies with a prefix written |
| `ArgParse` | `arg_parse.c` | one step per word of `argv`, or per letter of a compound word; the reading that is meant is a definition over the whole line |
| `Driver` | `main.c`, `compiler.c`, `assembly.c`, `config.c`, `system.c` | one action per stretch of `compiler_execute` up to the next place where the environment or a pass may answer otherwise; extends `ArgParse` and `Platform`. `held` is what is allocated and open, `asm` and `output` how far the files are written |
| `MC*` | | instances for TLC |
| `*Proofs` | | theorems, see section 5 |

Places in sequences count from 1 in the models and from 0 in C; the exceptions
are said where they occur. Definitions and variables have the names of the
source where TLA+ allows it. A definition whose comment begins with "Mutant"
belongs to no specification: it is a plausible mistake that replaces another
definition to show that a property notices it.

**Fairness.** `WF_vars(Next)` where liveness is checked (`Terminates` of lexer and
parser, `StatementsComplete`): the process is sequential, does not wait for anyone
and always takes its next step. Nothing more
is assumed; in particular not which way a nondeterministic step goes. (`INPUT`
does wait; what is typed is taken to arrive.)

**Composition.** `Lexer` runs on `FileReader`, `TokenArray` and `Arena` together.
Tokens pass from `Lexer` to `Parser` as types only; the lexer's unknown tokens are
in the parser's alphabet. `Driver` composes the command line, the platforms, the
order of the passes and the files; inside it a pass ends with errors or without,
and what it does is in the other modules. The parser's tree passes to the
visitors and the emitter as it is, wrong programs included. `Frontend` and
`Compiler` run the very actions that the parser's proofs are about.

## 3. Runs

| run | question | bounds, and why they are enough |
|---|---|---|
| `lexer` | Do file reader and lexer account for every character, and are the texts of the tokens kept apart? | All files of up to four pieces out of 14: one per class of character, a keyword, `REM`, line ends; and strings around up to four of the characters that matter in strings. The line buffer holds 7 bytes, so lines end before, at and beyond the buffer's end. Every branch of the scanner decides on one character, its predecessor and the end of the line. The token array starts with room for one token of 3 bytes, the arena with a region of 2, pointers have 4 bytes and sizes wrap at 64: four tokens make the array grow twice and the arena open several regions. Any allocation may be refused |
| `parser` | Does the parser accept the grammar, build derivations, recover and stop? | Every sequence of up to three of 18 token types that the parser tells apart, and sequences of up to four fragments that open, break and close blocks. Mistakes at every depth up to four, in every position of a statement |
| `frontend` | Are the tables and the analysis right? | All programs of up to three statements of 15, over two names, in one block or none, some of which do not parse. A declaration, a use and a conflicting declaration fit, in every order |
| `frontend_label_variable` | (violated) Are labels no variables? | the same programs |
| `compiler` | Does the compiled program do what the text means? | All expressions of three operands with all operators and signs, all comparisons in both statements, all blocks of up to two statements with labels and jumps, nested once more; both conventions; every input. Words of 3 bits and ints of 2, so that every overflow, wrap and sign occurs |
| `compiler_traps` | (violated) Do programs trap by zero only? | the same programs |
| `input` | Is the result of `INPUT` what was typed, in its range and frame? | Words of 6 bits, ints of 4, characters of 3; both conventions; numbers within, at and beyond each range; pieces of one character and of the whole field of 100; up to two words, each of which may exceed the field and is then two pieces; `MaxCalls` = 3 calls, so that the pieces of a long word and the word after it are taken, and the input ends; any junk in the buffer at its end |
| `input_empty` | (violated) Is empty input 0? | the same |
| `writer` | Does the writer keep its buffer and lose nothing? | A buffer of four bytes, strings of length 0 to 5 (below, at and above the buffer) of distinct bytes, nine bytes in all, `fwrite` failing after any part |
| `ast` | Is the node array a tree inside its block? | First capacity two, six nodes, so two reallocations, each of which may move or fail, and every tree shape |
| `driver` | Is the command line read as meant, and do output, exit status and resources come out right whatever fails? | Every line of up to three words out of 14 - letters alone, compound, with values, unknown; long flags with and without values; `--`, `-`, a file -, and each of six target triples, supported or not, with other flags before, between and after. One positional argument, as in the program. Six builds (four systems on x86-64, two other processors on Linux, unknown ones included). Every request to the environment and every pass may fail |
| `ast_wrap` | (violated) also if sizes wrap? | Sizes modulo 32 and nodes of five bytes, as 2^32 and 40 in the code |

What they show, property by property:

- **lexer.** `LocationsTrue`: line and column of each token are those of its
  first character in the file, past empty lines, strings and a last line without
  newline. `TokensAreLexemes`: each is a whole lexeme, as long as possible, with its type
  and text. `NothingDropped`: what lies between tokens is blank, a delimiter or a
  comment. `EscapesReplaced`: the in-place loop agrees with a definition by
  parity of backslashes, and what reaches the parser is the text up to its NUL.
  `ErrorsHaveTokens`: each lexical error has an unknown token of its own, so the
  parser stumbles over it too. `StoredInBlocks`: every token lies in the block that
  its array really has, and every text ends in a region. `BlocksApart`: the blocks of
  the arena are aligned, in their regions, and share no byte, so no text is
  overwritten by a later one. `Terminates`.
- **parser.** `ErrorsExact` and `DerivationTree` against `Grammar`: errors are
  reported exactly for what is no program, the first at the first token no program
  could have there, or, where the input only lacks a continuation, at the start of the file,
  which is where the code puts it. `ConsumedOnce`: every token passed is in the tree once, in
  order, or was skipped. `RecoveryAccounted`: recovery never skips the beginning of
  a statement, every `STATEMENT` node has its keyword, and nothing is skipped
  silently. `OnlyForward`: position and tree only grow. `Terminates`.
- **frontend.** `AcceptsMeaningful`: among programs that keep labels and
  variables apart, exactly those with unique labels, landing jumps and
  declarations before uses are accepted. `TablesRight`: the tables hold first
  declarations, literals have numbers of their own, and the statement stack is that
  of the open nodes. `StopIsReported`: the analyzer only stops early where a
  grammar error was reported.
- **compiler.** `ImplementsBasic` (refinement of `Basic`: same values, output,
  inputs and traps). `AcceptedAssembles`: accepted programs assemble and link.
  `AssertionsHold`: the emitter's assertions never fail on an accepted program.
  `NoJunkRead`: no register is used that a call has left junk in. `StackRight`:
  nothing is left pushed where code is labelled, jumps or calls, and the stack is
  aligned at calls. `StatementsComplete` (liveness): no statement takes
  forever.
- **input.** `ResultSafe`: the result is in the range of an int and `scanf` stays in
  its buffer. `AsTyped`: each `INPUT` takes its word, in order, and stores what it means:
  the number, 0 if it is no int, or the character. Two things differ from the manual and are
  part of the statement (see 4): the pieces of a word beyond the field go to as many `INPUT`s,
  and under Windows more than one result is possible.
- **writer.** `WriterTypeOK`, `BufferInBounds`, `NothingLost`, `ImplementsLog`.
- **ast.** `TypeOK`, `TreeWellFormed`, `NoUndefinedBehaviour` (no write outside the
  block, no stale pointer, no undefined link), `AppendOnly`.
- **driver.** `ParsedAsMeant`: what the scan of `argv` leaves - flags, values,
  positional words, or an error - is what the whole line means. `ExitStatusTrue`:
  success is silent and the output is whole, unless the unchecked `fclose` lost its
  end; a failure is never silent. `OutputGuarded`: the output is untouched and no code
  emitted unless there are no errors, the emitter has a convention for the target
  and the compiler an assembler; an executable is only touched by gcc.
  `ResourcesRight`: each stage holds what it uses, and at the end only what the code
  is known to leave (see 4) is left. `TypeOK`.

`CHECK_DEADLOCK FALSE` is given for `writer` and `ast` only: a client may stop
using them, and `MaxWritten` and `MaxNodes` bound how much it does.

## 4. Disagreements with the documents

Each of these has a run that ends in a counterexample.

1. `ast_wrap` - `ast.c:59` computes the size of the node array in 32 bits. At 2^27
   nodes of 40 bytes it wraps, `realloc` succeeds with a smaller block, and
   nodes are written beyond it. The program text has to be about 77 MB.
2. `frontend_label_variable` - an identifier that names a label is never checked as
   a variable: `LABEL b` followed by `INPUT b` is accepted and does not link.
3. `compiler_traps` - the most negative number divided by -1 traps, although
   `README.md:21` says that only division by zero is undefined.
4. `input_empty` - the `int` that `scanf` returns is compared as 64 bits, so the end
   of the input is missed where the upper half is zero.

Met while modelling, without a run of their own:

- Lexer. A string that ends in an escaped delimiter at the end of the line becomes
  an unknown token with no lexical error, although `lexer.c:160` says it was
  reported; since the test looks at one character only, this includes `"\\"`, an
  escaped backslash. Any run of operator characters is one token, so `LET a=-1` is an
  error without a blank. Text that `-c` gives is written to a temporary file whose
  `rewind` is not checked, so a program may be cut short unnoticed
  (`file_reader.c:65-71`).
- Parser. Recovery passes the `ENDIF` or `ENDWHILE` of the block it is in, which is then
  reported missing (`parser.c:403` against the comment at 370-371). An error at the end
  of the input is reported at line 1, column 1 (`parser.c:193-196`), as if the first token
  were wrong: `ErrorsExact` says so. Errors name
  `parser.c` as their file instead of the program (`parser.c:199`). The grammar of
  `parser.h` has a newline after statements that the lexer never makes.
- Emitter. `PRINT` formats the low 32 bits of a 64-bit value (`emitter-x86.c:15`;
  `Words` models it as `Shown`). Under Windows a `long` has 32 bits, but the helper behind
  `INPUT` checks and stores all of `rax` (`emitter-x86.c:207-231`): a number within range
  may come back as 0, although `MANUAL.md:99` has it stored, and one out of range, for which
  the helper means 0 (`emitter-x86.c:234`), may come back as the largest or smallest int. A word of more than 100 characters is cut (`emitter-x86.c:17`), and
  its rest is what the next `INPUT` reads. Both are cases of `AsTyped`. String literals reach the assembler unescaped
  (`emitter-x86.c:73`).
- Driver. `fclose` of the assembly file is not checked (`compiler.c:230` and 243), so a
  full disk ends in success with a truncated output, although `compiler.h:37-38`
  says that the result is whether it was successful: `ExitStatusTrue` shows that this is the only
  way. The temporary file is never removed, and the name table is leaked when the
  assembly file cannot be opened, with a descriptor if `fdopen` fails
  (`compiler.c:222-240`, `system.c:31-34`): `ResourcesRight` shows that nothing
  else is. gcc has to be installed even for `--emit-asm` (`compiler.c:107`). The message
  "Invalid target triple" is never printed for an invalid triple
  (`compiler.c:41-42` and 123). The memory for further words is checked before `--` only;
  after it a refusal is written through (`arg_parse.c:204-207` against 324): `EndOfOptions`
  and `Crash`. Components of a triple after the second, and
  positional words after the first, are ignored silently.

## 5. Proofs

All are checked by `tlapm` with no step left out, for every value of the
constants allowed by the named assumptions.

The theorems are in eight modules.

- **`AstTreeProofs`** - `AddChildTree`: adding a child to a grammar node of any
  well-formed tree gives one. `IsTree` says that first/last/next links point
  forward, are injective and leave no node unreached; each part is preserved by
  a lemma (`ForwardPreserved`, `EndsPreserved`, `InjectivePreserved`,
  `NoOrphanPreserved`).
- **`MemoryProofs`** - three components that keep a block of memory of their own.
  *The node array*: `AstTypeCorrect`, `TreeSafety`, `OnlyAppends` by the invariant
  `Inv`, and `MemorySafety`: if the sizes of `MaxNodes` nodes fit the width of a
  size (`SizesFit`), nothing is written outside the block. The assumption is
  needed: `ast_wrap` is the counterexample without it.
  *The batched writer*: `WriterTypeCorrect`, `BufferSafety`, `NoLoss`,
  `WriterImplementsLog`. The inductive invariant `WriterInv` is the conjunction of
  `WriterTypeOK`, `BufferInBounds` and `NothingLost`: none is inductive alone, since
  what a flush puts in the file is known only through the buffer. Every call is shown
  to be an instance of one common `WriterStep`: the file takes in a first part of the
  pending output, and the rest is in the buffer unless the call threw. It
  keeps the invariant and lets the file only advance, which maps a write, a flush and a
  close each to the abstract call of that name: one that succeeds leaves a file
  the abstract call allows, one that fails leaves a prefix of the output.
  *The helper behind INPUT*: `ResultIsSafe`, `ResultIsTyped`. The invariant `InputInv` says at each
  part of the helper where the number to return comes from, and `Turn` which piece is read
  next: up to the first word beyond the field, call and word go together. A register that
  holds a number in fewer bits tells it only if all of it has the range (`RegisterFits`),
  which is what the check under Windows comes to. The proof needs that an int has at
  least four values, or 1 could be read as the -1 of a failure whatever is in the upper half
  of the register (`OneIsNoFailure`), and fewer than a word, or a clamped number could fit
  (`ClampedFits`); both hold of 2^32 and 2^64 (`WordsAssumption`).
- **`GrammarProofs`** - the lemmas for the next module that need no state of the parser:
  what one token leaves of a form (`Rest`, `May`), rule by rule, and which tokens may follow
  a text; what items a statement has; and functions that read a tree along its links. A form
  is unfolded by a recursive function, which is first shown to be defined (`UnfoldExists`: it
  is the least relation that the rules give).
- **`ParserProofs`** - on *every* token sequence: `ParserTypeCorrect`,
  `ParserTreeSafety`, `EveryTokenOnce`, `ForwardOnly`. The invariant `PInv` says
  that every frame's node is a grammar node of the tree (so that each
  `ast_node_add_child` meets its precondition) and that the tree's token nodes
  together with the skipped places are exactly the places before `position`, in
  order; it holds after every action, and the lemmas `GrowToken`, `GrowGrammar`,
  `SkipTokens` state what one step does to it.
  `RecoveryLosesNothing` is `RecoveryAccounted` on every token sequence. It is not
  inductive for two reasons. A loop that is told of a
  failure passes tokens without a report of its own, relying on the statement that
  failed: `Blamed` says that the current token has been reported then, and needs
  `Nested`, that a loop calls nothing but statements. And a `STATEMENT` node is
  made before its keyword is taken: `Entered` describes the one state between, in
  which `EnteredTakes` shows that taking the keyword is the only step.
  `FinishedTree` is what the later passes need of the tree. Its invariant `OInv` says
  that the frames of the call stack are, from bottom to top, open nodes of the last
  branch of the tree (`SpineInv`): nodes are only added there, so the numbers of the
  nodes are the order of a traversal and those below a node are an interval
  (`Numbered`). `NamesInv` says what follows a `LET`, `LABEL`, `GOTO` or `INPUT`: its
  name, or nothing yet if the function that took it is still running at that place, or
  nothing at all and an error is reported.
  `NamesHaveOwners` says to which statement a name belongs: of the nodes above it, the
  innermost statement is the last one that begins before it. The parser could break this
  by adding to a statement after a later one has begun inside it; `OwnersInv` says that
  every frame that may still read a name (`Opening`) has the last statement above it,
  and `OpeningInv` that such a frame has only expressions on top of it, so that no
  statement begins before it is done. `PlacesInv` says where the nodes of keywords and
  names are, for which `WaitingInv` describes the frames that have made a node and not
  yet put a token into it.
  `AcceptedIsDerived` is what the tree of an input without errors is: there is a numbering
  `q` of the nodes - under which node, at which place of its rule, from which token to
  which - with which the tree is a derivation (`WholeTree`). The invariant `ShapeInv` has
  the numbering of the tree so far: what is above and left of the nodes on the call stack
  is wired by the rules (`Wired`), the nodes left are complete, and each running function
  stands at the place in its rule where its node has its last child.
  `TreeIsDerivation` is `DerivationTree`: the numbering and the links of the tree say the
  same. What is left of a rule after the child at a place (`Remaining`) is among the
  forms the grammar leaves there (`RuleBegins`, `RuleGoesOn`, `RuleEnds`), so the children of a
  node spell a production; and the pieces of the input that the nodes stand for lie end to
  end (`Spanned`), so the leaves are the input.
  `ErrorsExactForAll` is `ErrorsExact` for every input. The reference definition reads the
  input with sets of forms (`Grammar`). `ReadingInv` is about the call stack: as long as there
  is no error, each running function has a form that is read after it returns (`Linked`),
  and what the topmost has `Todo` goes on with the current token as the forms that may follow
  the tokens taken do (`Agree`). They need not be the same forms: a function at the end of a
  chain has dropped those that begin with another operator. That it may do so is `Calm`:
  no operator begins what is read after it. When a function gives up, nothing that may follow
  takes the current token (`Stuck`), so the first error is where the input leaves the
  grammar, and nothing after it can undo that, recovery included.
- **`FrontendProofs`** - for every program: `TablesAreRight`, `StopsAreReported`,
  `MeaningfulAreAccepted`. The
  parser inside `Frontend` is an instance with other parameters, so it is first shown,
  definition by definition, to take only steps of the parser of `ParserProofs`; its
  invariants then hold here. Of the finished tree the passes need `After`, and the
  invariant `FInv` adds to it `Sound` - the path is a chain of children from the root,
  and the statement stack is the statements entered on it - and `FirstIn`: the tables are
  what the nodes up to `Reach` declare. Each callback moves `Reach` on by
  one node, and leaving a node by none (`WalkSound`), which is where the numbering of the
  tree is needed.
  `MeaningfulAreAccepted` compares the verdict, which the code reaches through the tree,
  the stack and the tables, with `Meaningful`, which is about the text alone. The analyzer
  asks which statement is on top of the stack and which one the table has as the parent of
  a declaration; `NamesHaveOwners` makes both the last statement begun in the text
  (`TopStatement`, `ParentsIn`), given that the nodes above the current one are
  the path to it (`LineageInv`). So each of the five reports is made where the text is wrong
  at that token and nowhere else (`TokenChecked`, by `WrongAt`), and `VerdictInv` adds this
  up: nothing has been reported exactly when nothing is wrong up to `Reach`.
  `AcceptedIsReady` is what the front end hands on (`Accepts`): for an accepted program the
  tree is a derivation (`DerivedInv`, from `AcceptedIsDerived`), every token has its node and
  every statement but the first comes right after another one or begins its block; the
  variables of the table are those of the `LET`s; and the program means something if it
  keeps labels and variables apart.
- **`CompilerProofs`** - for every program, both calling conventions and every input:
  `AssertionsNeverFail`, `JunkIsNeverRead`, `StackIsRight`, `AcceptedProgramsAssemble`.
  The front end inside `Compiler` is an instance again, so its steps are shown to be those of
  `FrontendProofs`, whose invariants then hold (`FrontInv`); `CompilerAssumption` repeats what
  `Frontend` assumes of the programs, since an instance does not carry assumptions
  over. `Accepts` gives `Fit`, the same in the words of the emitter. The functions the
  emitter is made of recur along the links of the tree, which go to later nodes only, so they
  are first shown to be defined, and then reasoned about from the last node to the first
  (`Backwards`). `Flow` is an abstract interpretation of a line of assembly: from what is
  known before it - how much is pushed, which registers hold numbers of the program - to
  what is known after it. A piece of code leads from one to the other if its lines can be
  annotated so (`Leads`), and pieces put after each other lead on: an expression ends with its
  value in the result register and the stack as it was (`ExpressionComputes`), a
  statement begins and ends with nothing pushed and nothing known (`StatementSound`), as
  does control at every label, wherever it comes from. The invariant `MachineInv` says that
  the code is annotated from its first line to the `ret`, and that the machine is in a
  state that the annotation of its line describes; the three properties are read off there.
  None of them is inductive, since they say nothing of the lines to come.
  For `AcceptedAssembles`, `Labelled` says which labels a piece of code can have: of those with
  a number, the ones between what `control_flow_label` was before and after it; of those
  with a name, the ones in its piece of the text. Pieces after each other have
  different labels if no two labels of the text are alike (`LabelledOn`). That the target
  of each `GOTO` is there at all needs that every statement is emitted (`Reached`). The
  invariant `LinkInv` keeps the result from where the code is emitted to where it is linked.
- **`LexerProofs`** - the whole lexer, for every file, line buffer and region size:
  `LinesFit`, `TextsApart`, `LocationsAreTrue`, `NothingIsDropped`,
  `ErrorsShowInTokens`, `LexemesAreWhole`, `StringsAreCleaned`, `TokensAreStored`,
  `TypesAreRight`. First come the lemmas about strings and arena. An allocation whose
  size and padding fit a size leaves the blocks
  aligned, inside their regions and apart; a string that is written into a block of
  its own disturbs no text written before. The invariant `ScannerInv` ties three places
  together. `LexInv`: a line fits its buffer, the scanner stays in the line, so every text is shorter than the buffer
  and fits the arena. `LineInv`: what the buffer holds is the part of the file before
  `offset`, and the line number counts the newlines before it, also where the line was
  cut off the newline or had none. `ScanInv`: a string is
  scanned from its delimiter on; otherwise the scanner never stands inside a run of
  letters, digits or operator characters, without which no token could be said to be
  as long as possible. `CoverInv` accounts for each character passed, and
  `LexemesInv` adds the shape of each token and its text, which later tokens must not
  disturb. `LineAssumption` says that a line with its padding fits a size, as 1000
  bytes do in 2^32. `TokensAreStored` supposes besides that the size of the token array
  does not wrap (`FilesFit`): there are no more tokens than characters (`CountInv`),
  and the array doubles, so a file of n characters needs less than 2n tokens. In the
  program, where `token.c:54` computes that size in 32 bits, only files of tens of
  megabytes break it, as in the first point of section 4.
  `StringsAreCleaned` is about a loop that writes into the buffer it reads: `LoopInv`
  says that it never catches up with what it has not read, cuts no escape in two, and has
  written what was read means. `Clean` and the reference definition are recursive
  functions, so what they are is proved first (`CleanExists`, `FlattenIs`), by a least
  counterexample where an induction theorem would have an operator as a parameter.
- **`DriverProofs`** - `CommandLineParsedAsMeant`, `StatusIsTrue`,
  `OutputIsGuarded`, `ResourcesAreRight`, `TypesAreRight`, for every
  command line, every build (`Hosts` within what `platform.h` can make) and every
  failure. The lemmas about the scan hold for any set of flags with distinct letters
  and names. `ScanInv` says what was made of the words before `argi` and
  the letters before `letter`: each was a flag where the whole line means one, with a value
  or none, and the words kept are those between. `ParsedAsMeant` speaks of the end
  only. `DInv` says of each stage what has been decided before
  it: the target and the errors (`TargetInv`), what was said and the exit code
  (`ExitInv`), what is held at least and at most (`HeldInv`). The three properties
  of the driver speak of the end of a run only, or of what is held now, and none
  is inductive without the stages in between.

Only model-checked, and why:

- liveness (`Terminates`, `StatementsComplete`), which is out of the provers' reach;
- `ImplementsBasic`: its proof needs an invariant that ties each line of an expression to the
  part of the text it computes, and the value of that part; `Basic` defines values by
  a recursive function of two arguments, which the prover does not unfold as it is written. What
  a proof would rest on is there: `AcceptedIsReady`, `AcceptedProgramsAssemble`,
  `JunkIsNeverRead` and `StackIsRight`.

All the other properties of the runs that end without a violation are theorems.

## 6. What is not modelled

- **Text**: wording and layout of messages, their buffers, AST printing, verbose tables,
  help.
- **Timer and debug support**: measurement and logging that change no state.
- **Passes inside the driver**: there each ends with errors or without. That a program
  with a lexical error is refused follows from `ErrorsHaveTokens` and from
  `ErrorsExact`, whose alphabet has the unknown token.
- **`strdup` and `xcalloc`**: their failures are left out; the arguments of `xcalloc` are
  constants.
- **Required arguments**: `arg_parse.c:357-370` is modelled, but the program declares none
  (`REQUIRED_ARGS` is empty, as `ArgSpecAssumption` of `Driver` says).
- **NUL bytes** in source files: `FileReader` assumes text. Form feeds and vertical
  tabs are left out of the whitespace, and the escapes of letters other than `n`,
  being alike.
- **The C stack**: recursion depth is not bounded in the models.
- **The assembler's reading of literals**: strings and digits are names in
  `Emitter`; what gcc makes of their spelling is out of scope.
- **Crashes and restarts**: the compiler keeps nothing from one run to the next.

## 7. What could come next

1. Lexer and parser joined on characters, so that the promise of the third point of
   section 6 is one property.
2. Proofs: `ImplementsBasic`, by annotations as in `CompilerProofs` that say of each
   register and of each pushed number which piece of the text it is the value of.
3. The name tables' memory (`stb_ds.h`), whose growth is taken to succeed.
