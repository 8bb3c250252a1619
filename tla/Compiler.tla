------------------------------ MODULE Compiler ------------------------------
(***************************************************************************)
(* The whole path of a program: front end, emitter, and the run of what is *)
(* emitted.  core/compiler.c emits only if nothing was reported.           *)
(***************************************************************************)
EXTENDS Emitter, Words, Platform, FiniteSets

CONSTANTS Programs,     \* the inputs, as records of token types and token texts
          NumberValue   \* what the digits of a number denote

VARIABLES position, stack, ret, errors, skipped,  \* of the parser
          semantic, stopped,                      \* of the semantic analyzer
          stage,                                  \* of the front end
          code, strings, pc, reg, pushed, flags, memory, io, status  \* of the machine

F == INSTANCE Frontend
M == INSTANCE X86

\* Of the assumptions of Frontend: an instance does not carry them over.
ASSUME CompilerAssumption ==
  \A program \in Programs :
    /\ program.tokens \in Seq(F!P!TOKEN)
    /\ Len(program.text) = Len(program.tokens)

frontendVars == <<tokens, text, ast, visitorVars, tableVars,
                  position, stack, ret, errors, skipped, semantic, stopped, stage>>
machineVars == <<code, strings, pc, reg, pushed, flags, memory, io, status>>
vars == <<frontendVars, machineVars, cc>>

Init ==
  /\ F!Init
  /\ M!Blank
  /\ cc \in CONVENTIONS

Compile ==
  /\ stage # "done"
  /\ F!Next
  /\ UNCHANGED <<machineVars, cc>>

\* compiler_execute gives up after the reports.
Reject ==
  /\ stage = "done" /\ status = "compiling"
  /\ errors # <<>> \/ semantic # <<>>
  /\ status' = "rejected"
  /\ UNCHANGED <<frontendVars, code, strings, pc, reg, pushed, flags, memory, io, cc>>

\* The assembler and the linker find every name: a variable in the data
\* section, a label that is jumped to on exactly one line.
Found(operand) ==
  CASE operand[1] = "_var_" -> operand[2] \in DOMAIN variable_table
    [] operand[1] \in {".LAB", ".ILAB"} ->
         Cardinality({i \in 1 .. Len(code) :
                        code[i].line.op = "label" /\ code[i].line.dst = operand}) = 1
    [] OTHER -> TRUE
Assembles == \A i \in 1 .. Len(code) : Found(code[i].line.dst) /\ Found(code[i].line.src)

\* emit_x86, only if neither parser nor analyzer has reported an error
Emit ==
  /\ stage = "done" /\ status = "compiling"
  /\ errors = <<>> /\ semantic = <<>>
  /\ code' = MainLines
  /\ status' = "emitted"
  /\ UNCHANGED <<frontendVars, strings, pc, reg, pushed, flags, memory, io, cc>>

\* The assembler and the linker, then the start of the program: in the data
\* section are the strings of literal_table and the variables of variable_table.
Assemble ==
  /\ status = "emitted"
  /\ \/ Assembles /\ M!Load(literal_table, DOMAIN variable_table)
     \/ /\ ~ Assembles
        /\ status' = "unlinked"
        /\ UNCHANGED <<code, strings, pc, reg, pushed, flags, memory, io>>
  /\ UNCHANGED <<frontendVars, cc>>

Run == M!Execute /\ UNCHANGED <<frontendVars, cc>>

Stopped == status \in {"rejected", "unlinked", "ended", "trapped"} /\ UNCHANGED vars

Next == Compile \/ Reject \/ Emit \/ Assemble \/ Run \/ Stopped

Spec == Init /\ [][Next]_vars /\ WF_vars(Next)

-----------------------------------------------------------------------------
\* The place in the input that control is at.
Here == IF pc = 0 THEN 0 ELSE code[pc].place

B == INSTANCE Basic WITH
       at <- Here, env <- memory,
       state <- CASE status = "emitted"  -> "compiling"
                  [] status = "unlinked" -> "rejected"
                  [] OTHER -> status

\* A compiled program does what its text means: the same values in the same
\* variables, the same output in the same order, the same inputs asked for,
\* and a trap only at a statement that divides by zero or overflows.
ImplementsBasic == B!Spec

\* A program that the front end accepts also assembles and links, if it keeps
\* labels and variables apart.
AcceptedAssembles == status = "unlinked" => ~ F!OneKind

\* DZ_ASSERT (lines 462, 473, 481, 497, 500, 520, 526): no accepted program
\* breaks what the emitter takes for granted about its tree.
AssertionsHold == \A i \in 1 .. Len(code) : code[i].line.op # "assertion"

\* Nothing is computed from what a call has left in a register.
NoJunkRead == status = "running" => M!Defined

\* Nothing that an expression pushes is left behind: the stack is empty
\* wherever control may come from elsewhere.
StackBalanced ==
  M!Running({"label", "call", "ret", "jmp", "je", "jne", "jl", "jle", "jg", "jge"})
    => pushed = <<>>

\* At a call the stack is aligned as the calling convention wants it: the
\* frame of main is aligned, below it are the shadow space and what is pushed.
CallsAligned ==
  M!Running({"call"}) =>
    (cc.shadow_space + cc.ptr_size * Len(pushed)) % cc.stack_alignment = 0

\* Pushes and pops balance on every path, also out of a block by a jump, and
\* calls find the frame they need (emitter-x86.c:324-345 and 497-530).
StackRight == StackBalanced /\ CallsAligned

\* No statement takes forever: a program that does not stop keeps going from
\* one statement or end of a block to another.
StatementsComplete ==
  <>(status \notin {"compiling", "emitted", "running"}) \/ []<><<Here' # Here>>_vars

\* README.md line 21: the only undefined behaviour of a compiled program is
\* a division by zero, so a program only traps there.
TrapsOnlyByZero == status = "trapped" => M!Dst = 0
=============================================================================
