--------------------------------- MODULE X86 ---------------------------------
(***************************************************************************)
(* The machine that a compiled program runs on, with the helpers that the  *)
(* emitter puts behind main: one line of the assembly a step.  A value in  *)
(* a register is tagged; "junk" is what a call leaves in the registers     *)
(* that it need not preserve.                                              *)
(***************************************************************************)
EXTENDS Words, Sequences, TLC

CONSTANT NumberValue  \* what the digits of a number token denote

VARIABLES cc,       \* the calling convention
          code,     \* main, a sequence of [line, place]
          strings,  \* the literal_table of the data section
          pc,       \* the line that is next
          reg,      \* the registers
          pushed,   \* what main has pushed, the top last
          flags,    \* the two numbers compared last
          memory,   \* the variables of the data section
          io,       \* the last thing printed
          status    \* "compiling", "rejected", "emitted", "unlinked",
                    \* "running", "ended" or "trapped"

Num(n) == <<"int", n>>
Address(k) == <<"static", k>>
Junk == <<"junk">>

Registers == {"rax", "rdx", "r10", "rdi", "rcx"}
AllJunk == [r \in Registers |-> Junk]

\* Before there is a program.
Blank ==
  /\ code = <<>> /\ strings = <<>> /\ pc = 0
  /\ reg = AllJunk /\ pushed = <<>> /\ flags = <<0, 0>>
  /\ memory = <<>> /\ io = Silent
  /\ status = "compiling"

\* The program is loaded; .skip sets its variables to zero.
Load(literals, names) ==
  /\ strings' = literals /\ pc' = 1
  /\ memory' = [name \in names |-> 0]
  /\ status' = "running"
  /\ UNCHANGED <<code, reg, pushed, flags, io>>

-----------------------------------------------------------------------------
Now == code[pc].line
Running(ops) == status = "running" /\ Now.op \in ops

ValueOf(operand) ==
  CASE operand[1] = "reg"      -> reg[operand[2]]
    [] operand[1] = "number"   -> Num(Wrap(NumberValue[operand[2]]))
    [] operand[1] = "_var_"    -> Num(memory[operand[2]])
    [] operand[1] = "_static_" -> Address(operand[2])

\* The operands that an instruction computes with.
Reads ==
  CASE Now.op \in {"add", "sub", "imul", "cmp"} -> {Now.dst, Now.src}
    [] Now.op = "neg"  -> {Now.dst}
    [] Now.op = "cqo"  -> {<<"reg", "rax">>}
    [] Now.op = "idiv" -> {<<"reg", "rax">>, <<"reg", "rdx">>, Now.dst}
    [] Now.op = "mov" /\ Now.dst[1] = "_var_" -> {Now.src}
    [] Now.op = "call" /\ Now.dst[2] = "print_integer" -> {<<"reg", cc.arg>>}
    [] OTHER -> {}

\* They are numbers that this program has computed.
Defined ==
  /\ \A operand \in Reads : ValueOf(operand)[1] = "int"
  /\ Running({"call"}) /\ Now.dst[2] = "print_string" => reg[cc.arg][1] = "static"

\* The number an operand holds.
N(operand) == ValueOf(operand)[2]
Dst == N(Now.dst)
Src == N(Now.src)

Go(line) == pc' = line
Advance == Go(pc + 1)
Set(r, value) == reg' = [reg EXCEPT ![r] = value]

LineOf(label) == CHOOSE l \in 1 .. Len(code) : code[l].line.op = "label" /\ code[l].line.dst = label

Move ==
  /\ Running({"mov", "lea"})
  /\ \/ /\ Now.dst[1] = "reg"
        /\ Set(Now.dst[2], ValueOf(Now.src))
        /\ UNCHANGED memory
     \/ /\ Now.dst[1] = "_var_"
        /\ memory' = [memory EXCEPT ![Now.dst[2]] = Src]
        /\ UNCHANGED reg
  /\ Advance
  /\ UNCHANGED <<code, strings, pushed, flags, io, status>>

Push ==
  /\ Running({"push"})
  /\ pushed' = Append(pushed, ValueOf(Now.dst))
  /\ Advance
  /\ UNCHANGED <<code, strings, reg, flags, memory, io, status>>

Pop ==
  /\ Running({"pop"}) /\ pushed # <<>>
  /\ Set(Now.dst[2], pushed[Len(pushed)])
  /\ pushed' = SubSeq(pushed, 1, Len(pushed) - 1)
  /\ Advance
  /\ UNCHANGED <<code, strings, flags, memory, io, status>>

Arithmetic ==
  /\ \/ Running({"add"})  /\ Set(Now.dst[2], Num(Wrap(Dst + Src)))
     \/ Running({"sub"})  /\ Set(Now.dst[2], Num(Wrap(Dst - Src)))
     \/ Running({"imul"}) /\ Set(Now.dst[2], Num(Wrap(Dst * Src)))
     \/ Running({"neg"})  /\ Set(Now.dst[2], Num(Wrap(-Dst)))
     \/ Running({"cqo"})  /\ Set("rdx", Num(IF reg["rax"][2] < 0 THEN -1 ELSE 0))
  /\ Advance
  /\ UNCHANGED <<code, strings, pushed, flags, memory, io, status>>

\* The dividend is the double word rdx:rax.
Dividend == reg["rdx"][2] * WORD_LIMIT + (reg["rax"][2] % WORD_LIMIT)
Divisible == Dst # 0 /\ Quotient(Dividend, Dst) \in Word

Divide ==
  /\ Running({"idiv"}) /\ Divisible
  /\ reg' = [reg EXCEPT !["rax"] = Num(Quotient(Dividend, Dst)),
                        !["rdx"] = Num(Dividend - Dst * Quotient(Dividend, Dst))]
  /\ Advance
  /\ UNCHANGED <<code, strings, pushed, flags, memory, io, status>>

\* A division by zero, or with a quotient that is no word.
Trap ==
  /\ Running({"idiv"}) /\ ~ Divisible
  /\ status' = "trapped"
  /\ UNCHANGED <<code, strings, pc, reg, pushed, flags, memory, io>>

Compare ==
  /\ Running({"cmp"})
  /\ flags' = <<Dst, Src>>
  /\ Advance
  /\ UNCHANGED <<code, strings, reg, pushed, memory, io, status>>

Taken ==
  \/ Now.op = "jmp"
  \/ Now.op = "je"  /\ flags[1] = flags[2]
  \/ Now.op = "jne" /\ flags[1] # flags[2]
  \/ Now.op = "jl"  /\ flags[1] < flags[2]
  \/ Now.op = "jle" /\ flags[1] <= flags[2]
  \/ Now.op = "jg"  /\ flags[1] > flags[2]
  \/ Now.op = "jge" /\ flags[1] >= flags[2]

Jumps ==
  /\ Running({"jmp", "je", "jne", "jl", "jle", "jg", "jge"})
  /\ IF Taken THEN Go(LineOf(Now.dst)) ELSE Advance
  /\ UNCHANGED <<code, strings, reg, pushed, flags, memory, io, status>>

PassLabel ==
  /\ Running({"label"})
  /\ Advance
  /\ UNCHANGED <<code, strings, reg, pushed, flags, memory, io, status>>

Calls(helper) == Running({"call"}) /\ Now.dst[2] = helper

\* print_integer: printf with "%d" shows an int.
PrintInteger ==
  /\ Calls("print_integer")
  /\ io' = PrintNumber(io, reg[cc.arg][2])
  /\ reg' = AllJunk
  /\ Advance
  /\ UNCHANGED <<code, strings, pushed, flags, memory, status>>

\* print_string
PrintString ==
  /\ Calls("print_string")
  /\ \E s \in DOMAIN strings :
       /\ strings[s] = reg[cc.arg][2]
       /\ io' = PrintText(io, s)
  /\ reg' = AllJunk
  /\ Advance
  /\ UNCHANGED <<code, strings, pushed, flags, memory, status>>

\* input_integer: whatever is typed, the result has the range of an int.
InputInteger ==
  /\ Calls("input_integer")
  /\ \E n \in Entered : reg' = [AllJunk EXCEPT ![cc.ret] = Num(n)]
  /\ Advance
  /\ UNCHANGED <<code, strings, pushed, flags, memory, io, status>>

End ==
  /\ Running({"ret"})
  /\ status' = "ended"
  /\ UNCHANGED <<code, strings, pc, reg, pushed, flags, memory, io>>

Execute ==
  Move \/ Push \/ Pop \/ Arithmetic \/ Divide \/ Trap \/ Compare \/ Jumps \/ PassLabel
  \/ PrintInteger \/ PrintString \/ InputInteger \/ End
=============================================================================
