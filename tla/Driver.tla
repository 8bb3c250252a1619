-------------------------------- MODULE Driver --------------------------------
(***************************************************************************)
(* One run of the compiler (main.c, core/compiler.c, backend/assembly.c)   *)
(* in an environment that may refuse anything: the toolchain may be        *)
(* missing, files may not open, a disk may be full when a file is written  *)
(* or closed, gcc may fail.  What the passes do is in modules of their     *)
(* own; here each one ends, and has found errors or not.                   *)
(***************************************************************************)
EXTENDS ArgParse, Platform

CONSTANT Hosts  \* the builds: what HOST_INFO may be

ASSUME HostAssumption == Hosts \subseteq HOST_INFOS

\* ARG_SPEC of config.c: the argument there is a name for is optional.
ASSUME ArgSpecAssumption == REQUIRED_ARGS = {}

\* config.c: of the flags, two exist on Linux only.
FLAG(short, long) ==
  [short_name |-> short, long_name |-> long, requires_value |-> FALSE, is_required |-> FALSE]
FLAG_WITH_VALUE(short, long) ==
  [short_name |-> short, long_name |-> long, requires_value |-> TRUE, is_required |-> FALSE]
FLAG_SPEC(host) ==
  {FLAG("c", "code"), FLAG("h", "help"), FLAG("v", "verbose"), FLAG_WITH_VALUE("o", "output-file"),
   FLAG("i", "host-info"), FLAG("a", "emit-asm")}
  \cup IF host.os = "linux" THEN {FLAG_WITH_VALUE("t", "target"), FLAG("l", "list-targets")} ELSE {}

\* Mutant: 32-bit targets are let through.
SUPPORTED_ARCH_ALL == ARCH

SUPPORTED_OS == {"windows", "linux"}
SUPPORTED_ARCH == {"x86_64"}
DEFAULT_OUT_FILE == [kind |-> "plain", parts |-> <<"a.out">>]
DebugCommands == {"help", "host-info", "list-targets"}

VARIABLES host,       \* HOST_INFO
          stage,      \* what comes next
          config,     \* the CompilerConfig
          held,       \* what is allocated or open
          errors,     \* er_has_errors
          asm,        \* the temporary assembly file: "none", "partial" or "whole"
          output,     \* the file the user asked for: "untouched", "partial" or "whole"
          said,       \* the messages on stderr
          exit_code,  \* of compiler_execute
          exit,       \* how the process has ended, or "running"
          lost        \* history: a close failed to write the rest of a file

driverVars == <<host, stage, config, held, errors, asm, output, said, exit_code, exit, lost>>
vars == <<argVars, driverVars>>

NoConfig == [verbose |-> FALSE, out_file |-> DEFAULT_OUT_FILE, target |-> PLAT_INFO_UNKNOWN,
             target_is_host |-> FALSE, triple |-> "none", is_code_literal |-> FALSE,
             emit_asm |-> FALSE]

Init ==
  /\ host \in Hosts
  /\ ParseInit(FLAG_SPEC(host))
  /\ stage = "arguments"
  /\ config = NoConfig
  /\ held = {"parser", "result"}
  /\ errors = FALSE
  /\ asm = "none"
  /\ output = "untouched"
  /\ said = {}
  /\ exit_code = TRUE
  /\ exit = "running"
  /\ lost = FALSE

-----------------------------------------------------------------------------
At(name) == stage = name /\ exit = "running" /\ UNCHANGED <<argVars, host, lost>>
Says(message) == said' = said \cup {message}

\* The process ends at once.
Exits(how) == exit' = how /\ UNCHANGED <<stage, config, errors, exit_code>>

\* Mutant: a failure is reported and forgotten.
FailsAtUnset(message, next) ==
  /\ Says(message)
  /\ stage' = next
  /\ UNCHANGED <<config, errors, exit_code, exit>>

\* compiler_execute will return false, by way of what comes next.
FailsAt(message, next) ==
  /\ Says(message)
  /\ stage' = next
  /\ exit_code' = FALSE
  /\ UNCHANGED <<config, errors, exit>>

GoesTo(next) == stage' = next /\ UNCHANGED <<config, errors, said, exit_code, exit>>
FilesKept == UNCHANGED <<asm, output>>

-----------------------------------------------------------------------------
(***************************************************************************)
(* main                                                                    *)
(***************************************************************************)
ParseArguments ==
  /\ stage = "arguments" /\ exit = "running"
  /\ ParseNext
  /\ UNCHANGED driverVars

InvalidArguments ==
  /\ At("arguments")
  /\ parsing \notin {"scanning", "ok", "crash"}
  /\ Says("Invalid arguments")
  /\ held' = held \ {"parser", "result"}
  /\ Exits("failure") /\ FilesKept

\* The system ends the process, which says nothing.
Crash ==
  /\ At("arguments")
  /\ parsing = "crash"
  /\ Exits("crash") /\ FilesKept
  /\ UNCHANGED <<held, said>>

parse_debug_commands_and_exit ==
  /\ At("arguments")
  /\ parsing = "ok"
  /\ is_present \cap DebugCommands # {}
  /\ Exits("success") /\ FilesKept
  /\ UNCHANGED <<held, said>>

NoInput ==
  /\ At("arguments")
  /\ parsing = "ok"
  /\ is_present \cap DebugCommands = {} /\ positional = <<>>
  /\ Says("Please input a file or code literal")
  /\ held' = held \ {"parser", "result"}
  /\ Exits("failure") /\ FilesKept

\* A triple that cannot be parsed is not kept.
compiler_config_init ==
  /\ At("arguments")
  /\ parsing = "ok"
  /\ is_present \cap DebugCommands = {} /\ positional # <<>>
  /\ LET given == "target" \in DOMAIN value
         target == IF given THEN parse_target_triple(value["target"].parts) ELSE host
     IN config' =
          [verbose |-> "verbose" \in is_present,
           out_file |-> IF "output-file" \in DOMAIN value THEN value["output-file"]
                        ELSE DEFAULT_OUT_FILE,
           target |-> target,
           target_is_host |-> target = host,
           triple |-> IF given /\ target = PLAT_INFO_UNKNOWN THEN "none" ELSE "some",
           is_code_literal |-> "code" \in is_present,
           emit_asm |-> "emit-asm" \in is_present]
  /\ held' = held \cup {"config"}
  /\ stage' = "toolchain"
  /\ FilesKept
  /\ UNCHANGED <<errors, said, exit_code, exit>>

Return ==
  /\ At("return")
  /\ held' = held \ {"config", "parser", "result"}
  /\ Exits(IF exit_code THEN "success" ELSE "failure") /\ FilesKept
  /\ UNCHANGED said

-----------------------------------------------------------------------------
(***************************************************************************)
(* compiler_execute                                                        *)
(***************************************************************************)
CheckToolchain ==
  /\ At("toolchain")
  /\ GoesTo("target") \/ FailsAt("GCC is not available", "return")
  /\ FilesKept /\ UNCHANGED held

Unknown(target) == "unknown" \in {target.os, target.arch, target.abi}

CheckTarget ==
  /\ At("target")
  /\ \/ /\ Unknown(config.target)
        /\ stage' = "return" /\ exit_code' = FALSE
        /\ said' = said \cup {"Unknown target"}
                        \cup IF config.triple = "some" THEN {"Invalid target triple"} ELSE {}
        /\ UNCHANGED <<config, errors, exit>>
     \/ /\ ~ Unknown(config.target) /\ config.target.os \notin SUPPORTED_OS
        /\ FailsAt("Target OS is not supported", "return")
     \/ /\ ~ Unknown(config.target) /\ config.target.os \in SUPPORTED_OS
        /\ config.target.arch \notin SUPPORTED_ARCH
        /\ FailsAt("Target architecture is not supported", "return")
     \/ /\ ~ Unknown(config.target) /\ config.target.os \in SUPPORTED_OS
        /\ config.target.arch \in SUPPORTED_ARCH
        /\ GoesTo("source")
  /\ FilesKept /\ UNCHANGED held

\* The file, or the temporary file that a literal is written to.
get_filereader_from_config ==
  /\ At("source")
  /\ \/ GoesTo("lex") /\ held' = held \cup {"reader"}
     \/ /\ FailsAt(IF config.is_code_literal THEN "Invalid code literal" ELSE "File not found", "return")
        /\ UNCHANGED held
  /\ FilesKept

\* A pass of the front end, which may report errors.
Pass(this, next, found) ==
  /\ At(this)
  /\ errors' \in {errors, TRUE}
  /\ stage' = next
  /\ held' = held \cup found \cup IF errors' THEN {"reports"} ELSE {}
  /\ FilesKept
  /\ UNCHANGED <<config, said, exit_code, exit>>

\* The lexer ends the process at a line it cannot read or hold.
LexExits ==
  /\ At("lex")
  /\ Says("CRITICAL")
  /\ Exits("failure") /\ FilesKept
  /\ UNCHANGED held
lexer_parse == Pass("lex", "parse", {"tokens"})
ast_parse == Pass("parse", "reader", {"ast"})

DestroyReader ==
  /\ At("reader")
  /\ GoesTo("analyze")
  /\ held' = held \ {"reader"}
  /\ FilesKept

semantic_analyzer_check == Pass("analyze", "report", {"tables"})

\* Mutant: the errors of a pass are printed and the program is compiled.
ReportErrorsGoOn ==
  /\ At("report")
  /\ IF errors THEN Says("COMPILER ERROR") ELSE UNCHANGED said
  /\ stage' = IF config.verbose THEN "verbose" ELSE "open"
  /\ FilesKept /\ UNCHANGED <<held, config, errors, exit_code, exit>>

\* Mutant: the tables are left to the cleanup, which does not know them.
ReportErrorsKeepTables ==
  /\ At("report")
  /\ IF errors THEN FailsAt("COMPILER ERROR", "cleanup")
               ELSE GoesTo(IF config.verbose THEN "verbose" ELSE "open")
  /\ FilesKept /\ UNCHANGED held

ReportErrors ==
  /\ At("report")
  /\ \/ errors /\ FailsAt("COMPILER ERROR", "cleanup") /\ held' = held \ {"tables"}
     \/ ~ errors /\ GoesTo(IF config.verbose THEN "verbose" ELSE "open") /\ UNCHANGED held
  /\ FilesKept

\* emit_x86 aborts the process when fwrite is short.
Emit(this, next) ==
  /\ At(this)
  /\ \/ GoesTo(next)
     \/ Says("DZ_THROW") /\ Exits("abort")
  /\ FilesKept /\ UNCHANGED held
PrintAssembly == Emit("verbose", "open")
emit_x86 == Emit("emit", "close")

\* A stream, or nothing; where mkstemps made the file, fdopen may yet give no
\* stream to the descriptor.
create_named_tmpfile ==
  {"asm_file", "nothing"} \cup IF host.os = "windows" THEN {} ELSE {"descriptor"}

OpenTemporary ==
  /\ At("open")
  /\ ~ config.emit_asm
  /\ \E result \in create_named_tmpfile :
       /\ held' = held \cup ({result} \ {"nothing"})
       /\ asm' = IF result = "nothing" THEN asm ELSE "partial"
       /\ \/ result = "asm_file" /\ GoesTo("emit")
          \/ result # "asm_file" /\ FailsAt("Could not create temporary file", "cleanup")
  /\ UNCHANGED output

OpenOutput ==
  /\ At("open")
  /\ config.emit_asm
  /\ \/ GoesTo("emit") /\ held' = held \cup {"asm_file"} /\ output' = "partial"
     \/ FailsAt("Could not open output file", "cleanup") /\ UNCHANGED <<held, output>>
  /\ UNCHANGED asm

\* fclose writes what its stream still holds; nobody looks at its result.
CloseAssembly ==
  /\ stage = "close" /\ exit = "running"
  /\ \E written \in BOOLEAN :
       /\ lost' = ~ written
       /\ asm' = IF written /\ ~ config.emit_asm THEN "whole" ELSE asm
       /\ output' = IF written /\ config.emit_asm THEN "whole" ELSE output
  /\ held' = held \ {"asm_file", "tables"}
  /\ GoesTo(IF config.emit_asm THEN "cleanup" ELSE "assembler")
  /\ UNCHANGED <<argVars, host>>

IsX86_64(os) == config.target.os = os /\ config.target.arch = "x86_64"

gcc_command ==
  CASE config.target_is_host -> "gcc"
    [] ~ config.target_is_host /\ IsX86_64("linux") -> "x86_64-linux-gnu-gcc"
    [] ~ config.target_is_host /\ IsX86_64("windows") -> "x86_64-w64-mingw32-gcc"
    [] OTHER -> "none"

assembler_init ==
  /\ At("assembler")
  /\ IF gcc_command = "none" THEN FailsAt("Target is not supported", "cleanup")
                             ELSE GoesTo("available")
  /\ FilesKept /\ UNCHANGED held

assembler_is_available ==
  /\ At("available")
  /\ GoesTo("invoke") \/ FailsAt("Assembler is not installed", "cleanup")
  /\ FilesKept /\ UNCHANGED held

\* gcc may fail at any time, and need not notice that its input was cut.
assembler_invoke ==
  /\ At("invoke")
  /\ \/ GoesTo("cleanup") /\ output' = asm
     \/ FailsAt("Assembly failed", "cleanup") /\ output' \in {output, "partial"}
  /\ UNCHANGED <<held, asm>>

Cleanup ==
  /\ At("cleanup")
  /\ GoesTo("return")
  /\ held' = held \ {"ast", "tokens", "reports"}
  /\ FilesKept

Stopped == exit # "running" /\ UNCHANGED vars

Next ==
  \/ ParseArguments \/ InvalidArguments \/ Crash \/ parse_debug_commands_and_exit \/ NoInput
  \/ compiler_config_init \/ CheckToolchain \/ CheckTarget \/ get_filereader_from_config
  \/ LexExits \/ lexer_parse \/ ast_parse \/ DestroyReader \/ semantic_analyzer_check
  \/ ReportErrors \/ PrintAssembly \/ OpenTemporary \/ OpenOutput \/ emit_x86 \/ CloseAssembly
  \/ assembler_init \/ assembler_is_available \/ assembler_invoke \/ Cleanup \/ Return
  \/ Stopped

\* One sequential process, which always takes its next step.
Spec == Init /\ [][Next]_vars /\ WF_vars(Next)

-----------------------------------------------------------------------------
(***************************************************************************)
(* Properties.                                                             *)
(***************************************************************************)
Stages == {"arguments", "toolchain", "target", "source", "lex", "parse", "reader", "analyze",
           "report", "verbose", "open", "emit", "close", "assembler", "available", "invoke",
           "cleanup", "return"}

\* Types; there are only as many named arguments as the program has names for.
TypeOK ==
  /\ host \in HOST_INFOS
  /\ spec = FLAG_SPEC(host)
  /\ argi \in 1 .. Len(argv) + 1
  /\ is_present \subseteq Known
  /\ DOMAIN value \subseteq is_present
  /\ Len(positional) <= ARG_COUNT
  /\ stage \in Stages
  /\ held \subseteq {"parser", "result", "config", "reader", "tokens", "ast", "tables",
                     "reports", "asm_file", "descriptor"}
  /\ config.target \in HOST_INFOS
  /\ {errors, exit_code, lost} \subseteq BOOLEAN
  /\ asm \in {"none", "partial", "whole"} /\ output \in {"untouched", "partial", "whole"}
  /\ exit \in {"running", "success", "failure", "abort", "crash"}

\* The exit status tells the truth: success is silent, and means that what was
\* asked for is there, unless the close of the assembly file lost the rest of it,
\* which nothing notices; a failure is never silent, whichever of the steps it
\* came from (compiler.c:105-293, main.c:44-80), unless the process is killed for
\* a write through the null pointer (arg_parse.c:204-207).
Asked == is_present \cap DebugCommands = {}
ExitStatusTrue ==
  /\ exit = "success" => said = {} /\ (Asked => output = "whole" \/ lost)
  /\ exit \in {"failure", "abort"} => said # {}

\* The user's file is only touched, and code only emitted, for a program without
\* errors and for a target that the emitter has a calling convention and the
\* compiler an assembler for, whatever host it was built for; an executable
\* only by gcc (compiler.c:121-153 and 185-244, platform.c:66-79, assembly.c:3-31).
OutputGuarded ==
  /\ output # "untouched" \/ stage \in {"verbose", "open", "emit", "close", "assembler"} =>
       /\ ~ errors
       /\ HasConvention(config.target)
       /\ gcc_command # "none"
  /\ ~ config.emit_asm /\ stage \in {"verbose", "open", "emit", "close", "assembler", "available"} =>
       output = "untouched"

\* Nothing is used before it is made or after it is destroyed, nor destroyed
\* twice, on any of the paths to the cleanup, and main returns with everything
\* released but the tables, and perhaps a descriptor, when the assembly file could
\* not be opened (compiler.c:185-190, 223-247 and 288-292).
Needs ==
  [name \in Stages |->
     CASE name = "arguments" -> {"parser", "result"}
       [] name \in {"toolchain", "target", "source", "return"} -> {"config", "parser", "result"}
       [] name = "lex" -> {"reader", "config"}
       [] name \in {"parse", "reader"} -> {"reader", "tokens"}
       [] name = "analyze" -> {"tokens", "ast"}
       [] name \in {"report", "verbose", "open"} -> {"tokens", "ast", "tables", "config"}
       [] name \in {"emit", "close"} -> {"tokens", "ast", "tables", "asm_file", "config"}
       [] OTHER -> {"tokens", "ast", "config"}]
Unopened == said \cap {"Could not create temporary file", "Could not open output file"} # {}
ResourcesRight ==
  /\ exit = "running" => Needs[stage] \subseteq held
  /\ exit # "running" /\ stage = "return" =>
       held \subseteq IF Unopened THEN {"tables", "descriptor"} ELSE {}
=============================================================================
