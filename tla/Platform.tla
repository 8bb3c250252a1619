------------------------------ MODULE Platform ------------------------------
(***************************************************************************)
(* Targets and their calling conventions (core/platform.c).                *)
(***************************************************************************)
EXTENDS Naturals, Sequences

\* What the emitter uses of a calling convention: the registers of the first
\* argument, of scratch values and of results, and the layout of a frame.
CC_SYSTEM_V_64 ==
  [arg |-> "rdi", scratch |-> "r10", ret |-> "rax",
   stack_alignment |-> 16, shadow_space |-> 0, ptr_size |-> 8]

\* Mutant: the shadow space leaves the stack unaligned.
CC_MS_64Unaligned ==
  [arg |-> "rcx", scratch |-> "r10", ret |-> "rax",
   stack_alignment |-> 16, shadow_space |-> 40, ptr_size |-> 8]

CC_MS_64 ==
  [arg |-> "rcx", scratch |-> "r10", ret |-> "rax",
   stack_alignment |-> 16, shadow_space |-> 32, ptr_size |-> 8]

OS == {"windows", "linux", "macos"}
OS_UNKNOWN == "unknown"

ARCH == {"x86", "x86_64"}
ARCH_UNKNOWN == "unknown"

get_abi_from_os(os) ==
  CASE os = "windows" -> "MS" [] os \in {"linux", "macos"} -> "SYSV" [] OTHER -> "unknown"

PlatformInfo(arch, os) == [arch |-> arch, os |-> os, abi |-> get_abi_from_os(os)]
PLAT_INFO_UNKNOWN == PlatformInfo(ARCH_UNKNOWN, OS_UNKNOWN)

\* What HOST_INFO is in the builds of the compiler.
HOST_INFOS == {PlatformInfo(arch, os) : arch \in ARCH \cup {ARCH_UNKNOWN}, os \in OS \cup {OS_UNKNOWN}}

parse_arch(str) ==
  CASE str \in {"x86", "i386"} -> "x86" [] str \in {"x86_64", "x64"} -> "x86_64"
    [] OTHER -> ARCH_UNKNOWN
parse_os(str) == IF str \in OS THEN str ELSE OS_UNKNOWN

\* The platform of a triple, given as its components; any after the second are
\* ignored.
parse_target_triple(parts) ==
  IF Len(parts) < 2 \/ parse_arch(parts[1]) = ARCH_UNKNOWN \/ parse_os(parts[2]) = OS_UNKNOWN
    THEN PLAT_INFO_UNKNOWN
    ELSE PlatformInfo(parse_arch(parts[1]), parse_os(parts[2]))

\* Where get_calling_convention does not exit the process.
HasConvention(info) == info.arch = "x86_64" /\ info.abi \in {"MS", "SYSV"}

\* get_calling_convention of a 64-bit target
get_calling_convention(os) ==
  IF get_abi_from_os(os) = "MS" THEN CC_MS_64 ELSE CC_SYSTEM_V_64

CONVENTIONS == {get_calling_convention(os) : os \in OS}
=============================================================================
