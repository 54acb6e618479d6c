---------------------------- MODULE Fingerprint ----------------------------
(***************************************************************************)
(* What an exec becomes: the record that the probe (foverin-ebpf) writes   *)
(* for it, the bits that brain.rs makes of a window of records, and the    *)
(* label and the prior that follow from the bits.                          *)
(*                                                                         *)
(* The probe reads the parent's name at offsets that build.rs bakes into   *)
(* it on the build host, so they belong to the kernel of that host.        *)
(*                                                                         *)
(* A file name is kept as encode_names sees it: what the 128 bytes of the  *)
(* event hold of the last part of the path (which is cut off if the path   *)
(* is longer), in lower case, and how many ".exe" it ends in.              *)
(***************************************************************************)
EXTENDS Integers, Sequences

CONSTANTS
  Execs,          \* [name, exes, parent, elsewhere]: the file, the name of the
                  \* parent in characters, and the TASK_COMM_LEN bytes that
                  \* are found at offsets that do not fit
  KernelOffsets,  \* where the running kernel has real_parent and comm
  BuildHost       \* [skip, btf, kernel, pahole, parses]: where the probe was built

VOCAB == <<
  "rustc", "cargo", "cc", "c++", "gcc", "g++", "clang", "clang++", "make",
  "gmake", "ninja", "cmake", "ld", "lld", "rust-lld", "collect2", "as",
  "steam", "steamwebhelper", "steamos-logger", "steam_app", "csgo", "cs2",
  "dota2", "proton", "proton-run", "wine", "wine64", "wineserver", "lutris",
  "gamesoverlayui",
  "firefox", "chrome", "chromium", "brave", "msedge", "spotify", "code",
  "electron", "slack", "discord",
  "bash", "zsh", "sh", "fish", "systemd", "sshd", "sleep", "login", "sudo",
  "pacman" >>

COMPILE_END  == 17
GAMING_END   == 31
BROWSING_END == 41

-----------------------------------------------------------------------------
(* build.rs: the offsets of task_struct. *)

FallbackOffsets == [real_parent |-> 2880, comm |-> 3400]

\* generate_task_offsets: pahole's word on the host's kernel, or the fallback.
BakedOffsets(host) ==
  IF /\ ~ host.skip
     /\ host.btf
     /\ host.pahole = "runs"
     /\ {"real_parent", "comm"} \subseteq host.parses
  THEN host.kernel
  ELSE FallbackOffsets

\* The build that is asked for: pahole reads the kernel that will run.
BuiltForKernel(host) ==
  /\ ~ host.skip
  /\ host.btf
  /\ host.kernel = KernelOffsets
  /\ host.pahole = "runs"
  /\ {"real_parent", "comm"} \subseteq host.parses

-----------------------------------------------------------------------------
(* The probe. *)

TASK_COMM_LEN == 16

\* The byte that ends a name, and no character of one.
NUL == ""

Steam == <<"s", "t", "e", "a", "m">>

\* How the kernel keeps a name: cut off if it is too long, padded with NUL.
Comm(name) ==
  [i \in 1 .. TASK_COMM_LEN |->
     IF i <= Len(name) /\ i < TASK_COMM_LEN THEN name[i] ELSE NUL]

\* The probe reads at its offsets, whatever is there.
ParentComm(e, offsets) ==
  IF offsets = KernelOffsets THEN Comm(e.parent) ELSE e.elsewhere

\* Mutant of CommEq: the terminator is not compared.
CommStartsWith(comm, name) ==
  /\ Len(name) < TASK_COMM_LEN
  /\ \A i \in 1 .. Len(name) : comm[i] = name[i]

\* The characters of the name, and its terminator.
CommEq(comm, name) ==
  /\ Len(name) < TASK_COMM_LEN
  /\ \A i \in 1 .. Len(name) : comm[i] = name[i]
  /\ comm[Len(name) + 1] = NUL

\* The record of an exec: a child of steam becomes "steam_app", also if its
\* own name is in VOCAB.
Event(e, offsets) ==
  IF CommEq(ParentComm(e, offsets), Steam)
  THEN [name |-> "steam_app", exes |-> 0]
  ELSE [name |-> e.name, exes |-> e.exes]

-----------------------------------------------------------------------------
(* brain.rs: from a window of records to bits, a label and a prior. *)

\* encode_names strips one ".exe" and looks the rest up.
IsEntry(event, i) == event.exes <= 1 /\ event.name = VOCAB[i]

\* The entries that occur in the window: the multi-hot vector and its bitset.
FingerprintBits(window, offsets) ==
  LET events == {Event(e, offsets) : e \in window}
  IN  {i \in DOMAIN VOCAB : \E event \in events : IsEntry(event, i)}

Hit(fp, start, end) == \E i \in fp : start < i /\ i <= end

SoftLabel(fp) ==
  IF Hit(fp, 0, COMPILE_END) THEN "COMPILING"
  ELSE IF Hit(fp, COMPILE_END, GAMING_END) THEN "GAMING"
  ELSE IF Hit(fp, GAMING_END, BROWSING_END) THEN "BROWSING"
  ELSE "IDLE"

PriorGovernor(label, efficiency) ==
  IF label \in {"COMPILING", "GAMING"} THEN "performance" ELSE efficiency

=============================================================================
