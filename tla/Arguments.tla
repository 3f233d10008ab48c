------------------------------ MODULE Arguments ------------------------------
(***************************************************************************)
(* The arguments of a program: how main and TrapProcessCreateHandler       *)
(* (flat/os/process.c, flat/os/traps.c) put strings into one buffer and    *)
(* how ProcessFork finds them again with get_argument and builds argc and  *)
(* argv.  A string is a sequence of characters, numbers other than NUL.    *)
(***************************************************************************)
EXTENDS Integers, Sequences, SequencesExt

CONSTANTS ArgBuff, \* SIZE_ARG_BUFF (1024)
          ArgScan, \* characters that get_argument looks at (100)
          MaxArgs  \* MAX_ARGS (128)

ASSUME BufferAssumption == /\ ArgScan \in Nat \ {0}
                           /\ ArgBuff \in Nat /\ ArgBuff > ArgScan
                           /\ MaxArgs \in Nat

NUL == 0

\* The strings one after the other, each with its NUL.
Packed(strings) == FlattenSeq([i \in DOMAIN strings |-> Append(strings[i], NUL)])

\* An array of ArgBuff characters that begins with the sequence.
Filled(chars, filler) ==
  [i \in 0 .. ArgBuff - 1 |-> IF i < Len(chars) THEN chars[i + 1] ELSE filler]

\* The trap refuses, by ending the system, arguments that fill the buffer or
\* are too many; the name of the program counts as one string more.
ArgsAccepted(strings) ==
  /\ Len(strings) = 1 \/ Len(Packed(strings)) < ArgBuff
  /\ Len(strings) - 1 < MaxArgs

TrapArgs(strings) == Filled(Packed(strings), NUL)

\* main does not clear its buffer and cuts what does not fit.
MainArgs(strings, filler) ==
  [Filled(Packed(strings), filler) EXCEPT ![ArgBuff - 1] = NUL]

GetArgumentsPastNul(buf) == \* mutant: the scan stays on the NUL it found
  LET Behind(at) == Min({j \in at .. ArgScan - 1 : buf[j] = NUL} \cup {ArgScan})
      From[at \in 0 .. ArgScan] ==
        IF at >= ArgScan - 1 \/ buf[at] = NUL THEN <<>>
        ELSE <<at>> \o From[Behind(at)]
  IN  IF From[0] = <<>> THEN <<0>> ELSE From[0]

\* The answers of get_argument, called until it gives 0: where each string
\* begins, up to an empty one or the end of what is looked at.  ProcessFork
\* takes the first answer without looking whether it is 0.
GetArguments(buf) ==
  LET Behind(at) == Min({j + 1 : j \in {i \in at .. ArgScan - 1 : buf[i] = NUL}}
                        \cup {ArgScan})
      From[at \in 0 .. ArgScan] ==
        IF at >= ArgScan - 1 \/ buf[at] = NUL THEN <<>>
        ELSE <<at>> \o From[Behind(at)]
  IN  IF From[0] = <<>> THEN <<0>> ELSE From[0]

\* The words dum[0 .. count - 1] for a buffer that lies at address base: argc,
\* the address of argv, and argv itself, which ends where the buffer begins.
ArgVector(buf, base) ==
  LET found == GetArguments(buf) IN
  [i \in 0 .. Len(found) + 1 |-> CASE i = 0 -> Len(found)
                                   [] i = 1 -> base - Len(found)
                                   [] OTHER -> base + found[i - 1]]

-----------------------------------------------------------------------------

\* How many strings a program can count on: those before the first empty one
\* that begin within the characters that are looked at.
Delivered(strings) ==
  LET Begin(i) == Len(Packed(SubSeq(strings, 1, i - 1)))
      Lost(i) == strings[i] = <<>> \/ Begin(i) >= ArgScan - 1
  IN  Cardinality({i \in DOMAIN strings : \A j \in 1 .. i : ~Lost(j)})
=============================================================================
