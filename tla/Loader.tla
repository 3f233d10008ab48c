-------------------------------- MODULE Loader --------------------------------
(***************************************************************************)
(* Loading a program: ProcessGetCodeInfo, ProcessGetFromFile and the loop  *)
(* of ProcessFork over them (flat/os/process.c), with the descriptors of   *)
(* FsTable and the copies of MemoryPages.                                  *)
(*                                                                         *)
(* An executable is a text: a first line "start: ..." and lines of data    *)
(* "address:bytes", where a line without an address goes on where the one  *)
(* before it ended.  Here a line is its length in characters, its address  *)
(* or NoAddr, and its bytes; positions in a file count characters, so the  *)
(* ends of the pieces that are read fall where they do in the code.        *)
(***************************************************************************)
EXTENDS MemoryPages, FsTable, SequencesExt

CONSTANTS Lines,      \* Lines[n]: the lines of file n, its first line included
          Executable, \* names of the files whose first line has "start:"
          NoAddr,     \* a line without an address
          InfoChars,  \* characters that are read to look for "start:" (100)
          PieceChars  \* characters that are read at a time (200)

ReadMode == 1 \* FS_MODE_READ

Width(lines, i, j) == FoldFunctionOnSet(+, 0, [k \in 1 .. Len(lines) |->
                                               lines[k].width], i .. j)

\* Where line i begins.
Offset(name, i) == Width(Lines[name], 1, i - 1)

\* Every line ends with a newline, which its width counts.  Of a file whose last
\* line does not, ProcessGetFromFile never takes that line (process.c 686-690).
ASSUME LinesAssumption == \A n \in Names : Host[n].size >= 0 =>
  Host[n].size = Width(Lines[n], 1, Len(Lines[n]))
ASSUME LineAssumption == \A n \in Names : Lines[n] \in
  Seq([width : Nat, addr : Nat \cup {NoAddr}, bytes : Seq(Nat)])

\* To find "start:" takes InfoChars characters, and a file of the host.
ASSUME InfoAssumption == InfoChars \in Nat /\ InfoChars > 1
ASSUME ExecutableAssumption == \A n \in Executable :
  n \in Names /\ ~Host[n].dlx /\ Host[n].size >= InfoChars /\ Lines[n] # <<>>

\* The search back to the last newline of a piece would leave the buffer.
ASSUME PieceAssumption ==
  \A n \in Executable : \A i \in DOMAIN Lines[n] : Lines[n][i].width <= PieceChars

-----------------------------------------------------------------------------

\* A file that is too short is closed again, one without "start:" is not.
ProcessGetCodeInfo(t, name) ==
  LET Checked(fd, read) ==
        IF read.got # InfoChars THEN [fd |-> -1, table |-> FsClose(read.table, fd)]
        ELSE IF name \notin Executable THEN [fd |-> -1, table |-> read.table]
        ELSE [fd |-> fd, table |-> FsSeekSet(read.table, fd, Offset(name, 2))]
      Opened(open) ==
        IF open.fd < 0 THEN open
        ELSE Checked(open.fd, FsRead(open.table, open.fd, InfoChars))
  IN  Opened(FsOpen(t, name, ReadMode))

HasBytes(line) == line.bytes # <<>>
HasAddr(line)  == line.addr # NoAddr

TakenPastAddress(name, from, to) == \* mutant: a new address does not stop it
  {i \in DOMAIN Lines[name] : Offset(name, i) >= from /\ Offset(name, i + 1) <= to}

\* The lines of a piece that are taken: whole ones, up to one that begins at
\* an address of its own when bytes have been collected before it.
Taken(name, from, to) ==
  LET lines == Lines[name]
      Whole(i) == Offset(name, i) >= from /\ Offset(name, i + 1) <= to
      Stops(i) == HasAddr(lines[i]) /\ \E j \in DOMAIN lines :
                    j < i /\ Offset(name, j) >= from /\ HasBytes(lines[j])
  IN  {i \in DOMAIN lines : Whole(i) /\ \A j \in DOMAIN lines :
                              Offset(name, j) >= from /\ j <= i => ~Stops(j)}

\* The bytes of the lines taken, the address behind them, and where they end.
Collected(name, taken, addr) ==
  LET lines == Lines[name]
      Bytes(i) == lines[i].bytes
      bytes == FlattenSeq([i \in 1 .. Cardinality(taken) |-> Bytes(Min(taken) + i - 1)])
      named == {i \in taken : HasAddr(lines[i])}
  IN  [bytes |-> bytes,
       addr |-> Len(bytes) + (IF named = {} THEN addr ELSE lines[Max(named)].addr),
       end |-> Offset(name, Max(taken) + 1)]

\* One call: what it collects, and the table with the position just behind the
\* last line taken.
ProcessGetFromFile(t, fd, addr) ==
  LET pos == FsTell(t, fd)
      read == FsRead(t, fd, PieceChars)
      Answer(got) == [bytes |-> got.bytes, addr |-> got.addr,
                      table |-> FsSeekSet(read.table, fd, got.end)]
  IN  IF read.got <= 0 THEN [bytes |-> <<>>, addr |-> addr, table |-> read.table]
      ELSE Answer(Collected(t[fd].name, Taken(t[fd].name, pos, pos + read.got), addr))

\* The bytes that a call gave go to the program's memory.
Place(last, pcb, new) ==
  LET size == Len(new.bytes) IN
  [mem |-> MemoryCopySystemToUser(last.mem, pcb,
             [i \in 0 .. size - 1 |-> new.bytes[i + 1]], new.addr - size, size),
   table |-> new.table, addr |-> new.addr, done |-> size = 0]

\* The loop of ProcessFork: calls until one gives no bytes.  There are at most
\* as many as the file has lines.
LoadProgram(m, pcb, t, fd) ==
  LET Calls[n \in 0 .. Len(Lines[t[fd].name])] ==
        IF n = 0 THEN [mem |-> m, table |-> t, addr |-> 0, done |-> FALSE]
        ELSE IF Calls[n - 1].done THEN Calls[n - 1]
        ELSE Place(Calls[n - 1], pcb,
                   ProcessGetFromFile(Calls[n - 1].table, fd, Calls[n - 1].addr))
  IN  Calls[Len(Lines[t[fd].name])]

-----------------------------------------------------------------------------
(* What a file says the memory of its program is.                          *)

\* The address of the first byte of line i.
LineAddr(name) ==
  LET lines == Lines[name]
      At[i \in 2 .. Len(lines)] ==
        IF HasAddr(lines[i]) THEN lines[i].addr
        ELSE IF i = 2 THEN 0 ELSE At[i - 1] + Len(lines[i - 1].bytes)
  IN  At

\* The cells that line i gives a value.
CoveredBy(name, i) ==
  LineAddr(name)[i] .. LineAddr(name)[i] + Len(Lines[name][i].bytes) - 1

\* Every cell that the file gives a value has that of the last such line.
Image(name) ==
  LET lines == 2 .. Len(Lines[name])
  IN  [a \in UNION {CoveredBy(name, i) : i \in lines} |->
         LET i == Max({j \in lines : a \in CoveredBy(name, j)})
         IN  Lines[name][i].bytes[a - LineAddr(name)[i] + 1]]
=============================================================================
