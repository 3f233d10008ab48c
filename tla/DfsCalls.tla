------------------------------- MODULE DfsCalls -------------------------------
(***************************************************************************)
(* The inode functions of DfsInode, called one after another by a caller   *)
(* who is not disturbed: the kernel in RunOSTests (flat/os/ostests.c), or  *)
(* the only process that uses files.                                       *)
(***************************************************************************)
EXTENDS DfsInode

CONSTANT Extents \* the pairs <<start_byte, num_bytes>> that the caller uses

\* A longer file would run over the end of the kernel's indirect_block_vector;
\* nobody asks for no bytes beyond the direct blocks.
ASSUME ExtentAssumption ==
  \A e \in Extents : /\ e \in Nat \X Nat
                     /\ (e[1] + e[2]) \div B < TableSize + B
                     /\ e[2] = 0 => e[1] \div B < TableSize

VARIABLES dfs,   \* the driver: inodes, blocks in use and content of the disk
          kept,  \* the locks that past calls have not released
          ret    \* what the last call returned

vars == <<dfs, kept, ret>>

-----------------------------------------------------------------------------
(* The caller owns the locks that a call has kept: the next call takes     *)
(* them again, and gives back those that it does release.                  *)

Init ==
  /\ dfs = Formatted
  /\ kept = {}
  /\ ret = 1

Call(a) ==
  /\ dfs' = a.dfs
  /\ kept' = (kept \ a.takes) \cup a.keeps
  /\ ret' = a.ret

Open(name) == Call(InodeOpen(dfs, name))

Delete(h) == Call(InodeDelete(dfs, h))

\* The handle may be that of an inode that is not in use, one that was deleted
\* say: the functions look whether it is and go on all the same (dfs.c 943, 1102).
Write(h, e, value) ==
  \E stack \in [Entry -> Garbage] :
    Call(WriteBytes(dfs, h, e[1], e[2], value, stack))

Read(h, e) == Call(ReadBytes(dfs, h, e[1], e[2]))

Next ==
  \/ \E name \in Names : Open(name)
  \/ \E h \in Inode : Delete(h)
  \/ \E h \in Inode, e \in Extents, value \in Values : Write(h, e, value)
  \/ \E h \in Inode, e \in Extents : Read(h, e)

Spec == Init /\ [][Next]_vars

-----------------------------------------------------------------------------
(* Properties.                                                             *)

Cell == 0 .. NumBlocks - 1

TypeOK ==
  /\ dfs.inodes \in [Inode -> [inuse : BOOLEAN, name : Names \cup {""}, size : Nat,
                               table : [Slot -> Block], indirect : Block]]
  /\ dfs.used \subseteq Block
  /\ dfs.disk \in [Block -> [Entry -> Cell \cup Values]]
  /\ kept \subseteq Both
  /\ ret \in Int

TableOf(d, h) == {d.inodes[h].table[v] : v \in Slot} \ {0}

\* The table of a file names blocks that are in use and hold no metadata, each
\* of them in one place of one file: no block serves two purposes, also after
\* calls that failed half-way (dfs.c 807-870, 1266-1290).
BlocksAreOwned ==
  /\ \A h \in Inode : TableOf(dfs, h) \subseteq dfs.used \ Meta
  /\ \A h, i \in Inode, v, w \in Slot :
       /\ dfs.inodes[h].table[v] # 0
       /\ dfs.inodes[h].table[v] = dfs.inodes[i].table[w]
       => h = i /\ v = w

\* No name in use is found under another name in use: the file that a lookup
\* finds is the only one it could find (dfs.c 653-664).
NamesApart ==
  \A h, i \in Inode :
    /\ dfs.inodes[h].inuse /\ dfs.inodes[i].inuse
    /\ <<dfs.inodes[h].name, dfs.inodes[i].name>> \in Match
    => h = i

\* What reading the range f of file h gives after a write of the range e has
\* taken the driver from d to r, if that read succeeds: the bytes of the write
\* where the ranges meet, and elsewhere those that it would have given before.
ReadGivesWritten(d, r, h, e, value, f) ==
  ReadBytes(r, h, f[1], f[2]).ret = f[2]
  => \A k \in Bytes(f[2]) :
       BytesRead(r, f[1], f[2])[k] = IF f[1] + k \in e[1] .. e[1] + e[2] - 1
                                     THEN value ELSE BytesRead(d, f[1], f[2])[k]

Written(h, e, value) == ret' = e[2] /\ Write(h, e, value)

\* What a write has put into a file is what a read finds there: every byte when
\* the same range is read, and byte by byte for any two ranges that are read and
\* written in parts, however they overlap and wherever in a block they begin and
\* end (dfs.c 1074-1077 and 916-919 cut them up the same way).  A range inside
\* one block is put at the end of it (dfs.c 1163), where only itself looks.
ReadsBack ==
  [][ \A h \in Inode, e \in Extents, value \in Values :
        Written(h, e, value)
        => \A f \in Extents :
             f = e \/ ~(OneBlock(e[1], e[2]) \/ OneBlock(f[1], f[2]))
             => ReadGivesWritten(dfs, dfs', h, e, value, f) ]_vars

\* dfs.c:1062 says of DfsInodeWriteBytes that it writes "to the file represented
\* by the inode handle": it changes only blocks that belong to that file.
WriteStaysInFile ==
  [][ \A h \in Inode, e \in Extents, value \in Values :
        dfs.inodes[h].inuse /\ Write(h, e, value)
        => \A b \in Block : dfs'.disk[b] # dfs.disk[b]
             => b \in TableOf(dfs', h) \cup {dfs'.inodes[h].indirect} ]_vars

\* dfs.c:753 says that DfsInodeDelete "de-allocates any data blocks used by this
\* inode": a delete takes no block away from another file.
DeleteFreesOnlyItsOwn ==
  [][ \A h, i \in Inode :
        Delete(h) /\ i # h /\ dfs.inodes[i].inuse
        => TableOf(dfs, i) \subseteq dfs'.used ]_vars
=============================================================================
