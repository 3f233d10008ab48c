---------------------------- MODULE DfsMount_proofs ----------------------------
(***************************************************************************)
(* Proofs about the metadata on disk, for any number of inode and vector   *)
(* blocks, of changes in memory, of file writes that hit the metadata and  *)
(* of failing writes, with a crash between any two disk accesses: a valid  *)
(* mark of the driver or of fdisk never lies, and mounting it does not     *)
(* lose what it stands for.                                                *)
(***************************************************************************)
EXTENDS DfsMount, TLAPS

-----------------------------------------------------------------------------
(* The inductive invariant: what the types say and a little more.          *)

\* A metadata block never holds what only a superblock holds.
DiskOK ==
  /\ disk \in [Block -> Content \cup SuperContent]
  /\ disk[0] \in SuperContent
  /\ \A b \in Meta : disk[b] \in Content

\* No hole of the image is ever in memory.
MemOK == mem \in [Meta -> Content] /\ \A b \in Meta : mem[b] # Missing

\* The next block of each loop is in its range.
KernelOK ==
  /\ kernel \in [at : {"off", "open", "run", "close"}, next : 0 .. NumMeta + 1]
  /\ kernel.at = "close" => kernel.next # 0

FdiskOK ==
  /\ fdisk \in [at : {"idle", "create", "zero", "format", "exited"},
                next : 0 .. NumMeta + 1]
  /\ fdisk.at = "zero" => fdisk.next # NumMeta + 1
  /\ fdisk.at = "format" => fdisk.next # 0

\* fdisk only goes on while the system runs without a file system.
FdiskAlone ==
  /\ valid \in BOOLEAN /\ fsOpen \in BOOLEAN
  /\ fdisk.at # "idle" => kernel.at = "run" /\ ~valid

RestOK ==
  /\ version \in 0 .. MaxVersion
  /\ faults \in 0 .. MaxFaults
  /\ committed \in [Meta -> Content]

TypeInv == DiskOK /\ MemOK /\ KernelOK /\ FdiskOK /\ FdiskAlone /\ RestOK

-----------------------------------------------------------------------------
(* What mounting, closing and formatting have done so far.                 *)

\* A valid image has no hole.
ValidIsWhole ==
  disk[0] = SuperValid => \A b \in Meta : committed[b] # Missing

\* An open has read the blocks before the next one as they are on the disk;
\* it starts with the file system down.
OpenProgress ==
  kernel.at = "open" =>
    /\ kernel.next = 0 => ~valid
    /\ \A b \in Meta : b < kernel.next => mem[b] = disk[b]

\* A close has written the blocks before the next one, under an invalid mark.
CloseProgress ==
  kernel.at = "close" =>
    /\ disk[0] # SuperValid
    /\ \A b \in Meta : b < kernel.next => disk[b] = mem[b]

\* While fdisk fills the image with zeros, nothing else is in it.
ZeroProgress ==
  fdisk.at = "zero" => \A b \in Block : disk[b] \in {Missing, Zeros}

\* The blocks of the format: those that are written and, behind the first block
\* of the vector, the zeros before it.
FormatProgress ==
  fdisk.at = "format" =>
    /\ fdisk.next <= NumFbvBlocks + 1 => disk[0] # SuperValid
    /\ \A b \in 1 .. NumInodeBlocks :
         disk[b] = Zeros \/ (fdisk.next = 1 /\ disk[b] = Missing)
    /\ \A b \in Meta :
         NumInodeBlocks < b /\ b < NumInodeBlocks + fdisk.next => disk[b] = Format

-----------------------------------------------------------------------------
(* Types, ranges and who is active, whatever fails.                        *)

\* The blocks: the superblock, then at least one inode and one vector block.
LEMMA Sizes ==
  /\ NumInodeBlocks \in Nat \ {0} /\ NumFbvBlocks \in Nat \ {0}
  /\ NumMeta \in Nat \ {0} /\ NumMeta = NumInodeBlocks + NumFbvBlocks
  /\ Meta = 1 .. NumMeta /\ Block = 0 .. NumMeta
  /\ MaxVersion \in Nat /\ MaxFaults \in Nat
BY SizeAssumption, BoundAssumption DEF NumMeta, Meta, Block

\* A write changes its block, and the holes before it to zeros.
LEMMA WrittenLemma ==
  ASSUME NEW b, NEW content
  PROVE  /\ DOMAIN Written(b, content) = Block
         /\ \A c \in Block : (c = b /\ Written(b, content)[c] = content)
                              \/ (/\ c # b /\ ~(c < b /\ disk[c] = Missing)
                                  /\ Written(b, content)[c] = disk[c])
                              \/ (/\ c # b /\ c < b /\ disk[c] = Missing
                                  /\ Written(b, content)[c] = Zeros)
         /\ b \in Block => Written(b, content)[b] = content
BY DEF Written

\* A write of a fitting content keeps the types of the blocks.
LEMMA WriteOK ==
  ASSUME DiskOK, NEW b, NEW content, disk' = Written(b, content),
         b = 0 => content \in SuperContent, b \in Meta => content \in Content
  PROVE  DiskOK'
<1>1. DOMAIN disk' = Block /\ \A c \in Block : disk'[c] \in {content, disk[c], Zeros}
  BY WrittenLemma
<1>2. \A c \in Block : disk'[c] # disk[c] =>
        (c = b /\ disk'[c] = content) \/ disk'[c] = Zeros
  BY WrittenLemma
<1>3. Zeros \in SuperContent /\ Zeros \in Content
  BY Sizes DEF SuperContent, FileSuper, Content, Missing, Zeros
<1>4. 0 \in Block /\ Meta \subseteq Block /\ Block = Meta \cup {0}
  BY Sizes
<1>5. disk'[0] \in SuperContent
  BY <1>2, <1>3, <1>4 DEF DiskOK
<1>6. \A c \in Meta : disk'[c] \in Content
  BY <1>2, <1>3, <1>4 DEF DiskOK
<1>7. disk' = [c \in Block |-> disk'[c]]
  BY DEF Written
<1> QED BY <1>4, <1>5, <1>6, <1>7 DEF DiskOK

\* What fdisk writes is fit for the block it writes.
LEMMA FormatContentLemma ==
  /\ FormatContent(0) = SuperValid /\ FormatContent(0) \in SuperContent
  /\ \A b \in Meta : /\ FormatContent(b) \in Content \ {Missing}
                     /\ FormatContent(b) = IF b <= NumInodeBlocks THEN Zeros ELSE Format
BY Sizes DEF FormatContent, SuperContent, FileSuper, Content, Missing, Zeros, Format

LEMMA InitTypeInv == Init => TypeInv
<1> SUFFICES ASSUME Init PROVE TypeInv
  OBVIOUS
<1>1. DiskOK
  BY Sizes DEF Init, DiskOK, SuperContent, FileSuper, Content, Missing
<1>2. MemOK
  BY Sizes DEF Init, MemOK, Content, Missing, Zeros
<1>3. KernelOK
  BY Sizes DEF Init, KernelOK, At
<1>4. FdiskOK
  BY Sizes DEF Init, FdiskOK, At, Idle
<1>5. FdiskAlone
  BY DEF Init, FdiskAlone, At, Idle
<1>6. RestOK
  BY Sizes DEF Init, RestOK, Content, Missing
<1> QED BY <1>1, <1>2, <1>3, <1>4, <1>5, <1>6 DEF TypeInv

\* Every step keeps the types, also when accesses fail.
LEMMA NextTypeInv == TypeInv /\ [Next]_vars => TypeInv'
<1> SUFFICES ASSUME TypeInv, [Next]_vars PROVE TypeInv'
  OBVIOUS
<1> USE DEF TypeInv
<1>1. CASE Boot
  <2>1. KernelOK'
    BY <1>1, Sizes
       DEF KernelOK, Boot, At
  <2>2. FdiskOK'
    BY <1>1, Sizes
       DEF FdiskOK, Boot, At, Idle
  <2>3. FdiskAlone'
    BY <1>1, Sizes
       DEF FdiskAlone, Boot, At, Idle
  <2>4. DiskOK' /\ MemOK' /\ RestOK'
    BY <1>1 DEF DiskOK, MemOK, RestOK, Boot
  <2> QED BY <2>1, <2>2, <2>3, <2>4
<1>2. CASE OpenSuper
  <2>1. KernelOK'
    BY <1>2, Sizes
       DEF KernelOK, OpenSuper, ReadFails, Fault, NoFault, At
  <2>2. FdiskAlone'
    <3>1. valid' \in BOOLEAN /\ fsOpen' \in BOOLEAN
      <4>1. SaysValid(disk[0]) \in BOOLEAN /\ (disk[0] # Zeros) \in BOOLEAN
        BY DEF SaysValid
      <4>2. CASE UNCHANGED <<valid, fsOpen>>
        BY <4>2 DEF FdiskAlone
      <4>3. CASE valid' = SaysValid(disk[0]) /\ fsOpen' = (disk[0] # Zeros)
        BY <4>1, <4>3
      <4> QED BY <1>2, <4>2, <4>3 DEF OpenSuper
    <3>2. fdisk.at = "idle"
      BY <1>2, Sizes DEF FdiskAlone, OpenSuper, At
    <3> QED BY <1>2, <3>1, <3>2 DEF FdiskAlone, OpenSuper
  <2>3. RestOK'
    BY <1>2, Sizes
       DEF RestOK, OpenSuper, ReadFails, Fault, NoFault, Content, Missing
  <2>4. DiskOK' /\ MemOK' /\ FdiskOK'
    BY <1>2 DEF DiskOK, MemOK, FdiskOK, OpenSuper, ReadFails, Fault, NoFault
  <2> QED BY <2>1, <2>2, <2>3, <2>4
<1>3. CASE OpenBlock
  <2>1. MemOK'
    <3>1. kernel.next \in Meta
      BY <1>3, Sizes DEF OpenBlock, LastRead
    <3>2. CASE UNCHANGED mem
      BY <3>2 DEF MemOK
    <3>3. CASE /\ disk[kernel.next] # Missing
               /\ mem' = [mem EXCEPT ![kernel.next] = disk[kernel.next]]
      BY <3>1, <3>3 DEF MemOK, DiskOK
    <3> QED BY <1>3, <3>2, <3>3 DEF OpenBlock
  <2>2. KernelOK'
    BY <1>3, Sizes
       DEF KernelOK, OpenBlock, ReadFails, Fault, NoFault, At, LastRead
  <2>3. FdiskAlone'
    BY <1>3, Sizes
       DEF FdiskAlone, OpenBlock, ReadFails, Fault, NoFault, At, Idle, LastRead
  <2>4. RestOK'
    BY <1>3, Sizes
       DEF RestOK, OpenBlock, ReadFails, Fault, NoFault, Content, Missing, LastRead
  <2>5. DiskOK' /\ FdiskOK'
    BY <1>3 DEF DiskOK, FdiskOK, OpenBlock, ReadFails, Fault, NoFault
  <2> QED BY <2>1, <2>2, <2>3, <2>4, <2>5
<1>4. CASE OpenMark
  <2>1. DiskOK'
    <3>1. CASE UNCHANGED disk
      BY <3>1 DEF DiskOK
    <3>2. CASE disk' = Written(0, SuperInvalid)
      BY <3>2, Sizes, WriteOK DEF SuperContent, FileSuper
    <3> QED BY <1>4, <3>1, <3>2 DEF OpenMark
  <2>2. KernelOK'
    BY <1>4, Sizes
       DEF KernelOK, OpenMark, Fault, NoFault, At, LastRead
  <2>3. FdiskAlone'
    BY <1>4, Sizes
       DEF FdiskAlone, OpenMark, Fault, NoFault, At, Idle, LastRead
  <2>4. RestOK'
    BY <1>4, Sizes
       DEF RestOK, OpenMark, Fault, NoFault, Content, Missing, LastRead
  <2>5. MemOK' /\ FdiskOK'
    BY <1>4 DEF MemOK, FdiskOK, OpenMark, Fault, NoFault
  <2> QED BY <2>1, <2>2, <2>3, <2>4, <2>5
<1>5. CASE Modify
  <2>1. MemOK'
    <3>1. version + 2 \in Content /\ version + 2 # Missing
      BY <1>5, Sizes DEF Modify, RestOK, Content, Missing
    <3> QED BY <1>5, <3>1 DEF Modify, MemOK
  <2>2. RestOK'
    BY <1>5, Sizes
       DEF RestOK, Modify, Content, Missing
  <2>3. DiskOK' /\ KernelOK' /\ FdiskOK' /\ FdiskAlone'
    BY <1>5 DEF DiskOK, KernelOK, FdiskOK, FdiskAlone, Modify
  <2> QED BY <2>1, <2>2, <2>3
<1>14. CASE \E b \in Block : FileWrite(b)
  <2>1. PICK b \in Block : FileWrite(b)
    BY <1>14
  <2>2. DiskOK'
    <3>1. CASE UNCHANGED disk
      BY <3>1 DEF DiskOK
    <3>2. ASSUME NEW content \in IF b = 0 THEN FileSuper ELSE {version + 2},
                 disk' = Written(b, content)
          PROVE  DiskOK'
      <4>1. b = 0 => content \in SuperContent
        BY DEF SuperContent, FileSuper
      <4>2. b \in Meta => content \in Content
        BY <2>1, Sizes DEF FileWrite, RestOK, Content, Missing
      <4> QED BY <3>2, <4>1, <4>2, WriteOK
    <3> QED BY <2>1, <3>1, <3>2 DEF FileWrite
  <2>3. RestOK'
    BY <2>1, Sizes DEF RestOK, FileWrite, Fault, NoFault
  <2>4. MemOK' /\ KernelOK' /\ FdiskOK' /\ FdiskAlone'
    BY <2>1 DEF MemOK, KernelOK, FdiskOK, FdiskAlone, FileWrite
  <2> QED BY <2>2, <2>3, <2>4
<1>6. CASE GracefulExit
  <2>1. MemOK'
    BY <1>6, Sizes
       DEF MemOK, GracefulExit, PowerOff, Content, Missing, Zeros
  <2>2. KernelOK'
    BY <1>6, Sizes
       DEF KernelOK, GracefulExit, PowerOff, At
  <2>3. FdiskOK'
    BY <1>6, Sizes
       DEF FdiskOK, GracefulExit, PowerOff, At, Idle
  <2>4. FdiskAlone'
    <3>1. CASE CheckSystem
      BY <1>6, <3>1 DEF FdiskAlone, GracefulExit, CheckSystem
    <3>2. CASE ~CheckSystem
      <4>1. PowerOff
        BY <1>6, <3>2 DEF GracefulExit
      <4> QED BY <4>1 DEF PowerOff, FdiskAlone, At, Idle
    <3> QED BY <3>1, <3>2
  <2>5. DiskOK' /\ RestOK'
    BY <1>6 DEF DiskOK, RestOK, GracefulExit, PowerOff
  <2> QED BY <2>1, <2>2, <2>3, <2>4, <2>5
<1>7. CASE CloseBlock
  <2>1. DiskOK'
    <3>1. CASE UNCHANGED disk
      BY <3>1 DEF DiskOK
    <3> DEFINE n == kernel.next
               content == IF n = NumMeta + 1 THEN SuperValid ELSE mem[n]
    <3>2. CASE disk' = Written(CloseTarget(n), content)
      <4>1. n \in 1 .. NumMeta + 1
        BY <1>7, Sizes DEF CloseBlock, KernelOK
      <4>2. CloseTarget(n) = 0 => content \in SuperContent
        BY <4>1, Sizes DEF CloseTarget, SuperContent, FileSuper
      <4>3. CloseTarget(n) \in Meta => content \in Content
        BY <4>1, Sizes DEF CloseTarget, MemOK
      <4> HIDE DEF n, content
      <4>4. PICK b, c : b = CloseTarget(n) /\ c = content
        OBVIOUS
      <4>5. /\ disk' = Written(b, c)
            /\ b = 0 => c \in SuperContent
            /\ b \in Meta => c \in Content
        BY <3>2, <4>2, <4>3, <4>4
      <4> QED BY <4>5, WriteOK
    <3> QED BY <1>7, <3>1, <3>2 DEF CloseBlock
  <2>2. MemOK'
    <3>1. PowerOff \/ mem' = mem
      BY <1>7 DEF CloseBlock
    <3>2. CASE PowerOff
      BY <3>2, Sizes DEF PowerOff, MemOK, Content, Missing, Zeros
    <3>3. CASE mem' = mem
      BY <3>3 DEF MemOK
    <3> QED BY <3>1, <3>2, <3>3
  <2>3. KernelOK'
    BY <1>7, Sizes
       DEF KernelOK, CloseBlock, PowerOff, Fault, NoFault, At
  <2>4. FdiskOK'
    BY <1>7, Sizes
       DEF FdiskOK, CloseBlock, PowerOff, Fault, NoFault, At, Idle
  <2>5. FdiskAlone'
    <3>1. fdisk.at = "idle"
      BY <1>7 DEF FdiskAlone, FdiskOK, CloseBlock
    <3>2. PowerOff \/ UNCHANGED <<valid, fsOpen, fdisk>>
      BY <1>7 DEF CloseBlock
    <3>3. CASE PowerOff
      BY <3>3 DEF FdiskAlone, PowerOff, Idle, At
    <3>4. CASE UNCHANGED <<valid, fsOpen, fdisk>>
      BY <3>1, <3>4 DEF FdiskAlone
    <3> QED BY <3>2, <3>3, <3>4
  <2>6. RestOK'
    <3>1. committed' \in [Meta -> Content]
      BY <1>7 DEF RestOK, MemOK, CloseBlock
    <3>2. faults' \in 0 .. MaxFaults /\ UNCHANGED version
      BY <1>7, Sizes DEF RestOK, CloseBlock, Fault, NoFault
    <3> QED BY <3>1, <3>2 DEF RestOK
  <2> QED BY <2>1, <2>2, <2>3, <2>4, <2>5, <2>6
<1>8. CASE Crash
  <2>1. MemOK'
    BY <1>8, Sizes
       DEF MemOK, Crash, PowerOff, Content, Missing, Zeros
  <2>2. KernelOK'
    BY <1>8, Sizes
       DEF KernelOK, Crash, PowerOff, At
  <2>3. FdiskOK'
    BY <1>8, Sizes
       DEF FdiskOK, Crash, PowerOff, At, Idle
  <2>4. FdiskAlone'
    BY <1>8, Sizes
       DEF FdiskAlone, Crash, PowerOff, At, Idle
  <2>5. DiskOK' /\ RestOK'
    BY <1>8 DEF DiskOK, RestOK, Crash, PowerOff
  <2> QED BY <2>1, <2>2, <2>3, <2>4, <2>5
<1>9. CASE FdiskInvalidate
  <2>1. FdiskOK'
    BY <1>9, Sizes
       DEF FdiskOK, FdiskInvalidate, KernelUnchanged, Interruptible, At, Idle
  <2>2. FdiskAlone'
    BY <1>9, Sizes
       DEF FdiskAlone, FdiskInvalidate, KernelUnchanged, Interruptible, At, Idle
  <2>3. DiskOK' /\ MemOK' /\ KernelOK' /\ RestOK'
    BY <1>9 DEF DiskOK, MemOK, KernelOK, RestOK, FdiskInvalidate, KernelUnchanged, Interruptible
  <2> QED BY <2>1, <2>2, <2>3
<1>10. CASE FdiskTruncate
  <2>1. DiskOK'
    BY <1>10, Sizes
       DEF DiskOK, FdiskTruncate, KernelUnchanged, Interruptible, Fault, NoFault, SuperContent, FileSuper, Content, Missing, Zeros, SuperInvalid, SuperValid
  <2>2. FdiskOK'
    BY <1>10, Sizes
       DEF FdiskOK, FdiskTruncate, KernelUnchanged, Interruptible, Fault, NoFault, At, Idle
  <2>3. FdiskAlone'
    BY <1>10, Sizes
       DEF FdiskAlone, FdiskTruncate, KernelUnchanged, Interruptible, Fault, NoFault, At, Idle
  <2>4. RestOK'
    BY <1>10, Sizes
       DEF RestOK, FdiskTruncate, KernelUnchanged, Interruptible, Fault, NoFault, Content, Missing
  <2>5. MemOK' /\ KernelOK'
    BY <1>10 DEF MemOK, KernelOK, FdiskTruncate, KernelUnchanged, Interruptible, Fault, NoFault
  <2> QED BY <2>1, <2>2, <2>3, <2>4, <2>5
<1>11. CASE FdiskZero
  <2>1. DiskOK'
    <3>1. CASE UNCHANGED disk
      BY <3>1 DEF DiskOK
    <3> DEFINE end == Cardinality({b \in Block : disk[b] # Missing})
    <3>2. CASE disk' = Written(end, Zeros)
      <4>1. Zeros \in SuperContent /\ Zeros \in Content
        BY Sizes DEF SuperContent, FileSuper, Content, Missing, Zeros
      <4> HIDE DEF end
      <4> QED BY <3>2, <4>1, WriteOK
    <3> QED BY <1>11, <3>1, <3>2 DEF FdiskZero
  <2>2. FdiskOK'
    BY <1>11, Sizes
       DEF FdiskOK, FdiskZero, KernelUnchanged, Fault, NoFault, At, Idle
  <2>3. FdiskAlone'
    BY <1>11, Sizes
       DEF FdiskAlone, FdiskZero, KernelUnchanged, Fault, NoFault, At, Idle
  <2>4. RestOK'
    BY <1>11, Sizes
       DEF RestOK, FdiskZero, KernelUnchanged, Fault, NoFault, Content, Missing
  <2>5. MemOK' /\ KernelOK'
    BY <1>11 DEF MemOK, KernelOK, FdiskZero, KernelUnchanged, Fault, NoFault
  <2> QED BY <2>1, <2>2, <2>3, <2>4, <2>5
<1>12. CASE FdiskWrite
  <2>1. DiskOK'
    <3>1. CASE UNCHANGED disk
      BY <3>1 DEF DiskOK
    <3> DEFINE b == FormatTarget(fdisk.next)
    <3>2. CASE disk' = Written(b, FormatContent(b))
      <4> HIDE DEF b
      <4> QED BY <3>2, FormatContentLemma, WriteOK
    <3> QED BY <1>12, <3>1, <3>2 DEF FdiskWrite
  <2>2. FdiskOK'
    BY <1>12, Sizes
       DEF FdiskOK, FdiskWrite, KernelUnchanged, Interruptible, Fault, NoFault, At, Idle, FormatTarget, FormatContent, Format
  <2>3. FdiskAlone'
    BY <1>12, Sizes
       DEF FdiskAlone, FdiskWrite, KernelUnchanged, Interruptible, Fault, NoFault, At, Idle, FormatTarget, FormatContent, Format
  <2>4. RestOK'
    <3>1. committed' \in [Meta -> Content]
      BY <1>12, FormatContentLemma DEF RestOK, FdiskWrite
    <3>2. faults' \in 0 .. MaxFaults /\ UNCHANGED version
      BY <1>12, Sizes DEF RestOK, FdiskWrite, KernelUnchanged, Fault, NoFault
    <3> QED BY <3>1, <3>2 DEF RestOK
  <2>5. MemOK' /\ KernelOK'
    BY <1>12 DEF MemOK, KernelOK, FdiskWrite, KernelUnchanged, Interruptible, Fault, NoFault
  <2> QED BY <2>1, <2>2, <2>3, <2>4, <2>5
<1>13. CASE UNCHANGED vars
  BY <1>13 DEF vars, DiskOK, MemOK, KernelOK, FdiskOK, FdiskAlone, RestOK
<1> QED
  BY <1>1, <1>2, <1>3, <1>4, <1>5, <1>6, <1>7, <1>8, <1>9, <1>10, <1>11, <1>12,
     <1>13, <1>14 DEF Next, FdiskStep
\* The invariant of a system whose reads do not fail while it mounts.
MountInv ==
  /\ ValidIsTruthful
  /\ ValidIsWhole
  /\ MountedIsMarked
  /\ OpenProgress
  /\ CloseProgress
  /\ ZeroProgress
  /\ FormatProgress

\* With reads that do not fail, only a hole in the image ends an open early.
LEMMA ReadFailsLemma ==
  ASSUME ~ReadFaults, NEW b
  PROVE  ReadFails(b) <=> disk[b] = Missing /\ NoFault
BY DEF ReadFails

LEMMA InitMountInv == Init => MountInv
BY Sizes DEF Init, MountInv, ValidIsTruthful, ValidIsWhole, MountedIsMarked,
             OpenProgress, CloseProgress, ZeroProgress, FormatProgress, At, Idle,
             Missing, SuperValid

\* Every step keeps what has been done so far.
LEMMA NextMountInv ==
  ASSUME ~ReadFaults, TypeInv, MountInv, [Next]_vars
  PROVE  MountInv'
<1> USE DEF TypeInv, MountInv
<1>1. CASE Boot
  BY <1>1, Sizes
     DEF Boot, ValidIsTruthful, ValidIsWhole, MountedIsMarked, OpenProgress, CloseProgress, ZeroProgress, FormatProgress, FdiskAlone, At
<1>2. CASE OpenSuper
  <2>1. ValidIsTruthful' /\ ValidIsWhole' /\ CloseProgress' /\ ZeroProgress' /\ FormatProgress'
    BY <1>2
       DEF ValidIsTruthful, ValidIsWhole, CloseProgress, ZeroProgress, FormatProgress, OpenSuper, FdiskAlone, At
  <2>2. ASSUME disk[0] = Missing /\ kernel' = At("run", 0) /\ UNCHANGED valid
        PROVE  MountedIsMarked' /\ OpenProgress'
    BY <1>2, <2>2, Sizes
       DEF OpenSuper, MountedIsMarked, OpenProgress, At, Missing, SuperValid
  <2>3. ASSUME valid' = SaysValid(disk[0]),
               kernel' = IF disk[0] = Zeros THEN At("run", 0) ELSE At("open", 1)
        PROVE  MountedIsMarked' /\ OpenProgress'
    BY <1>2, <2>3, Sizes
       DEF OpenSuper, MountedIsMarked, OpenProgress, CheckSystem, At, Zeros,
           SuperValid, FileValid, SaysValid
  <2>4. MountedIsMarked' /\ OpenProgress'
    BY <1>2, <2>2, <2>3, ReadFailsLemma DEF OpenSuper
  <2> QED BY <2>1, <2>4
<1>3. CASE OpenBlock
  <2>1. ValidIsTruthful' /\ ValidIsWhole' /\ CloseProgress' /\ ZeroProgress' /\ FormatProgress'
    BY <1>3
       DEF ValidIsTruthful, ValidIsWhole, CloseProgress, ZeroProgress, FormatProgress, OpenBlock, FdiskAlone, At
  <2>2. MountedIsMarked'
    BY <1>3, Sizes, ReadFailsLemma
       DEF MountedIsMarked, OpenBlock, CheckSystem, LastRead, ValidIsTruthful,
           ValidIsWhole, At
  <2>3. OpenProgress'
    BY <1>3, Sizes DEF OpenProgress, OpenBlock, LastRead, At, MemOK
  <2> QED BY <2>1, <2>2, <2>3
<1>4. CASE OpenMark
  <2>1. disk' = disk \/ disk'[0] = SuperInvalid
    BY <1>4, WrittenLemma, Sizes DEF OpenMark
  <2>2. ValidIsTruthful' /\ ValidIsWhole'
    BY <1>4, <2>1 DEF OpenMark, ValidIsTruthful, ValidIsWhole, SuperInvalid, SuperValid
  <2>3. MountedIsMarked'
    BY <1>4, WrittenLemma, Sizes
       DEF OpenMark, MountedIsMarked, CheckSystem, SuperInvalid, SuperValid
  <2>4. OpenProgress' /\ CloseProgress' /\ ZeroProgress' /\ FormatProgress'
    BY <1>4
       DEF OpenProgress, CloseProgress, ZeroProgress, FormatProgress, OpenMark, LastRead, FdiskAlone, At
  <2> QED BY <2>2, <2>3, <2>4
<1>5. CASE Modify
  <2>1. ValidIsTruthful' /\ ValidIsWhole' /\ MountedIsMarked'
    BY <1>5
       DEF ValidIsTruthful, ValidIsWhole, MountedIsMarked, Modify, CheckSystem
  <2>2. OpenProgress' /\ CloseProgress' /\ ZeroProgress' /\ FormatProgress'
    BY <1>5
       DEF OpenProgress, CloseProgress, ZeroProgress, FormatProgress, Modify, CheckSystem, FdiskAlone
  <2> QED BY <2>1, <2>2
<1>14. CASE \E b \in Block : FileWrite(b)
  <2>1. PICK b \in Block : FileWrite(b)
    BY <1>14
  <2>2. disk[0] # SuperValid /\ kernel.at = "run" /\ fdisk.at = "idle"
    BY <2>1 DEF FileWrite, MountedIsMarked, FdiskAlone, CheckSystem
  <2>3. disk'[0] # SuperValid
    <3>1. ASSUME NEW content \in IF b = 0 THEN FileSuper ELSE {version + 2},
                 disk' = Written(b, content)
          PROVE  disk'[0] # SuperValid
      <4>1. b = 0 => content # SuperValid
        BY DEF FileSuper, Zeros, SuperInvalid, SuperValid, FileValid, OtherSizes
      <4> QED BY <2>2, <3>1, <4>1, WrittenLemma, Sizes DEF Zeros, SuperValid
    <3> QED BY <2>1, <2>2, <3>1 DEF FileWrite
  <2>4. UNCHANGED <<kernel, fdisk>>
    BY <2>1 DEF FileWrite
  <2> QED BY <2>2, <2>3, <2>4 DEF ValidIsTruthful, ValidIsWhole, MountedIsMarked,
        OpenProgress, CloseProgress, ZeroProgress, FormatProgress
<1>6. CASE GracefulExit
  <2>1. ValidIsTruthful' /\ ValidIsWhole'
    BY <1>6
       DEF ValidIsTruthful, ValidIsWhole, GracefulExit
  <2>2. CASE CheckSystem
    BY <1>6, <2>1, <2>2, Sizes
       DEF GracefulExit, Interruptible, MountedIsMarked, OpenProgress, CloseProgress,
           ZeroProgress, FormatProgress, CheckSystem, FdiskAlone, At
  <2>3. CASE ~CheckSystem
    BY <1>6, <2>1, <2>3 DEF GracefulExit, PowerOff, MountedIsMarked, OpenProgress,
       CloseProgress, ZeroProgress, FormatProgress, CheckSystem, Idle, At
  <2> QED BY <2>2, <2>3
<1>7. CASE CloseBlock
  <2> DEFINE n == kernel.next
  <2>1. /\ kernel.at = "close" /\ n \in 1 .. NumMeta + 1 /\ disk[0] # SuperValid
        /\ \A b \in Meta : b < n => disk[b] = mem[b]
        /\ fdisk.at = "idle"
    BY <1>7, Sizes DEF CloseBlock, CloseProgress, KernelOK, FdiskAlone
  <2>2. CASE PowerOff /\ UNCHANGED <<disk, committed>>
    BY <2>2 DEF PowerOff, ValidIsTruthful, ValidIsWhole, MountedIsMarked,
       OpenProgress, CloseProgress, ZeroProgress, FormatProgress, CheckSystem, Idle, At
  <2>3. CASE /\ n # NumMeta + 1
             /\ disk' = Written(n, mem[n])
             /\ kernel' = At("close", n + 1)
             /\ UNCHANGED <<mem, valid, fsOpen, fdisk, committed>>
    <3>1. n \in Meta
      BY <2>1, <2>3, Sizes
    <3>2. disk'[0] # SuperValid
      BY <2>1, <2>3, <3>1, WrittenLemma, Sizes DEF Zeros, SuperValid
    <3>3. \A b \in Meta : b < n + 1 => disk'[b] = mem[b]
      <4>1. \A b \in Meta : b < n => disk[b] # Missing
        BY <2>1 DEF MemOK
      <4>2. \A b \in Meta : b < n => disk[b] = mem[b]
        BY <2>1 DEF CloseProgress
      <4>3. Meta \subseteq Block /\ n \in Int /\ \A b \in Meta : b \in Int
        BY <3>1, Sizes
      <4>4. disk'[n] = mem[n] /\ \A b \in Meta : b < n => disk'[b] = disk[b]
        BY <2>3, <3>1, <4>1, <4>3, WrittenLemma
      <4> QED BY <4>2, <4>3, <4>4
    <3> QED BY <2>1, <2>3, <3>2, <3>3
         DEF ValidIsTruthful, ValidIsWhole, MountedIsMarked, OpenProgress,
             CloseProgress, ZeroProgress, FormatProgress, At
  <2>4. CASE n = NumMeta + 1 /\ disk' = Written(0, SuperValid) /\ PowerOff /\ committed' = mem
    <3>1. \A b \in Meta : disk'[b] = mem[b]
      BY <2>1, <2>4, WrittenLemma, Sizes
    <3> QED BY <2>4, <3>1
         DEF ValidIsTruthful, ValidIsWhole, MountedIsMarked, OpenProgress, MemOK,
             CloseProgress, ZeroProgress, FormatProgress, PowerOff, Idle, At
  <2>5. CloseTarget(n) = IF n = NumMeta + 1 THEN 0 ELSE n
    BY <2>1, Sizes DEF CloseTarget
  <2> QED BY <1>7, <2>2, <2>3, <2>4, <2>5 DEF CloseBlock
<1>8. CASE Crash
  <2>1. ValidIsTruthful' /\ ValidIsWhole'
    BY <1>8
       DEF ValidIsTruthful, ValidIsWhole, Crash
  <2>2. MountedIsMarked' /\ OpenProgress' /\ CloseProgress' /\ ZeroProgress' /\ FormatProgress'
    BY <1>8
       DEF MountedIsMarked, OpenProgress, CloseProgress, ZeroProgress, FormatProgress, Crash, PowerOff, CheckSystem, Idle, At
  <2> QED BY <2>1, <2>2
<1>9. CASE FdiskInvalidate
  <2>1. ValidIsTruthful' /\ ValidIsWhole'
    BY <1>9
       DEF ValidIsTruthful, ValidIsWhole, FdiskInvalidate
  <2>2. MountedIsMarked' /\ OpenProgress' /\ CloseProgress' /\ ZeroProgress' /\ FormatProgress'
    BY <1>9
       DEF MountedIsMarked, OpenProgress, CloseProgress, ZeroProgress, FormatProgress, FdiskInvalidate, Interruptible, KernelUnchanged, CheckSystem, At
  <2> QED BY <2>1, <2>2
<1>10. CASE FdiskTruncate
  <2>1. disk' = disk \/ \A b \in Block : disk'[b] = Missing
    BY <1>10 DEF FdiskTruncate
  <2>2. ValidIsTruthful' /\ ValidIsWhole' /\ MountedIsMarked'
    BY <1>10, <2>1, Sizes DEF FdiskTruncate, KernelUnchanged, ValidIsTruthful,
       ValidIsWhole, MountedIsMarked, CheckSystem, FdiskAlone, Missing, SuperValid
  <2>3. OpenProgress' /\ CloseProgress' /\ ZeroProgress' /\ FormatProgress'
    BY <1>10, <2>1
       DEF OpenProgress, CloseProgress, ZeroProgress, FormatProgress, FdiskTruncate, Interruptible, KernelUnchanged, At
  <2> QED BY <2>2, <2>3
<1>11. CASE FdiskZero
  <2>1. \A b \in Block : disk'[b] \in {Missing, Zeros}
    BY <1>11, WrittenLemma DEF FdiskZero, ZeroProgress
  <2>2. ValidIsTruthful' /\ ValidIsWhole' /\ MountedIsMarked'
    BY <2>1, Sizes
       DEF ValidIsTruthful, ValidIsWhole, MountedIsMarked, Missing, Zeros, SuperValid
  <2>3. OpenProgress' /\ CloseProgress' /\ ZeroProgress'
    BY <1>11, <2>1
       DEF FdiskZero, KernelUnchanged, OpenProgress, CloseProgress, ZeroProgress, At
  <2>4. FormatProgress'
    <3>1. fdisk'.at = "format" => fdisk'.next = 1
      BY <1>11 DEF FdiskZero, At
    <3> QED BY <2>1, <3>1, Sizes DEF FormatProgress, Missing, Zeros, SuperValid
  <2> QED BY <2>2, <2>3, <2>4
<1>12. CASE FdiskWrite
  <2> DEFINE n == fdisk.next
             b == FormatTarget(n)
  <2>1. /\ fdisk.at = "format" /\ n \in 1 .. NumMeta + 1 /\ ~valid
        /\ kernel.at = "run" /\ UNCHANGED <<mem, fsOpen, kernel, version, valid>>
    BY <1>12, Sizes
       DEF FdiskWrite, FdiskOK, FdiskAlone, Interruptible, KernelUnchanged
  <2>2. MountedIsMarked' /\ OpenProgress' /\ CloseProgress'
    BY <2>1 DEF MountedIsMarked, CheckSystem, OpenProgress, CloseProgress
  <2>3. CASE fdisk' = At("exited", 0) /\ UNCHANGED <<disk, committed>>
    BY <2>2, <2>3
       DEF ValidIsTruthful, ValidIsWhole, ZeroProgress, FormatProgress, At
  <2>4. ASSUME disk' = Written(b, FormatContent(b)),
               committed' = IF b = 0 THEN [m \in Meta |-> FormatContent(m)]
                            ELSE committed,
               fdisk' = IF n = NumMeta + 1 THEN At("exited", 0)
                        ELSE At("format", n + 1)
        PROVE  MountInv'
    <3>1. fdisk'.at # "zero" /\ (fdisk'.at = "format" => fdisk'.next = n + 1)
      BY <2>4 DEF At
    <3>2. /\ n <= NumFbvBlocks + 1 => disk[0] # SuperValid
          /\ \A c \in 1 .. NumInodeBlocks :
               disk[c] = Zeros \/ (n = 1 /\ disk[c] = Missing)
          /\ \A c \in Meta :
               NumInodeBlocks < c /\ c < NumInodeBlocks + n => disk[c] = Format
      BY <2>1 DEF FormatProgress
    <3>3. CASE n <= NumFbvBlocks
      <4>1. b = NumInodeBlocks + n /\ b \in Meta /\ FormatContent(b) = Format
        BY <2>1, <3>3, Sizes, FormatContentLemma DEF FormatTarget
      <4>2. disk'[0] # SuperValid
        BY <2>1, <2>4, <3>2, <3>3, <4>1, WrittenLemma, Sizes DEF Zeros, SuperValid
      <4>3. \A c \in 1 .. NumInodeBlocks : disk'[c] = Zeros
        <5>1. \A c \in 1 .. NumInodeBlocks : c \in Block /\ c < b /\ c # b
          BY <2>1, <4>1, Sizes
        <5>2. \A c \in 1 .. NumInodeBlocks : disk[c] \in {Missing, Zeros}
          BY <3>2
        <5> HIDE DEF b
        <5> QED BY <2>4, <5>1, <5>2, WrittenLemma
      <4>4. \A c \in Meta :
              NumInodeBlocks < c /\ c < NumInodeBlocks + n + 1 => disk'[c] = Format
        BY <2>1, <2>4, <3>2, <4>1, WrittenLemma, Sizes DEF Missing, Format
      <4> QED BY <2>1, <2>2, <3>1, <4>2, <4>3, <4>4, Sizes
           DEF ValidIsTruthful, ValidIsWhole, ZeroProgress, FormatProgress
    <3>4. CASE n = NumFbvBlocks + 1
      <4>1. b = 0
        BY <2>1, <3>4, Sizes DEF FormatTarget
      <4>2. \A c \in Meta : disk'[c] = disk[c] /\ committed'[c] = FormatContent(c)
        BY <2>4, <4>1, WrittenLemma, Sizes
      <4>3. \A c \in Meta : disk[c] = FormatContent(c) /\ FormatContent(c) # Missing
        BY <2>1, <3>2, <3>4, Sizes, FormatContentLemma
      <4> QED BY <2>1, <2>2, <3>1, <3>2, <3>4, <4>2, <4>3, Sizes
           DEF ValidIsTruthful, ValidIsWhole, ZeroProgress, FormatProgress
    <3>5. CASE n > NumFbvBlocks + 1
      <4>1. b \in 1 .. NumInodeBlocks /\ b = n - NumFbvBlocks - 1
            /\ FormatContent(b) = Zeros
        BY <2>1, <3>5, Sizes, FormatContentLemma DEF FormatTarget
      <4>2. \A c \in Meta : disk'[c] = disk[c]
        <5>1. \A c \in 1 .. NumInodeBlocks : disk[c] = Zeros
          BY <2>1, <3>2, <3>5, Sizes
        <5>2. disk' = Written(b, Zeros)
          BY <2>4, <4>1
        <5> HIDE DEF b
        <5>3. PICK x \in 1 .. NumInodeBlocks : x = b
          BY <4>1
        <5>4. /\ \A c \in Meta : c < x => disk[c] # Missing
              /\ disk[x] = Zeros /\ Meta \subseteq Block /\ x \in Block
          BY <5>1, Sizes DEF Missing, Zeros
        <5>5. \A c \in Meta : disk'[c] = IF c = x THEN Zeros ELSE disk[c]
          BY <5>2, <5>3, <5>4, WrittenLemma
        <5> QED BY <5>4, <5>5
      <4>3. disk'[0] = SuperValid => disk[0] = SuperValid
        BY <2>4, <4>1, WrittenLemma, Sizes DEF Zeros, SuperValid
      <4>4. committed' = committed
        BY <2>4, <4>1, Sizes
      <4>5. ValidIsTruthful' /\ ValidIsWhole'
        BY <4>2, <4>3, <4>4 DEF ValidIsTruthful, ValidIsWhole
      <4>6. ZeroProgress'
        BY <3>1 DEF ZeroProgress
      <4>7. FormatProgress'
        <5>1. \A c \in 1 .. NumInodeBlocks : disk'[c] = Zeros
          BY <2>1, <3>2, <3>5, <4>2, Sizes
        <5>2. \A c \in Meta : NumInodeBlocks < c => disk'[c] = Format
          BY <2>1, <3>2, <3>5, <4>2, Sizes
        <5>3. ~(n + 1 <= NumFbvBlocks + 1)
          BY <2>1, <3>5, Sizes
        <5> QED BY <3>1, <5>1, <5>2, <5>3 DEF FormatProgress
      <4> QED BY <2>2, <4>5, <4>6, <4>7
    <3> QED BY <2>1, <3>3, <3>4, <3>5, Sizes
  <2> QED BY <1>12, <2>3, <2>4 DEF FdiskWrite
<1>13. CASE UNCHANGED vars
  BY <1>13 DEF vars, ValidIsTruthful, ValidIsWhole, MountedIsMarked, CheckSystem,
     OpenProgress, CloseProgress, ZeroProgress, FormatProgress
<1> QED
  BY <1>1, <1>2, <1>3, <1>4, <1>5, <1>6, <1>7, <1>8, <1>9, <1>10, <1>11, <1>12,
     <1>13, <1>14 DEF Next, FdiskStep

-----------------------------------------------------------------------------
(* The specification.                                                      *)

LEMMA TypeInvHolds == Spec => []TypeInv
BY InitTypeInv, NextTypeInv, PTL DEF Spec

LEMMA MountInvHolds == ~ReadFaults => (Spec => []MountInv)
<1> SUFFICES ASSUME ~ReadFaults PROVE Spec => []MountInv
  OBVIOUS
<1>1. TypeInv /\ MountInv /\ [Next]_vars => MountInv'
  BY NextMountInv
<1> QED BY <1>1, InitMountInv, TypeInvHolds, PTL DEF Spec

\* The image, the memory and the two actors keep their types, for every number
\* of blocks and of failing accesses.
THEOREM TypeCorrect == Spec => []TypeOK
<1>1. TypeInv => TypeOK
  BY DEF TypeInv, TypeOK, DiskOK, MemOK, KernelOK, FdiskOK, FdiskAlone, RestOK
<1> QED BY <1>1, TypeInvHolds, PTL

\* A valid mark of the driver or of fdisk never lies, whatever the size of the
\* metadata, wherever a write fails or the power goes, and whatever files have
\* been written over the metadata (dfs.c 257-330, 1132; fdisk.c 35-135).  A read
\* that fails while the system mounts breaks it, so that is left out.
THEOREM ValidIsTruthfulHolds == ~ReadFaults => (Spec => []ValidIsTruthful)
<1>1. MountInv => ValidIsTruthful
  BY DEF MountInv
<1> QED BY <1>1, MountInvHolds, PTL

\* While the driver says that the file system is up, no mark of a close or a
\* format is left on the image, also when a file is written over the superblock
\* (dfs.c 228-243, 1132).
THEOREM MountedIsMarkedHolds == ~ReadFaults => (Spec => []MountedIsMarked)
<1>1. MountInv => MountedIsMarked
  BY DEF MountInv
<1> QED BY <1>1, MountInvHolds, PTL

\* The step that takes the valid mark away has the committed metadata in
\* memory: no mount loses a completed close or format.
THEOREM MarkHoldsCommittedHolds == ~ReadFaults => (Spec => MarkHoldsCommitted)
<1> SUFFICES ASSUME ~ReadFaults PROVE Spec => MarkHoldsCommitted
  OBVIOUS
<1>1. TypeInv /\ MountInv /\ [Next]_vars
        => [OpenMark /\ disk[0] = SuperValid => mem = committed]_vars
  <2> SUFFICES ASSUME TypeInv, MountInv, OpenMark, disk[0] = SuperValid
               PROVE  mem = committed
    OBVIOUS
  <2>1. \A b \in Meta : mem[b] = committed[b]
    BY Sizes DEF OpenMark, LastRead, At, MountInv, OpenProgress, ValidIsTruthful
  <2> QED BY <2>1 DEF TypeInv, MemOK, RestOK
<1> QED BY <1>1, TypeInvHolds, MountInvHolds, PTL DEF Spec, MarkHoldsCommitted

\* From the moment fdisk has invalidated the file system until the next boot
\* only fdisk changes the image, whatever fails (fdisk.c 35-40, dfs.c 118-123).
THEOREM FormatSurvivesHolds == Spec => FormatSurvives
<1>1. TypeInv /\ [Next]_vars
        => [fdisk.at # "idle" /\ ~FdiskStep => UNCHANGED disk]_vars
  <2> SUFFICES ASSUME TypeInv, Next, fdisk.at # "idle", ~FdiskStep
               PROVE  UNCHANGED disk
    OBVIOUS
  <2>1. kernel.at = "run"
    BY DEF TypeInv, FdiskAlone
  <2>2. ~OpenMark /\ ~CloseBlock
    BY <2>1 DEF OpenMark, CloseBlock, At
  <2>3. \A b \in Block : ~FileWrite(b)
    BY DEF TypeInv, FdiskAlone, FileWrite, CheckSystem
  <2> QED BY <2>2, <2>3 DEF Next, Boot, OpenSuper, OpenBlock, Modify, GracefulExit, Crash
<1> QED BY <1>1, TypeInvHolds, PTL DEF Spec, FormatSurvives
=============================================================================
