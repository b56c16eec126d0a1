----------------------------- MODULE CodeAllocator -----------------------------
(***************************************************************************)
(* Memory for native code (CodeGen/src/CodeAllocator.cpp): sections of     *)
(* data and code are placed one after the other in blocks, in pages that   *)
(* are written once and then made executable while other code is running.  *)
(* Sizes are in units of kCodeAlignment, addresses offsets into a block.   *)
(***************************************************************************)
EXTENDS Integers, Sequences, FiniteSets

CONSTANTS
    PageUnits,      \* kPageSize
    BlockUnits,     \* blockSize, which need not be a number of pages
    Reserved,       \* kMaxReservedDataSize
    MaxBlocks,      \* maxTotalSize \div blockSize
    DataSizes, CodeSizes,   \* what is allocated (bound)
    MaxSections     \* bound: allocations at once

ASSUME CodeAssumption ==
    /\ PageUnits \in Nat \ {0} /\ Reserved \in 0 .. PageUnits /\ BlockUnits \in Nat
    /\ BlockUnits > Reserved /\ MaxBlocks \in Nat \ {0} /\ MaxSections \in Nat
    /\ DataSizes \subseteq Nat /\ CodeSizes \subseteq Nat \ {0}

VARIABLES
    protectData,    \* the flag LuauCodegenProtectData
    unwindSize,     \* what createBlockUnwindInfo takes of a block; 0 without it
    blockPos,       \* where the next section goes in the last block; BlockUnits when it is full
    prot,           \* the protection of the pages of each block: "rw", "r" or "rx"
    header,         \* the blocks that have unwind information, at their start
    sections,       \* the live allocations
    protectFailed   \* "never"; "all" or, when the data was protected but not the code, "half" (history)

codeVars == <<protectData, unwindSize, blockPos, prot, header, sections, protectFailed>>

\* alignToPageSize
PageAligned(n) == ((n + PageUnits - 1) \div PageUnits) * PageUnits

LastPage == (PageAligned(BlockUnits) \div PageUnits) - 1
PagesOf(from, to) == {p \in 0 .. LastPage : from < to /\ from < (p + 1) * PageUnits /\ p * PageUnits < to}

CodeInit ==
    /\ protectData \in BOOLEAN /\ unwindSize \in 0 .. Reserved
    /\ blockPos = BlockUnits /\ prot = <<>>
    /\ header = {} /\ sections = {} /\ protectFailed = "never"

-----------------------------------------------------------------------------
Separate(data) == protectData /\ data > 0

\* What the sections take of a block, the offset of the first one aside.
TotalSize(data, code) == IF Separate(data) THEN PageAligned(data) + code ELSE data + code

\* A function has to fit into one block with the unwind information.
FitsBlock(data, code) ==
    IF Separate(data) THEN PageAligned(Reserved + data) + code <= BlockUnits
                      ELSE data + code <= BlockUnits - Reserved

NeedsBlock(data, code) == TotalSize(data, code) > BlockUnits - blockPos

\* allocateNewBlock: all pages of a new block can be written.
NewBlockProt == Append(prot, [p \in 0 .. LastPage |-> "rw"])

\* The sections in block b from offset pos on, after start units that are reserved.
Placed(b, pos, start, data, code) ==
    LET codeOffset == IF Separate(data) THEN PageAligned(start + data) ELSE start + data
    IN [block |-> b, pos |-> pos, size |-> PageAligned(codeOffset + code),
        data |-> pos + codeOffset - data, code |-> pos + codeOffset, end |-> pos + codeOffset + code]

DataPages(s) == PagesOf(s.pos, s.code)
CodePages(s) == PagesOf(s.pos, s.pos + s.size)

Protect(pp, b, pages, to) == [pp EXCEPT ![b] = [p \in 0 .. LastPage |-> IF p \in pages THEN to ELSE @[p]]]

\* The sections are written, and their pages are protected.
Commit(pp, s, separate) ==
    LET dataPages == IF separate THEN DataPages(s) ELSE {}
    IN Protect(Protect(pp, s.block, dataPages, "r"), s.block, CodePages(s) \ dataPages, "rx")

\* Faulty variant: the next section goes right after this one, not on a page of its own.
NextPosUnaligned(s) == IF s.size <= BlockUnits - s.pos THEN s.end ELSE BlockUnits

\* Future allocations start from a page boundary, or in a fresh block.
NextPos(s) == IF s.size <= BlockUnits - s.pos THEN s.pos + s.size ELSE BlockUnits

\* The sections of an allocation, and the pages' protection before it.
Section(data, code) ==
    IF NeedsBlock(data, code) THEN Placed(Len(prot) + 1, 0, unwindSize, data, code)
                              ELSE Placed(Len(prot), blockPos, 0, data, code)
BlocksFor(data, code) == IF NeedsBlock(data, code) THEN NewBlockProt ELSE prot
HasBlockFor(data, code) ==
    /\ FitsBlock(data, code)
    /\ NeedsBlock(data, code) => Len(prot) < MaxBlocks

NewHeader(data, code) ==
    IF NeedsBlock(data, code) /\ unwindSize > 0 THEN header \cup {Len(prot) + 1} ELSE header

Allocate(data, code) ==
    /\ HasBlockFor(data, code) /\ Cardinality(sections) < MaxSections
    /\ LET s == Section(data, code) IN
       /\ prot' = Commit(BlocksFor(data, code), s, Separate(data))
       /\ sections' = sections \cup {s}
       /\ blockPos' = NextPos(s)
    /\ header' = NewHeader(data, code)
    /\ UNCHANGED protectFailed

\* createBlockUnwindInfo fails: the block stays, and is used by the next allocation.
UnwindFails(data, code) ==
    /\ HasBlockFor(data, code) /\ NeedsBlock(data, code) /\ unwindSize > 0
    /\ prot' = NewBlockProt /\ blockPos' = 0
    /\ UNCHANGED <<header, sections, protectFailed>>

\* A page cannot be protected; the data pages may have been.
ProtectFails(data, code) ==
    /\ HasBlockFor(data, code)
    /\ LET s == Section(data, code)
           pp == BlocksFor(data, code)
       IN /\ blockPos' = s.pos
          /\ \/ /\ prot' = pp
                /\ protectFailed' = IF protectFailed = "never" THEN "all" ELSE protectFailed
             \/ /\ Separate(data)
                /\ prot' = Protect(pp, s.block, DataPages(s), "r") /\ protectFailed' = "half"
    /\ header' = NewHeader(data, code)
    /\ UNCHANGED sections

\* deallocate: the pages are no more executable, and not used again.
Deallocate(s) ==
    /\ s \in sections
    /\ prot' = Protect(prot, s.block, CodePages(s), "rw")
    /\ sections' = sections \ {s}
    /\ UNCHANGED <<blockPos, header, protectFailed>>

CodeStep ==
    \/ \E data \in DataSizes, code \in CodeSizes :
          Allocate(data, code) \/ UnwindFails(data, code) \/ ProtectFails(data, code)
    \/ \E s \in sections : Deallocate(s)

CodeNext == CodeStep /\ UNCHANGED <<protectData, unwindSize>>

CodeSpec == CodeInit /\ [][CodeNext]_codeVars

-----------------------------------------------------------------------------
(* What must be true                                                        *)

\* The unwind information at the start of a block is not overwritten: "'startOffset' reserves
\* space for data at the beginning of the page" (CodeAllocator.h).
HeaderKept == \A s \in sections : s.pos = 0 /\ s.block \in header => s.data >= unwindSize

\* Code that may be running is never written, and can be unwound: live sections lie in their
\* block, apart from one another, their code on executable pages, their data behind the
\* unwind information, and no page of them is writable.  What the next allocation writes are
\* writable pages of nobody.  After a page could not be protected the unwind information may
\* be lost, and, with LuauCodegenProtectData, the pages ahead may not be writable.
CodeIntact ==
    /\ \A s \in sections :
          /\ s.pos <= s.data /\ s.code < s.end /\ s.end <= BlockUnits
          /\ \A p \in CodePages(s) : prot[s.block][p] \in {"r", "rx"}
          /\ \A p \in PagesOf(s.code, s.end) : prot[s.block][p] = "rx"
          /\ protectData => \A p \in PagesOf(s.data, s.code) : prot[s.block][p] = "r"
    /\ \A s, t \in sections : s # t /\ s.block = t.block => CodePages(s) \cap CodePages(t) = {}
    /\ protectFailed = "never" => HeaderKept
    /\ protectFailed # "half" =>
          \A p \in PagesOf(blockPos, BlockUnits) :
              /\ prot[Len(prot)][p] = "rw"
              /\ \A s \in sections : s.block = Len(prot) => p \notin CodePages(s)
=============================================================================
