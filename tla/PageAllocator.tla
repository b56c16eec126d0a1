---------------------------- MODULE PageAllocator ----------------------------
(***************************************************************************)
(* Pages of blocks for collected objects: VM/src/lmem.cpp.  Blocks of the  *)
(* only size class come from pages of BlockCount blocks, a large block has *)
(* a page of its own.  The operators take a record g with the fields of    *)
(* global_State they use and return it changed; None is the null pointer.  *)
(***************************************************************************)
EXTENDS Integers, FiniteSets, SequencesExt

CONSTANTS
    Page,           \* the addresses of pages: a set of integers
    BlockCount,     \* blocks in a page of the size class
    None

ASSUME PageAssumption ==
    Page \subseteq Nat /\ BlockCount \in Nat \ {0} /\ None \notin Page

SmallBlock == 0 .. BlockCount - 1
Block == Page \X SmallBlock

\* The contents of a free block: the tag of nil, and the next free block.
FreeBlock(link) == [tt |-> "nil", link |-> link]

-----------------------------------------------------------------------------
(* Lists of pages: prev and next of freegcopages, listprev and listnext of  *)
(* allgcopages.                                                             *)

NoPage == [allocated |-> FALSE, blocks |-> 0, freeList |-> None, freeNext |-> -1, busyBlocks |-> 0]

NoLink == [prev |-> None, next |-> None]
EmptyList == [head |-> None, link |-> [p \in Page |-> NoLink]]

SetPrev(link, p, q) == IF p = None THEN link ELSE [link EXCEPT ![p].prev = q]
SetNext(link, p, q) == IF p = None THEN link ELSE [link EXCEPT ![p].next = q]

Prepend(list, p) ==
    [head |-> p, link |-> SetPrev(SetNext(list.link, p, list.head), list.head, p)]

\* Faulty variant: the new head still points to the page that left.
PopOneWay(list) ==
    LET p == list.head IN [head |-> list.link[p].next, link |-> SetNext(list.link, p, None)]

\* The first page leaves.
Pop(list) ==
    LET p == list.head
        next == list.link[p].next
    IN [head |-> next, link |-> SetNext(SetPrev(list.link, next, None), p, None)]

\* A page that will be destroyed leaves; its own links are not touched.
Unlink(list, p) ==
    LET prev == list.link[p].prev
        next == list.link[p].next
    IN [head |-> IF prev = None /\ list.head = p THEN next ELSE list.head,
        link |-> SetNext(SetPrev(list.link, next, prev), prev, next)]

\* The pages of a list, following next.
Pages(list) ==
    LET from[n \in Nat] ==
            IF n = 0 THEN (IF list.head = None THEN <<>> ELSE <<list.head>>)
            ELSE LET s == from[n - 1] IN
                 IF s = <<>> \/ list.link[s[Len(s)]].next = None THEN s
                 ELSE Append(s, list.link[s[Len(s)]].next)
    IN from[Cardinality(Page)]

-----------------------------------------------------------------------------
(* Allocation                                                               *)

HasFree(page) == page.freeList # None \/ page.freeNext >= 0

\* Where the system puts a new page does not matter: the first unused address.
Unused(g) == {p \in Page : ~g.page[p].allocated}
FreshPage(g) == CHOOSE p \in Unused(g) : \A q \in Unused(g) : p <= q

NewPage(g, p, blocks) ==
    [g EXCEPT !.page[p] = [allocated |-> TRUE, blocks |-> blocks, freeList |-> None,
                           freeNext |-> blocks - 1, busyBlocks |-> 0],
              !.allgcopages = Prepend(@, p)]

\* newclasspage: freegcopages is empty.
NewClassPage(g, p) == [NewPage(g, p, BlockCount) EXCEPT !.freegcopages.head = p]

\* Blocks are handed out from the last one of a page down, and then from its freeList.
NextBlock(g, p) ==
    IF g.page[p].freeNext >= 0 THEN <<p, g.page[p].freeNext>> ELSE g.page[p].freeList

Taken(g, p) ==
    IF g.page[p].freeNext >= 0
    THEN [g EXCEPT !.page[p].freeNext = @ - 1, !.page[p].busyBlocks = @ + 1]
    ELSE [g EXCEPT !.page[p].freeList = g.gco[@].link, !.page[p].busyBlocks = @ + 1]

\* newgcoblock: a page without free blocks leaves freegcopages.
FromClass(g) ==
    LET h == IF g.freegcopages.head = None THEN NewClassPage(g, FreshPage(g)) ELSE g
        p == h.freegcopages.head
        t == Taken(h, p)
    IN [block |-> NextBlock(h, p),
        g |-> IF HasFree(t.page[p]) THEN t ELSE [t EXCEPT !.freegcopages = Pop(@)]]

\* luaM_newgco_
CanAllocate(g, large) == (~large /\ g.freegcopages.head # None) \/ Unused(g) # {}

NewBlock(g, large) ==
    IF ~large THEN FromClass(g)
    ELSE LET p == FreshPage(g)
             n == NewPage(g, p, 1)
         IN [block |-> NextBlock(n, p), g |-> Taken(n, p)]

-----------------------------------------------------------------------------
(* Release                                                                  *)

\* freepage.  What is left in a page that the system has back is not looked at.
FreePage(g, p) ==
    [g EXCEPT !.allgcopages = [Unlink(@, p) EXCEPT !.link[p] = NoLink],
              !.freegcopages.link[p] = NoLink,
              !.page[p] = NoPage,
              !.gco = [b \in Block |-> IF b[1] = p THEN FreeBlock(None) ELSE @[b]]]

FreeClassPage(g, p) == FreePage([g EXCEPT !.freegcopages = Unlink(@, p)], p)

\* freegcoblock: the block joins the freeList of its page, which joins
\* freegcopages if it was full, and is destroyed if it is empty now.
ToClass(g, b) ==
    LET p == b[1]
        listed == IF HasFree(g.page[p]) THEN g ELSE [g EXCEPT !.freegcopages = Prepend(@, p)]
        freed == [listed EXCEPT !.gco[b] = FreeBlock(g.page[p].freeList),
                                !.page[p].freeList = b, !.page[p].busyBlocks = @ - 1]
    IN IF freed.page[p].busyBlocks = 0 THEN FreeClassPage(freed, p) ELSE freed

\* luaM_freegco_
FreeGco(g, b, large) ==
    IF large THEN FreePage(g, b[1]) ELSE ToClass(g, b)

\* luaM_getpagewalkinfo: the blocks handed out at least once, in order.
WalkStart(page) == page.freeNext + 1

-----------------------------------------------------------------------------
\* Both lists are linked in both directions; freegcopages are the pages with free
\* blocks; in a page every block is busy, in the free list or not handed out yet.
WellLinked(list) ==
    LET s == Pages(list) IN
    /\ s # <<>> => (list.link[s[1]].prev = None /\ list.link[s[Len(s)]].next = None)
    /\ \A i \in 1 .. Len(s) - 1 : list.link[s[i + 1]].prev = s[i]

FreeBlocks(g, p) ==
    LET from[n \in Nat] ==
            IF n = 0 THEN <<>>
            ELSE LET s == from[n - 1]
                     b == IF s = <<>> THEN g.page[p].freeList ELSE g.gco[s[Len(s)]].link
                 IN IF b = None THEN s ELSE Append(s, b)
    IN from[BlockCount + 1]

ListedPages(list) == ToSet(Pages(list))

PagesExact(g) ==
    LET live == {p \in Page : g.page[p].allocated} IN
    /\ WellLinked(g.allgcopages) /\ WellLinked(g.freegcopages)
    /\ ListedPages(g.allgcopages) = live
    /\ ListedPages(g.freegcopages) = {p \in live : HasFree(g.page[p])}
    /\ \A p \in live :
          LET free == FreeBlocks(g, p)
              busy == {i \in WalkStart(g.page[p]) .. g.page[p].blocks - 1 : g.gco[<<p, i>>].tt # "nil"}
          IN /\ g.page[p].busyBlocks = Cardinality(busy) /\ busy # {}
             /\ {free[i] : i \in DOMAIN free} =
                   {<<p, i>> : i \in (WalkStart(g.page[p]) .. g.page[p].blocks - 1) \ busy}
             /\ \A i, j \in DOMAIN free : i # j => free[i] # free[j]
=============================================================================
