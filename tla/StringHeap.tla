------------------------------ MODULE StringHeap ------------------------------
(***************************************************************************)
(* Strings of the VM in the pages of the collector: the string table of    *)
(* VM/src/lstring.cpp with its chains, and the sweep of lgc.cpp that frees *)
(* dead strings page by page while the program interns new ones.           *)
(***************************************************************************)
EXTENDS PageAllocator

CONSTANTS
    Text,             \* the contents of strings
    LargeText,        \* those too large for the size class
    TextHash,         \* TextHash[c]: luaS_hash
    MinStrTabSize,    \* LUA_MINSTRTABSIZE
    MaxHeld,          \* strings the program holds at once (bound)
    MaxStrings        \* strings that take memory at once (bound)

ASSUME StringAssumption ==
    /\ LargeText \subseteq Text /\ TextHash \in [Text -> Nat]
    /\ MinStrTabSize \in Nat \ {0} /\ MaxHeld \in Nat /\ MaxStrings \in Nat

VARIABLES
    g,          \* global_State: pages, blocks, string table, the collector
    held,       \* the strings the program has on its stacks
    buffer      \* the string buffer that is being filled, or None

strVars == <<g, held, buffer>>

\* A string is of the current white, of the other white, or black; LuaGC has the bits.
IsDead(s, b) == s.gco[b].marked = "other"
Strings(s) == {b \in Block : s.gco[b].tt = "string"}
Size(s) == Cardinality(DOMAIN s.hash)      \* a bucket is the sequence of its strings
NoHash(size) == [h \in 0 .. size - 1 |-> <<>>]

StrInit ==
    /\ g = [page |-> [p \in Page |-> NoPage],
            gco |-> [b \in Block |-> FreeBlock(None)],
            freegcopages |-> EmptyList, allgcopages |-> EmptyList,
            hash |-> NoHash(MinStrTabSize), nuse |-> 0,
            gcstate |-> "pause", sweepgcopage |-> None]
    /\ held = {} /\ buffer = None

-----------------------------------------------------------------------------
(* The string table                                                         *)

\* luaS_resize: the strings go to the front of their new buckets, in order.
StrResize(s, newsize) ==
    LET chain == FlattenSeq([i \in 1 .. Size(s) |-> s.hash[i - 1]])
        Rechain(hash, b) == [hash EXCEPT ![s.gco[b].hash % newsize] = <<b>> \o @]
    IN [s EXCEPT !.hash = FoldLeft(Rechain, NoHash(newsize), chain)]

\* A resize without memory leaves the table as it is.
TryResize(s, newsize) == {s, StrResize(s, newsize)}

\* The interned string with text c.
Lookup(s, c) ==
    LET bucket == s.hash[TextHash[c] % Size(s)]
        found == {i \in DOMAIN bucket : s.gco[bucket[i]].text = c}
    IN IF found = {} THEN None ELSE bucket[CHOOSE i \in found : \A j \in found : i <= j]

\* Faulty variant: the string found is left to die.
ResurrectNot(s, b) == s

\* The string found may be dead: it is used again.
Resurrect(s, b) == IF IsDead(s, b) THEN [s EXCEPT !.gco[b].marked = "current"] ELSE s

\* newlstr and luaS_buffinish chain a new string; a crowded table grows.
ChainString(s, b, c) ==
    LET bucket == TextHash[c] % Size(s)
        linked == [s EXCEPT !.gco[b].text = c, !.gco[b].hash = TextHash[c],
                            !.hash[bucket] = <<b>> \o @, !.nuse = @ + 1]
    IN IF linked.nuse > Size(s) THEN TryResize(linked, Size(s) * 2) ELSE {linked}

\* unlinkstr and luaS_free: a buffer that was never finished is in no bucket.
FreeString(s, b) ==
    LET bucket == s.gco[b].hash % Size(s)
        large == s.gco[b].large
    IN IF Contains(s.hash[bucket], b)
       THEN FreeGco([s EXCEPT !.hash[bucket] = Remove(@, b), !.nuse = @ - 1], b, large)
       ELSE FreeGco(s, b, large)

Room(large) == CanAllocate(g, large) /\ Cardinality(Strings(g)) < MaxStrings

\* luaM_newgco and luaC_init: a block for a string without contents yet.
NewString(large) ==
    LET new == NewBlock(g, large)
    IN [block |-> new.block,
        g |-> [new.g EXCEPT !.gco[new.block] =
                 [tt |-> "string", text |-> None, hash |-> 0, large |-> large,
                  marked |-> "current"]]]

-----------------------------------------------------------------------------
(* The program                                                              *)

Hold(b) == held' = held \cup {b}

\* luaS_newlstr.  When the table cannot grow, the error leaves the string in it.
NewLStr(c) ==
    LET el == Lookup(g, c)
        new == NewString(c \in LargeText)
    IN /\ Cardinality(held) < MaxHeld
       /\ IF el # None THEN g' = Resurrect(g, el) /\ Hold(el)
          ELSE /\ Room(c \in LargeText)
               /\ \/ g' \in ChainString(new.g, new.block, c) /\ Hold(new.block)
                  \/ /\ new.g.nuse + 1 > Size(g)
                     /\ g' \in ChainString(new.g, new.block, c) /\ Size(g') = Size(g)
                     /\ UNCHANGED held
       /\ UNCHANGED buffer

\* luaS_bufstart
BufStart(large) ==
    /\ buffer = None /\ Cardinality(held) < MaxHeld /\ Room(large)
    /\ LET new == NewString(large) IN
          g' = new.g /\ buffer' = new.block /\ Hold(new.block)

\* luaS_buffinish: a buffer with the text of an interned string is left behind.
BufFinish(c) ==
    /\ buffer # None /\ g.gco[buffer].large = (c \in LargeText)
    /\ LET el == Lookup(g, c) IN
          IF el # None
          THEN g' = Resurrect(g, el) /\ held' = (held \ {buffer}) \cup {el}
          ELSE g' \in ChainString(g, buffer, c) /\ UNCHANGED held
    /\ buffer' = None

Drop(b) ==
    /\ held' = held \ {b} /\ buffer' = IF b = buffer THEN None ELSE buffer
    /\ UNCHANGED g

-----------------------------------------------------------------------------
(* The collector                                                            *)

\* Marking and atomic: the strings in S are marked, the white flips, and the sweep
\* starts at the first page.
Atomic(s, S) ==
    [s EXCEPT !.gcstate = "sweep", !.sweepgcopage = s.allgcopages.head,
              !.gco = [b \in Block |->
                  IF b \notin Strings(s) THEN @[b]
                  ELSE [@[b] EXCEPT !.marked = IF b \in S THEN "black" ELSE "other"]]]

\* A cycle up to the sweep.  Marking reaches the strings the program holds in the end,
\* and any that it held when marking came by.
Cycle(S) ==
    /\ g.gcstate = "pause" /\ held \subseteq S
    /\ g' = Atomic(g, S)
    /\ UNCHANGED <<held, buffer>>

\* sweepgcopage.  The counter of busy blocks is a local one: the page may be gone
\* when it reaches zero.
SweepPage(s, p) ==
    LET start == WalkStart(s.page[p])
        visited[i \in Int] ==
            IF i < start THEN [g |-> s, busy |-> s.page[p].busyBlocks]
            ELSE LET v == visited[i - 1]
                     b == <<p, i>>
                 IN IF v.busy = 0 \/ v.g.gco[b].tt = "nil" THEN v
                    ELSE IF IsDead(s, b) THEN [g |-> FreeString(v.g, b), busy |-> v.busy - 1]
                    ELSE [v EXCEPT !.g.gco[b].marked = "current"]
    IN visited[s.page[p].blocks - 1].g

\* Faulty variant: the next page is read after the sweep.
SweepThenNext(s) ==
    LET swept == SweepPage(s, s.sweepgcopage)
    IN [swept EXCEPT !.sweepgcopage = swept.allgcopages.link[s.sweepgcopage].next]

\* The next page is read before the sweep, which might destroy the page.
SweepNext(s) ==
    LET next == s.allgcopages.link[s.sweepgcopage].next
    IN [SweepPage(s, s.sweepgcopage) EXCEPT !.sweepgcopage = next]

\* shrinkbuffers
Shrunk(s) ==
    IF s.nuse < Size(s) \div 4 /\ Size(s) > MinStrTabSize * 2
    THEN TryResize(s, Size(s) \div 2) ELSE {s}

\* gcstep (GCSsweep): a step that reaches the end of the pages ends the cycle.
Sweep ==
    /\ g.gcstate = "sweep"
    /\ LET s == IF g.sweepgcopage = None THEN g ELSE SweepNext(g) IN
          IF s.sweepgcopage # None THEN g' = s
          ELSE g' \in {[t EXCEPT !.gcstate = "pause"] : t \in Shrunk(s)}
    /\ UNCHANGED <<held, buffer>>

SweepAll(s) ==
    LET swept[n \in Nat] ==
            IF n = 0 THEN s
            ELSE LET t == swept[n - 1] IN IF t.sweepgcopage = None THEN t ELSE SweepNext(t)
    IN swept[Cardinality(Page)]

\* shrinkbuffersfull
ShrunkSize(s) ==
    LET sizes == {Size(s) \div (2^i) : i \in 0 .. Size(s)}
        stays == {n \in sizes : ~(s.nuse < n \div 4 /\ n > MinStrTabSize * 2)}
    IN CHOOSE n \in stays : \A m \in stays : m <= n

\* luaC_fullgc: what is left of this cycle, and a whole one.
FullGC ==
    /\ LET rest == IF g.gcstate = "pause" THEN g ELSE SweepAll(g)
           cycle == SweepAll(Atomic(rest, held))
       IN g' \in {[t EXCEPT !.gcstate = "pause"] :
                     t \in UNION {TryResize(s, ShrunkSize(s)) : s \in {cycle}}}
    /\ UNCHANGED <<held, buffer>>

\* luaC_freeall in lua_close: every page is visited, and every string is freed.
FreePageStrings(s, p) ==
    LET start == WalkStart(s.page[p])
        visited[i \in Int] ==
            IF i < start THEN [g |-> s, busy |-> s.page[p].busyBlocks]
            ELSE LET v == visited[i - 1] IN
                 IF v.busy = 0 \/ v.g.gco[<<p, i>>].tt = "nil" THEN v
                 ELSE [g |-> FreeString(v.g, <<p, i>>), busy |-> v.busy - 1]
    IN visited[s.page[p].blocks - 1].g

FreeAll(s) == FoldLeft(FreePageStrings, s, Pages(s.allgcopages))

Close ==
    /\ g.gcstate # "closed"
    /\ g' = [FreeAll(g) EXCEPT !.gcstate = "closed", !.sweepgcopage = None]
    /\ held' = {} /\ buffer' = None

-----------------------------------------------------------------------------
StrProgram ==
    \/ \E c \in Text : NewLStr(c) \/ BufFinish(c)
    \/ \E large \in BOOLEAN : BufStart(large)
    \/ \E b \in held : Drop(b)

StrCollector ==
    \/ \E S \in SUBSET Strings(g) : Cycle(S)
    \/ Sweep \/ FullGC

StrNext ==
    \/ g.gcstate # "closed" /\ (StrProgram \/ StrCollector)
    \/ Close

StrSpec == StrInit /\ [][StrNext]_strVars

-----------------------------------------------------------------------------
(* What must be true                                                        *)

Interned(s, b) == s.gco[b].text # None

\* Two strings are equal exactly when they are the same object (lobject.cpp compares
\* strings by pointer): a finished string the program holds is what its text is looked
\* up to, however it was interned, resurrected and moved since.
EqualIsSame ==
    \A b \in held :
        /\ b \in Strings(g)
        /\ b # buffer => (Interned(g, b) /\ Lookup(g, g.gco[b].text) = b)

\* The table has every finished string once, in its bucket, and nothing else; nuse
\* counts them.
TableHasStrings ==
    LET Where(h) == {g.hash[h][i] : i \in DOMAIN g.hash[h]}
        interned == {b \in Strings(g) : Interned(g, b)}
    IN /\ \A h \in DOMAIN g.hash : Where(h) = {b \in interned : g.gco[b].hash % Size(g) = h}
       /\ g.nuse = Cardinality(interned)
       /\ \A h \in DOMAIN g.hash : Cardinality(Where(h)) = Len(g.hash[h])

\* Strings are interned: the table has each string once, found dead or alive, whatever grew,
\* shrank, ran out of memory or was swept since, so that equal strings are one object.
StringsUnique == EqualIsSame /\ TableHasStrings

\* The pages are exact, and when the VM is closed there are none (the assertions of
\* close_state).
PagesAccounted == PagesExact(g) /\ (g.gcstate = "closed" => g.allgcopages.head = None /\ g.nuse = 0)

\* The sweep is at a page that exists; what is dead is on the pages it has yet to visit,
\* and no dead string is left between cycles.
SweepFindsDead ==
    LET s == Pages(g.allgcopages)
        ahead == {s[j] : j \in {j \in DOMAIN s : g.sweepgcopage \in ToSet(SubSeq(s, 1, j))}}
        dead == {b \in Strings(g) : IsDead(g, b)}
    IN /\ g.sweepgcopage # None => g.page[g.sweepgcopage].allocated
       /\ \A b \in dead : g.gcstate = "sweep" /\ b[1] \in ahead
=============================================================================
