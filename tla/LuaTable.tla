------------------------------- MODULE LuaTable -------------------------------
(***************************************************************************)
(* Tables of the VM: VM/src/ltable.cpp.  A table has an array part and a   *)
(* hash part, a scatter table chained through relative offsets with        *)
(* Brent's variation.  Operators on tables come first; each action is one  *)
(* operation of the program or of the collector on a single table.         *)
(***************************************************************************)
EXTENDS Integers, Sequences, FiniteSets

CONSTANTS
    MaxKey,     \* the integer keys are 1 .. MaxKey
    Obj,        \* the objects used as keys
    Address,    \* Address[o]: where object o is; addresses are reused
    Hash,       \* Hash[k]: the hash of a key
    Value,      \* the values an entry may have
    Nil,        \* the value nil
    NotFound,   \* the null pointer
    End         \* no more elements

IntKey == 1 .. MaxKey
Key == IntKey \cup Obj

ASSUME TableAssumption ==
    /\ MaxKey \in Nat /\ \A x \in Obj \cup {Nil, NotFound, End} : x \notin Int
    /\ Nil \notin Key \cup Value /\ {NotFound, End} \cap (Key \cup {Nil}) = {} /\ NotFound # End
    /\ Hash \in [Key -> Nat]
    /\ DOMAIN Address = Obj
    /\ \A o, p \in Obj : Address[o] = Address[p] => Hash[o] = Hash[p]

-----------------------------------------------------------------------------
(* Nodes and chains                                                         *)

Dummy == <<>>            \* luaH_dummynode: no hash part
Empty == [key |-> Nil, dead |-> FALSE, val |-> Nil, next |-> 0]

SizeNode(t) == Cardinality(DOMAIN t.node)
SizeArray(t) == Len(t.array)
MainPosition(t, k) == Hash[k] % SizeNode(t)

\* The nodes from position p along the offsets `next', in order.
Chain(t, p) ==
    LET upTo[n \in 0 .. SizeNode(t) - 1] ==
            IF n = 0 THEN <<p>>
            ELSE LET c == upTo[n - 1]
                     last == c[Len(c)]
                 IN IF t.node[last].next = 0 THEN c ELSE Append(c, last + t.node[last].next)
    IN upTo[SizeNode(t) - 1]

Holds(t, p, k) == t.node[p].key = k /\ ~t.node[p].dead

\* The first position in the chain of k that is in S, or NotFound.
Search(t, k, S) ==
    IF t.node = Dummy THEN NotFound
    ELSE LET c == Chain(t, MainPosition(t, k))
             hits == {i \in DOMAIN c : c[i] \in S}
         IN IF hits = {} THEN NotFound
            ELSE c[CHOOSE i \in hits : \A j \in hits : i <= j]

InArray(t, k) == k \in IntKey /\ k <= SizeArray(t)
NodeOf(t, k) == Search(t, k, {p \in DOMAIN t.node : Holds(t, p, k)})

\* luaH_get
Get(t, k) ==
    IF InArray(t, k) THEN t.array[k]
    ELSE LET p == NodeOf(t, k) IN IF p = NotFound THEN Nil ELSE t.node[p].val

-----------------------------------------------------------------------------
(* Insertion                                                                *)

\* getfreepos: positions before lastfree that never had a key.
Free(t) == {p \in DOMAIN t.node : p < t.lastfree /\ t.node[p].key = Nil}
FreePos(t) == CHOOSE p \in Free(t) : \A q \in Free(t) : q <= p

\* Faulty variant: a key at the boundary goes to a free node.
OverflowsWhenFull(t, k) ==
    t.node # Dummy => (t.node[MainPosition(t, k)].val # Nil /\ Free(t) = {})

\* newkey cannot place k without growing the table: k would be the new
\* boundary, or it collides and no free position is left.
Overflows(t, k) ==
    \/ k = SizeArray(t) + 1
    \/ t.node # Dummy => (t.node[MainPosition(t, k)].val # Nil /\ Free(t) = {})

\* luaH_set would grow the table.
Grows(t, k) == ~InArray(t, k) /\ NodeOf(t, k) = NotFound /\ Overflows(t, k)

WithKey(k, next) == [key |-> k, dead |-> FALSE, val |-> Nil, next |-> next]

\* The colliding node at mp is not in its main position: it moves to n.
Displace(t, k, mp, n) ==
    LET c == Chain(t, MainPosition(t, t.node[mp].key))
        prev == c[CHOOSE i \in DOMAIN c : i + 1 \in DOMAIN c /\ c[i + 1] = mp]
        moved == [t.node[mp] EXCEPT !.next = IF @ = 0 THEN 0 ELSE @ + (mp - n)]
    IN [t EXCEPT !.lastfree = n,
                 !.node = [t.node EXCEPT ![prev].next = n - prev,
                                         ![n] = moved,
                                         ![mp] = WithKey(k, 0)]]

\* Faulty variant: the rest of the chain is not linked behind the new node.
ChainedLosesRest(t, k, mp, n) ==
    [t EXCEPT !.lastfree = n,
              !.node = [t.node EXCEPT ![n] = WithKey(k, 0), ![mp].next = n - mp]]

\* The colliding node is in its main position: k goes to n, second in the chain.
Chained(t, k, mp, n) ==
    LET next == IF t.node[mp].next = 0 THEN 0 ELSE (mp + t.node[mp].next) - n
    IN [t EXCEPT !.lastfree = n,
                 !.node = [t.node EXCEPT ![n] = WithKey(k, next), ![mp].next = n - mp]]

\* newkey, when it need not grow the table.
Insert(t, k) ==
    LET mp == MainPosition(t, k) IN
    IF t.node[mp].val = Nil
    THEN [t EXCEPT !.node[mp] = WithKey(k, @.next)]
    ELSE IF MainPosition(t, t.node[mp].key) # mp
         THEN Displace(t, k, mp, FreePos(t))
         ELSE Chained(t, k, mp, FreePos(t))

\* The assignment to the value that luaH_set found or newkey made.
Store(t, k, v) ==
    IF InArray(t, k) THEN [t EXCEPT !.array[k] = v]
    ELSE [t EXCEPT !.node[NodeOf(t, k)].val = v]

-----------------------------------------------------------------------------
(* Growing and shrinking                                                    *)

\* arrayornewkey, while entries migrate: newkey must not grow the table then.
Migrate(t, k, v) ==
    IF InArray(t, k) THEN Store(t, k, v)
    ELSE IF Overflows(t, k) THEN [t EXCEPT !.recursed = TRUE]
    ELSE Store(Insert(t, k), k, v)

\* The powers of two from 1 to 2^n.
Pow2(n) ==
    LET twoto[i \in 0 .. n] == IF i = 0 THEN 1 ELSE 2 * twoto[i - 1]
    IN {twoto[i] : i \in 0 .. n}
RoundUp(n) == CHOOSE s \in Pow2(n) : s >= n /\ \A r \in Pow2(n) : r >= n => s <= r

\* setnodevector
NodeVector(size) == IF size <= 0 THEN Dummy ELSE [p \in 0 .. RoundUp(size) - 1 |-> Empty]

\* setarrayvector
ArrayVector(t, size) == [i \in 1 .. size |-> IF i <= SizeArray(t) THEN t.array[i] ELSE Nil]

\* resize: the vanishing slice of the array migrates first, in order, then the
\* nodes from the last to the first.
Resize(t, nasize, nhsize) ==
    LET node == NodeVector(nhsize)
        bare == [t EXCEPT !.array = ArrayVector(t, nasize), !.node = node,
                          !.lastfree = Cardinality(DOMAIN node)]
        slice[i \in 0 .. SizeArray(t)] ==
            IF i <= nasize THEN bare
            ELSE IF t.array[i] = Nil THEN slice[i - 1]
            ELSE Migrate(slice[i - 1], i, t.array[i])
        nodes[p \in 0 .. SizeNode(t)] ==
            IF p = SizeNode(t) THEN slice[SizeArray(t)]
            ELSE IF t.node[p].val = Nil THEN nodes[p + 1]
            ELSE Migrate(nodes[p + 1], t.node[p].key, t.node[p].val)
    IN nodes[0]

\* adjustasize: the array grows until the boundary is inside.
AdjustASize(t, size, ek) ==
    LET bound == t.node # Dummy \/ size < SizeArray(t)
        Wanted(i) == \/ i = ek
                     \/ bound /\ i \in IntKey /\ Get(t, i) # Nil
    IN CHOOSE s \in size .. size + MaxKey + 1 :
          /\ ~Wanted(s + 1)
          /\ \A r \in size + 1 .. s : Wanted(r)

UsedSlots(t) == {i \in DOMAIN t.array : t.array[i] # Nil}
UsedNodes(t) == {p \in DOMAIN t.node : t.node[p].val # Nil}

\* numusearray, numusehash and countint: the integer keys up to n, with ek.
CountInt(t, n, ek) ==
    Cardinality(UsedSlots(t) \cap 1 .. n)
        + Cardinality({p \in UsedNodes(t) : t.node[p].key \in 1 .. n})
        + Cardinality({ek} \cap 1 .. n)

\* computesizes: the greatest power of two more than half in use.
ArraySize(t, ek) ==
    LET total == CountInt(t, MaxKey, ek)
        fit == {n \in Pow2(total) : /\ n \div 2 < total
                             /\ CountInt(t, n, ek) > n \div 2
                             /\ CountInt(t, n, ek) > CountInt(t, n \div 2, ek)}
    IN IF fit = {} THEN 0 ELSE CHOOSE n \in fit : \A m \in fit : m <= n

\* Faulty variant: the key to be inserted is not counted.
RehashForgetsKey(t, ek) ==
    LET nasize == ArraySize(t, ek)
        total == Cardinality(UsedSlots(t)) + Cardinality(UsedNodes(t))
    IN Resize(t, AdjustASize(t, nasize, ek), total - CountInt(t, nasize, ek))

Rehash(t, ek) ==
    LET nasize == ArraySize(t, ek)
        na == CountInt(t, nasize, ek)
        total == Cardinality(UsedSlots(t)) + Cardinality(UsedNodes(t)) + 1
        adjusted == AdjustASize(t, nasize, ek)
        extra == adjusted - nasize
        nh == (total - na) - extra
    IN IF extra = 0 THEN Resize(t, nasize, nh)
       ELSE Resize(t, AdjustASize(t, adjusted + extra, ek), nh)

\* luaH_set, and the assignment of v.
Assigned(t, k, v) ==
    IF InArray(t, k) \/ NodeOf(t, k) # NotFound THEN Store(t, k, v)
    ELSE IF Grows(t, k) THEN Migrate(Rehash(t, k), k, v)
    ELSE Store(Insert(t, k), k, v)

-----------------------------------------------------------------------------
(* The boundary                                                             *)

\* lastfree and aboundary share a field: a boundary is kept there, negated,
\* while no free position is.
KeepBoundary(t, b) == IF t.lastfree <= 0 THEN [t EXCEPT !.lastfree = -b] ELSE t

Boundary(t) == IF t.lastfree < 0 THEN -t.lastfree ELSE SizeArray(t)

IsNil(t, i) == t.array[i] = Nil

\* The kept boundary b moves down or up by one; 0 when neither is a boundary.
UpdatedBoundary(t, b) ==
    IF b < SizeArray(t) /\ IsNil(t, b)
    THEN IF b >= 2 /\ ~IsNil(t, b - 1) THEN b - 1 ELSE 0
    ELSE IF b + 1 < SizeArray(t) /\ ~IsNil(t, b + 1) /\ IsNil(t, b + 2) THEN b + 1 ELSE 0

\* The binary search: base counts the slots passed, rest those left; it takes fewer turns
\* than there are slots.
HalfSearch(t) ==
    LET Halved(s) ==
            LET half == s.rest \div 2
            IN IF half = 0 THEN s
               ELSE [base |-> IF IsNil(t, s.base + half + 1) THEN s.base ELSE s.base + half,
                     rest |-> s.rest - half]
        turn[i \in 0 .. SizeArray(t)] ==
            IF i = 0 THEN [base |-> 0, rest |-> SizeArray(t)] ELSE Halved(turn[i - 1])
        base == turn[SizeArray(t)].base
    IN IF IsNil(t, base + 1) THEN base ELSE base + 1

\* luaH_getn: the boundary, and the one it keeps (NotFound if it keeps none).
GetN(t) ==
    LET size == SizeArray(t)
        b == Boundary(t)
        updated == UpdatedBoundary(t, b)
        Found(n, keep) == [n |-> n, keep |-> keep]
    IN CASE b > 0 /\ ~IsNil(t, size) /\ t.node = Dummy -> Found(size, NotFound)
         [] OTHER ->
            IF b > 0 /\ b < size /\ ~IsNil(t, b) /\ IsNil(t, b + 1) THEN Found(b, NotFound)
            ELSE IF b > 0 /\ updated > 0 THEN Found(updated, updated)
            ELSE IF size > 0 /\ IsNil(t, size) THEN Found(HalfSearch(t), HalfSearch(t))
            ELSE Found(size, NotFound)

-----------------------------------------------------------------------------
(* Traversal                                                                *)

\* Faulty variant: dead keys are not recognised.
SameObjectAlive(t, p, k) == Holds(t, p, k)

\* A dead key is found by the address of its object.
SameObject(t, p, k) ==
    \/ Holds(t, p, k)
    \/ t.node[p].dead /\ k \in Obj /\ Address[t.node[p].key] = Address[k]

\* findindex: how many elements come before and up to key k.
FindIndex(t, k) ==
    IF k = Nil THEN 0
    ELSE IF InArray(t, k) THEN k
    ELSE LET p == Search(t, k, {q \in DOMAIN t.node : SameObject(t, q, k)})
         IN IF p = NotFound THEN NotFound ELSE SizeArray(t) + p + 1

\* The key of element i, array first; Nil when there is none.
KeyAt(t, i) ==
    IF i <= SizeArray(t) THEN IF IsNil(t, i) THEN Nil ELSE i
    ELSE LET n == t.node[i - SizeArray(t) - 1] IN IF n.val = Nil THEN Nil ELSE n.key

\* luaH_next: the key after k, End, or NotFound when k is an invalid key to 'next'.
NextKey(t, k) ==
    LET from == FindIndex(t, k)
        rest == {i \in from + 1 .. SizeArray(t) + SizeNode(t) : KeyAt(t, i) # Nil}
    IN IF from = NotFound THEN NotFound
       ELSE IF rest = {} THEN End
       ELSE KeyAt(t, CHOOSE i \in rest : \A j \in rest : i <= j)

\* What the table holds.
Contents(t) == [k \in Key |-> Get(t, k)]

-----------------------------------------------------------------------------
VARIABLES
    table,      \* the table
    at,         \* the last key of a traversal, Nil at its start, NotFound without one
    seen        \* the keys it has been given

tableVars == <<table, at, seen>>

TableInit ==
    /\ table = [array |-> <<>>, node |-> Dummy, lastfree |-> 0, recursed |-> FALSE]
    /\ at = NotFound /\ seen = {}

StopTraversal == at' = NotFound /\ seen' = {}

\* An object exists from its creation until it is collected, when no entry has
\* it as a live key and no traversal stands at it.
InUse(k) == at = k \/ \E p \in DOMAIN table.node : Holds(table, p, k)
CanExist(k) ==
    k \in Obj => \A o \in Obj : o # k /\ Address[o] = Address[k] => ~InUse(o)

\* t[k] = v.  A new key during a traversal ends it: what follows is undefined.
Set(k, v) ==
    /\ CanExist(k)
    /\ table' = Assigned(table, k, v)
    /\ IF Get(table, k) = Nil THEN StopTraversal ELSE UNCHANGED <<at, seen>>

\* The length operator.
Length ==
    /\ GetN(table).keep # NotFound
    /\ table' = KeepBoundary(table, GetN(table).keep)
    /\ UNCHANGED <<at, seen>>

\* next(t, k) in a traversal.
BeginTraversal == at = NotFound /\ at' = Nil /\ UNCHANGED <<table, seen>>

NextElement ==
    /\ at # NotFound
    /\ LET k == NextKey(table, at) IN
          IF k = End THEN StopTraversal ELSE at' = k /\ seen' = seen \cup {k}
    /\ UNCHANGED table

\* SETLIST and table.move grow the array to hold n elements.
ResizeArray(n) ==
    /\ n > SizeArray(table)
    /\ table' = Resize(table, AdjustASize(table, n, Nil), SizeNode(table))
    /\ StopTraversal

\* luaH_clear
Clear ==
    /\ table' = [table EXCEPT
          !.array = [i \in DOMAIN @ |-> Nil],
          !.node = [p \in DOMAIN @ |-> Empty],
          !.lastfree = SizeNode(table)]
    /\ StopTraversal

\* luaH_clone; the program goes on with the copy.
Clone ==
    /\ table' = IF table.node = Dummy /\ table.array # <<>>
                THEN [table EXCEPT !.lastfree = -Boundary(table)] ELSE table
    /\ StopTraversal

\* The collector traverses the table: keys of empty nodes die (removeentry).
Kill(t, S) ==
    LET Left(p) == [t.node[p] EXCEPT
            !.val = IF p \in S THEN Nil ELSE @,
            !.dead = @ \/ (t.node[p].key \in Obj /\ (p \in S \/ t.node[p].val = Nil))]
    IN [t EXCEPT !.node = [p \in DOMAIN t.node |-> Left(p)]]

TraverseTable == table' = Kill(table, {}) /\ UNCHANGED <<at, seen>>

\* cleartable of a weak table: entries whose key or value is dead go, and a table with
\* mode 's' that is less than 3/8 full shrinks.
ClearTable(S) ==
    /\ \E shrinkable \in BOOLEAN :
          LET t == Kill(table, S)
              active == Cardinality(UsedNodes(t))
          IN IF shrinkable /\ active < (SizeNode(t) * 3) \div 8
             THEN table' = Resize(t, SizeArray(t), active) /\ StopTraversal
             ELSE table' = t /\ UNCHANGED <<at, seen>>

\* Memory runs out in resize when the array has grown and the nodes have not: an error is
\* thrown, and a search for a free position has moved lastfree to the front.
SetFails(k) ==
    /\ CanExist(k) /\ Grows(table, k)
    /\ LET grown == Rehash(table, k) IN
          /\ SizeArray(grown) > SizeArray(table) /\ grown.node # Dummy
          /\ table' = [table EXCEPT !.array = ArrayVector(table, SizeArray(grown)),
                         !.lastfree = IF k # SizeArray(table) + 1 /\ @ > 0 THEN 0 ELSE @]
    /\ StopTraversal

TableNext ==
    \/ \E k \in Key, v \in Value \cup {Nil} : Set(k, v)
    \/ Length \/ BeginTraversal \/ NextElement \/ Clear \/ Clone \/ TraverseTable
    \/ \E n \in IntKey : ResizeArray(n)
    \/ \E S \in SUBSET {p \in UsedNodes(table) : table.node[p].key \in Obj \ {at}} : ClearTable(S)

TableSpec == TableInit /\ [][TableNext]_tableVars

TableOomSpec == TableInit /\ [][TableNext \/ \E k \in Key : SetFails(k)]_tableVars

-----------------------------------------------------------------------------
(* What must be true                                                        *)

\* The length is a border: t[n] is not nil and t[n + 1] is (the comment of luaH_getn),
\* whatever was assigned, cleared or migrated since a boundary was kept.
Border ==
    LET n == GetN(table).n IN
        /\ n # 0 => (n \in Key /\ Get(table, n) # Nil)
        /\ n + 1 \in Key => Get(table, n + 1) = Nil

\* A traversal that assigns to existing fields and meets collections finds its place
\* again, is never given a key twice, and at its end has been given every key that is
\* still there.
Traversal ==
    at # NotFound =>
        LET k == NextKey(table, at) IN
            /\ k # NotFound /\ k \notin seen
            /\ k = End => \A x \in Key : Get(table, x) # Nil => x \in seen

\* The assertion of computesizes: the array is more than half in use, and no key is counted
\* twice.
SizesFit ==
    \A k \in Key : Grows(table, k) =>
        LET n == ArraySize(table, k)
            na == CountInt(table, n, k)
        IN n \div 2 <= na /\ na <= n

\* The sizes that rehash computes hold all that migrates: newkey never grows a table that
\* is being resized (the assertions of resize), which would lose the nodes left to migrate.
RehashFits == ~table.recursed /\ SizesFit
=============================================================================
