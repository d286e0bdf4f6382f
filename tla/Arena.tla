------------------------------- MODULE Arena -------------------------------
(***************************************************************************)
(* src/memory/arena.cpp: bump allocation in a chain of malloc'ed blocks.   *)
(* An address is a number, 0 is nullptr; block b starts at b * ArenaStride *)
(* plus a residue, since malloc aligns to max_align_t only (one unit here) *)
(* and callers may ask for more.                                           *)
(***************************************************************************)
EXTENDS Integers, FiniteSets, FiniteSetsExt, Functions

CONSTANTS ArenaBlocks,    \* bound: how many blocks malloc hands out, 1 .. ArenaBlocks
          block_size,     \* block_size_, 2 MB in the code
          ArenaSizes,     \* sizes that are asked for
          Alignments,     \* powers of two
          Residues,       \* of a block's data modulo the largest alignment
          ArenaStride     \* between the places where blocks may start

ArenaIds == {1, 2}

ASSUME ArenaAssumption ==
    /\ ArenaBlocks \in Nat /\ block_size \in Nat /\ ArenaStride \in Nat
    /\ ArenaSizes \subseteq Nat /\ Alignments \subseteq Nat \ {0} /\ Residues \subseteq Nat
    /\ \A a \in Alignments : ArenaStride % a = 0
    \* blocks do not overlap
    /\ \A r \in Residues, size \in ArenaSizes, a \in Alignments :
          r + block_size <= ArenaStride /\ r + size + a <= ArenaStride

VARIABLES arena,   \* each ArenaAllocator object, dead or alive
          block,   \* each Block
          allocs   \* allocations of the objects alive that no reset or destructor has ended

arenaVars == <<arena, block, allocs>>

Empty == [alive |-> TRUE, current |-> 0, end |-> 0, head |-> 0, first |-> 0, total |-> 0]

ArenaInit ==
    /\ arena = [x \in ArenaIds |-> IF x = 1 THEN Empty ELSE [Empty EXCEPT !.alive = FALSE]]
    /\ block = [b \in 1 .. ArenaBlocks |->
                   [life |-> "unused", next |-> 0, size |-> 0, used |-> 0, data |-> 0]]
    /\ allocs = {}

\* The blocks from b on, along next.
ChainIn(blocks, b) ==
    LET from[x \in 0 .. ArenaBlocks] == IF x = 0 THEN {} ELSE {x} \cup from[blocks[x].next]
    IN from[b]
Chain(b) == ChainIn(block, b)

NoAlign(p, a) == p   \* mutant: the mask is dropped

\* (p + alignment - 1) & ~(alignment - 1)
AlignUp(p, a) == ((p + a - 1) \div a) * a

HandOut(x, p, size, a) ==
    allocs' = allocs \cup (IF size = 0 THEN {}
                           ELSE {[arena |-> x, addr |-> p, size |-> size, align |-> a]})

\* head_->used = current_ - head_->data
FreezeNothing(x) == block   \* mutant: the high-water mark is not recorded
Freeze(x) ==
    IF arena[x].head = 0 THEN block
    ELSE [block EXCEPT ![arena[x].head].used = arena[x].current - block[arena[x].head].data]

\* allocate_slow and allocate_block: a block for at least size + alignment, linked
\* behind head_, whatever head_->next was.
AllocateSlow(x, size, a) ==
    \E r \in Residues, b \in {n \in 1 .. ArenaBlocks :
                                 block[n].life = "unused" /\ \A k \in 1 .. n - 1 : block[k].life # "unused"} :
        LET n == Max({block_size, size + a})
            data == b * ArenaStride + r
            p == AlignUp(data, a)
            h == arena[x].head
            new == [Freeze(x) EXCEPT ![b] = [life |-> "live", next |-> 0, size |-> n, used |-> 0,
                                             data |-> data]]
        IN /\ block' = IF arena[x].first = 0 THEN new ELSE [new EXCEPT ![h].next = b]
           /\ arena' = [arena EXCEPT ![x] =
                  [alive |-> arena[x].alive, current |-> p + size, end |-> data + n, head |-> b,
                   first |-> IF arena[x].first = 0 THEN b ELSE arena[x].first,
                   total |-> arena[x].total + n]]
           /\ HandOut(x, p, size, a)

Allocate(x, size, a) ==
    LET p == AlignUp(arena[x].current, a) IN
    /\ arena[x].alive
    /\ \/ /\ p + size <= arena[x].end
          /\ arena' = [arena EXCEPT ![x].current = p + size]
          /\ HandOut(x, p, size, a)
          /\ UNCHANGED block
       \/ p + size > arena[x].end /\ AllocateSlow(x, size, a)

\* An arena that has no block yet has nothing to reset.
ArenaReset(x) ==
    LET f == arena[x].first IN
    /\ arena[x].alive
    /\ f # 0
    /\ block' = [b \in DOMAIN block |-> IF b \in Chain(f) THEN [block[b] EXCEPT !.used = 0]
                                        ELSE block[b]]
    /\ arena' = [arena EXCEPT ![x] = [arena[x] EXCEPT !.head = f, !.current = block[f].data,
                                                      !.end = block[f].data + block[f].size]]
    /\ allocs' = {l \in allocs : l.arena # x}

\* Walk from first_block_ and free.
FreeChain(x) == block' = [b \in DOMAIN block |-> IF b \in Chain(arena[x].first)
                                                 THEN [block[b] EXCEPT !.life = "freed"]
                                                 ELSE block[b]]

\* x takes everything y has: x is constructed from y (x is dead before) or assigned
\* y, and then frees its own blocks first.
ArenaMoveKeepsFirst(x, y) ==   \* mutant: other.first_block_ is not cleared
    /\ x # y /\ arena[y].alive
    /\ IF arena[x].alive THEN FreeChain(x) ELSE UNCHANGED block
    /\ arena' = [arena EXCEPT ![x] = arena[y], ![y] = [Empty EXCEPT !.first = arena[y].first]]
    /\ allocs' = {[l EXCEPT !.arena = x] : l \in {k \in allocs : k.arena = y}}

ArenaMove(x, y) ==
    /\ x # y /\ arena[y].alive
    /\ IF arena[x].alive THEN FreeChain(x) ELSE UNCHANGED block
    /\ arena' = [arena EXCEPT ![x] = arena[y], ![y] = Empty]
    /\ allocs' = {[l EXCEPT !.arena = x] : l \in {k \in allocs : k.arena = y}}

ArenaConstruct(x) ==
    /\ ~arena[x].alive
    /\ arena' = [arena EXCEPT ![x] = Empty]
    /\ UNCHANGED <<block, allocs>>

ArenaDestroy(x) ==
    /\ arena[x].alive
    /\ FreeChain(x)
    /\ arena' = [arena EXCEPT ![x] = [Empty EXCEPT !.alive = FALSE]]
    /\ allocs' = {l \in allocs : l.arena # x}

\* bytes_allocated(): the bump offset in head_, the mark in the others.
BytesAllocated(x) ==
    SumFunction([b \in Chain(arena[x].first) |->
                    IF b = arena[x].head THEN arena[x].current - block[b].data ELSE block[b].used])

ArenaNext ==
    \E x \in ArenaIds :
        \/ \E size \in ArenaSizes, a \in Alignments : Allocate(x, size, a)
        \/ ArenaReset(x) \/ ArenaConstruct(x) \/ ArenaDestroy(x)
        \/ \E y \in ArenaIds : ArenaMove(x, y)

ArenaSpec == ArenaInit /\ [][ArenaNext]_arenaVars

----------------------------------------------------------------------------
(* Properties *)

\* What allocate returned and no reset, move assignment or destructor has ended is
\* aligned as asked, lies inside one block that is not freed, and shares no byte
\* with another allocation of any arena (arena.cpp:74-118).
ArenaDisjoint ==
    /\ \A l \in allocs :
          /\ l.addr % l.align = 0
          /\ \E b \in DOMAIN block : /\ block[b].life = "live"
                                     /\ block[b].data <= l.addr
                                     /\ l.addr + l.size <= block[b].data + block[b].size
    /\ \A l, k \in allocs : \/ l = k
                            \/ l.addr + l.size <= k.addr
                            \/ k.addr + k.size <= l.addr

\* No two arenas have a block in common and no chain leads into freed memory: no
\* destructor or assignment frees a block twice (arena.cpp:18-25, 30-42, 47-72).
ArenaBlocksOwned ==
    \A x \in ArenaIds : \A b \in Chain(arena[x].first) :
        /\ block[b].life = "live"
        /\ \A y \in ArenaIds : b \in Chain(arena[y].first) => y = x

\* When every arena is gone, every block that malloc gave has been freed: the
\* destructor "frees all allocated blocks back to OS" (arena.cpp:16).
ArenaFreesAll ==
    (\A x \in ArenaIds : ~arena[x].alive) => \A b \in DOMAIN block : block[b].life # "live"

\* bytes_allocated() covers the live allocations and never exceeds what malloc gave,
\* so that bytes_wasted() does not wrap (arena.cpp:153-165, arena.hpp:86).
ArenaBytes ==
    \A x \in ArenaIds :
        /\ BytesAllocated(x) <= arena[x].total
        /\ SumFunction([l \in {k \in allocs : k.arena = x} |-> l.size]) <= BytesAllocated(x)

=============================================================================
