-------------------------------- MODULE Slab --------------------------------
(***************************************************************************)
(* memory/slab.hpp: fixed-size slots in chunks, with the free list threaded *)
(* through the free slots themselves.  Two allocators, so that one can be  *)
(* moved into the other: the defaulted move takes chunks_ and copies       *)
(* free_list_head_, so a moved-from slab keeps a pointer into chunks it no *)
(* longer owns and may only be assigned to or destroyed.                   *)
(***************************************************************************)
EXTENDS Integers, FiniteSets

CONSTANTS SlabChunks,    \* bound: chunks that make_unique hands out
          ChunkObjects   \* 64 in the code

ASSUME SlabAssumption == SlabChunks \in Nat /\ ChunkObjects \in Nat \ {0}

Slots == (1 .. SlabChunks) \X (1 .. ChunkObjects)
SlabIds == {1, 2}
NoSlot == <<0, 0>>

VARIABLES slab,       \* each SlabAllocator: usable, moved from or dead; chunks_, free_list_head_
          next_free,  \* the pointer stored in a slot while it is free
          objects     \* slots that hold an object

slabVars == <<slab, next_free, objects>>

NewSlab == [state |-> "usable", chunks |-> {}, head |-> NoSlot]

SlabInit ==
    /\ slab = [x \in SlabIds |-> NewSlab]
    /\ next_free = [s \in Slots |-> NoSlot]
    /\ objects = {}

\* Every slot of new chunk c goes in front of the list, the first one deepest.
ChunkList(c, head) ==
    [s \in Slots |-> CASE s[1] # c -> next_free[s]
                       [] s[1] = c /\ s[2] = 1 -> head
                       [] OTHER -> <<c, s[2] - 1>>]

SlabAllocate(x) ==
    /\ slab[x].state = "usable"
    /\ \/ /\ slab[x].head # NoSlot
          /\ slab' = [slab EXCEPT ![x].head = next_free[@]]
          /\ objects' = objects \cup {slab[x].head}
          /\ UNCHANGED next_free
       \/ \* allocate_chunk first
          /\ slab[x].head = NoSlot
          /\ \E c \in 1 .. SlabChunks :
                /\ \A y \in SlabIds : \A k \in slab[y].chunks : k < c
                /\ next_free' = ChunkList(c, slab[x].head)
                /\ slab' = [slab EXCEPT ![x].chunks = @ \cup {c},
                                        ![x].head = next_free'[<<c, ChunkObjects>>]]
                /\ objects' = objects \cup {<<c, ChunkObjects>>}

DeallocateKeepsHead(x, s) ==   \* mutant: free_list_head_ = slot->next_free
    /\ slab[x].state = "usable" /\ s \in objects /\ s[1] \in slab[x].chunks
    /\ objects' = objects \ {s}
    /\ next_free' = [next_free EXCEPT ![s] = slab[x].head]
    /\ UNCHANGED slab

\* The object is one of this slab's.
SlabDeallocate(x, s) ==
    /\ slab[x].state = "usable" /\ s \in objects /\ s[1] \in slab[x].chunks
    /\ objects' = objects \ {s}
    /\ next_free' = [next_free EXCEPT ![s] = slab[x].head]
    /\ slab' = [slab EXCEPT ![x].head = s]

\* The chunks x owned are freed, with what was in them.
SlabMove(x, y) ==
    /\ x # y /\ slab[y].state = "usable"
    /\ slab' = [slab EXCEPT ![x] = slab[y], ![y].state = "moved", ![y].chunks = {}]
    /\ objects' = {s \in objects : s[1] \notin slab[x].chunks}
    /\ UNCHANGED next_free

SlabNext ==
    \E x \in SlabIds : \/ SlabAllocate(x)
                       \/ \E s \in Slots : SlabDeallocate(x, s)
                       \/ \E y \in SlabIds : SlabMove(x, y)

SlabSpec == SlabInit /\ [][SlabNext]_slabVars

\* The first n slots of x's free list, NoSlot after its end.
FreeList(x) ==
    LET at[n \in 0 .. Cardinality(Slots)] ==
            IF n = 0 THEN slab[x].head
            ELSE IF at[n - 1] = NoSlot THEN NoSlot ELSE next_free[at[n - 1]]
    IN at

\* The free list of a slab ends, and holds each slot of its chunks that has no object
\* exactly once and nothing else, through any allocations, deallocations in any order
\* and moves: no slot is handed out twice, none is lost (slab.hpp:41-102).
SlabFreeListExact ==
    \A x \in SlabIds : slab[x].state = "usable" =>
        LET at == FreeList(x)
            free == {s \in Slots : s[1] \in slab[x].chunks} \ objects
            listed == {n \in DOMAIN at : at[n] # NoSlot}
        IN {at[n] : n \in listed} = free /\ Cardinality(listed) = Cardinality(free)

=============================================================================
