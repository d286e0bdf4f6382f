------------------------------- MODULE Actor -------------------------------
(***************************************************************************)
(* src/actor: messages that own a heap block when their payload is too     *)
(* large to be stored inline, the mailbox that carries them (an MpmcQueue) *)
(* and the registry through which a sender finds the mailbox of an actor.  *)
(* One actor, one sender; the actor may register again with a new mailbox. *)
(***************************************************************************)
EXTENDS Integers, Sequences, FiniteSets, SequencesExt

CONSTANTS Payloads,         \* heap blocks: a bound on malloc
          MailboxCapacity   \* 1024 in the code

Messages == {1, 2}    \* the sender's and the receiver's message variables
Mailboxes == {1, 2}
Nobody == 0           \* nullptr

ASSUME ActorAssumption == Nobody \notin Payloads /\ MailboxCapacity \in Nat

VARIABLES message,   \* each message: is_inline and heap_data.ptr
          mailbox,   \* the messages in each mailbox
          mailbox_of,\* shared_ptrs: the registry's entry, the actor's and the sender's
          heap       \* blocks that are malloc'ed and not freed

actorVars == <<message, mailbox, mailbox_of, heap>>

Inline == [is_inline |-> TRUE, ptr |-> Nobody]
OnHeap(p) == [is_inline |-> FALSE, ptr |-> p]

ActorInit ==
    /\ message = [v \in Messages |-> Inline]
    /\ mailbox = [b \in Mailboxes |-> <<>>]
    /\ mailbox_of = [t \in {"registry", "actor", "sender"} |-> Nobody]
    /\ heap = {}

\* destroy(): the block it frees, if any.
Freed(m) == IF ~m.is_inline /\ m.ptr # Nobody THEN {m.ptr} ELSE {}

\* What a move leaves behind.
KeepsPointer(m) == m   \* mutant: other.is_inline is not reset
MovedFrom(m) == IF m.is_inline THEN m ELSE Inline

MessageSet(v) ==
    \/ /\ message' = [message EXCEPT ![v] = Inline]
       /\ heap' = heap \ Freed(message[v])
       /\ UNCHANGED <<mailbox, mailbox_of>>
    \/ \E p \in Payloads \ (heap \ Freed(message[v])) :
       /\ message' = [message EXCEPT ![v] = OnHeap(p)]
       /\ heap' = (heap \ Freed(message[v])) \cup {p}
       /\ UNCHANGED <<mailbox, mailbox_of>>

\* Copy assignment, or destruction and copy construction: a block of its own.
MessageCopy(v, w) ==
    /\ v # w
    /\ IF message[w].is_inline
       THEN /\ message' = [message EXCEPT ![v] = message[w]]
            /\ heap' = heap \ Freed(message[v])
       ELSE \E p \in Payloads \ (heap \ Freed(message[v])) :
            /\ message' = [message EXCEPT ![v] = OnHeap(p)]
            /\ heap' = (heap \ Freed(message[v])) \cup {p}
    /\ UNCHANGED <<mailbox, mailbox_of>>

MessageMove(v, w) ==
    /\ v # w
    /\ message' = [message EXCEPT ![v] = message[w], ![w] = MovedFrom(message[w])]
    /\ heap' = heap \ Freed(message[v])
    /\ UNCHANGED <<mailbox, mailbox_of>>

\* find_mailbox, later try_push(std::move(msg)): a full mailbox leaves msg alone.
MailboxPush(v) ==
    LET b == mailbox_of["sender"] IN
    /\ b # Nobody
    /\ Len(mailbox[b]) < MailboxCapacity
    /\ mailbox' = [mailbox EXCEPT ![b] = Append(@, message[v])]
    /\ message' = [message EXCEPT ![v] = MovedFrom(message[v])]
    /\ UNCHANGED <<mailbox_of, heap>>

\* try_pop, and the message it returns is moved into v.
MailboxPop(v) ==
    LET b == mailbox_of["actor"] IN
    /\ b # Nobody
    /\ mailbox[b] # <<>>
    /\ message' = [message EXCEPT ![v] = Head(mailbox[b])]
    /\ mailbox' = [mailbox EXCEPT ![b] = Tail(@)]
    /\ heap' = heap \ Freed(message[v])
    /\ UNCHANGED mailbox_of

\* Who holds which mailbox becomes refs; one that nobody holds any more is destroyed,
\* and its destructor pops and destroys every message in it.
Rebind(refs) ==
    LET dead == {b \in Mailboxes : \A t \in DOMAIN refs : refs[t] # b} IN
    /\ mailbox_of' = refs
    /\ mailbox' = [b \in Mailboxes |-> IF b \in dead THEN <<>> ELSE mailbox[b]]
    /\ heap' = heap \ UNION {Freed(m) : m \in UNION {ToSet(mailbox[b]) : b \in dead}}
    /\ UNCHANGED message

\* A new mailbox for the actor, and register_actor, which replaces an older entry.
RegisterActor ==
    \E b \in Mailboxes :
        /\ \A t \in DOMAIN mailbox_of : mailbox_of[t] # b
        /\ Rebind([mailbox_of EXCEPT !["registry"] = b, !["actor"] = b])
UnregisterActor == Rebind([mailbox_of EXCEPT !["registry"] = Nobody])
FindMailbox == Rebind([mailbox_of EXCEPT !["sender"] = mailbox_of["registry"]])
Release(t) == Rebind([mailbox_of EXCEPT ![t] = Nobody])

ActorNext ==
    \/ \E v \in Messages : MessageSet(v) \/ MailboxPush(v) \/ MailboxPop(v)
    \/ \E v, w \in Messages : MessageCopy(v, w) \/ MessageMove(v, w)
    \/ RegisterActor \/ UnregisterActor \/ FindMailbox
    \/ \E t \in {"actor", "sender"} : Release(t)

ActorSpec == ActorInit /\ [][ActorNext]_actorVars

----------------------------------------------------------------------------
(* Properties *)

Owners(p) ==
    {<<Nobody, v>> : v \in {u \in Messages : message[u] = OnHeap(p)}}
    \cup {x \in Mailboxes \X (1 .. MailboxCapacity) :
             x[2] <= Len(mailbox[x[1]]) /\ mailbox[x[1]][x[2]] = OnHeap(p)}

\* Each heap block belongs to exactly one message, in a variable or in a mailbox, until
\* it is freed, and no message refers to a freed block: copies, moves, a mailbox that is
\* replaced or unregistered while a sender still pushes into it neither leak a payload
\* nor free one twice (actor.cpp:26-91, mailbox.hpp:27-32).
PayloadsOwned ==
    \A p \in Payloads : Cardinality(Owners(p)) = IF p \in heap THEN 1 ELSE 0

=============================================================================
