------------------------------- MODULE Intake -------------------------------
(***************************************************************************)
(* How a message becomes an event: to_event copies key and payload into    *)
(* the arena (BatchBuffer in event.rs) and shares the topic's name         *)
(* (TopicCache in source/kafka.rs).  The events of a batch are dropped     *)
(* together, batches in any order, and a chunk of the arena stays in       *)
(* memory as long as some view of it, or the arena itself, holds it.       *)
(*                                                                         *)
(* A value is its length.  BytesMut and Bytes are external: a chunk has a  *)
(* capacity, split_to leaves the rest of it, dropping the last view frees  *)
(* it.  The window of the source is left open (module KafkaSource).        *)
(***************************************************************************)
EXTENDS Naturals, Sequences, FiniteSetsExt, Functions

CONSTANTS
    Chunk,         \* DEFAULT_CHUNK_BYTES
    Topics,
    KeySizes,      \* lengths of keys; 0 stands for an absent or empty one
    PayloadSizes,  \* lengths of payloads
    BatchSize,
    MaxMessages    \* bound: messages received

\* with_chunk rounds a chunk of zero bytes up to one.
ASSUME IntakeAssumption ==
    /\ {Chunk, BatchSize} \subseteq Nat \ {0}
    /\ KeySizes \subseteq Nat /\ PayloadSizes \subseteq Nat
    /\ IsFiniteSet(KeySizes \union PayloadSizes)   \* message.max.bytes
    /\ MaxMessages \in Nat

VARIABLES
    arena,      \* BatchBuffer: sizes of the chunks allocated, bytes left in the last
    names,      \* the Arc<str> allocated so far
    last,       \* TopicCache::last: an index of names, or 0
    interned,   \* TopicCache::interned: from topics to indices of names
    pending,    \* events under assembly
    batches,    \* batches in flight
    received, copied   \* history: messages received, bytes copied

intakeVars == <<arena, names, last, interned, pending, batches, received, copied>>

IntakeInit ==
    /\ arena = [sizes |-> <<>>, left |-> 0]
    /\ names = <<>> /\ last = 0 /\ interned = [t \in {} |-> 0]
    /\ pending = <<>> /\ batches = {}
    /\ received = 0 /\ copied = 0

----------------------------------------------------------------------------
(* BatchBuffer *)

ExactFit(n) == n   \* mutant: a chunk for each value
Allocation(n) == Max({Chunk, n})

NeverFits(a, n) == FALSE   \* mutant: the rest of a chunk is never used
Fits(a, n) == a.left >= n

\* BatchBuffer::copy of n bytes; the view lies in the last chunk.
copy(a, n) ==
    IF n = 0 THEN a
    ELSE IF Fits(a, n) THEN [a EXCEPT !.left = @ - n]
    ELSE [sizes |-> Append(a.sizes, Allocation(n)), left |-> Allocation(n) - n]

ViewOf(a, n) == IF n = 0 THEN {} ELSE {Len(a.sizes)}

----------------------------------------------------------------------------
(* TopicCache *)

TrustsLast(topic) == last # 0   \* mutant: the name is not compared
IsLast(topic) == last # 0 /\ names[last] = topic

\* TopicCache::intern: the index of the shared name.
intern(topic) ==
    IF IsLast(topic) THEN last
    ELSE IF topic \in DOMAIN interned THEN interned[topic]
    ELSE Len(names) + 1

Interned(topic) ==
    /\ last' = intern(topic)
    /\ names' = IF last' > Len(names) THEN Append(names, topic) ELSE names
    /\ interned' = IF last' > Len(names)
                   THEN [t \in DOMAIN interned \union {topic} |->
                           IF t = topic THEN last' ELSE interned[t]]
                   ELSE interned

----------------------------------------------------------------------------
(* The loop of the source *)

\* to_event: the key is copied first, then the payload.
to_event(topic, key, payload) ==
    LET withKey == copy(arena, key)
    IN  [topic |-> topic, name |-> intern(topic), bytes |-> key + payload,
         chunks |-> ViewOf(withKey, key) \union ViewOf(copy(withKey, payload), payload)]

Recv(topic, key, payload) ==
    /\ received < MaxMessages /\ Len(pending) < BatchSize
    /\ pending' = Append(pending, to_event(topic, key, payload))
    /\ arena' = copy(copy(arena, key), payload)
    /\ Interned(topic)
    /\ received' = received + 1 /\ copied' = copied + key + payload
    /\ UNCHANGED batches

\* The batch is full, or its linger is over.
Dispatch ==
    /\ pending # <<>>
    /\ batches' = batches \union {[number |-> received, events |-> pending]}
    /\ pending' = <<>>
    /\ UNCHANGED <<arena, names, last, interned, received, copied>>

\* Every sink is done with a batch: its last reference goes, and its views.
Release ==
    /\ \E b \in batches : batches' = batches \ {b}
    /\ UNCHANGED <<arena, names, last, interned, pending, received, copied>>

IntakeNext ==
    \/ \E t \in Topics, k \in KeySizes, p \in PayloadSizes : Recv(t, k, p)
    \/ Dispatch
    \/ Release

IntakeSpec == IntakeInit /\ [][IntakeNext]_intakeVars

----------------------------------------------------------------------------
(* Properties *)

Live == {b.events : b \in batches} \union {pending}
LiveEvents == UNION {Range(events) : events \in Live}

\* Chunks some live view or the arena itself keeps in memory.
Resident == ({Len(arena.sizes)} \ {0}) \union UNION {e.chunks : e \in LiveEvents}

BytesOf(events) == SumFunction([i \in DOMAIN events |-> events[i].bytes])

\* An event carries the name of its own topic, which offsets_for commits under,
\* and a name is allocated once (TopicCache::intern): the slot for the last
\* topic never answers for another one, however topics alternate.
TopicsExact ==
    /\ \A e \in LiveEvents : names[e.name] = e.topic
    /\ IsInjective(names)

\* "A batch of N messages costs roughly total_bytes / chunk allocations instead
\* of 2N" (BatchBuffer::copy): two neighbouring chunks always hold more than a
\* chunk of bytes, whatever tails are left unused and however large a value is.
AllocationsBounded ==
    (Len(arena.sizes) - 1) * Chunk < 2 * copied \/ copied = 0

\* Memory is in proportion to what is in flight although batches that end in
\* any order share chunks (BatchBuffer, Bytes): beside twice its own bytes a
\* batch keeps at most the chunks of its two ends; the last chunk of the batch
\* under assembly is the arena's own.
ArenaBounded ==
    SumFunction([c \in Resident |-> arena.sizes[c]])
      <= Max({Chunk} \union KeySizes \union PayloadSizes)
         + Chunk * (2 * Cardinality(batches) + Min({Len(pending), 1}))
         + 2 * (SumFunction([b \in batches |-> BytesOf(b.events)]) + BytesOf(pending))
=============================================================================
