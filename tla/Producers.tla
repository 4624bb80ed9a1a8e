----------------------------- MODULE Producers -----------------------------
(***************************************************************************)
(* The producers of ConcurrentQueue in utility/concurrentqueue.h: the      *)
(* lock-free list of them, the tokens that use and recycle the explicit    *)
(* ones, and the hash table that finds a thread's implicit one.  The table *)
(* grows by a new one that refers to the old; threads move their entries   *)
(* over when they come by.                                                 *)
(*                                                                         *)
(* Implicit producers are not recycled when threads exit: no build defines *)
(* MOODYCAMEL_CPP11_THREAD_LOCAL_SUPPORTED.  One atomic access is one      *)
(* step.                                                                   *)
(***************************************************************************)
EXTENDS FiniteSets, Sequences, Integers

CONSTANTS
  Enqueuers,      \* threads that enqueue without a token
  TokenUsers,     \* threads that create and destroy producer tokens
  HashedId,       \* hash_thread_id() of each enqueuer
  HashSize,       \* INITIAL_IMPLICIT_PRODUCER_HASH_SIZE
  MaxProducers    \* a bound: memory for so many producers

Threads == Enqueuers \union TokenUsers

VARIABLES
  producerList,   \* the linked list, the oldest first, so that producerListTail is the last
  producerCount,
  created,        \* how many producers there are, numbered from 1
  explicit, inactive,
  token,          \* whose token a producer is used by; 0 is the null pointer
  hashes,         \* implicitProducerHash and its predecessors, the main one last
  hashCount,      \* implicitProducerHashCount
  resizing,       \* implicitProducerHashResizeInProgress
  cpc, cr,        \* the threads' steps and registers
  given           \* the producers each thread was given so far

producers == <<producerList, producerCount, created, explicit, inactive, token>>
table == <<hashes, hashCount, resizing>>
threads == <<cpc, cr>>
vars == <<producers, table, threads, given>>

Null == 0
Invalid == 0                     \* invalid_thread_id
NoEntry == [key |-> Invalid, value |-> Null]
NewHash(n) == [i \in 0 .. n - 1 |-> NoEntry]
Capacity(h) == Cardinality(DOMAIN hashes[h])
Main == Len(hashes)

Init ==
  /\ producerList = <<>> /\ producerCount = 0 /\ created = 0
  /\ explicit = {} /\ inactive = {}
  /\ token = [p \in 1 .. MaxProducers |-> Null]
  /\ hashes = <<NewHash(HashSize)>> /\ hashCount = 0 /\ resizing = FALSE
  /\ cpc = [t \in Threads |-> "idle"] /\ cr = [t \in Threads |-> <<>>]
  /\ given = [t \in Threads |-> {}]

Goto(t, step, registers) ==
  cpc' = [cpc EXCEPT ![t] = step] /\ cr' = [cr EXCEPT ![t] = registers]
Step(t, step) == Goto(t, step, cr[t])

\* get_or_add_implicit_producer() returns p.
ReturnProducer(t, p) ==
  /\ Goto(t, "idle", <<>>)
  /\ given' = [given EXCEPT ![t] = @ \union {p}]
ReturnNull(t) == Goto(t, "idle", <<>>) /\ UNCHANGED given

------------------------------------------------------------------------------
(* recycle_or_create_producer() and add_producer() *)

WalkFrom(r) == [r EXCEPT !.ptr = Len(producerList)]

\* One producer of the list: a matching one that is inactive is caught.
Recycle(t) ==
  LET p == producerList[cr[t].ptr] IN
  /\ cpc[t] = "walk" /\ cr[t].ptr > 0
  /\ IF p \in inactive /\ (p \in explicit <=> t \in TokenUsers)
     THEN /\ inactive' = inactive \ {p}
          /\ Goto(t, "got", [cr[t] EXCEPT !.producer = p])
     ELSE /\ Goto(t, "walk", [cr[t] EXCEPT !.ptr = @ - 1])
          /\ UNCHANGED inactive
  /\ UNCHANGED <<producerList, producerCount, created, explicit, token, table, given>>

CreateProducer(t) ==
  /\ cpc[t] = "walk" /\ cr[t].ptr = 0 /\ created < MaxProducers
  /\ created' = created + 1
  /\ explicit' = IF t \in TokenUsers THEN explicit \union {created'} ELSE explicit
  /\ producerCount' = producerCount + 1
  /\ Goto(t, "read tail", [cr[t] EXCEPT !.producer = created'])
  /\ UNCHANGED <<producerList, inactive, token, table, given>>

ReadListTail(t) ==
  /\ cpc[t] = "read tail"
  /\ Goto(t, "link", WalkFrom(cr[t]))
  /\ UNCHANGED <<producers, table, given>>

LinkProducer(t) ==
  /\ cpc[t] = "link"
  /\ IF Len(producerList) = cr[t].ptr
     THEN producerList' = Append(producerList, cr[t].producer) /\ Step(t, "got")
     ELSE UNCHANGED producerList /\ Goto(t, "link", WalkFrom(cr[t]))
  /\ UNCHANGED <<producerCount, created, explicit, inactive, token, table, given>>

\* No memory; an enqueuer gives its place in the table back.
NoProducer(t) ==
  /\ cpc[t] = "walk" /\ cr[t].ptr = 0
  /\ hashCount' = IF t \in Enqueuers THEN hashCount - 1 ELSE hashCount
  /\ ReturnNull(t)
  /\ UNCHANGED <<producers, hashes, resizing>>

------------------------------------------------------------------------------
(* ProducerToken *)

CreateToken(t) ==
  /\ cpc[t] = "idle" /\ t \in TokenUsers
  /\ Goto(t, "walk", [ptr |-> Len(producerList), producer |-> Null])
  /\ UNCHANGED <<producers, table, given>>

SetToken(t) ==
  /\ cpc[t] = "got" /\ t \in TokenUsers
  /\ token' = [token EXCEPT ![cr[t].producer] = t]
  /\ Step(t, "valid")
  /\ UNCHANGED <<producerList, producerCount, created, explicit, inactive, table, given>>

\* ~ProducerToken()
ResetToken(t) ==
  /\ cpc[t] = "valid"
  /\ token' = [token EXCEPT ![cr[t].producer] = Null]
  /\ Step(t, "release")
  /\ UNCHANGED <<producerList, producerCount, created, explicit, inactive, table, given>>

ReleaseProducer(t) ==
  /\ cpc[t] = "release"
  /\ inactive' = inactive \union {cr[t].producer}
  /\ ReturnNull(t)
  /\ UNCHANGED <<producerList, producerCount, created, explicit, token, table>>

------------------------------------------------------------------------------
(* get_or_add_implicit_producer() *)

GetOrAdd(t) ==
  /\ cpc[t] = "idle" /\ t \in Enqueuers
  /\ Goto(t, "search", [main |-> Main, hash |-> Main])
  /\ UNCHANGED <<producers, table, given>>

\* The slots that are probed for t, from its own on, up to the first for which Stop.
Slot(t, h, n) == (HashedId[t] + n) % Capacity(h)
Stops(t, h, keys) ==
  {n \in 0 .. Capacity(h) - 1 : hashes[h][Slot(t, h, n)].key \in keys}
FirstOf(S) == CHOOSE n \in S : \A m \in S : n <= m

Readd(r, value) == [main |-> r.main, index |-> 0, producer |-> value]

\* Mutant: older tables are not searched.
SearchMain(t) ==
  LET r == cr[t]
      stops == Stops(t, r.hash, {t, Invalid})
      found == hashes[r.hash][Slot(t, r.hash, FirstOf(stops))]
  IN  /\ cpc[t] = "search" /\ stops # {}
      /\ IF found.key = t THEN ReturnProducer(t, found.value)
         ELSE Goto(t, "count", [main |-> r.main]) /\ UNCHANGED given
      /\ UNCHANGED <<producers, table>>

\* One table is searched.  Only t adds or moves its own entry, and slots are never
\* emptied, so other threads do not change what the probing finds.
Search(t) ==
  LET r == cr[t]
      stops == Stops(t, r.hash, {t, Invalid})
      found == hashes[r.hash][Slot(t, r.hash, FirstOf(stops))]
  IN  /\ cpc[t] = "search" /\ stops # {}
      /\ IF found.key = t
         THEN IF r.hash = r.main THEN ReturnProducer(t, found.value)
              ELSE Goto(t, "insert", Readd(r, found.value)) /\ UNCHANGED given
         ELSE /\ UNCHANGED given
              /\ IF r.hash > 1 THEN Goto(t, "search", [r EXCEPT !.hash = @ - 1])
                 ELSE Goto(t, "count", [main |-> r.main])
      /\ UNCHANGED <<producers, table>>

CountUp(t) ==
  /\ cpc[t] = "count"
  /\ hashCount' = hashCount + 1
  /\ Goto(t, "resize", [main |-> cr[t].main, newCount |-> hashCount'])
  /\ UNCHANGED <<producers, hashes, resizing, given>>

HalfFull(r) == r.newCount >= Capacity(r.main) \div 2

\* implicitProducerHashResizeInProgress.test_and_set()
TryLock(t) ==
  /\ cpc[t] = "resize"
  /\ IF HalfFull(cr[t]) /\ ~resizing
     THEN resizing' = TRUE /\ Step(t, "locked")
     ELSE UNCHANGED resizing /\ Step(t, "room")
  /\ UNCHANGED <<producers, hashes, hashCount, given>>

ReloadLocked(t) ==
  LET r == [cr[t] EXCEPT !.main = Main] IN
  /\ cpc[t] = "locked"
  /\ Goto(t, IF HalfFull(r) THEN "grow" ELSE "unlock", r)
  /\ UNCHANGED <<producers, table, given>>

\* The next power of two that newCount fills less than half.
NewCapacity(r) ==
  LET Double[k \in 0 .. r.newCount + 1] ==
        IF k = 0 THEN 2 * Capacity(r.main)
        ELSE IF r.newCount >= Double[k - 1] \div 2 THEN 2 * Double[k - 1] ELSE Double[k - 1]
  IN  Double[r.newCount + 1]

Grow(t) ==
  /\ cpc[t] = "grow"
  /\ hashes' = Append(hashes, NewHash(NewCapacity(cr[t])))
  /\ Goto(t, "unlock", [cr[t] EXCEPT !.main = Main + 1])
  /\ UNCHANGED <<producers, hashCount, resizing, given>>

GrowFails(t) ==
  /\ cpc[t] = "grow"
  /\ hashCount' = hashCount - 1
  /\ Step(t, "give up")
  /\ UNCHANGED <<producers, hashes, resizing, given>>

Unlock(t) ==
  /\ cpc[t] \in {"unlock", "give up"}
  /\ resizing' = FALSE
  /\ IF cpc[t] = "unlock" THEN Step(t, "room") /\ UNCHANGED given ELSE ReturnNull(t)
  /\ UNCHANGED <<producers, hashes, hashCount>>

\* In a table that is three quarters full one waits for the next.
ThreeQuarters(r) == (Capacity(r.main) \div 2) + (Capacity(r.main) \div 4)

FindRoom(t) ==
  LET r == cr[t] IN
  /\ cpc[t] = "room"
  /\ IF r.newCount < ThreeQuarters(r)
     THEN Goto(t, "walk", [main |-> r.main, ptr |-> Len(producerList), producer |-> Null])
     ELSE Goto(t, "resize", [r EXCEPT !.main = Main])
  /\ UNCHANGED <<producers, table, given>>

GotImplicit(t) ==
  /\ cpc[t] = "got" /\ t \in Enqueuers
  /\ Goto(t, "insert", Readd(cr[t], cr[t].producer))
  /\ UNCHANGED <<producers, table, given>>

\* One slot of the main table of then: taken if it is empty.
InsertKey(t) ==
  LET r == cr[t]
      i == Slot(t, r.main, r.index)
  IN  /\ cpc[t] = "insert"
      /\ IF hashes[r.main][i].key = Invalid
         THEN /\ hashes' = [hashes EXCEPT ![r.main][i] = [key |-> t, value |-> r.producer]]
              /\ ReturnProducer(t, r.producer)
         ELSE /\ Goto(t, "insert", [r EXCEPT !.index = @ + 1])
              /\ UNCHANGED <<hashes, given>>
      /\ UNCHANGED <<producers, hashCount, resizing>>

------------------------------------------------------------------------------
ListNext(t) ==
  \/ Recycle(t) \/ CreateProducer(t) \/ ReadListTail(t) \/ LinkProducer(t) \/ NoProducer(t)
TokenNext(t) == CreateToken(t) \/ SetToken(t) \/ ResetToken(t) \/ ReleaseProducer(t)
HashNext(t) ==
  \/ GetOrAdd(t) \/ Search(t) \/ CountUp(t) \/ TryLock(t) \/ ReloadLocked(t)
  \/ Grow(t) \/ GrowFails(t) \/ Unlock(t) \/ FindRoom(t) \/ GotImplicit(t) \/ InsertKey(t)

Next == \E t \in Threads : ListNext(t) \/ TokenNext(t) \/ HashNext(t)

Spec == Init /\ [][Next]_vars

------------------------------------------------------------------------------
(* Properties. *)

\* What a thread enqueues stays in order because it is always given the same producer,
\* whatever tables it is in, and no other thread is.
OneProducerEach ==
  \A t \in Enqueuers :
    /\ Cardinality(given[t]) <= 1 /\ given[t] \cap explicit = {}
    /\ \A u \in Enqueuers \ {t} : given[t] \cap given[u] = {}

\* "Not an infinite loop because at least one slot is free in the hash table", and the
\* room for the threads that have counted themselves or are still in an older table.
SlotsReserved ==
  \A h \in DOMAIN hashes :
    LET used == Cardinality({i \in DOMAIN hashes[h] : hashes[h][i].key # Invalid})
    IN  used < Capacity(h) /\ used <= hashCount

\* A thread is in a table once, whatever it lost its slot to.
KeysOnce ==
  \A h \in DOMAIN hashes : \A i, j \in DOMAIN hashes[h] :
    hashes[h][i].key = hashes[h][j].key /\ i # j => hashes[h][i].key = Invalid

\* An explicit producer has one user at a time, which its token knows, and is not up
\* for recycling meanwhile.
TokensExclusive ==
  \A t \in TokenUsers :
    /\ cpc[t] \in {"got", "valid", "release"} =>
         cr[t].producer \notin inactive
    /\ cpc[t] = "valid" => token[cr[t].producer] = t
    /\ \A u \in TokenUsers \ {t} :
         {cpc[t], cpc[u]} \subseteq {"read tail", "link", "got", "valid", "release"} =>
           cr[t].producer # cr[u].producer

\* Every producer that was created is in the list once, or about to be; it is counted
\* before it can be seen there.
NoneLost ==
  /\ producerCount >= Len(producerList)
  /\ \A p \in 1 .. created :
       Cardinality({i \in DOMAIN producerList : producerList[i] = p})
         + Cardinality({t \in Threads : cpc[t] \in {"read tail", "link"} /\ cr[t].producer = p})
       = 1

ProducersSound ==
  /\ producerCount \in 0 .. MaxProducers /\ hashCount \in 0 .. Cardinality(Enqueuers)
  /\ OneProducerEach /\ SlotsReserved /\ KeysOnce /\ TokensExclusive /\ NoneLost
==============================================================================
