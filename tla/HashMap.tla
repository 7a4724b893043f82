------------------------------ MODULE HashMap -------------------------------
(***************************************************************************)
(* The open-addressing map of cbase/hash.c that every table of cecup is an *)
(* instance of (fs_map, inode_map, actions_set): slots that are free, used *)
(* or deleted, triangular probing, tombstones, and a table that doubles    *)
(* when three quarters of its slots are not free.                          *)
(*                                                                         *)
(* The hash of a key is a number chosen once, at Init, for every key, so   *)
(* that keys collide outright, collide only while the table is small, or   *)
(* not at all.  Keys are compared whole, so the stored hash only says      *)
(* where the key goes in a larger table.  MaxCapacity bounds the number of *)
(* slots: the operation that would double past it is not taken (in the     *)
(* code the size is limited by 32 bits and the process ends there).        *)
(***************************************************************************)
EXTENDS Integers, FiniteSets

CONSTANTS Keys, Values, NoKey, NoValue,
          Hashes,        \* the numbers a key may hash to
          Lengths,       \* the lengths a table is created for
          MaxCapacity

ASSUME Sentinels == NoKey \notin Keys /\ NoValue \notin Values
ASSUME HashesAreNumbers == Hashes \subseteq Nat /\ Lengths \subseteq Nat

VARIABLES
  hash,        \* the hash of every key
  capacity,    \* number of slots, a power of two
  slots,       \* the table: 0..capacity-1
  length,      \* keys held
  occupied,    \* slots that are used or were
  answer       \* what the last call returned

vars == <<hash, capacity, slots, length, occupied, answer>>

FREE == [state |-> "free", key |-> NoKey, value |-> NoValue]
DELETED == [FREE EXCEPT !.state = "deleted"]
Used(k, v) == [state |-> "used", key |-> k, value |-> v]

Empty(n) == [i \in 0..(n - 1) |-> FREE]

(* Plausible bug: the squares alone, which do not reach every slot.        *)
VisitSquares(h, i, n) == (h + i * i) % n

(* The i-th slot looked at for a key of hash h in a table of n slots.      *)
Visit(h, i, n) == (h + (i + i * i) \div 2) % n

(* The slots of t in state s.                                              *)
In(t, s) == {i \in DOMAIN t : t[i].state = s}

First(S) == CHOOSE i \in S : \A j \in S : i <= j

-----------------------------------------------------------------------------
(* Probing: the walk stops at the first free slot, or after n of them.     *)

(* Plausible bug: a tombstone ends the walk as a free slot does.           *)
WalkToTombstone(t, n, k) ==
  LET at(i) == t[Visit(hash[k], i, n)]
      stops == {i \in 0..(n - 1) : at(i).state # "used"}
  IN  {i \in 0..(n - 1) : \A j \in stops : i <= j}

Walk(t, n, k) ==
  LET at(i) == t[Visit(hash[k], i, n)]
      stops == {i \in 0..(n - 1) : at(i).state = "free"}
  IN  {i \in 0..(n - 1) : \A j \in stops : i <= j}

(* The steps of the walk that meet key k, and those a new key may take.    *)
Hits(t, n, k) ==
  {i \in Walk(t, n, k) :
     t[Visit(hash[k], i, n)].state = "used" /\ t[Visit(hash[k], i, n)].key = k}

Gaps(t, n, k) ==
  LET walk == Walk(t, n, k)
      at(i) == t[Visit(hash[k], i, n)].state
      tombs == {i \in walk : at(i) = "deleted"}
  IN  IF tombs # {} THEN tombs ELSE {i \in walk : at(i) = "free"}

Found(t, n, k) == Hits(t, n, k) # {}
Slot(t, n, k) == Visit(hash[k], First(Hits(t, n, k)), n)
Target(t, n, k) == Visit(hash[k], First(Gaps(t, n, k)), n)

-----------------------------------------------------------------------------
(* Growing: used slots are carried over in their order, tombstones are not. *)

Carry(t, n, slot) ==
  LET step == First({i \in 0..(n - 1) :
                       t[Visit(hash[slot.key], i, n)].state = "free"})
  IN  [t EXCEPT ![Visit(hash[slot.key], step, n)] = slot]

(* The larger table when the first j slots were looked at.                 *)
Carried[j \in 0..capacity] ==
  IF j = 0 THEN Empty(2 * capacity)
  ELSE IF slots[j - 1].state = "used"
  THEN Carry(Carried[j - 1], 2 * capacity, slots[j - 1])
  ELSE Carried[j - 1]

Resized == Carried[capacity]

TooFull == occupied * 100 >= capacity * 75

(* The table an insertion works on: grown first when it is too full.       *)
Ready == [slots    |-> IF TooFull THEN Resized ELSE slots,
          capacity |-> IF TooFull THEN 2 * capacity ELSE capacity,
          occupied |-> IF TooFull THEN length ELSE occupied]

-----------------------------------------------------------------------------
(* The operations.                                                         *)

PowerOfTwo(n) == \A d, e \in 1..n : n = d * e /\ d % 2 = 1 => d = 1

(* Doubling from 1 until it is enough, and once more.                      *)
Capacity(n) ==
  2 * First({c \in 1..(2 * n + 1) : c >= n /\ PowerOfTwo(c)})

Init ==
  /\ hash \in [Keys -> Hashes]
  /\ \E n \in Lengths : capacity = Capacity(n)
  /\ slots = Empty(capacity)
  /\ length = 0
  /\ occupied = 0
  /\ answer = TRUE

(* A key that is not there is put into the slot the probing chose.         *)
Put(r, k, v) ==
  LET i == Target(r.slots, r.capacity, k)
  IN  /\ slots' = [r.slots EXCEPT ![i] = Used(k, v)]
      /\ occupied' = r.occupied + (IF r.slots[i].state = "free" THEN 1 ELSE 0)
      /\ length' = length + 1
      /\ answer' = TRUE

insert(k, v) ==
  LET r == Ready
  IN  /\ r.capacity <= MaxCapacity
      /\ capacity' = r.capacity
      /\ IF Found(r.slots, r.capacity, k)
         THEN /\ slots' = r.slots
              /\ occupied' = r.occupied
              /\ answer' = FALSE
              /\ UNCHANGED length
         ELSE Put(r, k, v)
      /\ UNCHANGED hash

overwrite(k, v) ==
  LET r == Ready
  IN  /\ r.capacity <= MaxCapacity
      /\ capacity' = r.capacity
      /\ IF Found(r.slots, r.capacity, k)
         THEN /\ slots' = [r.slots EXCEPT ![Slot(r.slots, r.capacity, k)].value = v]
              /\ occupied' = r.occupied
              /\ answer' = TRUE
              /\ UNCHANGED length
         ELSE Put(r, k, v)
      /\ UNCHANGED hash

lookup(k) ==
  /\ answer' = IF Found(slots, capacity, k)
               THEN slots[Slot(slots, capacity, k)].value
               ELSE NoValue
  /\ UNCHANGED <<hash, capacity, slots, length, occupied>>

remove(k) ==
  /\ IF Found(slots, capacity, k)
     THEN /\ slots' = [slots EXCEPT ![Slot(slots, capacity, k)] = DELETED]
          /\ length' = length - 1
          /\ answer' = TRUE
     ELSE /\ answer' = FALSE
          /\ UNCHANGED <<slots, length>>
  /\ UNCHANGED <<hash, capacity, occupied>>

zero ==
  /\ slots' = Empty(capacity)
  /\ length' = 0
  /\ occupied' = 0
  /\ UNCHANGED <<hash, capacity, answer>>

Next ==
  \/ \E k \in Keys, v \in Values : insert(k, v) \/ overwrite(k, v)
  \/ \E k \in Keys : lookup(k) \/ remove(k)
  \/ zero

Spec == Init /\ [][Next]_vars

-----------------------------------------------------------------------------
(* Properties.                                                             *)

Slots == {FREE, DELETED} \union {Used(k, v) : k \in Keys, v \in Values}

TypeOK ==
  /\ hash \in [Keys -> Hashes]
  /\ capacity > 1 /\ PowerOfTwo(capacity)
  /\ slots \in [0..(capacity - 1) -> Slots]
  /\ length = Cardinality(In(slots, "used"))
  /\ occupied = capacity - Cardinality(In(slots, "free"))
  /\ answer \in BOOLEAN \union Values \union {NoValue}

MissesFindRoom ==
  LET r == Ready
  IN  \A k \in Keys :
        Found(r.slots, r.capacity, k) \/ Gaps(r.slots, r.capacity, k) # {}

(* The two counters of a map say what its slots say (hash.c keeps them by  *)
(* hand in five operations), and a probing that misses ends at a slot the  *)
(* new key can take, whatever was removed before: hash_insert writes to    *)
(* the slot hash_probe chose without asking whether it chose one           *)
(* (hash.c:430, 471).                                                      *)
TableConsistent == TypeOK /\ MissesFindRoom

(* The map answers every call as a dictionary would: a key that was put in *)
(* is found with its last value until it is removed, through collisions,   *)
(* tombstones on its path and the doubling of the table, and no other key  *)
(* is found.  The value of a key is that of any used slot that holds it.   *)
Contents ==
  [k \in {slots[i].key : i \in In(slots, "used")} |->
     slots[First({i \in In(slots, "used") : slots[i].key = k})].value]

D == INSTANCE Dictionary WITH dict <- Contents

ImplementsDictionary == D!Spec

=============================================================================
