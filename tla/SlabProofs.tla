---------------------------- MODULE SlabProofs ----------------------------
(***************************************************************************)
(* Blocks of the slab allocator never overlap, and only one that is larger *)
(* than a node leaves its node, for any number of threads, any node size   *)
(* and any requests.                                                       *)
(***************************************************************************)
EXTENDS Slab, TLAPS

(* No block has been carved from the current node. *)
Unused == alloc[current] = 0 /\ \A b \in blocks : b.node # current

(* The mutex, and what its holder knows of the node it chose. *)
Holder ==
  \A t \in Thread :
    /\ pc[t] # "idle" => lock = t /\ request[t] \in Request
    /\ pc[t] = "node" => current <= served
    /\ pc[t] \in {"ptr", "bump"} =>
         node[t] = current /\ (alloc[current] + Rounded(request[t]) <= NODE_SIZE \/ Unused)
    /\ pc[t] = "bump" => ptr[t] = alloc[current]

(* Blocks lie below the free byte of their node. *)
Below ==
  /\ current <= served + 1
  /\ \A b \in blocks : b.node <= current /\ b.to <= alloc[b.node]

SInv == TypeOK /\ Holder /\ Below /\ BlocksDisjoint /\ NoBlockStraddles

LEMMA RoundedFacts ==
  ASSUME NEW n \in Nat PROVE Rounded(n) \in Nat /\ n <= Rounded(n)
BY DEF Rounded, SLAB_SIZE

LEMMA SInvInit == Init => SInv
BY SlabAssumption DEF Init, SInv, TypeOK, Holder, Below, BlocksDisjoint, NoBlockStraddles, Node

LEMMA AllocStep ==
  ASSUME SInv, NEW t \in Thread, NEW n \in Request, SlabAlloc(t, n) PROVE SInv'
<1> USE DEF SInv, SlabAlloc
<1>1. TypeOK'
  BY SlabAssumption DEF TypeOK, Node
<1>2. Holder'
  BY SlabAssumption DEF TypeOK, Holder, Below, Unused, LockFree, Node
<1>3. Below' /\ BlocksDisjoint' /\ NoBlockStraddles'
  BY SlabAssumption DEF TypeOK, Below, BlocksDisjoint, NoBlockStraddles, Node
<1> QED
  BY <1>1, <1>2, <1>3

LEMMA ChooseNodeStep == ASSUME SInv, NEW t \in Thread, ChooseNode(t) PROVE SInv'
<1> USE DEF SInv, ChooseNode
<1>1. /\ current \in Nat /\ current <= served /\ current + 1 \in Node
      /\ request[t] \in Request /\ Rounded(request[t]) \in Nat /\ lock = t
  <2>1. request[t] \in Request /\ lock = t /\ current <= served
    BY DEF Holder
  <2>2. request[t] \in Nat
    BY <2>1, SlabAssumption
  <2>3. current \in Nat /\ current + 1 \in Node
    BY <2>1, SlabAssumption DEF TypeOK, Node
  <2> QED
    BY <2>1, <2>2, <2>3, RoundedFacts
<1>2. \A u \in Thread : u # t => pc[u] = "idle"
  BY <1>1 DEF Holder
<1>3. CASE Room(t) /\ UNCHANGED <<current, alloc>>
  BY <1>1, <1>2, <1>3 DEF TypeOK, Holder, Below, BlocksDisjoint, NoBlockStraddles, Room
<1>4. CASE current' = current + 1 /\ alloc' = [alloc EXCEPT ![current + 1] = 0]
  <2>1. TypeOK'
    BY <1>1, <1>4 DEF TypeOK
  <2>2. alloc'[current'] = 0 /\ node'[t] = current'
    BY <1>1, <1>4 DEF TypeOK
  <2>3. Holder'
    <3>1. pc' = [pc EXCEPT ![t] = "ptr"] /\ UNCHANGED <<lock, request>>
      OBVIOUS
    <3>2. \A u \in Thread : u # t => pc'[u] = "idle"
      BY <1>2, <3>1 DEF TypeOK
    <3>3. pc'[t] = "ptr" /\ request'[t] \in Request
      BY <1>1, <3>1 DEF TypeOK
    <3>4. Unused'
      <4>1. ASSUME NEW b \in blocks PROVE b.node # current + 1
        BY <1>1, <4>1 DEF Below, TypeOK, Node
      <4> QED
        BY <1>4, <2>2, <4>1 DEF Unused
    <3> QED
      BY <1>1, <2>2, <3>1, <3>2, <3>3, <3>4 DEF Holder
  <2>4. Below'
    <3>1. /\ \A n \in Node : alloc'[n] = IF n = current + 1 THEN 0 ELSE alloc[n]
          /\ current' = current + 1 /\ UNCHANGED <<blocks, served>>
      BY <1>4 DEF TypeOK
    <3>2. current' <= served' + 1
      BY <1>1, <3>1 DEF TypeOK
    <3>3. ASSUME NEW b \in blocks PROVE b.node <= current' /\ b.to <= alloc'[b.node]
      <4>1. b.node \in Node /\ b.node <= current /\ b.to <= alloc[b.node]
        BY DEF Below, TypeOK
      <4>2. b.node # current + 1 /\ b.node <= current + 1
        BY <1>1, <4>1 DEF Node
      <4> QED
        BY <3>1, <4>1, <4>2
    <3> QED
      BY <3>1, <3>2, <3>3 DEF Below
  <2>5. BlocksDisjoint' /\ NoBlockStraddles'
    BY DEF BlocksDisjoint, NoBlockStraddles
  <2> QED
    BY <2>1, <2>3, <2>4, <2>5
<1> QED
  BY <1>3, <1>4

LEMMA TakePtrStep == ASSUME SInv, NEW t \in Thread, TakePtr(t) PROVE SInv'
BY DEF SInv, TakePtr, TypeOK, Holder, Below, Unused, BlocksDisjoint, NoBlockStraddles

LEMMA BumpStep == ASSUME SInv, NEW t \in Thread, Bump(t) PROVE SInv'
<1> USE DEF SInv, Bump
<1> DEFINE r == Rounded(request[t])
           new == [id |-> served, node |-> node[t], from |-> ptr[t], to |-> ptr[t] + request[t]]
<1>1. /\ lock = t /\ node[t] = current /\ current \in Node /\ alloc[current] \in Nat
      /\ r \in Nat /\ request[t] \in Nat /\ request[t] <= r
      /\ (alloc[current] + r <= NODE_SIZE \/ Unused) /\ ptr[t] = alloc[current]
  BY RoundedFacts, SlabAssumption DEF TypeOK, Holder
<1>2. \A u \in Thread : u # t => pc[u] = "idle"
  BY <1>1 DEF Holder
<1>3. alloc' = [alloc EXCEPT ![current] = alloc[current] + r] /\ blocks' = blocks \cup {new}
  BY <1>1
<1>4. /\ new.id = served /\ new.node = current /\ new.from = alloc[current]
      /\ new.to = alloc[current] + request[t]
  BY <1>1
<1> HIDE DEF r, new
<1>5. TypeOK'
  BY <1>1, <1>3, <1>4 DEF TypeOK
<1>6. Holder'
  BY <1>1, <1>2, SlabAssumption DEF Holder, TypeOK
<1>7. Below'
  BY <1>1, <1>3, <1>4 DEF Below, TypeOK, Node
<1>8. BlocksDisjoint'
  <2>1. \A b \in blocks : b.node # new.node \/ b.to <= new.from
    BY <1>4 DEF Below
  <2> QED
    BY <1>3, <2>1 DEF BlocksDisjoint
<1>9. NoBlockStraddles'
  <2>1. CASE alloc[current] + r <= NODE_SIZE
    <3>1. new.to <= NODE_SIZE
      BY <1>1, <1>4, <2>1, SlabAssumption
    <3>2. ASSUME NEW b \in blocks, b.node = current PROVE b.to <= NODE_SIZE
      BY <1>1, <2>1, <3>2, SlabAssumption DEF Below, TypeOK
    <3> QED
      BY <1>3, <1>4, <3>1, <3>2 DEF NoBlockStraddles
  <2>2. CASE Unused
    BY <1>3, <1>4, <2>2 DEF Unused, NoBlockStraddles
  <2> QED
    BY <1>1, <2>1, <2>2
<1> QED
  BY <1>5, <1>6, <1>7, <1>8, <1>9

LEMMA SInvStep == SInv /\ [Next]_vars => SInv'
<1> SUFFICES ASSUME SInv, [Next]_vars PROVE SInv'
  OBVIOUS
<1>1. CASE UNCHANGED vars
  BY <1>1 DEF vars, SInv, TypeOK, Holder, Below, Unused, BlocksDisjoint, NoBlockStraddles, Rounded
<1>2. ASSUME NEW t \in Thread,
             (\E n \in Request : SlabAlloc(t, n)) \/ ChooseNode(t) \/ TakePtr(t) \/ Bump(t)
      PROVE SInv'
  BY <1>2, AllocStep, ChooseNodeStep, TakePtrStep, BumpStep
<1> QED
  BY <1>1, <1>2 DEF Next

LEMMA SlabInv == Spec => []BlocksDisjoint /\ []NoBlockStraddles
BY SInvInit, SInvStep, PTL DEF Spec, SInv

(* Whatever the threads ask for and however they interleave around the mutex of
   brubeck_slab_alloc, the blocks they get are disjoint. *)
THEOREM SlabDisjoint == Spec => []BlocksDisjoint
BY SlabInv, PTL

(* Every block brubeck_slab_alloc returns lies inside its node, also when a node is
   exactly full, unless the request alone is larger than a node; and then the node
   has no other block, whatever was and will be asked for. *)
THEOREM SlabNoStraddle == Spec => []NoBlockStraddles
BY SlabInv, PTL
===========================================================================
