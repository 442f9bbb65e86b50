------------------------------- MODULE Slab -------------------------------
(***************************************************************************)
(* The slab allocator (slab.c) metrics are allocated from: nodes of        *)
(* NODE_SIZE usable bytes, blocks carved from the current node in order,   *)
(* nothing ever freed.  The body of brubeck_slab_alloc is split at its     *)
(* accesses to shared memory, so that the mutex has something to protect.  *)
(***************************************************************************)
EXTENDS Naturals

CONSTANTS
  Thread,      \* callers of brubeck_slab_alloc
  NODE_SIZE,
  Request,     \* sizeof(struct brubeck_metric) + key_len + 1
  MaxAllocs,   \* bound: allocations in a behaviour
  Nobody       \* the owner of a free mutex

SLAB_SIZE == 32

(* need, rounded up to a multiple of SLAB_SIZE. *)
Rounded(n) == ((n + SLAB_SIZE - 1) \div SLAB_SIZE) * SLAB_SIZE

Node == 1 .. (MaxAllocs + 1)   \* every allocation pushes at most one node

(* Nothing bounds a request by the size of a node: a key may be as long as the
   datagram it came in. *)
ASSUME SlabAssumption ==
  /\ NODE_SIZE \in Nat /\ MaxAllocs \in Nat
  /\ Nobody \notin Thread
  /\ \A n \in Request : n \in Nat /\ n > 0

VARIABLES
  current,  \* slab->current, by the order in which the nodes were pushed
  alloc,    \* node->alloc
  lock,     \* slab->lock
  pc, request, node, ptr,   \* locals of a caller
  served,   \* history: number of allocations begun
  blocks    \* history: the blocks handed out, with the bytes their owner asked for

vars == <<current, alloc, lock, pc, request, node, ptr, served, blocks>>

(* The state after brubeck_slab_init. *)
Init ==
  /\ current = 1 /\ alloc = [n \in Node |-> 0] /\ lock = Nobody
  /\ pc = [t \in Thread |-> "idle"]
  /\ request = [t \in Thread |-> 0]
  /\ node = [t \in Thread |-> 1] /\ ptr = [t \in Thread |-> 0]
  /\ served = 0 /\ blocks = {}
-----------------------------------------------------------------------------
(* Mutant: the mutex is taken although another thread holds it. *)
NoWait == TRUE
LockFree == lock = Nobody

SlabAlloc(t, n) ==
  /\ pc[t] = "idle" /\ served < MaxAllocs
  /\ LockFree
  /\ lock' = t
  /\ request' = [request EXCEPT ![t] = n]
  /\ served' = served + 1
  /\ pc' = [pc EXCEPT ![t] = "node"]
  /\ UNCHANGED <<current, alloc, node, ptr, blocks>>

(* Is there room in the current node?  Mutant: only the free byte is looked at. *)
AnyRoom(t) == alloc[current] <= NODE_SIZE
Room(t) == alloc[current] + Rounded(request[t]) <= NODE_SIZE

(* Use the current node, or push_node. *)
ChooseNode(t) ==
  /\ pc[t] = "node"
  /\ \/ Room(t) /\ UNCHANGED <<current, alloc>>
     \/ /\ ~Room(t)
        /\ current' = current + 1
        /\ alloc' = [alloc EXCEPT ![current + 1] = 0]
  /\ node' = [node EXCEPT ![t] = current']
  /\ pc' = [pc EXCEPT ![t] = "ptr"]
  /\ UNCHANGED <<lock, request, ptr, served, blocks>>

TakePtr(t) ==
  /\ pc[t] = "ptr"
  /\ ptr' = [ptr EXCEPT ![t] = alloc[node[t]]]
  /\ pc' = [pc EXCEPT ![t] = "bump"]
  /\ UNCHANGED <<current, alloc, lock, request, node, served, blocks>>

Bump(t) ==
  /\ pc[t] = "bump"
  /\ alloc' = [alloc EXCEPT ![node[t]] = @ + Rounded(request[t])]
  /\ blocks' = blocks \cup
       {[id |-> served, node |-> node[t], from |-> ptr[t], to |-> ptr[t] + request[t]]}
  /\ lock' = Nobody
  /\ pc' = [pc EXCEPT ![t] = "idle"]
  /\ UNCHANGED <<current, request, node, ptr, served>>

Next ==
  \E t \in Thread :
    (\E n \in Request : SlabAlloc(t, n)) \/ ChooseNode(t) \/ TakePtr(t) \/ Bump(t)

Spec == Init /\ [][Next]_vars
-----------------------------------------------------------------------------
TypeOK ==
  /\ current \in Node /\ alloc \in [Node -> Nat]
  /\ lock \in Thread \cup {Nobody}
  /\ pc \in [Thread -> {"idle", "node", "ptr", "bump"}]
  /\ request \in [Thread -> Nat] /\ node \in [Thread -> Node] /\ ptr \in [Thread -> Nat]
  /\ served \in 0 .. MaxAllocs
  /\ \A b \in blocks : b.id \in Nat /\ b.node \in Node /\ b.from \in Nat /\ b.to \in Nat

(* brubeck_slab_alloc never hands out a byte of a node twice: two metrics created
   at the same time by different workers do not overlap. *)
BlocksDisjoint ==
  \A a, b \in blocks : a # b => a.node # b.node \/ a.to <= b.from \/ b.to <= a.from

(* No block begins in a node and ends behind it: the bytes at the end of a node are
   given up, and the block is put into the next one.  Only a request that is larger
   than a node leaves it, as slab.c does not check that a new node is large enough;
   it is then the only block of its node, so that the damage is not done to a
   neighbour in the same node, and the next request gets a node of its own. *)
NoBlockStraddles ==
  \A b \in blocks :
    b.to <= NODE_SIZE \/ (b.from = 0 /\ \A a \in blocks : a.node = b.node => a = b)
===========================================================================
