----------------------------- MODULE BlockStore -----------------------------
(***************************************************************************)
(* What a client of NkPoolAlloc / NkPoolFree relies on, with nothing of    *)
(* how the pools are kept: memory is obtained from the operating system in *)
(* regions, an allocation is a run of consecutive blocks of one region, an *)
(* allocation never covers a block that is already handed out, and a       *)
(* region is given back only when no allocation is left in it.             *)
(***************************************************************************)
EXTENDS Naturals

CONSTANT Regions   (* the regions NkGPAlloc can return *)

VARIABLES heap,    (* the regions obtained and not given back *)
          live     (* the allocations handed out and not freed *)

Allocation == [reg : Regions, idx : Nat, n : Nat \ {0}, size : Nat \ {0}]

Blocks(a) == a.idx .. (a.idx + a.n - 1)

Overlap(a, b) == a.reg = b.reg /\ Blocks(a) \cap Blocks(b) # {}

Init == heap = {} /\ live = {}

(* A new allocation, in a region already held or in one obtained now. *)
Alloc(a) ==
    /\ a \in Allocation
    /\ \A b \in live : ~Overlap(a, b)
    /\ heap' = heap \cup {a.reg}
    /\ live' = live \cup {a}

(* The last allocation of a region takes the region with it, or it stays. *)
Free(a) ==
    /\ a \in live
    /\ live' = live \ {a}
    /\ \/ heap' = heap
       \/ /\ \A b \in live' : b.reg # a.reg
          /\ heap' = heap \ {a.reg}

(* A region is obtained before it is needed. *)
Reserve(r) ==
    /\ r \in Regions \ heap
    /\ heap' = heap \cup {r}
    /\ live' = live

(* The allocator stops: what is still handed out is revoked. *)
Shutdown ==
    /\ heap' \subseteq heap
    /\ live' = {}

Next ==
    \/ \E a \in live' : Alloc(a)
    \/ \E a \in live : Free(a)
    \/ \E r \in Regions : Reserve(r)
    \/ Shutdown

Spec == Init /\ [][Next]_<<heap, live>>
=============================================================================
