----------------------------- MODULE BlockPool -----------------------------
(***************************************************************************)
(* vLLM's pool of KV cache blocks, from which the paged cache of the       *)
(* backend is served (v1/core/block_pool.py), as operators on a record:    *)
(*   ref[b]     ref_cnt of block b                                         *)
(*   free       the linked list of free blocks, in order of eviction       *)
(*   hash[b]    block_hash of b, NoHash if it is not cached                *)
(*   cached[h]  cached_block_hash_to_block: the blocks with hash h, in the *)
(*              order in which they were added                             *)
(* The hash of a block is a chain over all tokens up to its end; it is     *)
(* modelled as that sequence of tokens, so that there are no collisions.   *)
(* The null block is taken from the list for good and does not appear.     *)
(***************************************************************************)
EXTENDS Integers, Sequences, SequencesExt, FiniteSets

CONSTANTS NumBlocks, BlockSize

ASSUME PoolAssumption ==
  /\ NumBlocks \in Nat \ {0}
  /\ BlockSize \in Nat \ {0}

Blocks == 1 .. NumBlocks

NoHash == <<>>

\* The members of s that are in S, in the order of s.
Keep(s, S) ==
  LET kept[i \in 0 .. Len(s)] ==
        IF i = 0 THEN <<>>
        ELSE IF s[i] \in S THEN Append(kept[i - 1], s[i]) ELSE kept[i - 1]
  IN  kept[Len(s)]

InitPool ==
  [ref    |-> [b \in Blocks |-> 0],
   free   |-> [i \in 1 .. NumBlocks |-> i],
   hash   |-> [b \in Blocks |-> NoHash],
   cached |-> <<>>]

\* get_cached_block: of several copies the one added first.
GetCachedBlock(p, h) == Head(p.cached[h])

\* Mutant: the block stays in the free list.
Touch_StaysFree(p, hits) ==
  [p EXCEPT !.ref = [b \in Blocks |-> IF b \in ToSet(hits) THEN @[b] + 1 ELSE @[b]]]

\* touch: a hit takes a block that nobody holds out of the free list.
Touch(p, hits) ==
  [p EXCEPT !.free = Keep(@, {b \in Blocks : ~(b \in ToSet(hits) /\ p.ref[b] = 0)}),
            !.ref = [b \in Blocks |-> IF b \in ToSet(hits) THEN @[b] + 1 ELSE @[b]]]

\* _maybe_evict_cached_block, for all blocks of the set bs.
Evict(p, bs) ==
  LET Kept(h) == Keep(p.cached[h], Blocks \ bs)
  IN  [p EXCEPT !.hash = [b \in Blocks |-> IF b \in bs THEN NoHash ELSE @[b]],
                !.cached = [h \in {g \in DOMAIN @ : Kept(g) # <<>>} |-> Kept(h)]]

\* get_new_blocks: the first n blocks of the list leave it and lose their hash.
NewBlocks(p, n) == SubSeq(p.free, 1, n)

\* Mutant: the block keeps the hash of its last content.
GetNewBlocks_NoEvict(p, n) ==
  LET new == ToSet(NewBlocks(p, n))
  IN  [p EXCEPT !.free = SubSeq(@, n + 1, Len(@)),
                !.ref = [b \in Blocks |-> IF b \in new THEN @[b] + 1 ELSE @[b]]]

GetNewBlocks(p, n) ==
  LET new == ToSet(NewBlocks(p, n))
  IN  [Evict(p, new) EXCEPT !.free = SubSeq(@, n + 1, Len(@)),
                            !.ref = [b \in Blocks |-> IF b \in new THEN @[b] + 1 ELSE @[b]]]

\* cache_full_blocks: new[i] becomes the last copy of hashes[i].
CacheFullBlocks(p, new, hashes) ==
  LET HashOf(b) == hashes[CHOOSE i \in DOMAIN new : new[i] = b]
      Old(h) == IF h \in DOMAIN p.cached THEN p.cached[h] ELSE <<>>
      Added(h) == Keep(new, {b \in ToSet(new) : HashOf(b) = h})
  IN  [p EXCEPT !.hash = [b \in Blocks |-> IF b \in ToSet(new) THEN HashOf(b) ELSE @[b]],
                !.cached = [h \in DOMAIN @ \cup ToSet(hashes) |-> Old(h) \o Added(h)]]

\* free_blocks: blocks nobody holds any more go to the end of the list, and stay
\* cached until they are taken from it.
FreeBlocks(p, ordered) ==
  LET Released(b) == b \in ToSet(ordered)
  IN  [p EXCEPT !.ref = [b \in Blocks |-> IF Released(b) THEN @[b] - 1 ELSE @[b]],
                !.free = @ \o Keep(ordered, {b \in Blocks : p.ref[b] = 1})]

\* reset_prefix_cache, refused while any block is in use.
ResetPrefixCache(p) ==
  IF Len(p.free) # NumBlocks THEN p
  ELSE [p EXCEPT !.hash = [b \in Blocks |-> NoHash], !.cached = <<>>]

-----------------------------------------------------------------------------
PoolTypeOK(p) ==
  /\ DOMAIN p = {"ref", "free", "hash", "cached"}
  /\ p.ref \in [Blocks -> Nat]
  /\ p.free \in Seq(Blocks)
  /\ DOMAIN p.hash = Blocks
  /\ \A h \in DOMAIN p.cached : h # NoHash /\ p.cached[h] \in Seq(Blocks) \ {<<>>}
=============================================================================
