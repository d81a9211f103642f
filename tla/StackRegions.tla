---------------------------- MODULE StackRegions ----------------------------
(***************************************************************************)
(* What a frame allocator promises to the passes that use it, whatever its *)
(* layout: a register owns one word of the frame for good, every request   *)
(* for an array gets a block of its own, and nothing that was handed out   *)
(* overlaps anything else.  A request for no space ends the compilation.   *)
(***************************************************************************)
EXTENDS Integers, Sequences

CONSTANTS Regs,       \* registers a word can be asked for
          Word,       \* bytes in a word
          DecSizes,   \* array sizes that are asked for, legal or not
          Offsets     \* offsets there are

VARIABLES word,       \* the word each register owns, by its offset
          blocks,     \* the arrays, in the order of the requests
          rejected    \* a request for no space was made

vars == << word, blocks, rejected >>

Init == word = << >> /\ blocks = << >> /\ rejected = FALSE

Clear(lo1, size1, lo2, size2) == lo1 + size1 <= lo2 \/ lo2 + size2 <= lo1

\* size bytes at lo belong to nobody.
Free(lo, size) ==
  /\ \A r \in DOMAIN word : Clear(lo, size, word[r], Word)
  /\ \A i \in 1 .. Len(blocks) : Clear(lo, size, blocks[i].lo, blocks[i].size)

WordFor(reg) ==
  /\ ~rejected
  /\ reg \notin DOMAIN word
  /\ \E lo \in Offsets :
       /\ Free(lo, Word)
       /\ word' = [r \in DOMAIN word \cup {reg} |-> IF r = reg THEN lo ELSE word[r]]
  /\ UNCHANGED << blocks, rejected >>

Block(size) ==
  /\ ~rejected
  /\ size > 0
  /\ \E lo \in Offsets :
       /\ Free(lo, size)
       /\ blocks' = Append(blocks, [lo |-> lo, size |-> size])
  /\ UNCHANGED << word, rejected >>

Reject == rejected' = TRUE /\ UNCHANGED << word, blocks >>

Next == (\E r \in Regs : WordFor(r)) \/ (\E size \in DecSizes : Block(size)) \/ Reject

Spec == Init /\ [][Next]_vars
=============================================================================
