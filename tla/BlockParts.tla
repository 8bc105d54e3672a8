----------------------------- MODULE BlockParts -----------------------------
(* types/block_parts.go: a block is split into parts, each with a Merkle    *)
(* proof, and put together again by a PartSet that knows only the header.   *)
(* A hash tells what was hashed, so different contents never collide.  The  *)
(* code hashes the bytes of a part and two hashes written one after the     *)
(* other alike, so a part may consist of two hashes, and so does Hash.      *)
EXTENDS Naturals, Sequences, SequencesExt

CONSTANTS Data, MaxParts  \* contents of a part, and a bound on their number

ASSUME PartsAssumption == MaxParts \in Nat

VARIABLES
  block,   \* the contents that were split, in order
  partSet  \* the PartSet of a node that was given the header

partVars == <<block, partSet>>

Hash(bytes) == [hashed |-> bytes]
Pair(l, r) == Hash([left |-> l, right |-> r])
NoData == <<>>

-----------------------------------------------------------------------------
(* The tree.  Sequences start at 1, the indices of parts at 0.  A level has *)
(* the hashes of its nodes and the indices of the leaves under them.        *)

Leaves(hashes) == [hashes |-> hashes, indices |-> [i \in DOMAIN hashes |-> {i - 1}]]

(* The level above: neighbours are combined, and an odd one with itself. *)
Right(hashes, i) == IF 2 * i <= Len(hashes) THEN hashes[2 * i] ELSE hashes[2 * i - 1]
Merged(indices, i) ==
  indices[2 * i - 1] \cup IF 2 * i <= Len(indices) THEN indices[2 * i] ELSE {}
NextLevel(level) ==
  LET size == (Len(level.hashes) + 1) \div 2
  IN  [hashes |-> [i \in 1 .. size |-> Pair(level.hashes[2 * i - 1], Right(level.hashes, i))],
       indices |-> [i \in 1 .. size |-> Merged(level.indices, i)]]

(* The levels from the leaves up, and the first that is a single node. *)
Levels(hashes) ==
  LET Level[k \in 0 .. Len(hashes)] == IF k = 0 THEN Leaves(hashes) ELSE NextLevel(Level[k - 1])
  IN  Level
Depth(hashes) ==
  CHOOSE k \in 0 .. Len(hashes) :
    /\ Len(Levels(hashes)[k].hashes) = 1
    /\ \A i \in 0 .. k - 1 : Len(Levels(hashes)[i].hashes) # 1

(* computeMerkleRoot, for at least one hash. *)
computeMerkleRoot(hashes) == Levels(hashes)[Depth(hashes)].hashes[1]

(* Mutant: a left child gets itself as sibling, when it is the odd one     *)
(* and when it is not.                                                     *)
SiblingLeft(level, leaf) ==
  LET pos == CHOOSE k \in DOMAIN level.indices : leaf \in level.indices[k]
  IN  IF pos % 2 = 1 THEN level.hashes[pos] ELSE level.hashes[pos - 1]

(* What a leaf's proof gets at this level: the other half of its pair. *)
Sibling(level, leaf) ==
  LET pos == CHOOSE k \in DOMAIN level.indices : leaf \in level.indices[k]
  IN  IF pos % 2 = 1 THEN Right(level.hashes, (pos + 1) \div 2) ELSE level.hashes[pos - 1]

(* buildMerkleTreeWithProofs: the root, and the proofs of the leaves. *)
buildMerkleTreeWithProofs(leafHashes) ==
  [root |-> computeMerkleRoot(leafHashes),
   proofs |-> [j \in 0 .. Len(leafHashes) - 1 |->
                 [k \in 1 .. Depth(leafHashes) |-> Sibling(Levels(leafHashes)[k - 1], j)]]]

(* verifyMerkleProof: one turn of the loop, and all of them. *)
Combined(c, sibling) ==
  [current |-> IF c.idx % 2 = 0 THEN Pair(c.current, sibling) ELSE Pair(sibling, c.current),
   idx |-> c.idx \div 2]
Climb(partHash, index, proofPath) ==
  LET C[k \in 0 .. Len(proofPath)] ==
        IF k = 0 THEN [current |-> partHash, idx |-> index] ELSE Combined(C[k - 1], proofPath[k])
  IN  C
verifyMerkleProof(partHash, index, proofPath, root) ==
  Climb(partHash, index, proofPath)[Len(proofPath)].current = root

(* NewPartSetFromData: the parts, with the root they are proved against. *)
Split(data) ==
  LET tree == buildMerkleTreeWithProofs([i \in DOMAIN data |-> Hash(data[i])])
  IN  [root |-> tree.root,
       parts |-> [j \in 0 .. Len(data) - 1 |->
                    [index |-> j, bytes |-> data[j + 1], proofPath |-> tree.proofs[j]]]]

(* NewPartSetFromHeader *)
FromHeader(total, hash) ==
  [total |-> total, hash |-> hash, parts |-> [j \in {} |-> NoData], data |-> NoData]

(* assembleData: no data if the root is not that of the header. *)
Assembled(parts, total, hash) ==
  LET data == [i \in 1 .. total |-> parts[i - 1].bytes]
  IN  IF computeMerkleRoot([i \in 1 .. total |-> Hash(data[i])]) = hash THEN data ELSE NoData

(* AddPart refuses an index out of range, a part that is there already and *)
(* one whose proof fails; it asks for no length of the proof.              *)
AcceptsPart(s, part) ==
  /\ part.index < s.total
  /\ part.index \notin DOMAIN s.parts
  /\ verifyMerkleProof(Hash(part.bytes), part.index, part.proofPath, s.hash)

(* PartSet.AddPart of a part that is accepted; partsCount is the size of   *)
(* the bitmap.                                                             *)
AddPart(s, part) ==
  LET parts == [j \in DOMAIN s.parts \cup {part.index} |->
                  IF j = part.index THEN part ELSE s.parts[j]]
  IN  [s EXCEPT !.parts = parts,
                !.data = IF Cardinality(DOMAIN parts) = s.total
                           THEN Assembled(parts, s.total, s.hash) ELSE @]

(* PartSet.IsComplete and GetData *)
IsComplete(s) == Cardinality(DOMAIN s.parts) = s.total

-----------------------------------------------------------------------------
Originals == UNION {[1 .. n -> Data] : n \in 1 .. MaxParts}
SplitOf == [b \in Originals |-> Split(b)]

(* Part j of a block climbs to the root; what is hashed after k turns, with *)
(* the rest of the path, verifies too.  For k = 0 it is the part.           *)
Verified(b, j, k) ==
  LET part == SplitOf[b].parts[j]
      depth == Len(part.proofPath)
  IN  [bytes |-> Climb(Hash(part.bytes), j, part.proofPath)[k].current.hashed,
       proofPath |-> SubSeq(part.proofPath, k + 1, depth)]

(* Parts that verify for some block, under any index. *)
Parts ==
  UNION {UNION {{[index |-> i, bytes |-> Verified(b, j, k).bytes,
                  proofPath |-> Verified(b, j, k).proofPath] :
                 i \in 0 .. MaxParts, k \in 0 .. Len(SplitOf[b].parts[j].proofPath)} :
                j \in DOMAIN SplitOf[b].parts} : b \in Originals}

PartsInit ==
  /\ block \in Originals
  /\ partSet = FromHeader(Len(block), SplitOf[block].root)

ReceivePart(part) ==
  /\ AcceptsPart(partSet, part)
  /\ partSet' = AddPart(partSet, part)
  /\ UNCHANGED block

PartsNext == \E part \in Parts : ReceivePart(part)

PartsSpec == PartsInit /\ [][PartsNext]_partVars

-----------------------------------------------------------------------------
(* The length of the proofs of the parts of the block. *)
OwnLength == Depth([i \in DOMAIN block |-> Hash(block[i])])

(* Whatever parts arrive, of other blocks, under other indices or with     *)
(* proofs of other lengths: a part whose proof is as long as those of the  *)
(* block is the block's part at its index; a complete set has the block's  *)
(* data or none (GetData fails), and has it if all proofs had that length  *)
(* (AddPart, assembleData).  Every part of the block that is missing is    *)
(* accepted: the proofs of buildMerkleTreeWithProofs are those             *)
(* verifyMerkleProof follows, for odd levels, too.                         *)
PartsAreRight ==
  LET Own(j) == Len(partSet.parts[j].proofPath) = OwnLength
  IN  /\ \A j \in DOMAIN partSet.parts :
           j < Len(block) /\ (Own(j) => partSet.parts[j].bytes = block[j + 1])
      /\ IsComplete(partSet) =>
           /\ partSet.data \in {block, NoData}
           /\ (\A j \in DOMAIN partSet.parts : Own(j)) => partSet.data = block
      /\ \A j \in (0 .. Len(block) - 1) \ DOMAIN partSet.parts :
           AcceptsPart(partSet, SplitOf[block].parts[j])
=============================================================================
