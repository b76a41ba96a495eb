--------------------------- MODULE VectorPooling ----------------------------
(***************************************************************************)
(* The local embedder (core/src/embedder.rs): texts are cut and padded to  *)
(* one length, the model runs once for the whole batch, and its output is  *)
(* divided among the texts again, by arithmetic on flat arrays.  A vector  *)
(* is the bag of states it is the mean of.                                 *)
(***************************************************************************)
EXTENDS Integers, SequencesExt, FiniteSetsExt

CONSTANTS
  MaxSeqLen,    \* MAX_SEQ_LEN
  State(_, _),  \* the model's state of a position of a text (external)
  Padding,      \* what it puts out for a padded position
  Failed        \* no vector

ASSUME PoolingAssumption == MaxSeqLen \in Nat \ {0}

-----------------------------------------------------------------------------
PaddedLength(batch) ==
  Min({MaxSeqLen, Max({0} \cup {Len(batch[i]) : i \in DOMAIN batch})})

(* The input tensors, row after row.                                       *)
Flat(batch, maxLen, Cell(_, _)) ==
  [k \in 1 .. Len(batch) * maxLen |->
     Cell(batch[((k - 1) \div maxLen) + 1], ((k - 1) % maxLen) + 1)]

InputIds(batch, maxLen) ==
  Flat(batch, maxLen, LAMBDA text, j : IF j <= Len(text) THEN text[j] ELSE 0)
AttentionMask(batch, maxLen) ==
  Flat(batch, maxLen, LAMBDA text, j : IF j <= Len(text) THEN 1 ELSE 0)

(* The mean is all that is known of the states it is taken over. *)
Mean(states) ==
  [s \in ToSet(states) |-> Cardinality({j \in DOMAIN states : states[j] = s})]

(* session.run: a row is looked at through its mask.  The output holds the *)
(* states of all positions, or one vector for each row.                    *)
RowTokens(ids, mask, row, maxLen) ==
  LET seen == {j \in 1 .. maxLen : mask[(row - 1) * maxLen + j] # 0}
  IN  [k \in 1 .. Cardinality(seen) |-> ids[(row - 1) * maxLen + k]]

States(tokens) == Mean([j \in DOMAIN tokens |-> State(tokens, j)])

Inference(ids, mask, rows, maxLen, dimensions) ==
  IF dimensions = 2
  THEN [row \in 1 .. rows |-> States(RowTokens(ids, mask, row, maxLen))]
  ELSE [k \in 1 .. rows * maxLen |->
          LET row    == ((k - 1) \div maxLen) + 1
              tokens == RowTokens(ids, mask, row, maxLen)
              j      == ((k - 1) % maxLen) + 1
          IN  IF mask[k] = 0 THEN Padding ELSE State(tokens, j)]

-----------------------------------------------------------------------------
(* mean_pool_l2_normalize: over the positions of the row the mask lets     *)
(* through.                                                                *)
MeanPool(flat, mask, row, seqLen, maxLen) ==
  LET Counts(j) == /\ (row - 1) * maxLen + j <= Len(mask)
                   /\ mask[(row - 1) * maxLen + j] # 0
                   /\ (row - 1) * seqLen + j <= Len(flat)
      counted == SetToSortSeq({j \in 1 .. seqLen : Counts(j)}, <)
  IN  Mean([k \in DOMAIN counted |-> flat[(row - 1) * seqLen + counted[k]]])

ExtractEmbeddings(output, mask, rows, maxLen, dimensions) ==
  CASE dimensions = 2 -> output
    [] dimensions = 3 ->
         [row \in 1 .. rows |-> MeanPool(output, mask, row, maxLen, maxLen)]
    [] OTHER -> Failed

(* embed_batch_inner: the vectors of the texts, or no vector at all.       *)
EmbedBatchInner(batch, dimensions) ==
  LET maxLen == PaddedLength(batch)
      ids    == InputIds(batch, maxLen)
      mask   == AttentionMask(batch, maxLen)
  IN  IF batch = <<>> THEN <<>>
      ELSE IF maxLen = 0 THEN Failed
      ELSE ExtractEmbeddings(Inference(ids, mask, Len(batch), maxLen, dimensions),
                             mask, Len(batch), maxLen, dimensions)

(* embed_batch: one error is the error of every text.                      *)
EmbedBatch(batch, dimensions) ==
  LET vectors == EmbedBatchInner(batch, dimensions)
  IN  IF vectors = Failed THEN [k \in DOMAIN batch |-> Failed] ELSE vectors

Embed(text, dimensions) ==
  LET vectors == EmbedBatchInner(<<text>>, dimensions)
  IN  IF vectors = Failed THEN Failed ELSE vectors[1]

-----------------------------------------------------------------------------
(* A text has one vector: that of its first MaxSeqLen tokens, alone or in  *)
(* whatever batch it is embedded, so that a query finds the chunk with its *)
(* own words first; only a batch without a token fails.                    *)
VectorIsItsText(batch) ==
  \A dimensions \in {2, 3} :
    \A vectors \in {EmbedBatch(batch, dimensions)} :
      /\ DOMAIN vectors = DOMAIN batch
      /\ \A k \in DOMAIN batch :
           LET read == SubSeq(batch[k], 1, Min({MaxSeqLen, Len(batch[k])})) IN
           IF \A i \in DOMAIN batch : batch[i] = <<>>
           THEN vectors[k] = Failed
           ELSE /\ vectors[k] = States(read)
                /\ read # <<>> => vectors[k] = Embed(read, dimensions)
=============================================================================
