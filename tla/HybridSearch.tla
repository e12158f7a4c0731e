---------------------------- MODULE HybridSearch ----------------------------
(***************************************************************************)
(* How two rankings of chunks become one (rag/hybrid_search.py): reciprocal*)
(* rank fusion.  Pure functions.                                           *)
(*                                                                         *)
(* A ranking is a sequence of chunk ids, best first.  The two searches and *)
(* the reranker are external.                                              *)
(***************************************************************************)
EXTENDS Integers, FiniteSets, Sequences, SequencesExt

CONSTANT K  \* _RRF_K

(* `chunks[cid] = entry': of a chunk found twice the later rank counts.  0 is no rank. *)
RankIn(ranking, c) == Max({i \in DOMAIN ranking : ranking[i] = c} \cup {0})

(* The dictionary's order: a chunk stands where it was first found, those of the
   vector search first. *)
Found(vector, bm25) ==
  LET all == vector \o bm25
      first == {i \in DOMAIN all : \A k \in 1..(i - 1) : all[k] # all[i]}
      Nth(n) == CHOOSE i \in first : Cardinality({k \in first : k <= i}) = n
  IN  [n \in 1..Cardinality(first) |-> all[Nth(n)]]

(* 1 / (K + rank) for each search that found the chunk, as a fraction. *)
Score(vector, bm25, c) ==
  LET v == RankIn(vector, c)
      b == RankIn(bm25, c)
  IN  CASE v > 0 /\ b > 0 -> <<(K + v) + (K + b), (K + v) * (K + b)>>
        [] v > 0 /\ b = 0 -> <<1, K + v>>
        [] v = 0 /\ b > 0 -> <<1, K + b>>
        [] OTHER -> <<0, 1>>
Exceeds(p, q) == p[1] * q[2] > q[1] * p[2]

(* sorted, best first: what is equal stays in the order it was found. *)
Fused(vector, bm25) ==
  LET found == Found(vector, bm25)
      Before(i, k) ==
        LET p == Score(vector, bm25, found[i])
            q == Score(vector, bm25, found[k])
        IN  Exceeds(p, q) \/ (~Exceeds(q, p) /\ i < k)
      Nth(n) == CHOOSE i \in DOMAIN found : Cardinality({k \in DOMAIN found : Before(k, i)}) = n - 1
  IN  [n \in DOMAIN found |-> found[Nth(n)]]

(* The candidates of each search, fused.  With the reranker the best topK of
   them in its order (external), without it the first topK. *)
Search(vector, bm25, bm25Enabled, rerankerEnabled, topK) ==
  LET ranked == Fused(vector, IF bm25Enabled THEN bm25 ELSE <<>>)
      size == Min({topK, Len(ranked)})
  IN  IF rerankerEnabled
      THEN {s \in [1..size -> ToSet(ranked)] : \A i, k \in 1..size : s[i] = s[k] => i = k}
      ELSE {SubSeq(ranked, 1, size)}

=============================================================================
