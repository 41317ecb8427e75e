-------------------------- MODULE MCEmbeddingSync --------------------------
(* Bounds for model-checking EmbeddingSync.                                *)
EXTENDS EmbeddingSync

\* Employees and request slots are interchangeable; used by safety runs only.
Symmetry == Permutations(Employees) \cup Permutations(Requests)

\* The liveness run: what the two sides recover from by themselves.
RecoverableFaults == {"db", "backend_link", "link"}

=============================================================================
