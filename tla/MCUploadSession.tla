--------------------------- MODULE MCUploadSession ---------------------------
(***************************************************************************)
(* UploadSession for blobs of one and of two chunks.                       *)
(***************************************************************************)
EXTENDS UploadSession, TLC

CONSTANTS a, b, r1, r2, u1, u2

MCDigest == {<<a>>, <<a, b>>}

MCBody == {<<>>, <<a>>, <<b>>, <<a, b>>}

\* Parts at every offset, and a range that ends before it begins.
MCContentRange == {<<0, 0>>, <<1, 1>>, <<2, 2>>, <<1, 0>>}

Interchangeable == Permutations(Handler) \cup Permutations(Upload)

=============================================================================
