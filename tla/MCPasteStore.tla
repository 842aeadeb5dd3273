---------------------------- MODULE MCPasteStore ----------------------------
(***************************************************************************)
(* Instances of PasteStore for TLC.                                        *)
(***************************************************************************)
EXTENDS PasteStore, TLC

\* Handlers are interchangeable.  Ids and tokens are not permuted, since AnID
\* names one of them.
HandlerSymmetry == Permutations(Req)
=============================================================================
