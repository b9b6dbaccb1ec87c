---------------------------- MODULE MCOcoreStore ----------------------------
(* Model checking of OcoreStore: the watermark ratios of the run and a bound *)
(* on what happens to old records; keys are interchangeable and so are       *)
(* blocks.                                                                   *)
EXTENDS OcoreStore, TLC

\* Of a pool of four: a half dumps two records, so that a sixth key dumps
\* again; three quarters leave slots to reuse; a fifth is truncated to nothing.
HalfMostOrNone == {<<1, 2>>, <<3, 4>>, <<1, 5>>}

\* Bound: over all keys, at most two are updated or read.
FewTouched ==
    Cardinality({k \in DOMAIN smap : smap[k].write_count > 1})
        + Cardinality({k \in DOMAIN smap : smap[k].read_count > 0}) <= 2

Symmetry == Permutations(Keys) \cup Permutations(Data)
=============================================================================
