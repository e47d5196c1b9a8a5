-------------------------- MODULE MCPublicationStore --------------------------
(***************************************************************************)
(* Small instances of PublicationStore for TLC.                            *)
(***************************************************************************)
EXTENDS PublicationStore, TLC

CONSTANTS k1, k2, fa, fb

MCKeys == {k1, k2}
MCFingerprints == {fa, fb}

\* Headers: two records; one record; one record and the inherited Thread k2.
Whole == [declares |-> 2, retain |-> {}]
Single == [declares |-> 1, retain |-> {}]
Inherit == [declares |-> 1, retain |-> {k2}]

Record(k, r, f) == [key |-> k, rev |-> r, fp |-> f]
Body(h, S, wire, fixed) == [header |-> h, members |-> S, wire |-> wire, fixed |-> fixed]

\* One body, replaced again and again: what matters is who may replace it.
Replaced == {Body(Single, {Record(k1, 1, fa)}, 1, 1)}

\* A legacy Session that reached revision 2.
LegacyHistory == {Record(k1, 1, fa), Record(k1, 2, fa), Record(k2, 1, fa)}

\* A two-part target whose normalization grows k1, a replacement that rewrites k1,
\* shrinks and inherits k2, and a body at the legacy floor, which must be refused.
Adopting ==
  {Body(Whole, {Record(k1, 3, fa)}, 1, 2), Body(Whole, {Record(k2, 3, fa)}, 1, 1),
   Body(Inherit, {Record(k1, 3, fb)}, 2, 1), Body(Single, {Record(k1, 2, fb)}, 1, 1)}

NoRecords == {}
IdSymmetry == Permutations(Ids)
=============================================================================
