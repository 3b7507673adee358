------------------------------ MODULE MCRpSet ------------------------------
(***************************************************************************)
(* A range, a longer one inside it, two RPs that hash differently for the  *)
(* two groups.                                                             *)
(***************************************************************************)
EXTENDS RpSet

MCRangeOf == [wide   |-> [addr |-> 1, len |-> 8,  groups |-> {"g1", "g2"}],
              narrow |-> [addr |-> 2, len |-> 16, groups |-> {"g2"}]]

MCHash == [g1 |-> <<1, 2>>, g2 |-> <<2, 1>>]

Line(p, r) == [range |-> p, rp |-> r]
MCConfigs == {[lines |-> {}, limit |-> 2], [lines |-> {Line("wide", 1)}, limit |-> 2],
              [lines |-> {}, limit |-> 1]}

RP(r, p) == [rp |-> r, prio |-> p]
GSet(p, n, rps) == [range |-> p, count |-> n, rps |-> rps]

\* Both RPs for the wide range in two fragments, the first with the narrow
\* range taken back; the wide range with one RP of a better priority, and the
\* narrow range in two fragments.
MCPlans == {
    << <<GSet("narrow", 0, {}), GSet("wide", 2, {RP(1, 1)})>>, <<GSet("wide", 2, {RP(2, 1)})>> >>,
    << <<GSet("wide", 1, {RP(2, 0)}), GSet("narrow", 2, {RP(1, 1)})>>, <<GSet("narrow", 2, {RP(2, 1)})>> >> }

Mapping(p, r, neg, h) == [range |-> p, rp |-> r, negative |-> neg, hold |-> h]
MCMappings == {Mapping("wide", 2, FALSE, 1), Mapping("narrow", 1, FALSE, 0),
               Mapping("narrow", 1, TRUE, 1)}

=============================================================================
