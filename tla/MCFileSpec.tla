----------------------------- MODULE MCFileSpec -----------------------------
(* FileSpec on a tree of up to three directories under the master file         *)
(* directory, with one specification of each form.                             *)
EXTENDS FileSpec, TLC

CONSTANTS mfd, d1, d2, d3, z, a, b

MCNameOrder == <<z, a, b>>
MCVersions == (mfd :> {1, 2}) @@ (d1 :> {1, 2, 3}) @@ (d2 :> {2}) @@ (d3 :> {})

Absolute(comps) == [absolute |-> TRUE, ups |-> 0, comps |-> comps, recursive |-> FALSE]
Relative(ups, comps) == [absolute |-> FALSE, ups |-> ups, comps |-> comps, recursive |-> FALSE]
AndBelow(text) == [text EXCEPT !.recursive = TRUE]

\* [], [...], [000000], [000000...], [A], [000000.A], [.A], [-.B], [*], [*...]
MCTexts ==
  {Absolute(<<>>), AndBelow(Absolute(<<>>)), Absolute(<<z>>), AndBelow(Absolute(<<z>>)),
   Absolute(<<a>>), Absolute(<<z, a>>), Relative(0, <<a>>), Relative(1, <<b>>), Absolute(<<Star>>), AndBelow(Absolute(<<Star>>))}

\* ;*  ;0  ;2  ;-1  ;-0
MCSelectors ==
  {[kind |-> "all"], [kind |-> "highest"], [kind |-> "exact", value |-> 2],
   [kind |-> "relative", value |-> 1], [kind |-> "lowest"]}

=============================================================================
