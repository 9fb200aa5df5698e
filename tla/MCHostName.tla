----------------------------- MODULE MCHostName -----------------------------
(***************************************************************************)
(* A small list of public suffix rules, and the names it is tried on.      *)
(***************************************************************************)
EXTENDS HostName

CONSTANTS
  Label,      \* the labels names are built from
  MaxLabels   \* bound: the longest name

-----------------------------------------------------------------------------
\* com and uk, a suffix of two labels, a wildcard with an exception, a suffix that
\* is also a closed top-level domain, and a brand.
Plain(labels) == [ex |-> FALSE, labels |-> labels]

MCRules ==
  {Plain(<<"com">>), Plain(<<"uk">>), Plain(<<"co", "uk">>), Plain(<<"*", "ck">>),
   [ex |-> TRUE, labels |-> <<"www", "ck">>], Plain(<<"hotels">>)}

MCLabel     == {"com", "uk", "co", "ck", "www", "hotels", "brand", "Upper"}
MCALabel    == MCLabel \ {"Upper"}
MCBrandTlds == {"brand"}
=============================================================================
