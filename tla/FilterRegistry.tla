--------------------------- MODULE FilterRegistry ---------------------------
(***************************************************************************)
(* The registry of named stream filters (src/registry/filter.rs): a map    *)
(* whose last registration wins, asked with names that may carry a media   *)
(* prefix.                                                                 *)
(***************************************************************************)
CONSTANTS
  FilterNames,     \* filter names, with and without a prefix
  StripPrefix,     \* strip_filter_prefix: one prefix off, or the name itself
  FilterFactories

VARIABLE filters   \* per name, the set of its factory: none or one

Init == filters = [n \in FilterNames |-> {}]

RegisterFilter(name, f) == filters' = [filters EXCEPT ![name] = {f}]

Next == \E n \in FilterNames, f \in FilterFactories : RegisterFilter(n, f)

Contains(name) == filters[name] # {}

\* make: the bare name first, then the name as it was given.
Make(name) ==
  IF filters[StripPrefix[name]] # {} THEN filters[StripPrefix[name]] ELSE filters[name]

-----------------------------------------------------------------------------
\* What contains() reports can be made; and a registered filter answers to its
\* own name unless its bare form is registered too, which then answers to
\* every prefixed form of the name.
FiltersFound ==
  \A n \in FilterNames :
    LET bare == StripPrefix[n]
    IN  /\ Contains(n) => Make(n) # {}
        /\ Make(n) # {} => Contains(n) \/ Contains(bare)
        /\ Contains(bare) =>
             \A m \in FilterNames : StripPrefix[m] = bare => Make(m) = Make(n)
=============================================================================
