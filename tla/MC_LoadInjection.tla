--------------------------- MODULE MC_LoadInjection ---------------------------
(***************************************************************************)
(* Model-checking instance of LoadInjectionSystem.  Two RSE names A and B *)
(* exist in every vo; in a second vo they are different RSEs, as in a      *)
(* multi-VO rucio where RSE names are unique only within a vo.  A third   *)
(* name C, used by the multi-vo run only, exists in the second vo alone.   *)
(***************************************************************************)
EXTENDS LoadInjectionSystem, TLC

MCRSEIds == {"a", "b", "a2", "b2", "c2"}

\* C is an RSE of the second vo only: get_rse_id("C") without vo raises.
MCRseIdOf(vo, name) ==
    CASE name = "A" -> IF vo = DefaultVO THEN "a" ELSE "a2"
      [] name = "B" -> IF vo = DefaultVO THEN "b" ELSE "b2"
      [] OTHER      -> IF vo = DefaultVO THEN NoRSE ELSE "c2"

=============================================================================
