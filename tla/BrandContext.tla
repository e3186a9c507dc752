---------------------------- MODULE BrandContext ----------------------------
(***************************************************************************)
(* What a generation prompt knows of a brand: the fields of                *)
(* GenerationBrandContext and of the poster brief, each taken from the     *)
(* first source that says something about it                               *)
(* (app/shared/services/generation_context.py and                          *)
(* app/modules/creative/generation.py).  A value is the name of the source *)
(* it comes from.                                                          *)
(***************************************************************************)
EXTENDS Sequences, SequencesExt

\* The onboarding artifacts of a pack, its answers and its own columns, and the
\* strategy and foundation of the active brand OS.
Sources == {"profile", "artifact", "identity", "answers", "pack", "brand_os"}
Default == "default"

\* build_generation_brand_context: the sources of every field, in their order.
ContextOrder ==
  [brand_name |-> <<"profile", "artifact", "pack", "brand_os">>,
   core_offer |-> <<"profile", "artifact", "pack", "brand_os">>,
   industry |-> <<"profile", "artifact", "brand_os">>,
   proof_points |-> <<"profile", "artifact", "brand_os">>,
   usp_statement |-> <<"artifact", "pack", "profile">>,
   usp_proof |-> <<"pack", "profile", "artifact", "brand_os">>,
   target_audience |-> <<"profile", "pack">>,
   primary_cta |-> <<"profile", "pack">>,
   primary_pain |-> <<"profile", "pack">>,
   primary_outcome |-> <<"profile", "pack">>,
   hero_angle |-> <<"pack">>,
   main_audience |-> <<"artifact", "brand_os">>,
   audience_personas |-> <<"artifact", "brand_os">>,
   brand_purpose |-> <<"artifact", "brand_os">>,
   mission |-> <<"artifact", "brand_os">>,
   vision |-> <<"artifact", "brand_os">>,
   promise |-> <<"artifact", "brand_os">>,
   elevator_pitch |-> <<"artifact", "brand_os">>,
   voice_archetype |-> <<"artifact", "brand_os">>,
   voice_traits |-> <<"artifact", "identity", "brand_os">>,
   design_cues |-> <<"artifact", "identity", "brand_os">>,
   style_palette |-> <<"artifact", "identity", "brand_os">>,
   typography_direction |-> <<"identity", "artifact", "brand_os">>,
   color_palette |-> <<"identity", "answers">>,
   fonts |-> <<"identity", "answers">>,
   logo |-> <<"identity", "answers">>]

\* _coalesce_text: the first of the values that is not blank.
Coalesce(order, known) ==
  LET filled == {i \in DOMAIN order : order[i] \in known}
  IN IF filled = {} THEN Default ELSE order[Min(filled)]

\* artifacts_only leaves the answers and the columns of the pack out.
Consulted(known, artifacts_only) ==
  IF artifacts_only THEN known \ {"answers", "pack"} ELSE known

Context(known, artifacts_only) ==
  [f \in DOMAIN ContextOrder |-> Coalesce(ContextOrder[f], Consulted(known, artifacts_only))]
=============================================================================
