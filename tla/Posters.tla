------------------------------ MODULE Posters ------------------------------
(***************************************************************************)
(* The posters of a pack (app/modules/creative): its assets are created,   *)
(* regenerated as a new version and deleted by handlers that run in        *)
(* threads with a transaction each, and poster code is generated from the  *)
(* conversation, the brand context and, for an edit, the current files.    *)
(***************************************************************************)
EXTENDS BrandContext, Integers, FiniteSets

CONSTANTS
  Calls,      \* the handlers that may run
  MaxAssets,  \* bound: the assets that are ever stored
  Letters,    \* the version letters in their order, A to Z in the code
  Knowledge,  \* bound: the sets of sources that know something of the brand
  MaxImages   \* MAX_REFERENCE_IMAGES

AssetIds == 1..MaxAssets
None == "none"

VARIABLES
  asset,      \* the rows of asset
  call        \* the calls

vars == <<asset, call>>

Types == {"poster", "flyer"}
Modes == {"auto", "manual", "edit"}
Slots == {"v1", "v2", "v3", "v4"}
Sizes == {"4x5", "9x16", "16x9", "1x1"}
\* The version is "1", a letter, or "Z1" once the letters are used up; by: the call
\* that stored it, None for an earlier one.
Row == [stored : {"never", "yes", "deleted"}, type : Types,
        version : Range(Letters) \cup {"1", "Z1"}, by : Calls \cup {None}]
Unused == [stored |-> "never", type |-> "poster", version |-> "1", by |-> None]

Operations == {"get", "create", "regenerate", "delete", "generate"}
Results == {"fine", "stream", "not_found", "bad_request", "unavailable", "crash"}

BriefFields == {"business_name", "offer", "usp", "cta", "proof_line", "business_type", "tone"}

\* What the prompt demands and says: the files, the template and variant of each slot,
\* where the brief comes from, the fields of the brand it lists, and whether it insists
\* on the logo of the brand.
Concepts == {"objection", "offer", "proof"} \X {"A", "B", "C"}
Prompt == [files : SUBSET (Slots \X Sizes), concepts : SUBSET (Slots \X Concepts),
           brief : [BriefFields -> Sources \cup {Default}],
           brand : SUBSET DOMAIN ContextOrder, logo : BOOLEAN]
NoPrompt == [files |-> {}, concepts |-> {}, brief |-> [f \in BriefFields |-> Default],
             brand |-> {}, logo |-> FALSE]

\* row, version: the asset a call has read and the version it will store; edit: the
\* slot it edits; known: the sources there are; ended: the calls that had ended before
\* it came in.
Call == [at : {"idle", "read", "list", "insert", "delete", "prime", "end"}, op : Operations,
         a : AssetIds, row : Row, version : Range(Letters) \cup {"1", "Z1"},
         edit : Slots \cup {None}, prompt : Prompt, known : SUBSET Sources,
         ended : SUBSET Calls, result : Results]
Idle == [at |-> "idle", op |-> "get", a |-> 1, row |-> Unused,
         version |-> "1", edit |-> None, prompt |-> NoPrompt, known |-> {},
         ended |-> {}, result |-> "fine"]

\* The pack has nothing, or a poster, or its first new version, or both.
Init ==
  /\ \E versions \in {<<>>, <<"1">>, <<Letters[1]>>, <<"1", Letters[1]>>} :
       asset = [a \in AssetIds |->
                  IF a \in DOMAIN versions
                  THEN [Unused EXCEPT !.stored = "yes", !.version = versions[a]] ELSE Unused]
  /\ call = [c \in Calls |-> Idle]

-----------------------------------------------------------------------------
\* The row that the next INSERT makes.
Fresh == {a \in AssetIds : asset[a].stored = "never" /\ \A i \in 1..a - 1 : asset[i].stored # "never"}
Stored(a) == asset[a].stored = "yes"
At(c, step) == call[c].at = step
Goes(c, step) == call' = [call EXCEPT ![c].at = step]
Ends(c, result) ==
  call' = [call EXCEPT ![c] = [Idle EXCEPT !.at = "end", !.op = call[c].op, !.a = call[c].a, !.result = result,
                                           !.ended = call[c].ended]]

Begins(c, op, a) ==
  call' = [call EXCEPT ![c] = [Idle EXCEPT !.at = "read", !.op = op, !.a = a,
                                 !.ended = {d \in Calls : At(d, "end")}]]

\* A request for an asset reaches its handler.
Begin(c) ==
  /\ At(c, "idle")
  /\ \E op \in Operations \ {"generate"}, a \in AssetIds : Begins(c, op, a)
  /\ UNCHANGED asset

\* The pack of a new asset is another user's, or an asset is looked up.
Read(c) ==
  /\ At(c, "read")
  /\ \/ call[c].op = "create" /\ Ends(c, "not_found")
     \/ /\ call[c].op = "get"
        /\ Ends(c, IF Stored(call[c].a) THEN "fine" ELSE "not_found")
  /\ UNCHANGED asset

\* create_asset: a type other than poster and flyer is a ValueError, the first version
\* is "1".
Create(c) ==
  /\ At(c, "read") /\ call[c].op = "create"
  /\ \/ Ends(c, "bad_request") /\ UNCHANGED asset
     \/ /\ \E a \in Fresh, type \in Types :
             /\ asset' = [asset EXCEPT ![a] = [Unused EXCEPT !.stored = "yes", !.type = type,
                                                             !.by = c]]
        /\ Ends(c, "fine")

\* get_asset_for_pack_user.
Find(c) ==
  /\ At(c, "read") /\ call[c].op \in {"regenerate", "delete"}
  /\ IF Stored(call[c].a)
     THEN call' = [call EXCEPT ![c].row = asset[call[c].a],
                               ![c].at = IF call[c].op = "delete" THEN "delete" ELSE "list"]
     ELSE Ends(c, "not_found")
  /\ UNCHANGED asset

\* The versions of the assets of a type.
Versions(type) == {asset[a].version : a \in {b \in AssetIds : Stored(b) /\ asset[b].type = type}}

\* Mutant of NextVersion: the letter after the number of versions there are.
CountedVersion(used) ==
  LET n == Cardinality(used) IN IF n \in DOMAIN Letters THEN Letters[n] ELSE "Z1"

\* _next_version: the first letter that is not in use.
NextVersion(used) ==
  LET free == {i \in DOMAIN Letters : Letters[i] \notin used}
  IN IF free = {} THEN "Z1" ELSE Letters[Min(free)]

\* regenerate_asset reads the versions there are.
List(c) ==
  /\ At(c, "list")
  /\ call' = [call EXCEPT ![c].at = "insert", ![c].version = NextVersion(Versions(call[c].row.type))]
  /\ UNCHANGED asset

\* The new version is stored with what was read of the old one.
Insert(c) ==
  /\ At(c, "insert")
  /\ \E a \in Fresh :
       /\ asset' = [asset EXCEPT ![a] = [call[c].row EXCEPT
                       !.version = call[c].version, !.by = c]]
  /\ Ends(c, "fine")

\* delete_asset, which does not mind a row that is gone.
Delete(c) ==
  /\ At(c, "delete")
  /\ asset' = [asset EXCEPT ![call[c].a].stored = "deleted"]
  /\ Ends(c, "fine")

-----------------------------------------------------------------------------
(* The generation of poster code. *)

\* Mutant of SlotsOf: an edit regenerates the whole set.
SlotsOfSet(mode, slot) == IF mode = "manual" THEN {"v1"} ELSE Slots

\* get_poster_slot_configs: the slots a prompt asks for; none when it refuses.
SlotsOf(mode, slot) ==
  CASE mode = "edit" -> {slot} \ {None}
    [] mode = "auto" -> IF slot = None THEN Slots ELSE {slot}
    [] mode = "manual" -> IF slot \in {None, "v1"} THEN {"v1"} ELSE {}

\* MANUAL_SLOT_CONFIGS, AUTO_SLOT_CONFIGS: the template and the variant of a slot.
Concept(mode, slot) ==
  IF mode = "manual" THEN <<"offer", "A">>
  ELSE [v1 |-> <<"objection", "A">>, v2 |-> <<"offer", "B">>,
        v3 |-> <<"proof", "C">>, v4 |-> <<"offer", "A">>][slot]

\* normalize_reference_images: at most three, each a base64 image of at most 4 MB.
ImagesAreFine(count, all_are_images) == count <= MaxImages /\ (count > 0 => all_are_images)

\* resolve_poster_prompt_brief: the context, then the columns of the pack; the proof of
\* the pack comes first.
Brief(known) ==
  LET context == Context(known, FALSE)
      Else(field) == Coalesce(<<context[field], "pack">>, known)
  IN [business_name |-> Else("brand_name"), offer |-> Else("core_offer"),
      usp |-> Else("usp_statement"), cta |-> Else("primary_cta"),
      business_type |-> Else("industry"), tone |-> context["voice_archetype"],
      proof_line |-> Coalesce(<<"pack", context["proof_points"]>>, known)]

\* A request for poster code reaches generate_posters.
BeginPrompt(c) ==
  /\ At(c, "idle")
  /\ Begins(c, "generate", Idle.a)
  /\ UNCHANGED asset

\* It is refused without messages, with other images, or for the pack of another user.
Refuse(c) ==
  /\ At(c, "read") /\ call[c].op = "generate"
  /\ \/ /\ \E messages, all_are_images \in BOOLEAN, count \in 0..MaxImages + 1 :
             ~(messages /\ ImagesAreFine(count, all_are_images))
        /\ Ends(c, "bad_request")
     \/ Ends(c, "not_found")
  /\ UNCHANGED asset

\* _brand_section: the fields that are listed when something is known of them.
Listed == {"brand_name", "industry", "core_offer", "primary_cta", "primary_pain",
           "primary_outcome", "hero_angle", "usp_statement", "usp_proof", "mission", "vision",
           "elevator_pitch", "color_palette", "fonts", "logo", "proof_points",
           "audience_personas", "voice_archetype", "design_cues"}

\* build_poster_system_prompt: an edit has no concepts, it starts from the current files.
PromptOf(mode, slots, known) ==
  LET context == Context(known, FALSE)
  IN [files |-> slots \X Sizes,
      concepts |-> IF mode = "edit" THEN {} ELSE {<<s, Concept(mode, s)>> : s \in slots},
      brief |-> Brief(known),
      brand |-> {f \in Listed : context[f] # Default},
      logo |-> context["logo"] # Default]

\* slot is the edit_variant of an edit, and the slot_id otherwise.
Prepare(c) ==
  /\ At(c, "read") /\ call[c].op = "generate"
  /\ \E mode \in Modes, slot \in Slots \cup {None}, existing_files \in BOOLEAN, known \in Knowledge :
       LET slots == SlotsOf(mode, slot)
       IN IF slots # {} /\ (mode = "edit" => existing_files)
          THEN call' = [call EXCEPT ![c].at = "prime", ![c].known = known,
                                    ![c].edit = IF mode = "edit" THEN slot ELSE None,
                                    ![c].prompt = PromptOf(mode, slots, known)]
          ELSE Ends(c, "bad_request")
  /\ UNCHANGED asset

\* create_text_stream waits for the first piece of text: there is no model, it says
\* nothing, its provider fails, or the answer starts.
Prime(c) ==
  /\ At(c, "prime")
  /\ \E result \in {"unavailable", "crash", "stream"} : Ends(c, result)
  /\ UNCHANGED asset

-----------------------------------------------------------------------------
Step(c) ==
  \/ Read(c) \/ Create(c) \/ Find(c) \/ List(c) \/ Insert(c) \/ Delete(c)
StepPrompt(c) == Refuse(c) \/ Prepare(c) \/ Prime(c)

Next == \E c \in Calls : Begin(c) \/ Step(c) \/ BeginPrompt(c) \/ StepPrompt(c)

Spec == Init /\ [][Next]_vars
-----------------------------------------------------------------------------
(* Properties *)

TypeOK == asset \in [AssetIds -> Row] /\ call \in [Calls -> Call]

\* Two versions of one type carry the same letter only when the requests for them
\* overlapped; no order of creations, regenerations and deletions makes one request
\* reuse a letter that is in use (_next_version, services.py:77-83).
Overlap(c, d) == None \notin {c, d} /\ c \notin call[d].ended /\ d \notin call[c].ended
LettersTellVersions == \A a, b \in AssetIds :
  /\ a # b /\ Stored(a) /\ Stored(b)
  /\ asset[a].type = asset[b].type
  /\ asset[a].version = asset[b].version /\ asset[a].version \in Range(Letters)
  => Overlap(asset[a].by, asset[b].by)

\* A prompt demands every size of each of its slots, with one concept per slot, an edit
\* only those of the slot that is edited and without a concept; nothing is made up that
\* some source of the brand knows; and the logo is insisted on only if the prompt
\* contains it.
Tellers == [business_name |-> {"profile", "artifact", "pack", "brand_os"},
            offer |-> {"profile", "artifact", "pack", "brand_os"},
            usp |-> {"profile", "artifact", "pack"},
            cta |-> {"profile", "pack"},
            proof_line |-> {"profile", "artifact", "pack", "brand_os"},
            business_type |-> {"profile", "artifact", "pack", "brand_os"},
            tone |-> {"artifact", "brand_os"}]
PromptsAreExact == \A c \in Calls : At(c, "prime") =>
  LET p == call[c].prompt
      slots == {f[1] : f \in p.files}
  IN /\ slots # {} /\ p.files = slots \X Sizes
     /\ IF call[c].edit = None
        THEN \A s \in slots : \E x \in Concepts : {e \in p.concepts : e[1] = s} = {<<s, x>>}
        ELSE slots = {call[c].edit} /\ p.concepts = {}
     /\ \A f \in BriefFields : p.brief[f] = Default => Tellers[f] \cap call[c].known = {}
     /\ p.logo <=> "logo" \in p.brand
=============================================================================
