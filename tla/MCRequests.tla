----------------------------- MODULE MCRequests -----------------------------
\* Two requests for one part of the API, or a prompt and any other.
EXTENDS Requests, TLC

CONSTANTS r1, r2

B == INSTANCE BrandContext

Mix(a, b) == (r1 :> a) @@ (r2 :> b)
MCMixes ==
  {Mix(<<area, "page">>, <<area, "page">>) : area \in {"keys", "sites", "posters", "projects"}}
  \cup {Mix(<<"prompts", "page">>, <<"other", "elsewhere">>),
        Mix(<<"other", "elsewhere">>, <<"prompts", "page">>),
        Mix(<<"other", "page">>, <<"other", "page_with_cookies">>),
        Mix(<<"other", "page_with_cookies">>, <<"other", "page">>)}
MCLetters == <<"A", "B">>
MCKnowledge == {{}, B!Sources} \cup {{s} : s \in B!Sources}

\* Rows that no request is about are not there, and files that were published differ from
\* the draft.
MCInit ==
  /\ Init
  /\ \A s \in S!SiteIds : site[s].kept # site[s].draft["files"]
  /\ (\A r \in Reqs : req[r].area # "keys") => tier = "pro"
  /\ (\A r \in Reqs : req[r].area # "sites") => \A s \in S!SiteIds : ~S!Stored(s)
  /\ (\A r \in Reqs : req[r].area # "posters") => \A a \in P!AssetIds : ~P!Stored(a)

\* An answer is under way.
Answering(r) ==
  \/ req[r].at \in {"sending", "streaming", "alerting"}
  \/ req[r].at = "handler" /\ Call(r).at = "end"

\* While keys or other parts are asked for, the process ends and answers take their time
\* at any step.  Of rows, a handler that a process interrupts is one that never goes on;
\* and an answer reaches its client before another handler moves, which only lets the
\* properties of the answer hold for longer, as the way of an answer touches no row.
Shell == \A r \in Reqs : req[r].area \in {"keys", "other"}
\* Two requests for a site of which neither writes its row have nothing to do with each other.
Reads(r) == sitecall[r].at # "idle" /\ sitecall[r].op \notin S!Writing
MCNext ==
  /\ Next
  /\ (\E r \in Reqs : ~Reads(r))'
  /\ Shell \/ stops' = stops
  /\ \/ Shell
     \/ \A r \in Reqs : ~Answering(r)
     \/ \E r \in Reqs : Answering(r) /\ req'[r] # req[r]
MCSpec == MCInit /\ [][MCNext]_vars

Symmetry == Permutations(Reqs)
=============================================================================
