------------------------------- MODULE MCAccess -------------------------------
(* Access on small sets: two coroutines in two processes, two requests at a time. *)
EXTENDS Access

(* Roles: one role or two, and an assignment of the second in the team. *)
MCRole(name, allows) == [name |-> name, parent |-> None, allows |-> allows]
MCTable(second) == "r1" :> MCRole("n1", TRUE) @@ "r2" :> second
MCGrant == [id |-> "g1", role |-> "r2", scope |-> "team", past |-> FALSE]
MCSeeds ==
    {[roles |-> MCTable(None), grants |-> {}],
     [roles |-> MCTable(MCRole("n2", FALSE)), grants |-> {}],
     [roles |-> MCTable(MCRole("n2", FALSE)), grants |-> {MCGrant}]}

(* API keys: a live one with an end, of either scope, and one that does not exist. *)
MCKey(state, scope, dated) == [state |-> state, scope |-> scope, dated |-> dated]
MCKeyrings ==
    {"k1" :> MCKey("live", scope, TRUE) @@ "k2" :> MCKey("none", "read:only", FALSE) :
        scope \in {"admin:*", "read:only"}}

(* SAML: an answer; the same assertion in another Response, for another request  *)
(* and answering the first; an assertion without InResponseTo in two Responses;  *)
(* one for a subject without an e-mail address; and one that reports a failure.  *)
MCPost(response, assertion, request, confirms, subject, success) ==
    [response |-> response, assertion |-> assertion, request |-> request,
     confirms |-> confirms, subject |-> subject, success |-> success]
MCPosts ==
    {MCPost("x", "a", "q1", "q1", "ann", TRUE), MCPost("y", "a", "q2", "q1", "ann", TRUE),
     MCPost("z", "b", "q1", None, "ann", TRUE), MCPost("u", "b", "q2", None, "ann", TRUE),
     MCPost("w", "d", "q2", "q2", "bob", TRUE),
     MCPost("v", "e", "q1", "q1", "ann", FALSE)}

(* OIDC providers: one, or two. *)
MCProvider(id, issuer, slug) == [id |-> id, issuer |-> issuer, slug |-> slug]
MCCatalogs ==
    {{MCProvider("i1", "a", "x")}, {MCProvider("i1", "a", "x"), MCProvider("i2", "b", "y")}}

Symmetry == Permutations(Coros)
==============================================================================
