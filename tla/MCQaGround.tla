----------------------------- MODULE MCQaGround -----------------------------
EXTENDS QaGround

(* Two paths with one slug, one of the routes with a query.                *)
MCRoutes == {"/a/b", "/a-b?q"}
MCPathOf == [r \in MCRoutes |-> IF r = "/a-b?q" THEN "/a-b" ELSE r]
MCSlug   == [p \in {"/a-b", "/a/b"} |-> "a-b"]
MCDigest(prefix) == 1   \* all prefixes collide

Click(c) == [do |-> "act", at |-> c]
MCPrefixes == {<<>>, <<Click("name")>>, <<Goto("/a/b"), Click("menu")>>}

MCEdits == {{"evidence"}}

MCCands   == {"menu", "row", "name"}
MCCarries == [menu |-> {"localhost"}, row |-> {"ab"}, name |-> {"alice"}]
MCHolds   == [anonymous |-> {}, admin |-> {"alice", "localhost", "ab"}]

Shows(m, r, n) == [menu |-> m, row |-> r, name |-> n]
MCPages == {[at |-> "/a-b", shows |-> Shows(1, 0, 1)], [at |-> "/a/b", shows |-> Shows(1, 2, 0)],
            [at |-> "away", shows |-> Shows(1, 1, 0)]}
=============================================================================
