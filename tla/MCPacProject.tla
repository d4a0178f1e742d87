---------------------------- MODULE MCPacProject ----------------------------
\* The scripts of tests/pac: PIPELINES-30-TC01 to TC04 and PIPELINES-35-TC01,
\* TC04 up to its second cancellation.
EXTENDS PacProject

S(o, a, n, w, e) == [op |-> o, on |-> a, n |-> n, want |-> w, ev |-> e]
Gen(e)    == S("generate", e, 0, "", "")
Ann(a)    == S("annotate", a, 0, "", "")
Preview   == S("preview", "", 0, "", "")
Push      == S("trigger", "", 0, "", "")
Do(a)     == S("raise", a, 0, "", "")
Count(n)  == S("count", "", n, "", "")
Ok(o, e)  == S(o, "", 0, "succeeded", e)
Off(e)    == S("main", "", 0, "cancelled", e)

TC01 == <<Gen("pull_request"), Gen("push"), Preview, Ok("mr", "opened"), Push, Ok("main", "push")>>
TC02 == <<Gen("pull_request"), Ann("label"), Preview, Count(0), Do("label"), Ok("mr", "label")>>
TC03 == <<Gen("pull_request"), Ann("comment"), Preview, Ok("mr", "opened"), Do("comment"),
          Count(2), Ok("mr", "comment")>>
TC04 == <<Gen("push"), Ann("tags"), Push, Do("tag"), Count(1), Do("cancel"), Off("tag"),
          Do("test_run"), Count(2), Do("cancel_run"), Off("test_run")>>
GH01 == <<Gen("pull_request"), Gen("push"), Preview, Ok("new", "opened"), Push, Ok("new", "push")>>

MCScripts == {TC01, TC02, TC03, TC04, GH01}
MCGitHub  == {GH01}
=============================================================================
