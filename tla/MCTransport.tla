---------------------------- MODULE MCTransport -----------------------------
(* Transport with two layouts, so that a change between them is seen.      *)
EXTENDS Transport

SomeViews == {{}, {"before"}, {"after"}}
=============================================================================
