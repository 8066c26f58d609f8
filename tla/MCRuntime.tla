----------------------------- MODULE MCRuntime -----------------------------
(* Instances of Runtime for TLC. *)
EXTENDS RuntimeRefinement, TLC

CONSTANTS p1, p2, a, b, u

Perms(w, e, x) ==
    ("code.write_file" :> w) @@ ("code.apply_patch" :> e) @@ ("shell.exec" :> x)

AllowAll == {Perms("allow", "allow", "allow")}
SomeRules == {Perms("allow", "allow", "deny"), Perms("ask", "allow", "ask"), Perms("deny", "ask", "allow")}
ShellOnly == {"shell.exec"}
PatchOnly == {"code.apply_patch"}
=============================================================================
