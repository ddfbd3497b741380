---------------------------- MODULE RedactPasses ----------------------------
(***************************************************************************)
(* jsonredact over small trees and configurations: a body is redacted, and *)
(* what came out may be redacted again with another configuration, as      *)
(* CaptureHTTPResponse does.                                               *)
(***************************************************************************)
EXTENDS JSONRedact

CONSTANTS Trees,   \* bodies
          Configs  \* redaction configurations

VARIABLES tree,  \* the value that was parsed
          used,  \* the configurations it was redacted with, in order
          out    \* the value after them

vars == <<tree, used, out>>

Init == tree \in Trees /\ used = <<>> /\ out = tree

\* At most twice; the second time with keys of a route and one path at most.
Redact ==
  /\ \E c \in Configs :
       /\ \/ used = <<>>
          \/ Len(used) = 1 /\ used[1].keys = {} /\ Len(used[1].paths) <= 1
             /\ c = [paths |-> used[1].paths, keys |-> {"Card"}]
       /\ used' = Append(used, c)
       /\ out' = ParseAndRedactJSON(out, c)
  /\ UNCHANGED tree

Next == Redact

Spec == Init /\ [][Next]_vars

-----------------------------------------------------------------------------
TypeOK ==
  /\ tree \in Trees /\ used \in Seq(Configs) /\ Len(used) <= 2
  /\ Places(out) \subseteq Places(tree)

\* ParseAndRedactJSON ("applies path + sensitive-key redaction"): exactly the
\* fields that some path or key names are masked, whole, and everything else is
\* there and unchanged, whatever the order of the paths and of the two passes.
RedactsExactly ==
  \A p \in Places(tree) :
    LET hit(q) == \E n \in DOMAIN used : Hidden(used[n], q)
        under == \E n \in 1..(Len(p) - 1) : hit(SubSeq(p, 1, n))
    IN  IF under THEN p \notin Places(out)
        ELSE /\ p \in Places(out)
             /\ IF hit(p) THEN Sub(out, p) = Mask
                ELSE Sub(tree, p).kind \in {"text", "num"} => Sub(out, p) = Sub(tree, p)
=============================================================================
