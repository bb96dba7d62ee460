---------------------------- MODULE MCSandboxAgent ----------------------------
(* Instances of SandboxAgent for TLC. *)
EXTENDS SandboxAgent

CONSTANTS c1, c2, s1, s2, l1, l2, e, k1, k2

OneChat == {c1}
TwoChats == {c1, c2}
OneSession == {s1}
OneLayout == {l1}
TwoLayouts == {l1, l2}
OneWorld == {1}
TwoWorlds == {1, 2}
TwoQuestions == {{k1}, {k1, k2}}
OneQuestion == {{k1}}
Defaults == {k2}
=============================================================================
