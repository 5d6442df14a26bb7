--------------------------- MODULE MCConformance ----------------------------
(* Conformance over two repositories, one file and one workflow, and lists *)
(* of two or three assertions.                                             *)
EXTENDS Conformance

CONSTANTS r1, r2, conf, ci

Assertion(kind, targets, waiver) ==
  [kind |-> kind, targets |-> targets,
   path |-> conf, when_path |-> ci, expected |-> TRUE, severity |-> "error",
   waiver |-> waiver]

contains == Assertion("file_contains", <<r1, r2>>, "none")
forbids == Assertion("file_not_contains", <<r1>>, "active")
exists == Assertion("path_exists", <<r1>>, "none")
absent == Assertion("path_absent", <<r1, r2>>, "expired")
conditional == Assertion("conditional_contains", <<r1>>, "none")
retired == Assertion("repository_archived", <<r1>>, "none")
maintained == [retired EXCEPT !.expected = FALSE]
pinned == [Assertion("workflow_references_pinned", <<r1>>, "active")
             EXCEPT !.severity = "warning"]

contains_ci == [Assertion("file_contains", <<r1>>, "none") EXCEPT !.path = ci]
absent_ci == [absent EXCEPT !.path = ci]
gone == [absent EXCEPT !.targets = <<r1>>]

\* Pairs that exclude each other, in both orders, answered from one cache or from
\* two; three of which any two are compatible; and pairs that share part of what
\* they look up.
MCRegistries ==
  {<<contains, forbids>>, <<forbids, contains>>, <<exists, absent>>,
   <<absent, exists>>, <<contains, gone>>, <<gone, contains>>,
   <<pinned, absent_ci>>, <<contains_ci, conditional, forbids>>,
   <<retired, maintained>>, <<conditional, pinned>>, <<pinned, forbids>>,
   <<retired, exists>>}
=============================================================================
