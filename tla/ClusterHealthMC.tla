--------------------------- MODULE ClusterHealthMC ---------------------------
(* Instances of ClusterHealth for TLC.                                      *)
EXTENDS ClusterHealth

\* A file system inside another, configured before it: a path in each, and one
\* outside of both.
Nested == << << "home", "fast" >>, << "home" >> >>
NestedPaths == {<< "home", "fast", "ada" >>, << "home", "ada" >>, << "etc" >>}

=============================================================================
