------------------------ MODULE MCRepositoryPipeline ------------------------
(* Two sources, two artifacts, three paths of which one is unsafe. *)
EXTENDS RepositoryPipeline

MCPaths == {"a", "b", "../c"}
=============================================================================
