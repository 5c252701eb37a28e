-------------------------- MODULE RepositoryPipeline --------------------------
(***************************************************************************)
(* One run of the retrieval-to-repository pipeline                          *)
(* (systemos/repository_pipeline/pipeline.py): sources are bound, mapped    *)
(* and refined into artifacts by an adapter that may answer anything, and   *)
(* the artifacts are released to a repository or withheld as a whole.       *)
(*                                                                         *)
(* Contents, rationales, digests and messages are left out; a source is    *)
(* its id, and a path is its spelling, which is what the code compares.     *)
(***************************************************************************)
EXTENDS Integers, Sequences, SequencesExt

CONSTANTS Ids,           \* source ids
          Paths,         \* spellings of paths
          UnsafePaths,   \* the absolute ones and those with ".."
          MaxSources,    \* bound on the records of a run
          MaxArtifacts   \* bound on the artifacts the adapter builds

ASSUME PipelineAssumption ==
    UnsafePaths \subseteq Paths /\ MaxSources \in Nat /\ MaxArtifacts \in Nat

States == {"SPECIFIED", "RUNTIME_ENFORCED", "COUNTERFACTUALLY_VALIDATED"}
Receipts == {"validator", "counterfactual"}

\* What the adapter may build, one at a time.
RepositoryArtifact == [path : Paths, sources : SUBSET Ids, state : States,
                       receipts : SUBSET Receipts]

VARIABLES
    stage,       \* the last stage of the trace, or "raised"
    sources,     \* the records the caller passed
    artifacts,   \* candidates of the adapter
    structural,  \* the issues of the pipeline: sets of <<artifact, reason>>
    critique,    \* the adapter's report: approved and the severities in it
    released     \* artifacts for the repository writer

vars == <<stage, sources, artifacts, structural, critique, released>>

NoCritique == [approved |-> FALSE, severities |-> {}]

\* The caller may pass a source twice, or none.
Init == /\ stage = "RECEIVE"
        /\ sources \in BoundedSeq(Ids, MaxSources)
        /\ artifacts = <<>> /\ structural = {}
        /\ critique = NoCritique /\ released = <<>>

Raise == stage' = "raised"

Retrieve ==
    /\ stage = "RECEIVE"
    /\ IF sources = <<>> \/ ~IsInjective(sources)
       THEN Raise ELSE stage' = "NORMALIZE"
    /\ UNCHANGED <<sources, artifacts, structural, critique, released>>

\* The context map may claim any source; an unknown one raises.
MapContext ==
    /\ stage = "NORMALIZE"
    /\ \E claimed \in SUBSET Ids :
          IF claimed \subseteq ToSet(sources) THEN stage' = "MAP" ELSE Raise
    /\ UNCHANGED <<sources, artifacts, structural, critique, released>>

\* The adapter builds artifacts in any number; an unsafe path raises.
Produce ==
    /\ stage = "MAP" /\ Len(artifacts) < MaxArtifacts
    /\ \E a \in RepositoryArtifact :
          IF a.path \in UnsafePaths THEN Raise /\ UNCHANGED artifacts
          ELSE artifacts' = Append(artifacts, a) /\ UNCHANGED stage
    /\ UNCHANGED <<sources, structural, critique, released>>

Refine == /\ stage = "MAP" /\ stage' = "REFINE"
          /\ UNCHANGED <<sources, artifacts, structural, critique, released>>

----------------------------------------------------------------------------
\* Mutant: a receipt of any kind will do.
UnprovenByNone(a) == a.state # "SPECIFIED" /\ a.receipts = {}

\* An evidence label that no receipt of its kind supports.
Unproven(a) ==
    \/ a.state = "RUNTIME_ENFORCED" /\ "validator" \notin a.receipts
    \/ a.state = "COUNTERFACTUALLY_VALIDATED" /\ "counterfactual" \notin a.receipts

Repeated(i) == \E j \in 1..(i - 1) : artifacts[j].path = artifacts[i].path

\* _validate_artifacts: every issue is an error.
ArtifactIssues ==
    LET reasons(i) ==
            {r \in {"duplicate", "no sources", "unknown source", "unproven"} :
                \/ r = "duplicate" /\ Repeated(i)
                \/ r = "no sources" /\ artifacts[i].sources = {}
                \/ r = "unknown source" /\ ~(artifacts[i].sources \subseteq ToSet(sources))
                \/ r = "unproven" /\ Unproven(artifacts[i])}
    IN  UNION {{i} \X reasons(i) : i \in DOMAIN artifacts}
        \cup IF artifacts = <<>> THEN {<<0, "no artifacts">>} ELSE {}

Validate ==
    /\ stage = "REFINE"
    /\ structural' = ArtifactIssues
    /\ critique' \in [approved : BOOLEAN, severities : SUBSET {"WARNING", "ERROR"}]
    /\ stage' = "VALIDATE"
    /\ UNCHANGED <<sources, artifacts, released>>

\* _combine_reports
Approved == /\ structural = {}
            /\ critique.approved /\ "ERROR" \notin critique.severities

\* Mutant: every artifact is released or withheld on its own.
EmitEach ==
    /\ stage = "VALIDATE" /\ stage' = "TRACE"
    /\ released' = IF critique.approved /\ "ERROR" \notin critique.severities
                   THEN SelectSeq(artifacts, LAMBDA a :
                            a.sources \subseteq ToSet(sources) /\ ~Unproven(a))
                   ELSE <<>>
    /\ UNCHANGED <<sources, artifacts, structural, critique>>

Emit ==
    /\ stage = "VALIDATE" /\ stage' = "TRACE"
    /\ released' = IF Approved THEN artifacts ELSE <<>>
    /\ UNCHANGED <<sources, artifacts, structural, critique>>

\* The run is over; its result is the caller's.
Return == stage \in {"TRACE", "raised"} /\ UNCHANGED vars

Next == Retrieve \/ MapContext \/ Produce \/ Refine \/ Validate \/ Emit \/ Return

Spec == Init /\ [][Next]_vars

----------------------------------------------------------------------------
\* Every variable has its type.
TypeOK ==
    /\ stage \in {"RECEIVE", "NORMALIZE", "MAP", "REFINE", "VALIDATE",
                  "TRACE", "raised"}
    /\ sources \in Seq(Ids)
    /\ artifacts \in Seq(RepositoryArtifact) /\ Len(artifacts) <= MaxArtifacts
    /\ released \in Seq(RepositoryArtifact)

(***************************************************************************)
(* Whatever the adapter answers, an artifact that reaches the repository    *)
(* writer cites sources, only sources that were bound to the run, and each  *)
(* source once bound; its evidence label has the receipt of that very kind; *)
(* no two are written alike; the critique approved without an error; and    *)
(* the artifacts are released together or not at all                        *)
(* (retrieval-to-repository-pipeline.md, definition of done 2 to 6).        *)
(***************************************************************************)
ReleasedIsGoverned ==
    released # <<>> =>
        /\ released = artifacts
        /\ IsInjective(sources)
        /\ critique.approved /\ "ERROR" \notin critique.severities
        /\ \A i, j \in DOMAIN released :
              released[i].path = released[j].path => i = j
        /\ \A i \in DOMAIN released :
              LET a == released[i]
              IN  /\ a.path \notin UnsafePaths
                  /\ a.sources # {} /\ a.sources \subseteq ToSet(sources)
                  /\ a.state = "RUNTIME_ENFORCED" => "validator" \in a.receipts
                  /\ a.state = "COUNTERFACTUALLY_VALIDATED" =>
                         "counterfactual" \in a.receipts
=============================================================================
