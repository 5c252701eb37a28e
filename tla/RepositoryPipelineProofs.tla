----------------------- MODULE RepositoryPipelineProofs -----------------------
(***************************************************************************)
(* TLAPS proofs about RepositoryPipeline: its types, and that only          *)
(* governed artifacts are released, for any sources, paths and artifacts   *)
(* and whatever the adapter answers.                                       *)
(***************************************************************************)
EXTENDS RepositoryPipeline, TLAPS

(* The sequences up to a length are sequences.                             *)
LEMMA BoundedSeqType ==
    ASSUME NEW S, NEW n \in Nat, NEW s \in BoundedSeq(S, n)
    PROVE  s \in Seq(S)
  <1>1. PICK m \in 0..n : s \in [1..m -> S]
    BY DEF BoundedSeq, SeqOf
  <1> QED BY <1>1

----------------------------------------------------------------------------
(* The inductive invariant.                                                *)

\* After the retrieval the sources are distinct; no artifact has an unsafe
\* path; the issues are those of the artifacts; nothing is released before
\* the end of the run, and then only what is governed.
Governed ==
    /\ TypeOK
    /\ stage \in {"NORMALIZE", "MAP", "REFINE", "VALIDATE"} => IsInjective(sources)
    /\ \A i \in DOMAIN artifacts : artifacts[i].path \notin UnsafePaths
    /\ stage = "VALIDATE" => structural = ArtifactIssues
    /\ stage # "TRACE" => released = <<>>
    /\ ReleasedIsGoverned

(* Artifacts without an issue cite bound sources, prove their labels and   *)
(* have paths of their own.                                                *)
LEMMA NoIssues ==
    ASSUME TypeOK, ArtifactIssues = {}
    PROVE  /\ \A i, j \in DOMAIN artifacts :
                 artifacts[i].path = artifacts[j].path => i = j
           /\ \A i \in DOMAIN artifacts :
                 /\ artifacts[i].sources # {}
                 /\ artifacts[i].sources \subseteq ToSet(sources)
                 /\ ~Unproven(artifacts[i])
  <1> DEFINE reasons(i) ==
                {r \in {"duplicate", "no sources", "unknown source", "unproven"} :
                    \/ r = "duplicate" /\ Repeated(i)
                    \/ r = "no sources" /\ artifacts[i].sources = {}
                    \/ r = "unknown source" /\ ~(artifacts[i].sources \subseteq ToSet(sources))
                    \/ r = "unproven" /\ Unproven(artifacts[i])}
  <1>1. UNION {{i} \X reasons(i) : i \in DOMAIN artifacts} = {}
    BY DEF ArtifactIssues
  <1>2. \A i \in DOMAIN artifacts : reasons(i) = {}
    <2> SUFFICES ASSUME NEW i \in DOMAIN artifacts, NEW r \in reasons(i) PROVE FALSE
      OBVIOUS
    <2>1. <<i, r>> \in {i} \X reasons(i)
      OBVIOUS
    <2> HIDE DEF reasons
    <2> QED BY <1>1, <2>1
  <1>3. \A i \in DOMAIN artifacts :
            /\ ~Repeated(i)
            /\ artifacts[i].sources # {}
            /\ artifacts[i].sources \subseteq ToSet(sources)
            /\ ~Unproven(artifacts[i])
    BY <1>2
  <1>4. \A i, j \in DOMAIN artifacts : artifacts[i].path = artifacts[j].path => i = j
    <2>1. DOMAIN artifacts = 1..Len(artifacts) /\ Len(artifacts) \in Nat
      BY DEF TypeOK
    <2>2. \A i, j \in DOMAIN artifacts : j < i => artifacts[i].path # artifacts[j].path
      BY <1>3, <2>1 DEF Repeated
    <2> QED BY <2>1, <2>2
  <1> QED BY <1>3, <1>4

LEMMA InitGoverned == Init => Governed
  BY BoundedSeqType, PipelineAssumption
  DEF Init, Governed, TypeOK, ReleasedIsGoverned

(* The adapter adds an artifact, or the run ends.                          *)
LEMMA ProduceGoverned == ASSUME Governed, Produce PROVE Governed'
  <1> PICK a \in RepositoryArtifact :
           IF a.path \in UnsafePaths THEN Raise /\ UNCHANGED artifacts
           ELSE artifacts' = Append(artifacts, a) /\ UNCHANGED stage
    BY DEF Produce
  <1>1. released = <<>> /\ UNCHANGED <<sources, structural, critique, released>>
        /\ stage = "MAP" /\ artifacts \in Seq(RepositoryArtifact)
    BY DEF Produce, Governed, TypeOK
  <1>2. CASE a.path \in UnsafePaths
    BY <1>1, <1>2 DEF Raise, Governed, TypeOK, ReleasedIsGoverned
  <1>3. CASE a.path \notin UnsafePaths
    <2>1. /\ artifacts' \in Seq(RepositoryArtifact)
          /\ Len(artifacts') = Len(artifacts) + 1
          /\ Len(artifacts) < MaxArtifacts
          /\ stage' = "MAP"
      BY <1>1, <1>3 DEF Produce
    <2>2. \A i \in DOMAIN artifacts' : artifacts'[i].path \notin UnsafePaths
      BY <1>1, <1>3 DEF Governed
    <2>3. Len(artifacts') <= MaxArtifacts
      BY <1>1, <2>1, PipelineAssumption
    <2> QED BY <1>1, <2>1, <2>2, <2>3 DEF Governed, TypeOK, ReleasedIsGoverned
  <1> QED BY <1>2, <1>3

(* All artifacts are released, and have no issue, or none is.              *)
LEMMA EmitGoverned == ASSUME Governed, Emit PROVE Governed'
  <1>1. /\ stage = "VALIDATE" /\ stage' = "TRACE"
        /\ UNCHANGED <<sources, artifacts, structural, critique>>
        /\ structural = ArtifactIssues /\ IsInjective(sources) /\ TypeOK
    BY DEF Emit, Governed
  <1>2. CASE ~Approved
    BY <1>1, <1>2 DEF Emit, Governed, TypeOK, ReleasedIsGoverned
  <1>3. CASE Approved
    <2>1. released' = artifacts /\ ArtifactIssues = {}
      BY <1>1, <1>3 DEF Emit, Approved
    <2>2. critique.approved /\ "ERROR" \notin critique.severities
      BY <1>3 DEF Approved
    <2>3. ReleasedIsGoverned'
      BY <1>1, <2>1, <2>2, NoIssues DEF ReleasedIsGoverned, Unproven, Governed
    <2> QED BY <1>1, <2>1, <2>3 DEF Governed, TypeOK
  <1> QED BY <1>2, <1>3

LEMMA NextGoverned == Governed /\ [Next]_vars => Governed'
  <1> SUFFICES ASSUME Governed, [Next]_vars PROVE Governed'
    OBVIOUS
  <1>1. CASE Retrieve
    BY <1>1 DEF Retrieve, Raise, Governed, TypeOK, ReleasedIsGoverned
  <1>2. CASE MapContext
    BY <1>2 DEF MapContext, Raise, Governed, TypeOK, ReleasedIsGoverned
  <1>3. CASE Produce
    BY <1>3, ProduceGoverned
  <1>4. CASE Refine
    BY <1>4 DEF Refine, Governed, TypeOK, ReleasedIsGoverned
  <1>5. CASE Validate
    <2>1. sources' = sources /\ artifacts' = artifacts
      BY <1>5 DEF Validate
    <2>2. ArtifactIssues' = ArtifactIssues
      BY <2>1 DEF ArtifactIssues, Repeated
    <2> QED BY <1>5, <2>2 DEF Validate, Governed, TypeOK, ReleasedIsGoverned
  <1>6. CASE Emit
    BY <1>6, EmitGoverned
  <1>7. CASE UNCHANGED vars
    <2>1. ArtifactIssues' = ArtifactIssues
      BY <1>7 DEF vars, ArtifactIssues, Repeated
    <2> QED BY <1>7, <2>1 DEF vars, Governed, TypeOK, ReleasedIsGoverned
  <1> QED BY <1>1, <1>2, <1>3, <1>4, <1>5, <1>6, <1>7 DEF Next, Return

LEMMA GovernedHolds == Spec => []Governed
  BY InitGoverned, NextGoverned, PTL DEF Spec

(* In every run every variable has its type.                               *)
THEOREM TypeCorrect == Spec => []TypeOK
  <1>1. Governed => TypeOK
    BY DEF Governed
  <1> QED BY <1>1, GovernedHolds, PTL

(* Whatever the adapter answers, what run() releases cites bound sources   *)
(* only, proves its evidence labels, has safe and distinct paths, had an   *)
(* approving critique without an error, and is all that the adapter built. *)
THEOREM ReleaseGoverned == Spec => []ReleasedIsGoverned
  <1>1. Governed => ReleasedIsGoverned
    BY DEF Governed
  <1> QED BY <1>1, GovernedHolds, PTL
=============================================================================
