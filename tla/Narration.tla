------------------------------ MODULE Narration ------------------------------
(***************************************************************************)
(* One narrative from the agent's first answer to the gates' verdict: the  *)
(* self-consistency check sets the flag of the report, the report is       *)
(* written, and the three gates judge it against the findings.             *)
(***************************************************************************)
EXTENDS Gates, SelfConsistency

CONSTANTS
    Raised,       \* findings documents the rules may have written
    Draft         \* reports the agent may write, but for their citations and flag

ASSUME NarrationAssumption ==
    /\ Raised \subseteq Findings
    /\ Draft \subseteq Narrative
    /\ Key \subseteq SUBSET FindingId
    /\ None \notin Narrative
    /\ None \notin [Gate -> BOOLEAN]
    /\ None \notin BOOLEAN

VARIABLES
    findings,     \* findings.json
    narrative,    \* narrative.json, None until the agent has written it
    verdict       \* the answers of the three gates, None until then

narrationVars == <<vars, findings, narrative, verdict>>

NarrationInit ==
    /\ Init
    /\ findings \in Raised
    /\ critical = HasCritical(findings)
    /\ narrative = None
    /\ verdict = None

\* A run of the agent, a failure of one, or the decision on the flag.
Consult ==
    /\ Next
    /\ UNCHANGED <<findings, narrative, verdict>>

WriteNarrative ==
    /\ flag # None /\ narrative = None
    /\ \E d \in Draft :
          narrative' = [d EXCEPT !.cited = primary, !.consistent = flag]
    /\ UNCHANGED <<vars, findings, verdict>>

RunGates ==
    /\ narrative # None /\ verdict = None
    /\ verdict' = [g \in Gate |-> GatePasses(g, findings, narrative)]
    /\ UNCHANGED <<vars, findings, narrative>>

NarrationNext == Consult \/ WriteNarrative \/ RunGates

NarrationSpec ==
    NarrationInit /\ [][NarrationNext]_narrationVars /\ WF_narrationVars(NarrationNext)

-----------------------------------------------------------------------------
Judged == verdict # None
Accepted == Judged /\ \A g \in Gate : verdict[g]
Context == UNION {{b.principal} \cup b.databases : b \in Bodies(findings)}

\* A narrative all gates accept cites each finding, invents none, states their
\* number, and clears nobody who has a finding (the three gates together).
AcceptedNarrativeIsSound ==
    Accepted =>
        /\ narrative.cited = Ids(findings)
        /\ narrative.total = Count(findings)
        /\ \A id \in Ids(findings) :
              /\ BodyOf(findings, id).principal \notin narrative.denied
              /\ BodyOf(findings, id).databases \cap narrative.denied = {}

\* "All three runs agree (or a transient failure prevents comparison)": behind
\* an accepted narrative on critical findings, unless a run failed, the agent
\* was asked again ExtraRuns times and cited exactly the findings each time.
AcceptedCriticalRunsAgree ==
    Accepted /\ HasCritical(findings) /\ ~failed =>
        /\ Len(extraKeys) = ExtraRuns
        /\ \A i \in DOMAIN extraKeys : extraKeys[i] = Ids(findings)

\* "Transient Bedrock failures default to True so infra blips don't quarantine
\* an otherwise valid primary narrative": where no run cited other findings before
\* the failure, grounding looks at the entities alone, whatever the model said of
\* itself.
BlipsDoNotQuarantine ==
    failed /\ AllAgree /\ Judged =>
        (verdict["grounding"] <=> /\ EntitiesGrounded(findings, narrative)
                                  /\ FalselyDenied(findings, narrative) = {})

\* Entity grounding "assert[s] each [entity] appears in the input context".  It
\* tells databases from principals by "db" in the name, so a narrative naming
\* only what the findings name is grounded when they follow that convention.
WellNamedContextIsGrounded ==
    /\ Judged
    /\ \A b \in Bodies(findings) : b.principal \notin DbLike /\ b.databases \subseteq DbLike
    /\ narrative.quoted \subseteq Context
    /\ narrative.controls \subseteq UNION {b.controls : b \in Bodies(findings)}
    => EntitiesGrounded(findings, narrative)

\* Every narration comes to a verdict: the check ends within its runs,
\* whichever of them fail.
NarrationEnds == <>(verdict # None)
=============================================================================
