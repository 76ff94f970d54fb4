------------------------------ MODULE Registers ------------------------------
(***************************************************************************)
(* The registers of a bid that are kept row by row: documents,             *)
(* requirements and missing inputs, pre-bid queries, clause risks, drawing *)
(* findings, planning findings, execution learning.  They share the        *)
(* request threads and no table, so what overlaps in one register is all   *)
(* that can disturb it: a behaviour works on one of them, any.             *)
(***************************************************************************)
EXTENDS ClauseRisks, Documents, DrawingFindings, ExecutionLearning, PlanningFindings,
        PreBidQueries, Requirements

VARIABLE register

registerVars ==
    <<register, session, riskTables, drawingTables, learningTables, findingTables,
      requirementTables, queryTables, documentTables>>

RegistersInit ==
    /\ register \in {"risks", "drawings", "learning", "findings", "requirements",
                     "queries", "documents"}
    /\ SessionInit /\ RisksInit /\ DrawingsInit /\ LearningInit /\ FindingsInit
    /\ RequirementsInit /\ QueriesInit /\ DocumentsInit
    /\ register # "drawings" => boq = CHOOSE b \in Boqs : TRUE

RegistersNext ==
    /\ UNCHANGED register
    /\ \/ /\ register = "risks" /\ RisksNext
          /\ UNCHANGED <<drawingTables, learningTables, findingTables,
                         requirementTables, queryTables, documentTables>>
       \/ /\ register = "drawings" /\ DrawingsNext
          /\ UNCHANGED <<riskTables, learningTables, findingTables, requirementTables,
                         queryTables, documentTables>>
       \/ /\ register = "learning" /\ LearningNext
          /\ UNCHANGED <<riskTables, drawingTables, findingTables, requirementTables,
                         queryTables, documentTables>>
       \/ /\ register = "findings" /\ FindingsNext
          /\ UNCHANGED <<riskTables, drawingTables, learningTables, requirementTables,
                         queryTables, documentTables>>
       \/ /\ register = "requirements" /\ RequirementsNext
          /\ UNCHANGED <<riskTables, drawingTables, learningTables, findingTables,
                         queryTables, documentTables>>
       \/ /\ register = "queries" /\ QueriesNext
          /\ UNCHANGED <<riskTables, drawingTables, learningTables, findingTables,
                         requirementTables, documentTables>>
       \/ /\ register = "documents" /\ DocumentsNext
          /\ UNCHANGED <<riskTables, drawingTables, learningTables, findingTables,
                         requirementTables, queryTables>>

RegistersSpec == RegistersInit /\ [][RegistersNext]_registerVars

\* Every table holds rows of its columns.
RegistersTypeOK ==
    /\ RisksTypeOK /\ DrawingsTypeOK /\ LearningTypeOK /\ FindingsTypeOK
    /\ RequirementsTypeOK /\ QueryTypeOK /\ DocumentsTypeOK
=============================================================================
