------------------------------- MODULE MCGraphs -------------------------------
(* CaseGraphs with the values of each part's own MC module.                  *)
EXTENDS CaseGraphs

CONSTANTS program, document

SearchValues == INSTANCE MCBoundedGraph
IndexValues == INSTANCE MCCorrelation
BuildValues == INSTANCE MCGraphBuild

MCEvent == SearchValues!MCEvent
MCCorrelations == SearchValues!MCCorrelations
MCMentions == SearchValues!MCMentions
MCRelations == SearchValues!MCRelations
MCRequest == SearchValues!MCRequest
MCFamilies == IndexValues!AllFamilies
MCCases == BuildValues!AllCases
=============================================================================
