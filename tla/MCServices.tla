------------------------------ MODULE MCServices ------------------------------
(***************************************************************************)
(* Instances of the services around the workflows for TLC: exports, the    *)
(* analytics cache, the agreement figures, the judge, the rows of a        *)
(* dataset, sessions and the organization.  They share no state, so a      *)
(* behaviour runs one of them, chosen at the start; interleaving them      *)
(* would add nothing.                                                      *)
(***************************************************************************)
EXTENDS ExportLifecycle, AnalyticsCache, Agreement, Judge, DatasetRows, Sessions, Organization

VARIABLE part   (* the service that runs *)

Parts == {"exports", "cache", "marks", "judge", "rows", "sessions", "members"}

ServicesInit ==
    /\ part \in Parts
    /\ XInit /\ CInit /\ AInit /\ JInit /\ RInit /\ SInit /\ OInit

ServicesNext ==
    /\ UNCHANGED part
    /\ \/ /\ part = "exports" /\ XNext
          /\ UNCHANGED <<cacheVars, table, judged, rowVars, sessionVars, orgVars>>
       \/ /\ part = "cache" /\ CNext
          /\ UNCHANGED <<exportVars, table, judged, rowVars, sessionVars, orgVars>>
       \/ /\ part = "marks" /\ ANext
          /\ UNCHANGED <<exportVars, cacheVars, judged, rowVars, sessionVars, orgVars>>
       \/ /\ part = "judge" /\ JNext
          /\ UNCHANGED <<exportVars, cacheVars, table, rowVars, sessionVars, orgVars>>
       \/ /\ part = "rows" /\ RNext
          /\ UNCHANGED <<exportVars, cacheVars, table, judged, sessionVars, orgVars>>
       \/ /\ part = "sessions" /\ SNext
          /\ UNCHANGED <<exportVars, cacheVars, table, judged, rowVars, orgVars>>
       \/ /\ part = "members" /\ ONext
          /\ UNCHANGED <<exportVars, cacheVars, table, judged, rowVars, sessionVars>>

servicesVars ==
    <<part, exportVars, cacheVars, table, judged, rowVars, sessionVars, orgVars>>

Services ==
    /\ ServicesInit /\ [][ServicesNext]_servicesVars
    /\ XFairness /\ CFairness

(* Every variable keeps its type, and the relations that belong to it: one *)
(* generation per export job, no more jobs than events, one row or member  *)
(* per id, a refresh only with a token that was issued.                    *)
ServicesTypeOK ==
    CASE part = "exports" -> XTypeOK
      [] part = "cache" -> CTypeOK
      [] part = "marks" -> ATypeOK
      [] part = "judge" -> JTypeOK
      [] part = "rows" -> RTypeOK
      [] part = "sessions" -> STypeOK
      [] part = "members" -> OTypeOK

(* Three rows: marks from below to above the pass mark, one and two points  *)
(* apart, the extremes, and a mark without an overallScore.                *)
Given(s) == [score |-> s, overall |-> TRUE]
TaskMarks == <<{Given(12), Given(14), Given(16)}, {Given(20), Given(8)},
               {[score |-> 15, overall |-> FALSE]}>>

(* A file of one row, imported again and again. *)
OneFile == <<1>>

TwoAdmins == <<AdminKinds \ {"remove"}, {"remove"}>>
=============================================================================
