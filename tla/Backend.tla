------------------------------- MODULE Backend --------------------------------
(***************************************************************************)
(* The services that keep rows and those that keep none: what the API      *)
(* gateway makes of bodies, and what is listed and summed up of the rows   *)
(* of all.  These take one step at a time, beside services that rest.      *)
(***************************************************************************)
EXTENDS Services, TLC

CONSTANTS Keys, Texts, Chains, Widths, maxDepth, maxProperties,  \* Bodies
          pageLimit, MaxRows, MaxWrites, MaxEscrowWrites,        \* Listings
          Values, Targets, MaxLimit, MaxRead                     \* Summaries

VARIABLES body, version, stage, result,
          kind, table, writes, view,
          rows, answer

bodyVars == <<body, version, stage, result>>
listingVars == <<kind, table, writes, view>>
summaryVars == <<rows, answer>>
backendVars == <<vars, bodyVars, listingVars, summaryVars>>

B == INSTANCE Bodies
L == INSTANCE Listings
S == INSTANCE Summaries

BackendInit ==
    /\ Init
    /\ \/ focus = "bodies" /\ B!Init
       \/ focus # "bodies" /\ B!Rest
    /\ \/ focus = "listings" /\ L!Init
       \/ focus # "listings" /\ L!Rest
    /\ \/ focus = "summaries" /\ S!Init
       \/ focus # "summaries" /\ S!Rest

servicesStep == Next /\ UNCHANGED <<bodyVars, listingVars, summaryVars>>

bodiesStep == focus = "bodies" /\ B!Next /\ UNCHANGED <<vars, listingVars, summaryVars>>

listingsStep == focus = "listings" /\ L!Next /\ UNCHANGED <<vars, bodyVars, summaryVars>>

summariesStep == focus = "summaries" /\ S!Next /\ UNCHANGED <<vars, bodyVars, listingVars>>

BackendNext == servicesStep \/ bodiesStep \/ listingsStep \/ summariesStep

BackendSpec == BackendInit /\ [][BackendNext]_backendVars

Symmetry == Permutations(Procs)
-----------------------------------------------------------------------------
(* Whichever way a body goes through the gateway, every node of it is      *)
(* where the conversions put it or was taken out by a rule, and none is    *)
(* made up; a conversion and its reverse give back what was converted.     *)
BodiesAccounted == focus = "bodies" => B!BodiesAccounted

(* However rows come and go between the queries of a listing or of a       *)
(* statistic, a client misses and counts twice no more rows than left and  *)
(* came; and what is computed of the same rows in two ways agrees.         *)
ReadsAgree == /\ focus = "listings" => L!ListingsAgree
              /\ focus = "summaries" => S!SummariesAgree
=============================================================================
