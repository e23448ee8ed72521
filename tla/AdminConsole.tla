------------------------------ MODULE AdminConsole ------------------------------
(***************************************************************************)
(* The administrators' console (AdminWorkspace of apps/web): one of its    *)
(* pages is mounted at a time, and the calls of that page, with those of   *)
(* other administrators, are what changes the server.  A behaviour starts  *)
(* on one page and stays there; `page` says which panels it is about.      *)
(***************************************************************************)
EXTENDS ScoringPage, RegistrationsPage, PeoplePage, EventsPage, ReviewPage

\* The panels of each page: one page is mounted at a time.
PagePanels == {ScoringPanels, RegPanels, PeoplePanels, EventPanels, ReviewPanels}

ASSUME OnePageMounted ==
  \A g \in Pages : \A A, B \in PagePanels : A # B => g \cap A = {} \/ g \cap B = {}

consoleVars == <<shell, scoringVars, regVars, peopleVars, eventVars, reviewVars>>

ConsoleInit ==
  /\ CallsInit
  /\ ScoringStart /\ RegStart /\ PeopleStart /\ EventStart /\ ReviewStart
  /\ Mounted(ScoringFirst \o EventFirst)

ConsoleNext ==
  \/ /\ InUse(ScoringPanels) /\ ScoringNext
     /\ UNCHANGED <<regVars, peopleVars, eventVars, reviewVars>>
  \/ /\ InUse(RegPanels) /\ RegNext
     /\ UNCHANGED <<scoringVars, peopleVars, eventVars, reviewVars>>
  \/ /\ InUse(PeoplePanels) /\ PeopleNext
     /\ UNCHANGED <<scoringVars, regVars, eventVars, reviewVars>>
  \/ /\ InUse(EventPanels) /\ EventNext
     /\ UNCHANGED <<scoringVars, regVars, peopleVars, reviewVars>>
  \/ /\ InUse(ReviewPanels) /\ ReviewNext
     /\ UNCHANGED <<scoringVars, regVars, peopleVars, eventVars>>

ConsoleSpec == ConsoleInit /\ [][ConsoleNext]_consoleVars

ConsoleTypeOK ==
  /\ ScoringTypeOK /\ RegTypeOK /\ PeopleTypeOK /\ EventTypeOK /\ ReviewTypeOK
  /\ CallsOK(ScoringOps \cup RegOps \cup PeopleOps \cup EventOps \cup ReviewOps)
=============================================================================
