CONSTANTS
  ById <- MCById
  DATABASES <- MCDatabases
  Say <- MCSay
  Keyworded <- MCKeyworded
  Earlier <- MCEarlier
  Scraped <- MCScraped
  Page <- MCPage
  Cve <- MCCve
  Databases <- MCDatabases
  YearOf <- MCYearOf
  Names <- MCNames
  FirstYear = 2015
  MaxScrapes = 3
  Id = {1, 2, 3, 4, 5, 6}
  StartDate = 2
  EndDate = 5
  Limit = 3
  PerPage = 2
  MaxFaults = 1
  ResetPage = 3
  Scrapers <- MCScrapers
  Scene <- MCScene
  MaxChanges = 2
SPECIFICATION Spec
INVARIANTS ListsWhole ReportsEachOnce CountsAgree SavesWhatMatches
PROPERTIES EveryTurnEnds
