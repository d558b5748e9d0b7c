CONSTANTS
  TextPieces <- MCPieces
  MaxPieces <- MCMaxPieces
  Machines = {"statement", "forms", "form_pages", "turbo", "project", "smtp", "template_cache", "tick_manager"}
  Boundary <- MCBoundary
  Apps <- MCApps
  SizeWidth = 8
  Words <- MCWords
  Path <- MCPath
  Root <- MCRoot
  WxPath <- MCWxPath
  WxParts <- MCWxParts
  WxFiles <- MCWxFiles
  PathNames <- MCPathNames
  Results <- MCResults
  Lowercase <- MCLowercase
  Variables <- MCVariables
  v1 = v1
  BadText = BadText
  NoText = NoText
  NoQuery = NoQuery
  Null = Null
  BufSize = 3
  MaxStreamed = 2
  Elements <- MCElements
  NoElement = "none"
  FormElements = {"form"}
  TextFields = {"text"}
  ErrorLists = {"errs"}
  PopLinks <- MCPopLinks
  FirstForm = "root"
  OtherPages = {"p2", "p3"}
  Contents <- MCContents
  Posted = {"good", "bad"}
  BadValues = {"bad"}
  Form = "f"
  Layouts <- MCLayouts
  Checks <- MCChecks
  Typed <- MCTyped
  MinRank = 1
  Ranks = {0, 5}
  PoolSize = 1
  NoConn = NoConn
  s1 = s1
  Sessions = {s1}
  NoSession = NoSession
  n1 = n1
  n2 = n2
  Notes = {n1, n2}
  MaxCalls <- MCMaxCalls
  MaxDepth = 2
  Overlap = FALSE
  Threads <- MCThreads
  t1 = t1
  t2 = t2
  Mergers <- MCThreads
  NoMerger = NoMerger
  Pages = {"app.index"}
  OwnCode = {"app"}
  Skeletons <- MCSkeletons
  LastMoment = 6
  Letters <- MCLetters
  Bodies <- MCBodies
  Recipients <- MCRecipients
  MaxMails = 2
  MaxRefused = 1
  Files = {"a"}
  Directories = 2
  MaxChanges = 3
  MaxFlushes = 2
  Frequencies = {1, 2, 3}
  MaxTickers = 2
  Sleeps = 3
  MaxMinutes = 6
SPECIFICATION Spec
INVARIANTS
  ValuesReturn
  QuotesReturn
  UploadArrives
  RequestRouted
  TemplateMeans
  WxMeans
  MarkupNests
  RowsReadAsStored
  PagesReturn
  FormReturns
  NotesOnNextPage
  XtionIsAtomic
  PooledConnectionsAreClean
  ProgramFollowsSources
  MailArrives
  TemplatesStay
  TicksOnTime
CHECK_DEADLOCK FALSE
