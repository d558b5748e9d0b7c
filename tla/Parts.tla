-------------------------------- MODULE Parts --------------------------------
(***************************************************************************)
(* The parts of the library that share nothing, side by side: a behaviour  *)
(* is one of one of them, the others stay as they begin.  The algorithms   *)
(* on texts are one part for each kind of text.                            *)
(***************************************************************************)
EXTENDS RequestText, FormPages, Statement, TurboEvents, TemplateCache, TickManager, WxProject,
        SmtpSession

CONSTANTS
  Machines,     \* the other parts that are to run
  \* PageText
  Words, Path, Root, WxPath, WxParts, WxFiles, PathNames,
  \* Forms
  Elements, NoElement, FormElements, TextFields, ErrorLists, PopLinks, FirstForm, OtherPages,
  Contents, Posted, BadValues

VARIABLES
  cur, children, pairs, values, faults, over, kept

PageTexts == INSTANCE PageText
ElementForms == INSTANCE Forms WITH errors <- faults, Pages <- OtherPages

ASSUME PartsAssumption ==
  /\ StatementAssumption /\ ElementForms!FormsAssumption
  /\ RoutingAssumption /\ TextAssumption /\ TurboAssumption /\ TemplateCacheAssumption /\ TickManagerAssumption
  /\ ProjectAssumption /\ SmtpAssumption /\ FormPagesAssumption

formvars == <<cur, children, pairs, values, faults, over, kept>>
vars ==
  <<textvars, statementvars, formvars, formpagevars, turboeventvars, projectvars, smtpvars,
    templatevars, tickvars>>

Init ==
  /\ kind \in DOMAIN TextPieces \cup Machines
  /\ TextInit /\ StatementInit /\ ElementForms!FormsInit /\ FormPagesInit
  /\ ProjectInit
  /\ SmtpInit
  /\ TurboInit /\ TemplateCacheInit /\ TickManagerInit

\* Of templates only those that go on to well-formed ones within the bound, which may then be
\* large enough for the branches of an if around those of another.
GrowStep ==
  /\ Grow
  /\ kind = "template" => PageTexts!Begins(text', MaxPieces[kind])
  /\ UNCHANGED <<statementvars, formvars, formpagevars, turboeventvars, projectvars, smtpvars,
                 templatevars, tickvars>>

StatementStep ==
  /\ kind = "statement" /\ StatementNext
  /\ UNCHANGED <<kind, text, formvars, formpagevars, turboeventvars, projectvars, smtpvars, templatevars, tickvars>>

FormsStep ==
  /\ kind = "forms" /\ ElementForms!FormsNext
  /\ UNCHANGED <<kind, text, statementvars, formpagevars, turboeventvars, projectvars, smtpvars, templatevars, tickvars>>

FormPagesStep ==
  /\ kind = "form_pages" /\ FormPagesNext
  /\ UNCHANGED <<kind, text, statementvars, formvars, turboeventvars, projectvars, smtpvars, templatevars, tickvars>>

TurboEventsStep ==
  /\ kind = "turbo" /\ TurboNext
  /\ UNCHANGED <<kind, text, statementvars, formvars, formpagevars, projectvars, smtpvars, templatevars, tickvars>>

WxProjectStep ==
  /\ kind = "project" /\ ProjectNext
  /\ UNCHANGED <<kind, text, statementvars, formvars, formpagevars, turboeventvars, smtpvars,
                 templatevars, tickvars>>

SmtpSessionStep ==
  /\ kind = "smtp" /\ SmtpNext
  /\ UNCHANGED <<kind, text, statementvars, formvars, formpagevars, turboeventvars, projectvars,
                 templatevars, tickvars>>

TemplateCacheStep ==
  /\ kind = "template_cache" /\ TemplateCacheNext
  /\ UNCHANGED <<kind, text, statementvars, formvars, formpagevars, turboeventvars, projectvars, smtpvars, tickvars>>

TickManagerStep ==
  /\ kind = "tick_manager" /\ TickManagerNext
  /\ UNCHANGED <<kind, text, statementvars, formvars, formpagevars, turboeventvars, projectvars, smtpvars, templatevars>>

Next ==
  \/ GrowStep
  \/ StatementStep \/ FormsStep \/ FormPagesStep
  \/ TurboEventsStep \/ WxProjectStep \/ SmtpSessionStep \/ TemplateCacheStep \/ TickManagerStep

Spec == Init /\ [][Next]_vars

-----------------------------------------------------------------------------
(* What the parts promise, each of itself: the comments are in the modules, *)
(* and so are the promises of those this module extends.                    *)

\* Pages: templates merge to what they say, .wx files to a program that prints them, users'
\* markup to tags that nest.
TemplateMeans == PageTexts!TemplateMeans
WxMeans == PageTexts!WxMeans
MarkupNests == PageTexts!MarkupNests

\* The element a pop brings back is the one that was pushed over, as it was.
PagesReturn == kind = "forms" => ElementForms!PagesReturn
=============================================================================
